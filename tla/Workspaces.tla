----------------------------- MODULE Workspaces -----------------------------
(***************************************************************************)
(* The windows of one weave session and the processes in their panes:      *)
(* src/src/app.rs above the PTY backend src/src/backend/native.rs.         *)
(*                                                                         *)
(* A window's layout tree is represented by the set of its leaves.  The    *)
(* code refocuses "the first leaf" of a tree; `swap-pane -d` and           *)
(* `rotate-window` put any leaf first without any other effect on this     *)
(* state, so the first leaf is any leaf here.  `last_focused` and          *)
(* `last_workspace` only narrow which pane or window a target names, and   *)
(* every target is allowed, so neither is kept.  The zoom, which no        *)
(* handler here reads, is in module Layout.                                *)
(*                                                                         *)
(* A command runs to its end inside the event loop, so each is one step.   *)
(* Rejected commands change nothing here and are not actions.              *)
(***************************************************************************)
EXTENDS Integers, FiniteSets

CONSTANTS
  WindowCount,       \* how many numbered windows there are (nine in the code)
  MaxPanes,          \* bound: how many panes are ever spawned
  Daemons,           \* bound: the panes whose programs may close their
                     \* terminal and run on
  ReapedKillFails    \* may killing a process that has already exited report
                     \* an error?  (the waiter thread reaps it, so ESRCH)

ASSUME WindowsAssumption ==
  /\ WindowCount \in Nat \ {0}
  /\ MaxPanes \in Nat \ {0}
  /\ Daemons \subseteq 1 .. MaxPanes
  /\ ReapedKillFails \in BOOLEAN

Window == 1 .. WindowCount
PaneId == 1 .. MaxPanes
NoPane == 0

VARIABLES
  win,       \* App.workspaces: leaves of the tree, focus, closing set
  current,   \* App.current_workspace
  panes,     \* App.panes: the panes with an emulator
  number,    \* App.pane_numbers: the %N of a pane, 0 when it has none
  held,      \* NativeBackend.panes: the panes the backend can still address
  process,   \* the process behind each pane: it runs, it runs on "adrift"
             \* after it has closed its terminal, or it has exited
  deaths,    \* PaneDied events that the event loop has not handled yet
  drawn,     \* the closing panes whose collapse, one of App.timeline's
             \* tweens, has been advanced since it was last started
  nextPane,  \* NativeBackend.next_id, and App.next_pane_number with it
  exit       \* App.exit, or the error that `run` returned with

vars == <<win, current, panes, number, held, process, deaths, drawn, nextPane, exit>>
pool == <<panes, number, held, process, nextPane>>

Empty == [leaves |-> {}, focused |-> NoPane, closing |-> {}]

Init ==
  /\ win = [w \in Window |->
              IF w = 1 THEN [Empty EXCEPT !.leaves = {1}, !.focused = 1] ELSE Empty]
  /\ current = 1
  /\ panes = {1}
  /\ number = [p \in PaneId |-> IF p = 1 THEN 1 ELSE 0]
  /\ held = {1}
  /\ process = [p \in PaneId |-> IF p = 1 THEN "running" ELSE "none"]
  /\ deaths = {}
  /\ drawn = {}
  /\ nextPane = 2
  /\ exit = "Running"

-----------------------------------------------------------------------------
(* Pieces of the handlers.                                                 *)

(* The panes a target can name in window w: any leaf, or whatever the      *)
(* window's focus says, whether or not that pane still exists.             *)
Targets(w) ==
  IF win[w].leaves = {} THEN {}
  ELSE win[w].leaves \cup ({win[w].focused} \ {NoPane})

(* Mutant: focus is cleared and not moved.                                 *)
FirstOfNone(leaves) == {NoPane}

(* Where focus may go when the first of `leaves` is asked for.             *)
FirstOf(leaves) == IF leaves = {} THEN {NoPane} ELSE leaves

(* A new layout and a new focus for a window.                              *)
Show(x, leaves, f) == [x EXCEPT !.leaves = leaves, !.focused = f]

(* ...in which the panes of S are no longer closing.                       *)
Closed(x, S, leaves, f) ==
  [x EXCEPT !.leaves = leaves, !.focused = f, !.closing = @ \ S]

(* snap_workspace_tweens after it has killed and removed the closing panes *)
(* S: `Node::close` is false for the last leaf and for a pane the tree     *)
(* does not hold, and either drops the whole tree.  Focus is not moved.    *)
Settled(x, S) ==
  LET kept == x.leaves \ S
      dropped == S # {} /\ x.leaves # {} /\ (kept = {} \/ ~ S \subseteq x.leaves)
  IN Closed(x, S, IF dropped THEN {} ELSE kept, IF dropped THEN NoPane ELSE x.focused)

(* Mutant: the outgoing window is left as it is.                           *)
LeftAsItIs(w) == win

(* switch_workspace(w) settles the outgoing window first...                *)
Left(w) ==
  IF w = current THEN win
  ELSE [win EXCEPT ![current] = Settled(@, @.closing)]

(* ...which kills what was closing there.                                  *)
KilledLeaving(w) == IF w = current THEN {} ELSE win[current].closing

(* ...and drops the tweens of the outgoing window.                         *)
DrawnLeaving(w) == IF w = current THEN drawn ELSE {}

(* animate_to_new_layout starts the tween of every leaf anew that is not   *)
(* where the layout wants it, which a collapsing pane may or may not be.   *)
Retweened(w) == SUBSET DrawnLeaving(w)

(* backend.kill of every pane of S can succeed; it always can while the    *)
(* process runs, and is an error for an id the backend does not hold.      *)
Killable(S) == S \subseteq held
KillMayFail(p) == p \notin held \/ (ReapedKillFails /\ process[p] = "exited")

CanSpawn == nextPane \in PaneId
Fresh == {nextPane}

(* The numbers when the panes `gone` lose theirs and the panes `new` get   *)
(* one, what the backend then holds, and its counter.                      *)
(* Mutants: numbers are the count of panes; the backend keeps what it      *)
(* killed; the counter advances whether or not a pane was spawned.         *)
NumberedByCount(gone, new) ==
  [p \in PaneId |-> IF p \in new THEN Cardinality((panes \ gone) \cup new)
                   ELSE IF p \in gone THEN 0 ELSE number[p]]

HeldForGood(gone, new) == held \cup new


Numbered(gone, new) ==
  [p \in PaneId |-> IF p \in new THEN p ELSE IF p \in gone THEN 0 ELSE number[p]]

Held(gone, new) == (held \ gone) \cup new

NextId(new) == IF new = {} THEN nextPane ELSE nextPane + 1

(* The panes `gone` are killed and removed, the panes `new` are spawned    *)
(* and numbered.                                                           *)
Turnover(gone, new) ==
  /\ panes' = (panes \ gone) \cup new
  /\ number' = Numbered(gone, new)
  /\ held' = Held(gone, new)
  /\ process' = [p \in PaneId |-> IF p \in new THEN "running" ELSE process[p]]
  /\ nextPane' = NextId(new)

(* Mutants: only the window on screen is asked; the panes still listed are *)
(* asked, before the one that is going is taken off the list.              *)
AllEmptyOnScreen(ws) == ws[current].leaves = {}
AllEmptyListed(ws) == panes = {}

AllEmpty(ws) == \A w \in Window : ws[w].leaves = {}

FirstOccupied(ws, v) == ws[v].leaves # {} /\ \A u \in 1 .. v - 1 : ws[u].leaves = {}

(* Mutants: the moved pane keeps its old leaf; the window keeps its focus. *)
WithoutKeepsLeaf(x, p, f) ==
  [x EXCEPT !.closing = @ \ {p},
            !.focused = IF @ = p THEN f ELSE @]

WithoutKeepsFocus(x, p, f) ==
  [x EXCEPT !.leaves  = IF p \in @ THEN @ \ {p} ELSE {},
            !.closing = @ \ {p}]

(* detach_pane_from_window: take p out of a window without killing it.     *)
Without(x, p, f) ==
  [x EXCEPT !.leaves  = IF p \in @ THEN @ \ {p} ELSE {},
            !.closing = @ \ {p},
            !.focused = IF @ = p THEN f ELSE @]

-----------------------------------------------------------------------------
(* Commands.                                                               *)

(* select-window: the workspace-N aliases create the window they name, and *)
(* so do rotate-window and select-layout with a target.                    *)
SelectWindow(w) ==
  /\ exit = "Running"
  /\ w # current
  /\ Killable(KilledLeaving(w))
  /\ current' = w
  /\ \/ /\ win[w].leaves # {}
        /\ win' = Left(w)
        /\ Turnover(KilledLeaving(w), {})
     \/ /\ win[w].leaves = {} /\ CanSpawn
        /\ win' = [Left(w) EXCEPT ![w] = Show(@, Fresh, nextPane)]
        /\ Turnover(KilledLeaving(w), Fresh)
  /\ drawn' = DrawnLeaving(w)
  /\ UNCHANGED <<deaths, exit>>

(* split-window: p gives half of its slot to a new pane.  A target that    *)
(* has no place in the layout is quietly ignored, after the switch.        *)
SplitWindow(w, p, detached) ==
  /\ exit = "Running"
  /\ p \in Targets(w)
  /\ Killable(KilledLeaving(w))
  /\ current' = w
  /\ \/ /\ p \in win[w].leaves /\ CanSpawn
        /\ win' = [Left(w) EXCEPT ![w] = Show(@, @.leaves \cup Fresh,
                                              IF detached THEN @.focused ELSE nextPane)]
        /\ Turnover(KilledLeaving(w), Fresh)
     \/ /\ p \notin win[w].leaves
        /\ win' = Left(w)
        /\ Turnover(KilledLeaving(w), {})
  /\ drawn' = DrawnLeaving(w) \ {p}
  /\ UNCHANGED <<deaths, exit>>

(* Mutant: the free window is taken without asking whether it is free.     *)
NewWindowAnywhere(w, detached) ==
  /\ exit = "Running"
  /\ CanSpawn
  /\ LET v == IF detached THEN current ELSE w IN
       /\ Killable(KilledLeaving(v))
       /\ current' = v
       /\ win' = [Left(v) EXCEPT ![w] = Show(@, Fresh, nextPane)]
       /\ Turnover(KilledLeaving(v), Fresh)
       /\ drawn' = DrawnLeaving(v)
  /\ UNCHANGED <<deaths, exit>>

NewWindow(w, detached) ==
  /\ exit = "Running"
  /\ win[w].leaves = {} /\ CanSpawn
  /\ LET v == IF detached THEN current ELSE w IN
       /\ Killable(KilledLeaving(v))
       /\ current' = v
       /\ win' = [Left(v) EXCEPT ![w] = Show(@, Fresh, nextPane)]
       /\ Turnover(KilledLeaving(v), Fresh)
       /\ drawn' = DrawnLeaving(v)
  /\ UNCHANGED <<deaths, exit>>

(* kill-window ignores kill errors and forgets the closing set; it moves   *)
(* on to the first window that still has panes.                            *)
KillWindow(w) ==
  LET x == [win EXCEPT ![w] = Closed(@, @.closing, {}, NoPane)] IN
  /\ exit = "Running"
  /\ win[w].leaves # {}
  /\ win' = x
  /\ Turnover(win[w].leaves, {})
  /\ drawn' = drawn \ win[w].closing
  /\ exit' = IF AllEmpty(x) THEN "Quit" ELSE exit
  /\ IF AllEmpty(x) \/ w # current THEN UNCHANGED current
     ELSE \E v \in Window : FirstOccupied(x, v) /\ current' = v
  /\ UNCHANGED deaths

(* kill-pane where close_plan finds no split: p is the window's only leaf  *)
(* or not in its tree, and goes at once with the whole tree.               *)
KillLonePane(w, p) ==
  LET x == [Left(w) EXCEPT ![w] = Show(@, {}, NoPane)] IN
  /\ exit = "Running"
  /\ p \in Targets(w)
  /\ p \notin win[w].closing
  /\ win[w].leaves = {p} \/ p \notin win[w].leaves
  /\ Killable(KilledLeaving(w) \cup {p})
  /\ current' = w
  /\ win' = x
  /\ Turnover(KilledLeaving(w) \cup {p}, {})
  /\ drawn' = DrawnLeaving(w)
  /\ exit' = IF AllEmpty(x) THEN "Quit" ELSE exit
  /\ UNCHANGED deaths

(* kill-pane of S, panes that share their window with others: they start   *)
(* to close and focus goes to the first leaf that the last of them leaves. *)
(* S is one pane, or with -a every pane but the target.                    *)
KillPanes(w, S) ==
  LET begun == (S \cap win[w].leaves) \ win[w].closing
      begin(x, f) == [x EXCEPT !.focused = f, !.closing = @ \cup begun]
  IN
  /\ exit = "Running"
  /\ \E p \in Targets(w) : S = {p} \/ S = win[w].leaves \ {p}
  /\ begun # {} /\ Cardinality(win[w].leaves) > 1
  /\ Killable(KilledLeaving(w))
  /\ current' = w
  /\ \E last \in begun : \E f \in win[w].leaves \ {last} :
       win' = [Left(w) EXCEPT ![w] = begin(@, f)]
  /\ Turnover(KilledLeaving(w), {})
  /\ drawn' = DrawnLeaving(w) \ win[w].leaves
  /\ UNCHANGED <<deaths, exit>>

(* select-pane, swap-pane (focus follows the pane) and resize-pane -Z.     *)
SelectPane(w, p) ==
  /\ exit = "Running"
  /\ p \in Targets(w)
  /\ Killable(KilledLeaving(w))
  /\ current' = w
  /\ win' = [Left(w) EXCEPT ![w] = Show(@, @.leaves, p)]
  /\ Turnover(KilledLeaving(w), {})
  /\ drawn' \in Retweened(w)
  /\ UNCHANGED <<deaths, exit>>

(* break-pane: p becomes the only pane of the empty window d.              *)
BreakPane(w, p, d, detached) ==
  LET v == IF detached THEN current ELSE d
      moved(f) == [win EXCEPT ![w] = Without(@, p, f),
                              ![d] = Show(@, {p}, p)]
  IN
  /\ exit = "Running"
  /\ p \in Targets(w) /\ Cardinality(win[w].leaves) > 1
  /\ win[d].leaves = {}
  /\ current' = v
  /\ \E f \in FirstOf(Without(win[w], p, NoPane).leaves) :
       LET x == moved(f)
           gone == IF v = current THEN {} ELSE x[current].closing
       IN /\ Killable(gone) /\ (detached => p \in held)
          /\ win' = IF v = current THEN x
                    ELSE [x EXCEPT ![current] = Settled(@, @.closing)]
          /\ Turnover(gone, {})
  /\ drawn' = DrawnLeaving(v) \ {p}
  /\ UNCHANGED <<deaths, exit>>

(* join-pane: p leaves window s and takes half of o's slot in window t.    *)
(* The checks that could refuse it come before p is taken out, except the  *)
(* last one: an o without a place in the layout.  The switch to t spawns a *)
(* shell there when taking p out emptied it.                               *)
JoinPane(s, p, t, o, detached) ==
  /\ exit = "Running"
  /\ p \in Targets(s) /\ o \in Targets(t) /\ p # o
  /\ Cardinality(win[s].leaves) < 2 => s # t
  /\ current' = t
  /\ \E f \in FirstOf(Without(win[s], p, NoPane).leaves) :
       LET x == [win EXCEPT ![s] = Without(@, p, f)]
           gone == IF t = current THEN {} ELSE x[current].closing
           y == IF t = current THEN x
                ELSE [x EXCEPT ![current] = Settled(@, @.closing)]
       IN /\ Killable(gone)
          /\ \/ /\ o \in y[t].leaves
                /\ win' = [y EXCEPT ![t] = Show(@, @.leaves \cup {p},
                                              IF detached THEN @.focused ELSE p)]
                /\ Turnover(gone, {})
             \/ /\ o \notin y[t].leaves
                /\ t = current \/ y[t].leaves # {}
                /\ win' = y
                /\ Turnover(gone, {})
             \/ /\ y[t].leaves = {} /\ t # current /\ CanSpawn
                /\ win' = [y EXCEPT ![t] = Show(@, Fresh, nextPane)]
                /\ Turnover(gone, Fresh)
  /\ drawn' = DrawnLeaving(t) \ {p, o}
  /\ UNCHANGED <<deaths, exit>>

(* respawn-pane -k: a new process in the old pane's place, under its %N.   *)
(* The closing set keeps naming the old pane.                              *)
RespawnPane(w, p) ==
  LET swap(x) == [x EXCEPT !.leaves  = IF p \in @ THEN (@ \ {p}) \cup Fresh ELSE @,
                           !.focused = IF @ = p THEN nextPane ELSE @]
      gone == KilledLeaving(w) \cup {p}
      taken == IF number[p] # 0 THEN number[p] ELSE nextPane
  IN
  /\ exit = "Running"
  /\ p \in Targets(w) /\ CanSpawn
  /\ Killable(gone)
  /\ current' = w
  /\ win' = [v \in Window |-> swap(Left(w)[v])]
  /\ panes' = (panes \ gone) \cup Fresh
  /\ number' = [q \in PaneId |-> IF q = nextPane THEN taken
                                 ELSE IF q \in gone THEN 0 ELSE number[q]]
  /\ held' = (held \ gone) \cup Fresh
  /\ process' = [process EXCEPT ![nextPane] = "running"]
  /\ nextPane' = nextPane + 1
  /\ drawn' = DrawnLeaving(w)
  /\ UNCHANGED <<deaths, exit>>

(* resize-pane, rotate-window, select-layout, swap-pane -d and a zoom that *)
(* ends: the window on screen changes its shape, and nothing else of this. *)
Reshape ==
  /\ exit = "Running"
  /\ drawn' \in Retweened(current) /\ drawn' # drawn
  /\ UNCHANGED <<win, current, pool, deaths, exit>>

(* kill-session, a client's Quit and SIGTERM.                              *)
KillSession ==
  /\ exit = "Running"
  /\ exit' = "Quit"
  /\ UNCHANGED <<win, current, pool, deaths, drawn>>

-----------------------------------------------------------------------------
(* The clock, the terminal and the processes.                              *)

(* advance_animations moves the tweens of the window on screen.  The many  *)
(* frames of a collapse are two steps of the clock here: one that moves it *)
(* and one that finds it done, with anything in between.                   *)
Advance ==
  /\ exit = "Running"
  /\ ~ win[current].closing \subseteq drawn
  /\ drawn' = win[current].closing
  /\ UNCHANGED <<win, current, pool, deaths, exit>>

(* finish_completed_closings for one pane whose collapse has been drawn.   *)
(* A tick that finishes several panes is as many of these steps.           *)
FinishClosing(p) ==
  LET x == win[current]
      rest == x.leaves \ {p}
      shrunk == p \in x.leaves /\ rest # {}
      focus(f) == IF x.leaves = {} THEN x.focused
                  ELSE IF ~ shrunk THEN NoPane
                  ELSE IF x.focused \in {NoPane, p} THEN f ELSE x.focused
  IN
  /\ exit = "Running"
  /\ p \in x.closing \cap drawn
  /\ Killable({p})
  /\ \E f \in FirstOf(rest) :
       win' = [win EXCEPT ![current] = Closed(@, {p}, IF shrunk THEN rest ELSE {}, focus(f))]
  /\ Turnover({p}, {})
  /\ drawn' = drawn \ {p}
  /\ exit' = IF x.leaves # {} /\ ~ shrunk /\ AllEmpty(win') THEN "Quit" ELSE exit
  /\ UNCHANGED <<current, deaths>>

(* resize_to, when the negotiated terminal size changes, and attach_client *)
(* settle the window on screen.  A kill that fails stops it half way:      *)
(* the panes of S are gone and the failed one is no longer closing.        *)
Resize(S) ==
  LET x == win[current] IN
  /\ exit = "Running"
  /\ S \subseteq x.closing /\ Killable(S)
  /\ \/ /\ S = x.closing /\ S # {}
        /\ win' = [win EXCEPT ![current] = Settled(@, S)]
        /\ Turnover(S, {})
        /\ drawn' = {}
     \/ \E p \in x.closing \ S :
          /\ KillMayFail(p)
          /\ win' = [win EXCEPT ![current] = Closed(x, S \cup {p}, Settled(x, S).leaves,
                                                   Settled(x, S).focused)]
          /\ panes' = panes \ S
          /\ number' = Numbered(S, {})
          /\ held' = held \ (S \cup {p})
          /\ drawn' = drawn \ (S \cup {p})
          /\ UNCHANGED <<process, nextPane>>
  /\ UNCHANGED <<current, deaths, exit>>

(* A process ends, on its own or hung up by a kill.  The waiter thread     *)
(* reports it, unless the reader has.                                      *)
ProcessExits(p) ==
  /\ exit = "Running"
  /\ process[p] \in {"running", "adrift"}
  /\ process' = [process EXCEPT ![p] = "exited"]
  /\ deaths' = IF process[p] = "running" THEN deaths \cup {p} ELSE deaths
  /\ UNCHANGED <<win, current, panes, number, held, drawn, nextPane, exit>>

(* The reader thread finds the terminal of a pane closed while its program *)
(* runs on, and reports the pane dead: that is all a death is.             *)
TerminalCloses(p) ==
  /\ exit = "Running"
  /\ p \in Daemons /\ process[p] = "running"
  /\ process' = [process EXCEPT ![p] = "adrift"]
  /\ deaths' = deaths \cup {p}
  /\ UNCHANGED <<win, current, panes, number, held, drawn, nextPane, exit>>

(* handle_backend_event(PaneDied(p)): the pane leaves its window's tree    *)
(* and focus goes to the first leaf, whichever pane had it.  The last leaf *)
(* takes the tree with it only if it was focused.  The closing set and the *)
(* backend's own entry stay as they are.                                   *)
PaneDied(p) ==
  /\ exit = "Running"
  /\ p \in deaths
  /\ deaths' = deaths \ {p}
  /\ panes' = panes \ {p}
  /\ number' = [number EXCEPT ![p] = 0]
  /\ \/ /\ \A w \in Window : p \notin win[w].leaves
        /\ win' = win
     \/ \E w \in Window :
          /\ p \in win[w].leaves
          /\ \E f \in FirstOf(win[w].leaves \ {p}) :
               win' = IF win[w].leaves # {p} \/ win[w].focused = p
                      THEN [win EXCEPT ![w] = Show(@, @.leaves \ {p}, f)]
                      ELSE win
  /\ exit' = IF AllEmpty(win') THEN "Quit" ELSE exit
  /\ UNCHANGED <<current, held, process, drawn, nextPane>>

-----------------------------------------------------------------------------
(* The ways `run` ends.                                                    *)

(* A backend error propagates out of `run`.  What is closing is killed by  *)
(* the next tick, or by the next switch to another window...               *)
CloseFails(p) ==
  /\ exit = "Running"
  /\ p \in win[current].closing
  /\ KillMayFail(p)
  /\ exit' = "Failed"
  /\ UNCHANGED <<win, current, pool, deaths, drawn>>

(* ...and the pane a command names by respawn-pane and by kill-pane when   *)
(* it goes at once.  A pane the backend does not hold also fails, without  *)
(* being killed, in send-keys, break-pane -d and a tick that resizes it.   *)
CommandFails(p) ==
  /\ exit = "Running"
  /\ \E w \in Window : p \in Targets(w)
  /\ KillMayFail(p)
  /\ exit' = "Failed"
  /\ UNCHANGED <<win, current, pool, deaths, drawn>>

(* Any command that spawns may find that the PTY will not open.            *)
SpawnFails ==
  /\ exit = "Running"
  /\ exit' = "Failed"
  /\ UNCHANGED <<win, current, pool, deaths, drawn>>

(* After the loop: every pane the app knows is killed.                     *)
Shutdown ==
  /\ exit = "Quit"
  /\ exit' = "Ended"
  /\ held' = held \ panes
  /\ UNCHANGED <<win, current, panes, number, process, deaths, drawn, nextPane>>

-----------------------------------------------------------------------------
Command ==
  \/ \E w \in Window :
       \/ SelectWindow(w)
       \/ KillWindow(w)
       \/ \E detached \in BOOLEAN : NewWindow(w, detached)
       \/ \E S \in SUBSET win[w].leaves : KillPanes(w, S)
       \/ \E p \in PaneId :
            \/ KillLonePane(w, p)
            \/ SelectPane(w, p)
            \/ RespawnPane(w, p)
            \/ \E detached \in BOOLEAN : SplitWindow(w, p, detached)
            \/ \E d \in Window, detached \in BOOLEAN : BreakPane(w, p, d, detached)
            \/ \E t \in Window, o \in PaneId, detached \in BOOLEAN :
                 JoinPane(w, p, t, o, detached)
  \/ Reshape
  \/ KillSession

Environment ==
  \/ Advance
  \/ \E p \in PaneId :
       FinishClosing(p) \/ ProcessExits(p) \/ TerminalCloses(p) \/ PaneDied(p)
  \/ \E S \in SUBSET win[current].closing : Resize(S)
  \/ \E p \in PaneId : CloseFails(p) \/ CommandFails(p)
  \/ SpawnFails
  \/ Shutdown

Next == Command \/ Environment

Spec == Init /\ [][Next]_vars

(* The event loop polls the clock and the event channel in turn and never  *)
(* stops polling either.  Nothing is assumed of users and processes.       *)
Fairness ==
  /\ WF_vars(Advance)
  /\ WF_vars(\E p \in drawn : FinishClosing(p) \/ CloseFails(p))
  /\ WF_vars(\E p \in deaths : PaneDied(p))
  /\ WF_vars(Shutdown)

FairSpec == Spec /\ Fairness

-----------------------------------------------------------------------------
(* The sorts of the variables; window fields name panes already spawned.   *)
WindowRecord ==
  [leaves : SUBSET PaneId, focused : PaneId \cup {NoPane}, closing : SUBSET PaneId]

TypeOK ==
  /\ win \in [Window -> WindowRecord]
  /\ current \in Window
  /\ panes \in SUBSET PaneId
  /\ number \in [PaneId -> 0 .. MaxPanes]
  /\ held \in SUBSET PaneId
  /\ process \in [PaneId -> {"none", "running", "adrift", "exited"}]
  /\ deaths \in SUBSET PaneId
  /\ drawn \in SUBSET PaneId
  /\ nextPane \in 2 .. (MaxPanes + 1)
  /\ exit \in {"Running", "Quit", "Ended", "Failed"}

(* A pane has one place: break-pane and join-pane move it between windows, *)
(* and no pane is ever drawn by two of them.                               *)
PlacedOnce ==
  \A v, w \in Window : v # w => win[v].leaves \cap win[w].leaves = {}

(* What a window focuses, even when that pane is gone, is never a pane of  *)
(* another window nor another window's focus, so a target without a pane   *)
(* part can only act on the window it names.                               *)
OwnFocus ==
  \A v, w \in Window : v # w /\ win[v].focused # NoPane =>
    win[v].focused \notin win[w].leaves /\ win[v].focused # win[w].focused

(* Only the window on screen has closing panes.  The clock finishes        *)
(* closings in that window alone, so one left behind elsewhere would keep  *)
(* its process running out of sight.                                       *)
ClosingOnScreen ==
  \A w \in Window : win[w].closing # {} => w = current

(* Every program the backend can still reach is one the app still lists,   *)
(* placed or not, so the last loop of `run` hangs it up, until its death   *)
(* has been handled.  A death may be that of its terminal only: a program  *)
(* that ran on then is held, and no command nor the end will ever kill it. *)
ProcessRegistered ==
  \A p \in held : process[p] = "running" \/ p \in deaths => p \in panes

(* ...and so a session that ended in order leaves no program behind that   *)
(* still had its terminal.                                                 *)
NothingLeftBehind ==
  exit = "Ended" => \A p \in held : process[p] # "running"

(* A `%N` names at most one pane, through any respawn, break or join, and  *)
(* every listed pane has one.                                              *)
NumbersUnique ==
  /\ \A p \in PaneId : p \in panes <=> number[p] # 0
  /\ \A p, q \in panes : number[p] = number[q] => p = q

(* A window is in step when its focus and its closing set name leaves of   *)
(* its own tree.                                                           *)
InStep(x) ==
  /\ x.closing \subseteq x.leaves
  /\ IF x.leaves = {} THEN x.focused = NoPane ELSE x.focused \in x.leaves

Healthy == \A w \in Window : InStep(win[w])
AtRest == \A w \in Window : win[w].closing = {}

Placed == UNION {win[w].leaves : w \in Window}
Orphans == {p \in held : process[p] = "running"} \ Placed

(* While every window is in step no command, tick or event takes a pane    *)
(* whose program has its terminal out of the layout without killing it.    *)
MovesKeepPanes ==
  [][Healthy => Orphans' \subseteq Orphans]_vars

(* A session at rest stays in step whatever comes next: only a step taken  *)
(* while a close is being animated can put a window out of step.           *)
RestKeepsStep ==
  [][Healthy /\ AtRest => Healthy']_vars

(* A session in step ends itself only when it has shown its last pane:     *)
(* unless it was told to, it quits with every window empty and nothing     *)
(* that the backend still runs, but for what has closed its own terminal.  *)
QuitsWhenDone ==
  [][exit = "Running" /\ exit' = "Quit" /\ ~ KillSession /\ Healthy /\ Orphans = {}
       => AllEmpty(win') /\ \A p \in held' : process'[p] # "running"]_vars

(* A retired `%N` is never handed out again, so a stale one in a script    *)
(* cannot reach somebody else's pane.                                      *)
NumbersRetire ==
  [][\A n \in 1 .. nextPane - 1 :
       (\A p \in PaneId : number[p] # n) => \A p \in PaneId : number'[p] # n]_vars

(* The collapse of p is started over.                                      *)
Restarts(p) ==
  /\ p \in drawn \ drawn'
  /\ p \in win'[current'].closing

(* No pane stays closing for ever: it is gone, moved away, or the session  *)
(* is over, however commands, resizes, switches and deaths interleave with *)
(* its collapse, unless commands start that over again and again for ever. *)
ClosingEnds ==
  \A p \in PaneId :
    <>[][~ Restarts(p)]_vars =>
      []<>(exit # "Running" \/ \A w \in Window : p \notin win[w].closing)

(* A session whose windows stay in step does not live on without a program *)
(* that has its terminal: it ends, unless a pane is opened first.          *)
LastExitEnds ==
  []Healthy => []<>(exit # "Running" \/ \E p \in PaneId : process[p] = "running")
=============================================================================
