------------------------------ MODULE Commands ------------------------------
(***************************************************************************)
(* One-shot requests: `wv exec` from the caller's words to its exit status. *)
(*                                                                         *)
(* A caller's words become a command in its own process (CommandLine); the *)
(* command travels to the session, waits in the bounded channel of the     *)
(* event loop (session/server.rs), runs there to its end (App::execute_now)*)
(* and is answered through a channel of its own, which `wait-for` keeps    *)
(* until a signal.  A foreground `run-shell` stops the loop for as long as *)
(* its script runs, and the script may call `wv exec` itself.              *)
(*                                                                         *)
(* A window's panes are kept in layout order, all side by side: splits and *)
(* joins are `-h`.  Zoom and respawn, panes that die while they close and  *)
(* panes that are gone and get a place again are the subject of Workspaces, *)
(* select-layout of Layout, key tables of Configuration, prompts of        *)
(* Keyboard and clients of SessionClients.                                 *)
(***************************************************************************)
EXTENDS Options, Formats, FiniteSets, FiniteSetsExt

CONSTANTS
  WindowCount,     \* how many numbered windows there are (nine in the code)
  SessionName,     \* what the session is called
  QueueCapacity,   \* APP_EVENT_CAPACITY (64 in the code)
  Callers,         \* bound: processes that run `wv exec` once
  Child,           \* the process that runs `wv exec` in a caller's script
  CallerLines,     \* the command lines each caller may give
  Mortal,          \* bound: the panes whose process may end by itself
  Late,            \* bound: the callers that give their line only once two others wait
  Interruptible,   \* bound: the callers that may be interrupted
  ScriptLine,      \* what the scripts that run `wv exec` run: script -> line
  TemplateOf,      \* how the expander reads a format that is not plain text
  ScreenLines,     \* how many lines of text a pane may show
  Pasts            \* what has happened to the session before: sequences of lines

Window == 1 .. WindowCount
Process == Callers \cup Range(Child)
NoPane == 0
NoWindow == 0
NoCaller == "none"
ASSUME CommandsAssumption ==
  /\ WindowCount \in Nat \ {0} /\ QueueCapacity \in Nat \ {0}
  /\ DOMAIN Child = Callers /\ Range(Child) \cap Callers = {} /\ NoCaller \notin Process
  /\ \A template \in Range(TemplateOf) : Closed(template)
  /\ \A past \in Pasts : past \in Seq(Range(past))

VARIABLES
  session,   \* App: windows, current and last window, counter, options, exit
  request,   \* each caller's request: where it is, what it asks, what it was answered
  told,      \* what each caller's process ended with; "" while it waits
  queue,     \* SessionEvents in the channel: the callers they come from
  shell      \* whose foreground run-shell holds the event loop
vars == <<session, request, told, queue, shell>>

(***************************************************************************)
(* Windows and panes                                                       *)
(***************************************************************************)
EmptyWindow == [panes |-> <<>>, focused |-> NoPane, last |-> NoPane, closing |-> {}, name |-> None]
Alone(x, p) == [x EXCEPT !.panes = <<p>>, !.focused = p, !.last = IF x.focused = NoPane THEN @ ELSE x.focused]
FreshSession ==
  [win |-> [w \in Window |-> IF w = 1 THEN Alone(EmptyWindow, 1) ELSE EmptyWindow],
   current |-> 1, lastWindow |-> NoWindow, nextPane |-> 2, options |-> NoneSet, exit |-> "Running"]

IsEmpty(s, w) == s.win[w].panes = <<>>
AllEmpty(s) == \A w \in Window : IsEmpty(s, w)
Holds(x, p) == p \in Range(x.panes)
WindowOf(s, p) == IF \E w \in Window : Holds(s.win[w], p)
                  THEN CHOOSE w \in Window : Holds(s.win[w], p) ELSE NoWindow

SetFocus(x, p) ==
  IF x.focused = p THEN x
  ELSE [x EXCEPT !.last = IF x.focused = NoPane THEN @ ELSE x.focused, !.focused = p]
Drop(x) == SetFocus([x EXCEPT !.panes = <<>>], NoPane)
Without(x, p) == Kept(x.panes, Range(x.panes) \ {p})
QuitIfEmpty(s) == IF AllEmpty(s) THEN [s EXCEPT !.exit = "Quit"] ELSE s

\* snap_workspace_tweens: what was closing is gone; focus stays where it was.
Snap(x) ==
  LET kept == Kept(x.panes, Range(x.panes) \ x.closing)
      rest == [x EXCEPT !.closing = {}] IN
  IF kept = <<>> THEN Drop(rest) ELSE [rest EXCEPT !.panes = kept]

\* A window that is switched to and has nothing in it gets a shell.
SwitchTo(s, w) ==
  LET arrived(left) ==
        IF IsEmpty(left, w) THEN [left EXCEPT !.win[w] = Alone(@, s.nextPane), !.nextPane = @ + 1]
        ELSE left IN
  IF w = s.current THEN s
  ELSE With([s EXCEPT !.win[s.current] = Snap(@), !.lastWindow = s.current, !.current = w], arrived)

(***************************************************************************)
(* Targets                                                                 *)
(***************************************************************************)
Occupied(s) == Kept([i \in Window |-> i], {w \in Window : w = s.current \/ ~IsEmpty(s, w)})
PlaceOf(seq, x) == IF \E i \in DOMAIN seq : seq[i] = x THEN SelectInSeq(seq, LAMBDA y : y = x) ELSE 1
StepFrom(seq, from, how) ==
  LET here == PlaceOf(seq, from) - 1
      there == IF how = "Next" THEN here + 1 ELSE here + Len(seq) - 1 IN
  seq[(there % Len(seq)) + 1]

WindowName(s, w) == IF s.win[w].name = None THEN <<"shell">> ELSE s.win[w].name
\* The window you are looking at first, then the lowest one with panes.
WindowByName(s, name) ==
  LET named == { w \in Window : WindowName(s, w) = name /\ (w = s.current \/ ~IsEmpty(s, w)) } IN
  CASE named = {}          -> NoWindow
    [] s.current \in named -> s.current
    [] OTHER               -> Min(named)

WrongSession(target) == target.session \notin {None, SessionName}
ResolveWindow(s, target) ==
  LET by == target.window IN
  IF WrongSession(target) THEN NoWindow
  ELSE IF by = None THEN s.current
  ELSE CASE by[1] = "Index"                -> IF by[2] \in Window THEN by[2] ELSE NoWindow
         [] by[1] \in {"Next", "Previous"} -> StepFrom(Occupied(s), s.current, by[1])
         [] by[1] = "Last"                 -> s.lastWindow
         [] by[1] = "Start"                -> Head(Occupied(s))
         [] by[1] = "End"                  -> Last(Occupied(s))
         [] by[1] = "Name"                 -> WindowByName(s, by[2])
         [] OTHER                          -> NoWindow

Nowhere == [window |-> NoWindow, pane |-> NoPane]
\* Mutant: panes are counted from one, as windows are.
PaneInFromOne(x, by) ==
  CASE by = None                                                  -> IF x.focused = NoPane THEN Head(x.panes) ELSE x.focused
    [] by # None /\ by[1] = "Index" /\ by[2] \in DOMAIN x.panes    -> x.panes[by[2]]
    [] OTHER                                                      -> NoPane
PaneIn(x, by) ==
  LET focused == IF x.focused = NoPane THEN Head(x.panes) ELSE x.focused
      here == IF Holds(x, focused) THEN PlaceOf(x.panes, focused) ELSE 0
      beside == IF by[2] = "Left" THEN here - 1 ELSE here + 1 IN
  CASE by = None           -> focused
    [] by[1] = "Index"     -> IF by[2] + 1 \in DOMAIN x.panes THEN x.panes[by[2] + 1] ELSE NoPane
    [] by[1] \in {"Next", "Previous"} -> StepFrom(x.panes, x.focused, by[1])
    [] by[1] = "Last"      -> IF Holds(x, x.last) THEN x.last ELSE NoPane
    [] by[1] = "Extreme"   -> IF by[2] = "Right" THEN Last(x.panes) ELSE Head(x.panes)
    [] OTHER               -> IF here > 0 /\ by[2] \in {"Left", "Right"} /\ beside \in DOMAIN x.panes
                              THEN x.panes[beside] ELSE NoPane

\* `%N` finds the pane wherever it is; anything else looks in one window.
ResolveById(s, target, p) ==
  CASE WrongSession(target) \/ WindowOf(s, p) = NoWindow                  -> Nowhere
    [] target.window # None /\ ResolveWindow(s, target) # WindowOf(s, p)  -> Nowhere
    [] OTHER                                                              -> [window |-> WindowOf(s, p), pane |-> p]
ResolveInWindow(s, w, by) ==
  LET found(p) == IF p = NoPane THEN Nowhere ELSE [window |-> w, pane |-> p] IN
  CASE w = NoWindow  -> Nowhere
    [] IsEmpty(s, w) -> Nowhere
    [] OTHER         -> With(PaneIn(s.win[w], by), found)
ResolvePane(s, target) ==
  IF target.pane # None /\ target.pane[1] = "Id" THEN ResolveById(s, target, target.pane[2])
  ELSE With(ResolveWindow(s, target), LAMBDA w : ResolveInWindow(s, w, target.pane))

(***************************************************************************)
(* Commands.  A command comes to a session and an answer; one that fails   *)
(* rather than being rejected ends the session unanswered.                 *)
(***************************************************************************)
Outcome(s, answer) == [session |-> s, answer |-> answer]
Ok(s) == Outcome(s, "ok")
Rejected(s) == Outcome(s, "error")
Fatal(s) == Outcome([s EXCEPT !.exit = "Failed"], "")
Panics(s) == Outcome([s EXCEPT !.exit = "Panicked"], "")
\* A pane that is gone, and was only still named as the focus, gets a place in a
\* layout: the code goes on with a leaf that has no program (see Workspaces),
\* this module does not follow it.
Leaves(s) == Outcome([s EXCEPT !.exit = "Unfollowed"], "")
OkUnlessFailed(s) == IF s.exit = "Failed" THEN Fatal(s) ELSE Ok(s)

\* Most commands resolve a pane, show its window and go on from there.
AtPane(s, target, then(_, _)) ==
  LET shown(at) == With(SwitchTo(s, at.window), LAMBDA t : then(t, at.pane)) IN
  With(ResolvePane(s, target), LAMBDA at : IF at = Nowhere THEN Rejected(s) ELSE shown(at))
OnScreen(s) == s.win[s.current]

\* split_pane: a focus that is no longer in the tree is quietly left alone.
SplitPane(s, p, detached) ==
  LET x == OnScreen(s)
      wider == [x EXCEPT !.panes = InsertAt(@, PlaceOf(@, p) + 1, s.nextPane)] IN
  IF ~Holds(x, p) THEN Ok(s)
  ELSE Ok([s EXCEPT !.win[s.current] = IF detached THEN wider ELSE SetFocus(wider, s.nextPane),
                    !.nextPane = @ + 1])
SplitWindowCommand(s, command) ==
  AtPane(s, Target(command), LAMBDA t, p : SplitPane(t, p, Switched(command, "detached")))

\* close_pane: the last leaf goes at once, any other starts to close.  Killing a
\* pane that is not there is an error.
ClosePane(s, p) ==
  LET x == OnScreen(s) IN
  CASE p \in x.closing                         -> s
    [] p \notin x.closing \cup Range(x.panes)  -> [s EXCEPT !.exit = "Failed"]
    [] p \notin x.closing /\ x.panes = <<p>>   -> QuitIfEmpty([s EXCEPT !.win[s.current] = Drop(x)])
    [] OTHER -> [s EXCEPT !.win[s.current] = SetFocus([x EXCEPT !.closing = @ \cup {p}], Head(Without(x, p)))]
KillPane(s, p, others) ==
  IF others
  THEN With(Through(LAMBDA acc, q : IF q = p THEN acc ELSE ClosePane(acc, q), s, OnScreen(s).panes),
            OkUnlessFailed)
  ELSE With(ClosePane(s, p), OkUnlessFailed)
KillPaneCommand(s, command) ==
  AtPane(s, Target(command), LAMBDA t, p : KillPane(t, p, Switched(command, "all")))

\* new_window: a session in the target is looked at only with a window.
FreeWindow(s, target) ==
  LET free == { w \in Window : IsEmpty(s, w) }
      asked == ResolveWindow(s, target) IN
  CASE target.window # None -> IF asked \in free THEN asked ELSE NoWindow
    [] free = {}            -> NoWindow
    [] OTHER                -> Min(free)
OpenWindow(s, w, name) ==
  [s EXCEPT !.win[w] = [Alone(@, s.nextPane) EXCEPT !.name = name], !.nextPane = @ + 1]
\* Mutant: the pane is spawned before the window is looked for.
SpawnThenLook(s, command) ==
  LET w == FreeWindow(s, Target(command))
      opened == OpenWindow(s, w, Slot(command, "window_name", None)) IN
  CASE w = NoWindow                   -> Rejected([s EXCEPT !.nextPane = @ + 1])
    [] Switched(command, "detached")  -> Ok(opened)
    [] OTHER                          -> Ok(SwitchTo(opened, w))
NewWindowCommand(s, command) ==
  LET opened(w) == OpenWindow(s, w, Slot(command, "window_name", None))
      answer(w) == IF w = NoWindow THEN Rejected(s)
                   ELSE Ok(IF Switched(command, "detached") THEN opened(w) ELSE SwitchTo(opened(w), w)) IN
  With(FreeWindow(s, Target(command)), answer)

KillWindow(s, w) ==
  LET left == [s EXCEPT !.win[w] = EmptyWindow]
      others == { v \in Window : ~IsEmpty(left, v) } IN
  IF w = NoWindow \/ IsEmpty(s, w) THEN Rejected(s)
  ELSE CASE others = {}                       -> Ok(QuitIfEmpty(left))
         [] others # {} /\ w = s.current      -> Ok(SwitchTo(left, Min(others)))
         [] OTHER                             -> Ok(left)
KillWindowCommand(s, command) ==
  With(ResolveWindow(s, Target(command)), LAMBDA w : KillWindow(s, w))

RenameWindowCommand(s, w, name) ==
  IF w = NoWindow THEN Rejected(s) ELSE Ok([s EXCEPT !.win[w].name = name])
SelectWindowCommand(s, command) ==
  LET selected(w) == CASE w = NoWindow                                      -> Rejected(s)
                       [] ~Switched(command, "create") /\ IsEmpty(s, w)     -> Rejected(s)
                       [] OTHER                                             -> Ok(SwitchTo(s, w)) IN
  With(ResolveWindow(s, Target(command)), selected)

\* A direction moves focus on the screen or does nothing; a target must exist.
FocusDirection(s, direction) ==
  LET x == OnScreen(s)
      next == IF x.focused = NoPane THEN NoPane ELSE PaneIn(x, <<"DirectionOf", direction>>) IN
  IF next = NoPane THEN Ok(s) ELSE Ok([s EXCEPT !.win[s.current] = SetFocus(x, next)])
SelectPaneCommand(s, selector) ==
  LET focus(t, p) == Ok([t EXCEPT !.win[t.current] = SetFocus(@, p)]) IN
  CASE selector[1] = "Direction" -> FocusDirection(s, selector[2])
    [] selector[1] = "Last"      -> AtPane(s, RelativePane("Last", 0), focus)
    [] OTHER                     -> AtPane(s, selector[2], focus)

SwapPanes(t, p, q, keep_focus) ==
  LET x == OnScreen(t)
      swapped == [x EXCEPT !.panes = [i \in DOMAIN @ |-> CASE @[i] = p -> q [] @[i] = q -> p [] OTHER -> @[i]]] IN
  IF p = q \/ ~Holds(x, p) \/ ~Holds(x, q) THEN Ok(t)
  ELSE Ok([t EXCEPT !.win[t.current] = IF keep_focus THEN swapped ELSE SetFocus(swapped, p)])
SwapPaneCommand(s, command) ==
  LET onto(from, to) ==
        IF Nowhere \in {from, to} \/ from.window # to.window THEN Rejected(s)
        ELSE With(SwitchTo(s, from.window),
                  LAMBDA t : SwapPanes(t, from.pane, to.pane, Switched(command, "keep_focus"))) IN
  With(ResolvePane(s, Source(command)),
       LAMBDA from : With(ResolvePane(s, Target(command)), LAMBDA to : onto(from, to)))

RotateWindowCommand(s, command) ==
  LET turned(seq) == IF Switched(command, "reverse") THEN <<Last(seq)>> \o Front(seq)
                     ELSE Tail(seq) \o <<Head(seq)>>
      rotated(w) == IF w = NoWindow THEN Rejected(s)
                    ELSE Ok([SwitchTo(s, w) EXCEPT !.win[w].panes = IF @ = <<>> THEN @ ELSE turned(@)]) IN
  With(ResolveWindow(s, Target(command)), rotated)

\* detach_pane_from_window: a pane that is not in the tree takes the tree with it.
Detach(x, p) ==
  LET kept == IF Holds(x, p) THEN Without(x, p) ELSE <<>> IN
  [x EXCEPT !.panes = kept, !.closing = @ \ {p},
            !.focused = IF @ # p THEN @ ELSE IF kept = <<>> THEN NoPane ELSE Head(kept),
            !.last = IF @ = p THEN NoPane ELSE @]
Taken(s, from) == [s EXCEPT !.win[from.window] = Detach(@, from.pane)]

\* break_pane.
Break(s, from, w, command) ==
  LET moved == [Taken(s, from) EXCEPT
                  !.win[w] = [Alone(@, from.pane) EXCEPT !.name = Slot(command, "window_name", None)]]
      landed == IF Switched(command, "detached") THEN moved ELSE SwitchTo(moved, w) IN
  IF w = NoWindow THEN Rejected(s)
  ELSE IF Holds(s.win[from.window], from.pane) THEN Ok(landed) ELSE Leaves(s)
BreakPaneCommand(s, command) ==
  LET broken(from) ==
        IF from = Nowhere THEN Rejected(s)
        ELSE IF Len(s.win[from.window].panes) < 2 THEN Rejected(s)
        ELSE With(FreeWindow(s, Target(command)), LAMBDA w : Break(s, from, w, command)) IN
  With(ResolvePane(s, Source(command)), broken)

\* join_pane: the pane is taken out, and its new window shown, before the place
\* it is to have is looked for.
Beside(x, p, onto, detached) ==
  LET wider == [x EXCEPT !.panes = InsertAt(@, PlaceOf(@, onto) + 1, p)] IN
  IF detached THEN wider ELSE SetFocus(wider, p)
JoinedAt(s, t, from, onto, command) ==
  IF ~Holds(OnScreen(t), onto) THEN Rejected(t)
  ELSE IF ~Holds(s.win[from.window], from.pane) THEN Leaves(s)
  ELSE Ok([t EXCEPT !.win[t.current] = Beside(@, from.pane, onto, Switched(command, "detached"))])
JoinPaneCommand(s, command) ==
  LET joined(from, to) ==
        IF Nowhere \in {from, to} THEN Rejected(s)
        ELSE IF from.pane = to.pane THEN Rejected(s)
        ELSE IF from.window = to.window /\ Len(s.win[from.window].panes) < 2 THEN Rejected(s)
        ELSE With(SwitchTo(Taken(s, from), to.window),
                  LAMBDA t : JoinedAt(s, t, from, to.pane, command)) IN
  With(ResolvePane(s, Source(command)),
       LAMBDA from : With(ResolvePane(s, Target(command)), LAMBDA to : joined(from, to)))

\* Side by side, only a width can change, and only when there is a border.
ResizePaneCommand(s, command) ==
  LET change == command.slots.change
      resized(t, p) ==
        IF change[1] \in {"Left", "Right", "Width"} /\ Holds(OnScreen(t), p) /\ Len(OnScreen(t).panes) > 1
        THEN Ok(t) ELSE Rejected(t) IN
  AtPane(s, Target(command), resized)
SendKeysCommand(s, target) ==
  LET answer(at) == IF at = Nowhere THEN Rejected(s)
                    ELSE IF Holds(s.win[at.window], at.pane) THEN Ok(s) ELSE Fatal(s) IN
  With(ResolvePane(s, target), answer)

\* capture_pane of a pane that shows so many lines: a range that ends before it
\* starts is not empty.
CapturePaneCommand(s, command, shown) ==
  LET first == Slot(command, "start", 0)
      end == IF "end" \in DOMAIN command.slots THEN command.slots.end + 1 ELSE shown
      answer(at) == IF at = Nowhere THEN Rejected(s)
                    ELSE IF ~Holds(s.win[at.window], at.pane) THEN Rejected(s)
                    ELSE IF first <= shown /\ first > Min({end, shown}) THEN Panics(s) ELSE Ok(s) IN
  With(ResolvePane(s, Target(command)), answer)

(***************************************************************************)
(* What formats are expanded against                                       *)
(***************************************************************************)
Word(n) == <<ToString(n)>>
SessionVariables(s) ==
  ("session_name" :> SessionName) @@ ("session_windows" :> Word(Len(Occupied(s))))
WindowFlags(s, w) == CASE w = s.current -> <<"*">> [] w # s.current /\ w = s.lastWindow -> <<"-">> [] OTHER -> <<>>
WindowVariables(s, w) ==
  SessionVariables(s) @@ ("window_index" :> Word(w)) @@ ("window_name" :> WindowName(s, w))
  @@ ("window_panes" :> Word(Len(s.win[w].panes))) @@ ("window_active" :> FlagOf(w = s.current))
  @@ ("window_flags" :> WindowFlags(s, w))
PaneVariables(s, w, p) ==
  LET x == s.win[w] IN
  WindowVariables(s, w) @@ ("pane_id" :> IF Holds(x, p) THEN <<"%">> \o Word(p) ELSE <<>>)
  @@ ("pane_index" :> Word(PlaceOf(x.panes, p) - 1)) @@ ("pane_active" :> FlagOf(x.focused = p))

Template(w) == IF w \in DOMAIN TemplateOf THEN TemplateOf[w] ELSE <<<<"text", w>>>>
Active == <<"if", "window_active", <<<<"text", <<" (active)">>>>>>, <<>>>>
DefaultFormat(name) ==
  CASE name = "list-panes"   -> <<<<"name", "window_index">>, <<"text", <<".">>>>, <<"name", "pane_index">>,
                                  <<"text", <<": ">>>>, <<"name", "pane_id">>, [Active EXCEPT ![2] = "pane_active"]>>
    [] name = "list-windows" -> <<<<"name", "window_index">>, <<"text", <<": ">>>>, <<"name", "window_name">>,
                                  <<"text", <<" ">>>>, <<"name", "window_panes">>, Active>>
    [] OTHER                 -> <<<<"name", "session_name">>, <<"text", <<": ">>>>, <<"name", "session_windows">>>>

\* The rows of a listing; asked for with -a, list-panes looks at no target.
ListedWindows(s) == { w \in Window : ~IsEmpty(s, w) }
Rows(s, command) ==
  LET w == ResolveWindow(s, Target(command))
      panes(v) == { PaneVariables(s, v, p) : p \in Range(s.win[v].panes) } IN
  CASE command.name = "list-sessions"                      -> { SessionVariables(s) }
    [] command.name = "list-windows"                       -> { WindowVariables(s, v) : v \in ListedWindows(s) }
    [] command.name = "list-panes" /\ Switched(command, "all") -> UNION { panes(v) : v \in ListedWindows(s) }
    [] OTHER                                               -> panes(w)
Unlistable(s, command) ==
  CASE command.name = "list-windows" -> WrongSession(Target(command))
    [] command.name = "list-panes"   -> ~Switched(command, "all") /\ ResolveWindow(s, Target(command)) = NoWindow
    [] OTHER                         -> FALSE
ListCommand(s, command) ==
  LET template == IF "format" \in DOMAIN command.slots THEN Template(command.slots.format)
                  ELSE DefaultFormat(command.name) IN
  IF Unlistable(s, command) THEN Rejected(s)
  ELSE IF \E row \in Rows(s, command) : Expand(template, row) = Unexpandable THEN Rejected(s) ELSE Ok(s)
DisplayMessageCommand(s, command) ==
  LET text(at) == Expand(Template(Slot(command, "word", None)), PaneVariables(s, at.window, at.pane))
      answer(at) == IF at = Nowhere THEN Rejected(s)
                    ELSE IF text(at) = Unexpandable THEN Rejected(s) ELSE Ok(s) IN
  With(ResolvePane(s, Target(command)), answer)

\* apply_live_option: a frame rate of nothing divides by it.
SetOptionCommand(s, command) ==
  LET applied(t) ==
        IF OptionName(command) = <<"target-fps">> /\ Number(Get(t.options, "target-fps")) = 0
        THEN Panics(t) ELSE Ok(t) IN
  IF Settable(command) THEN With([s EXCEPT !.options = Set(@, command)], applied) ELSE Rejected(s)
KillSessionCommand(s, target) ==
  IF WrongSession(target) THEN Rejected(s) ELSE Ok([s EXCEPT !.exit = "Quit"])
ShowOptionsCommand(s, command) ==
  IF IsKnown(Slot(command, "word", <<"status">>)) THEN Ok(s) ELSE Rejected(s)

(***************************************************************************)
(* execute_now: the commands this module is about.  if-shell runs one of   *)
(* its branches, which it parses only then; a branch has no caller that    *)
(* could be kept waiting, so wait-for is refused there.                    *)
(***************************************************************************)
Execute(s, command) ==
  LET target == Target(command) IN
  CASE command.name = "split-window"    -> SplitWindowCommand(s, command)
    [] command.name = "kill-pane"       -> KillPaneCommand(s, command)
    [] command.name = "resize-pane"     -> ResizePaneCommand(s, command)
    [] command.name = "select-pane"     -> SelectPaneCommand(s, Slot(command, "selector", <<"Target", Current>>))
    [] command.name = "swap-pane"       -> SwapPaneCommand(s, command)
    [] command.name = "send-keys"       -> SendKeysCommand(s, target)
    [] command.name = "new-window"      -> NewWindowCommand(s, command)
    [] command.name = "select-window"   -> SelectWindowCommand(s, command)
    [] command.name = "kill-window"     -> KillWindowCommand(s, command)
    [] command.name = "break-pane"      -> BreakPaneCommand(s, command)
    [] command.name = "join-pane"       -> JoinPaneCommand(s, command)
    [] command.name = "rotate-window"   -> RotateWindowCommand(s, command)
    [] command.name = "rename-window"   -> RenameWindowCommand(s, ResolveWindow(s, target), command.slots.word)
    [] command.name = "kill-session"    -> KillSessionCommand(s, target)
    [] command.name = "display-message" -> DisplayMessageCommand(s, command)
    [] command.name \in {"list-panes", "list-windows", "list-sessions"} -> ListCommand(s, command)
    [] command.name = "set-option"      -> SetOptionCommand(s, command)
    [] command.name = "show-options"    -> ShowOptionsCommand(s, command)
    [] OTHER                            -> Rejected(s)

\* A branch that is missing is a branch that does nothing.
Branch(command, holds) ==
  CASE holds                    -> Parse(SplitWhitespace(command.words[2]))
    [] ~holds /\ Len(command.words) > 2 -> Parse(SplitWhitespace(command.words[3]))
    [] OTHER                    -> [Refused("") EXCEPT !.name = "nothing"]
IfShellOutcome(s, branch) == IF branch.name = "nothing" THEN Ok(s) ELSE Execute(s, branch)
Outcomes(s, command) ==
  CASE command.name = "capture-pane" -> { CapturePaneCommand(s, command, n) : n \in ScreenLines }
    [] command.name = "if-shell"     -> { With(Branch(command, holds), LAMBDA branch : IfShellOutcome(s, branch)) : holds \in BOOLEAN }
    [] OTHER                         -> { Execute(s, command) }

(***************************************************************************)
(* Requests                                                                *)
(***************************************************************************)
NoRequest == [at |-> "idle", command |-> Refused(""), answer |-> ""]
Running == session.exit = "Running"
Free == Running /\ shell = NoCaller
Asked(c) == request[c].command
Script(c) == Slot(Asked(c), "word", None)
Waits(c) == Asked(c).name = "wait-for" /\ ~Switched(Asked(c), "signal")

After(past) == Through(LAMBDA s, line : Execute(s, Parse(line)).session, FreshSession, past)
Init ==
  /\ \E past \in Pasts : session = After(past)
  /\ request = [c \in Process |-> NoRequest]
  /\ told = [c \in Process |-> ""]
  /\ queue = <<>> /\ shell = NoCaller

\* The caller's own process parses the line: what is no command never travels.
Asks(c, line) ==
  \E command \in {Parse(line)} :
    IF command.error = ""
    THEN /\ request' = [request EXCEPT ![c] = [NoRequest EXCEPT !.at = "sending", !.command = command]]
         /\ UNCHANGED told
    ELSE /\ told' = [told EXCEPT ![c] = "usage"]
         /\ UNCHANGED request
Parked == { w \in Process : request[w].at = "parked" }
Type(c) ==
  /\ Running /\ request[c].at = "idle" /\ told[c] = ""
  /\ c \in Late => Cardinality(Parked) > 1
  /\ \E line \in CallerLines[c] : Asks(c, line)
  /\ UNCHANGED <<session, queue, shell>>
ChildTypes(c) ==
  /\ Running /\ request[Child[c]].at = "idle" /\ told[Child[c]] = ""
  /\ Asked(c).name = "run-shell" /\ request[c].at \in {"running", "answered"}
  /\ Script(c) \in DOMAIN ScriptLine
  /\ Asks(Child[c], ScriptLine[Script(c)])
  /\ UNCHANGED <<session, queue, shell>>

Enqueue(c) ==
  /\ Running /\ request[c].at = "sending" /\ Len(queue) < QueueCapacity
  /\ queue' = Append(queue, c)
  /\ request' = [request EXCEPT ![c].at = "queued"]
  /\ UNCHANGED <<session, told, shell>>

Answered(r, answer) == [r EXCEPT !.at = "answered", !.answer = answer]

\* handle_session_event: wait-for keeps the answer; a signal is the answer of
\* everybody who waits on the channel, and of its own caller.
Park(c) ==
  /\ Waits(c)
  /\ request' = [request EXCEPT ![c].at = "parked"]
  /\ UNCHANGED <<session, shell>>
\* Mutant: a signal frees one of those who wait.
FreedOne(c) ==
  LET all == { w \in Parked : Script(w) = Script(c) } IN
  IF all = {} THEN {} ELSE {CHOOSE w \in all : TRUE}
Freed(c) == { w \in Parked : Script(w) = Script(c) }
Signal(c) ==
  /\ Asked(c).name = "wait-for" /\ ~Waits(c)
  /\ request' = [w \in Process |-> IF w \in Freed(c) \cup {c} THEN Answered(request[w], "ok") ELSE request[w]]
  /\ UNCHANGED <<session, shell>>
\* run_shell: in the background its caller is answered at once.
StartShell(c) ==
  /\ Asked(c).name = "run-shell"
  /\ IF Switched(Asked(c), "background")
     THEN request' = [request EXCEPT ![c] = Answered(@, "ok")] /\ UNCHANGED shell
     ELSE request' = [request EXCEPT ![c].at = "running"] /\ shell' = c
  /\ UNCHANGED session
Run(c) ==
  /\ Asked(c).name \notin {"wait-for", "run-shell"}
  /\ \E outcome \in Outcomes(session, Asked(c)) :
       /\ session' = outcome.session
       /\ request' = [request EXCEPT ![c] = IF outcome.answer = "" THEN [@ EXCEPT !.at = "running"]
                                             ELSE Answered(@, outcome.answer)]
  /\ UNCHANGED shell
Take ==
  /\ Free /\ queue # <<>> /\ queue' = Tail(queue)
  /\ UNCHANGED told
  /\ LET c == Head(queue) IN Park(c) \/ Signal(c) \/ StartShell(c) \/ Run(c)

\* A foreground script ends when what it runs has ended, well or not.
ScriptOver(c) == Script(c) \notin DOMAIN ScriptLine \/ told[Child[c]] # ""
ShellEnds(c) ==
  /\ shell = c /\ ScriptOver(c)
  /\ \E answer \in {"ok", "error"} : request' = [request EXCEPT ![c] = Answered(@, answer)]
  /\ shell' = NoCaller
  /\ UNCHANGED <<session, told, queue>>

\* serve_connection writes the reply, until the process has ended.
Deliver(c) ==
  /\ request[c].at = "answered" /\ told[c] = ""
  /\ told' = [told EXCEPT ![c] = request[c].answer]
  /\ UNCHANGED <<session, request, queue, shell>>

\* REPLY_TIMEOUT, for which a loop that runs is too quick.  The request goes on,
\* as it does when its caller is interrupted.
\* Mutant: the time counts from when the session takes the request up.
TimesOutOnceTaken(c) ==
  /\ Running /\ shell # NoCaller /\ ~Waits(c)
  /\ request[c].at = "running" /\ told[c] = ""
  /\ told' = [told EXCEPT ![c] = "timeout"]
  /\ UNCHANGED <<session, request, queue, shell>>
TimesOut(c) ==
  /\ Running /\ shell # NoCaller /\ ~Waits(c)
  /\ request[c].at \in {"sending", "queued", "running"} /\ told[c] = ""
  /\ told' = [told EXCEPT ![c] = "timeout"]
  /\ UNCHANGED <<session, request, queue, shell>>
HangUp(c) ==
  /\ Running /\ request[c].at \in {"queued", "running", "parked"} /\ told[c] = ""
  /\ told' = [told EXCEPT ![c] = "interrupted"]
  /\ UNCHANGED <<session, request, queue, shell>>

(***************************************************************************)
(* The session goes on by itself                                           *)
(***************************************************************************)
Becomes(s) == session' = s /\ UNCHANGED <<request, told, queue, shell>>

\* finish_completed_closings.
FinishClosing(p) ==
  LET x == [OnScreen(session) EXCEPT !.closing = @ \ {p}]
      shrunk == [x EXCEPT !.panes = Without(x, p)] IN
  /\ Free /\ p \in OnScreen(session).closing
  /\ Becomes(CASE Len(x.panes) = 1 -> QuitIfEmpty([session EXCEPT !.win[session.current] = Drop(x)])
               [] Len(x.panes) > 1 /\ x.focused \in {NoPane, p} ->
                    [session EXCEPT !.win[session.current] = SetFocus(shrunk, Head(shrunk.panes))]
               [] OTHER -> [session EXCEPT !.win[session.current] = shrunk])

\* handle_backend_event(PaneDied), of a pane whose window Workspaces shows to
\* come to no harm: one that is not closing, nor the last without the focus.
PaneDies(p) ==
  LET w == WindowOf(session, p)
      x == session.win[w]
      shrunk == [x EXCEPT !.panes = Without(x, p)] IN
  /\ Free /\ w # NoWindow
  /\ p \notin x.closing /\ (Len(x.panes) = 1 => x.focused = p)
  /\ Becomes(QuitIfEmpty([session EXCEPT !.win[w] =
       IF Len(x.panes) > 1 THEN SetFocus(shrunk, Head(shrunk.panes)) ELSE Drop(x)]))

\* SIGTERM, between two turns of the loop.
Terminate == Free /\ Becomes([session EXCEPT !.exit = "Quit"])

\* The process ends.  A loop that ended in order waits a moment first
\* (SHUTDOWN_FLUSH_GRACE), for no reply in particular: whoever has not been told by
\* then learns that the session is gone, even one whose command was carried out.
End ==
  /\ ~Running
  /\ \E c \in Process : request[c].at # "idle" /\ told[c] = ""
  /\ told' = [c \in Process |-> IF request[c].at # "idle" /\ told[c] = "" THEN "lost" ELSE told[c]]
  /\ UNCHANGED <<session, request, queue, shell>>

Panes == 1 .. session.nextPane - 1
Next ==
  \/ \E c \in Callers : Type(c) \/ ChildTypes(c)
  \/ \E c \in Interruptible : HangUp(c)
  \/ \E c \in Process : Enqueue(c) \/ ShellEnds(c) \/ Deliver(c) \/ TimesOut(c)
  \/ Take
  \/ \E p \in Panes : FinishClosing(p)
  \/ \E p \in Mortal : PaneDies(p)
  \/ Terminate
  \/ End
Spec == Init /\ [][Next]_vars
\* Connection tasks, the loop, scripts and timers all go on.  Each does so a
\* bounded number of times, so it is enough that one of them does.
GoesOn ==
  \/ \E c \in Process : Enqueue(c) \/ ShellEnds(c) \/ Deliver(c) \/ TimesOut(c)
  \/ End \/ \E c \in Callers : ChildTypes(c)
  \/ Take
FairSpec == Spec /\ WF_vars(GoesOn)

(***************************************************************************)
(* Properties                                                              *)
(***************************************************************************)
\* What list-panes says of a pane leads back to it (app.rs list, pane_variables,
\* against resolve_pane and target.rs): both `session:window.index`, which counts
\* windows from one and panes from zero, and its `%N`, which needs no window.
AddressesHold ==
  \A w \in Window : \A p \in Range(session.win[w].panes) :
    LET row == PaneVariables(session, w, p)
        place == row["session_name"] \o <<":">> \o row["window_index"] \o <<".">> \o row["pane_index"]
        found == [window |-> w, pane |-> p] IN
    /\ ResolvePane(session, ParseTarget(place, "pane")) = found
    /\ ResolvePane(session, ParseTarget(row["pane_id"], "pane")) = found

\* The panes that a step takes away or begins to close.
Losses ==
  UNION { (Range(session.win[w].panes) \ Range(session'.win[w].panes))
          \cup (session'.win[w].closing \ session.win[w].closing) : w \in Window }

\* What a join-pane takes out of its window before it is refused for want of a
\* place to put it, which is when a pane it names is only still the focus of its
\* window and no longer in it: the pane, or with one that is gone the whole window.
Strands(s, command) ==
  LET from == ResolvePane(s, Source(command))
      to == ResolvePane(s, Target(command))
      there(at) == Holds(s.win[at.window], at.pane) IN
  IF command.name # "join-pane" \/ Nowhere \in {from, to} THEN {}
  ELSE IF ~there(from) THEN Range(s.win[from.window].panes)
  ELSE IF ~there(to) THEN {from.pane} ELSE {}
Stranded(s, command) ==
  IF command.name = "if-shell" THEN Strands(s, Branch(command, TRUE)) \cup Strands(s, Branch(command, FALSE))
  ELSE Strands(s, command)

\* A command that is refused has named and set nothing, and has taken away or
\* spawned no pane (app.rs execute_request): at most another window is shown, and
\* what was already closing on the one that was left is gone with it.  But a
\* join-pane whose destination has no place in its window is refused only once the
\* pane is out of its own (app.rs join_pane): that pane, which runs on, is in no
\* window any more, and when it is the source that has no place, its window is empty.
RejectedKeepsPanes ==
  [][\A c \in Process :
       (request'[c].answer = "error" /\ request[c].answer = "" /\ shell = NoCaller) =>
         LET stranded == Stranded(session, Asked(c)) IN
         /\ Losses \subseteq OnScreen(session).closing \cup stranded
         /\ session'.options = session.options
         /\ \A w \in Window : session'.win[w].name = session.win[w].name
         /\ stranded = {} => session'.nextPane = session.nextPane]_vars

\* The child waits for a signal that nobody can send while its script runs.
Stuck(c) == Waits(Child[c]) /\ request[Child[c]].at # "idle"

\* A foreground script gives the event loop back, even one that asks the session
\* for something and can have no answer before it ends (server.rs request): the
\* time-out is what frees it, so only a nested wait-for holds the session for good.
ShellReturns == (shell # NoCaller) ~> (shell = NoCaller \/ \E c \in Callers : shell = c /\ Stuck(c))

\* Whoever waits on a channel hears when somebody signals it (app.rs
\* signal_wait_channel), however many wait and whatever else the session does.
SignalQueued(c) ==
  \E d \in Callers : /\ request[d].at = "queued" /\ Asked(d).name = "wait-for"
                     /\ ~Waits(d) /\ Script(c) = Script(d)
WaitersFreed ==
  \A c \in Callers :
    (request[c].at = "parked" /\ SignalQueued(c)) ~> (told[c] # "" \/ shell # NoCaller)
=============================================================================
