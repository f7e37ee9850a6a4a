----------------------------- MODULE AgentBell -----------------------------
(***************************************************************************)
(* Which agents are working, and the bell that says one has stopped.       *)
(* Nothing is asked of an agent: its screen is looked at twice a second,   *)
(* and what moved it may have been the agent, the user's own keys, a       *)
(* resize or a repaint.                                                    *)
(*                                                                         *)
(* Modelled from src/src/agent.rs and the agent functions of               *)
(* src/src/app.rs.  Time passes in steps of one poll interval; a time the  *)
(* code stamps is an age here, counted as far as anybody compares it.      *)
(* Agents and the user are external.                                       *)
(***************************************************************************)
EXTENDS Integers, FiniteSets

CONSTANTS
  Pane,
  NoPane,
  Window,   \* agent-activity-time, in poll intervals
  MinRun,   \* agent-minimum-run, in poll intervals
  Grace,    \* how long an echo may take to be noticed: one poll interval
  MaxTurns  \* bound: what agents and users do

ASSUME AgentAssumption ==
  /\ NoPane \notin Pane
  /\ Window \in Nat \ {0} /\ MinRun \in Nat \ {0} /\ Grace \in Nat \ {0}

VARIABLES
  panes,     \* App.panes
  focused,   \* the focus of the window on screen
  watched,   \* is any client attached?
  on,        \* the options agent-status and agent-bell
  obs,       \* pane -> what the session knows of it
  died,      \* agent_died_working
  due,       \* has a poll interval passed since agents_polled, the last look?
  rang,      \* did the last step ring the bell?
  loop,      \* "runs", "ends" after the last pane, or "left"
  agent,     \* pane -> what its agent does, "none" when it has none
  screen,    \* pane -> what has happened to it since the session hashed it
  turns,     \* what has happened so far (bounded by MaxTurns)
  effort,    \* history: pane -> intervals its agent has worked, seen and left alone
  owed,      \* history: pane -> intervals a bell has been due for
  span,      \* history: pane -> how long its screen had been moving when it last did
  forgotten  \* history: the panes whose death another one's took the place of

history == <<effort, owed, span, forgotten>>
outside == <<agent, screen, turns>>
vars == <<panes, focused, watched, on, obs, died, due, rang, loop, outside, history>>

Options == {"agent-status", "agent-bell"}
Never == MinRun + 1

Least(m, n) == IF m < n THEN m ELSE n

(* An age, one interval later; none is counted further than it is used.    *)
Older(age, most) == IF age >= most THEN age ELSE age + 1

(* Nothing known: no command, no reading, no hash, no output, no keys.     *)
Unknown ==
  [command |-> "none", reading |-> "plain", hashed |-> FALSE, output |-> Window,
   input |-> Grace + 1, own |-> TRUE, state |-> "none", since |-> Never]

(* A screen that has not moved for long enough to start over.              *)
AtRest == [long |-> 0, quiet |-> Window + 2, missed |-> 0]

Init ==
  /\ panes = Pane /\ focused \in Pane /\ watched = TRUE /\ on = Options
  /\ obs = [p \in Pane |-> Unknown]
  /\ died = NoPane /\ due = FALSE /\ rang = FALSE /\ loop = "runs"
  /\ agent \in [Pane -> {"none", "streams"}]
  /\ screen = [p \in Pane |-> [moved |-> FALSE, resized |-> FALSE, viewer |-> FALSE]]
  /\ turns = 0
  /\ effort = [p \in Pane |-> 0] /\ owed = [p \in Pane |-> 0] /\ forgotten = {}
  /\ span = [p \in Pane |-> AtRest]

-----------------------------------------------------------------------------
(* AgentTracker.                                                           *)

(* note_output and note_input.  `own` is what ended_on_your_typing denies: *)
(* that the screen last moved well after the last key.                     *)
NoteOutput(o) == [o EXCEPT !.output = 0, !.own = o.input > Grace]
NoteInput(o) == [o EXCEPT !.input = 0, !.own = FALSE]

IsActive(o) == o.output < Window

(* The state of a pane that runs an agent; one that runs none has none.    *)
StateOf(o) ==
  CASE o.command # "agent" -> "none"
    [] o.command = "agent" /\ (o.reading = "busy" \/ IsActive(o)) -> "Working"
    [] o.command = "agent" /\ o.reading = "asks" /\ ~ IsActive(o) -> "Waiting"
    [] OTHER -> "Idle"

JustFinished(previous, current) == previous = "Working" /\ current # "Working"

-----------------------------------------------------------------------------
(* What is on a pane's screen: a footer while the agent thinks, a question *)
(* while it asks.                                                          *)
Shows(p) ==
  CASE agent[p] = "thinks" -> "busy" [] agent[p] = "asks" -> "asks" [] OTHER -> "plain"

(* refresh_agent_screens, for a pane.  Its screen is passed over when      *)
(* nothing is known to run in it and while the agent's own viewer hides    *)
(* it, which keeps it as active as it was.  A first look counts as output; *)
(* a change that came with a resize only if the pane was active anyway.    *)
Refreshed(p) ==
  LET o == obs[p]
      read == [o EXCEPT !.hashed = TRUE, !.reading = Shows(p)]
      changed == ~ o.hashed \/ screen[p].moved
      resized == o.hashed /\ screen[p].resized
  IN IF o.command = "none" THEN [o EXCEPT !.reading = "plain", !.hashed = FALSE]
     ELSE IF screen[p].viewer THEN IF IsActive(o) THEN NoteOutput(o) ELSE o
     ELSE IF changed /\ ~ (resized /\ ~ IsActive(o)) THEN NoteOutput(read) ELSE read

(* The hash and size are those of the screen just looked at.               *)
Looked(p) ==
  IF obs[p].command = "none" \/ screen[p].viewer THEN screen[p]
  ELSE [screen[p] EXCEPT !.moved = FALSE, !.resized = FALSE]

(* poll_agent_commands: a process that is gone has no foreground job.      *)
Command(p) ==
  CASE agent[p] = "dead" -> "none" [] agent[p] = "none" -> "other" [] OTHER -> "agent"

(* What is known after the poll, if one is due.                            *)
Known(p) ==
  IF due /\ p \in panes THEN [Refreshed(p) EXCEPT !.command = Command(p)] ELSE obs[p]

-----------------------------------------------------------------------------
(* History, which no action reads: how long an agent has worked where a    *)
(* bell is due when it stops, for how long one has been due, since when a  *)
(* screen has been moving, and how much of that nobody looked at it.       *)
Works(p) == agent[p] \in {"streams", "thinks"}

Enough == MinRun + 2

StopsOwing(p) ==
  /\ owed' = IF effort[p] >= Enough THEN [owed EXCEPT ![p] = 1] ELSE owed
  /\ effort' = [effort EXCEPT ![p] = 0]

(* The screen has moved again since.                                       *)
OwesAnew(p) == owed' = [owed EXCEPT ![p] = Least(@, 1)]

Excused(who) ==
  /\ effort' = [p \in Pane |-> IF p \in who THEN 0 ELSE effort[p]]
  /\ owed' = [p \in Pane |-> IF p \in who THEN 0 ELSE owed[p]]

LongEnough == MinRun - Window - 1

(* A screen that has been quiet for the activity time, and a poll, starts  *)
(* over.                                                                   *)
Still(p) == span[p].quiet > Window + 1

(* An interval in which it did not move, or nobody looked.                 *)
Quieter(p) ==
  IF due THEN [span[p] EXCEPT !.missed = Older(@, LongEnough)]
  ELSE IF span[p].quiet > Window THEN AtRest
  ELSE [span[p] EXCEPT !.quiet = @ + 1]

Stirred(p, later) ==
  IF Still(p) THEN [AtRest EXCEPT !.quiet = 0]
  ELSE [span[p] EXCEPT !.long = Least(@ + span[p].quiet + later, LongEnough), !.quiet = 0]

Stirs(p) == span' = [span EXCEPT ![p] = Stirred(p, 0)]

(* A screen goes on moving until somebody looks; what a resize did to one  *)
(* that was still is no move.                                              *)
Unseen(p) == screen[p].moved /\ ~ (screen[p].resized /\ Still(p))

(* A first look, and the viewer of an agent that was working, count as     *)
(* moves, and a viewer keeps a move from being seen.                       *)
StirsAnyway(p, o) ==
  /\ due /\ p \in panes
  /\ \/ ~ obs[p].hashed /\ o.output = 0
     \/ screen[p].viewer /\ (StateOf(o) = "Working" \/ Unseen(p))

Moves(p) == screen' = [screen EXCEPT ![p].moved = TRUE]

-----------------------------------------------------------------------------
RanLongEnough(o) == o.since # Never /\ o.since >= MinRun

(* Mutant: a run is never too short.                                       *)
WorthAnyBell(p, o) == focused # p /\ o.own

(* worth_a_bell: not the pane that is typed into, nor one whose last move  *)
(* was an echo, nor one that hardly ran.                                   *)
WorthABell(p, o) == focused # p /\ o.own /\ RanLongEnough(o)

(* tick_agent_bell's new record of a pane.                                 *)
Stamped(p, o) ==
  LET state == IF p \in panes THEN StateOf(o) ELSE "none" IN
    [o EXCEPT !.state = state,
              !.since = IF state # "Working" THEN Never ELSE IF @ = Never THEN 0 ELSE @]

(* One bell for all that finished: those that stopped, those that went     *)
(* from a pane that stays, and the pane that died working.                 *)
SomeoneFinished(known) ==
  \/ \E p \in panes : JustFinished(obs[p].state, StateOf(known[p])) /\ WorthABell(p, known[p])
  \/ died # NoPane /\ RanLongEnough(obs[died])

(* tick: agents are looked at if anybody watches and wants to know; else   *)
(* nothing of them changes.                                                *)
Tick ==
  /\ loop = "runs" /\ "agent-status" \in on /\ watched
  /\ LET known == [p \in Pane |-> Known(p)] IN
       /\ obs' = [p \in Pane |-> Stamped(p, known[p])]
       /\ screen' = IF due THEN [p \in Pane |-> Looked(p)] ELSE screen
       /\ due' = FALSE
       /\ died' = NoPane
       /\ rang' = ("agent-bell" \in on /\ SomeoneFinished(known))
       /\ owed' = IF rang' THEN [p \in Pane |-> 0] ELSE owed
       /\ span' = [p \in Pane |-> IF StirsAnyway(p, known[p]) THEN Stirred(p, 0) ELSE span[p]]
  /\ UNCHANGED <<panes, focused, watched, on, loop, agent, turns, effort, forgotten>>

-----------------------------------------------------------------------------
Happens ==
  /\ loop = "runs" /\ turns < MaxTurns /\ turns' = turns + 1
  /\ rang' = FALSE /\ UNCHANGED forgotten

-----------------------------------------------------------------------------
(* Agents.                                                                 *)

(* An agent starts to stream or to think, asks, falls silent, or paints    *)
(* its footer again.                                                       *)
Turn(p, does) ==
  /\ Happens /\ p \in panes /\ agent[p] \notin {"none", "dead"}
  /\ agent' = [agent EXCEPT ![p] = does]
  /\ Moves(p) /\ Stirs(p)
  /\ IF Works(p) /\ does \in {"silent", "asks"} THEN StopsOwing(p)
     ELSE /\ IF Works(p) \/ does \in {"streams", "thinks"} THEN owed' = [owed EXCEPT ![p] = 0]
             ELSE OwesAnew(p)
          /\ UNCHANGED effort
  /\ UNCHANGED <<panes, focused, watched, on, obs, died, due, loop>>

(* It ends and leaves its shell, or is started from it; or the pane's own  *)
(* program ends.                                                           *)
Becomes(p, what) ==
  /\ Happens /\ p \in panes /\ agent[p] # "dead"
  /\ agent' = [agent EXCEPT ![p] = what]
  /\ screen' = [screen EXCEPT ![p] = [@ EXCEPT !.moved = TRUE, !.viewer = FALSE]]
  /\ Stirs(p)
  /\ IF Works(p) THEN StopsOwing(p) ELSE OwesAnew(p) /\ UNCHANGED effort
  /\ UNCHANGED <<panes, focused, watched, on, obs, died, due, loop>>

Ends(p) == agent[p] # "none" /\ Becomes(p, "none")
Starts(p) == agent[p] = "none" /\ Becomes(p, "silent")
Dies(p) == Becomes(p, "dead")

-----------------------------------------------------------------------------
(* The session.                                                            *)

(* remove_pane; how long it had been working is forgotten by the next tick.*)
Removed(p) ==
  /\ panes' = panes \ {p}
  /\ obs' = [obs EXCEPT ![p] = [Unknown EXCEPT !.since = obs[p].since]]
  /\ screen' = [screen EXCEPT ![p] = [moved |-> FALSE, resized |-> FALSE, viewer |-> FALSE]]
  /\ focused' \in IF focused # p THEN {focused} ELSE IF panes' = {} THEN {NoPane} ELSE panes'
  /\ loop' = IF panes' = {} THEN "ends" ELSE loop

(* note_agent_pane_died, before the pane goes.  Only the last of several   *)
(* deaths between two ticks is remembered, and if that was of a short run, *)
(* none of them rings.                                                     *)
PaneDied(p) ==
  /\ loop = "runs" /\ p \in panes /\ agent[p] = "dead"
  /\ LET noted == obs[p].own /\ watched /\ obs[p].state = "Working" IN
       /\ died' = IF noted THEN p ELSE died
       /\ Removed(p)
       /\ forgotten' = IF noted /\ ~ RanLongEnough(obs[p]) THEN forgotten \cup (Pane \ panes)
                       ELSE forgotten
  /\ owed' = [q \in Pane |-> IF q # p /\ q = focused' THEN 0 ELSE owed[q]]
  /\ effort' = [q \in Pane |-> IF q = focused' THEN 0 ELSE effort[q]]
  /\ rang' = FALSE
  /\ UNCHANGED <<watched, on, due, agent, turns, span>>

(* Mutant: what happened last is left to a tick that does not come.        *)
FlushNothing == UNCHANGED <<died, rang, owed>>

(* flush_agent_bell, on the way out of run.                                *)
FlushAgentBell ==
  /\ died' = NoPane
  /\ rang' = (died # NoPane /\ "agent-bell" \in on /\ RanLongEnough(obs[died]))
  /\ owed' = IF rang' THEN [p \in Pane |-> 0] ELSE owed

Leave ==
  /\ loop = "ends" /\ loop' = "left"
  /\ FlushAgentBell
  /\ UNCHANGED <<panes, focused, watched, on, obs, due, agent, screen, turns, effort, span, forgotten>>

-----------------------------------------------------------------------------
(* Users.                                                                  *)

(* Keys for a pane: typed, when it has the focus, or sent by send-keys.    *)
(* Their echo moves the screen.                                            *)
SendKeys(p) ==
  /\ Happens /\ p \in panes
  /\ obs' = [obs EXCEPT ![p] = NoteInput(@)]
  /\ Moves(p) /\ Stirs(p) /\ Excused({p})
  /\ UNCHANGED <<panes, focused, watched, on, died, due, loop, agent>>

Focus(p) ==
  /\ Happens /\ p \in panes
  /\ focused' = p
  /\ Excused({p})
  /\ UNCHANGED <<panes, watched, on, obs, died, due, loop, agent, screen, span>>

(* A pane's grid reflows; that keeps a moving screen moving.  An agent     *)
(* whose screen is about to count as still is not left alone by it: a      *)
(* footer that goes with the reflow is not missed.                         *)
Resize(p) ==
  /\ Happens /\ p \in panes
  /\ screen' = [screen EXCEPT ![p].moved = TRUE, ![p].resized = TRUE]
  /\ IF Still(p) THEN UNCHANGED span ELSE Stirs(p)
  /\ OwesAnew(p)
  /\ effort' = IF obs[p].output + 1 < Window THEN effort ELSE [effort EXCEPT ![p] = 0]
  /\ UNCHANGED <<panes, focused, watched, on, obs, died, due, loop, agent>>

(* The agent's viewer, over its screen and away.                           *)
View(p) ==
  /\ Happens /\ p \in panes /\ agent[p] \notin {"none", "dead"}
  /\ screen' = [screen EXCEPT ![p].viewer = ~ @]
  /\ Excused({p})
  /\ UNCHANGED <<panes, focused, watched, on, obs, died, due, loop, agent, span>>

(* The last client goes, or a first one comes.                             *)
Watch ==
  /\ Happens
  /\ watched' = ~ watched
  /\ Excused(Pane)
  /\ UNCHANGED <<panes, focused, on, obs, died, due, loop, agent, screen, span>>

SetOption(option) ==
  /\ Happens
  /\ on' = IF option \in on THEN on \ {option} ELSE on \cup {option}
  /\ Excused(Pane)
  /\ UNCHANGED <<panes, focused, watched, obs, died, due, loop, agent, screen, span>>

(* A pane is closed: that is not news.                                     *)
Close(p) ==
  /\ Happens /\ p \in panes
  /\ Removed(p)
  /\ Excused({p, focused'})
  /\ UNCHANGED <<watched, on, died, due, agent, span>>

-----------------------------------------------------------------------------
(* A poll interval goes by.  If nobody looked in it - a script of          *)
(* run-shell holds the loop, or nobody watches or wants to know - it       *)
(* counts neither for a bell that is owed nor for a screen that is quiet.  *)
Pass ==
  /\ loop = "runs"
  /\ due' = TRUE /\ rang' = FALSE
  /\ obs' = [p \in Pane |->
       [obs[p] EXCEPT !.output = Older(@, Window), !.input = Older(@, Grace + 1),
                      !.since = Older(@, MinRun)]]
  /\ screen' = [p \in Pane |-> [screen[p] EXCEPT !.moved = @ \/ agent[p] = "streams"]]
  /\ span' = [p \in Pane |->
       IF Works(p) THEN Stirred(p, 1) ELSE IF Still(p) THEN AtRest ELSE Quieter(p)]
  /\ effort' = [p \in Pane |->
       IF Works(p) /\ p \in panes \ {focused} /\ watched /\ on = Options
            /\ ~ due /\ ~ screen[p].viewer /\ obs[p].own
         THEN IF effort[p] < Enough THEN effort[p] + 1 ELSE effort[p]
         ELSE 0]
  /\ owed' = [p \in Pane |->
       IF ~ due /\ owed[p] \in 1 .. Window + 3 THEN owed[p] + 1 ELSE owed[p]]
  /\ UNCHANGED <<panes, focused, watched, on, died, loop, agent, turns, forgotten>>

Next ==
  \/ Tick \/ Pass \/ Watch \/ Leave
  \/ \E option \in Options : SetOption(option)
  \/ \E p \in Pane :
       \/ \E does \in {"silent", "asks", "streams", "thinks"} : Turn(p, does)
       \/ Ends(p) \/ Starts(p) \/ Dies(p) \/ PaneDied(p)
       \/ SendKeys(p) \/ Focus(p) \/ Resize(p) \/ View(p) \/ Close(p)

Spec == Init /\ [][Next]_vars

-----------------------------------------------------------------------------
(* A bell is earned: it is for a pane that was shown as working, whose     *)
(* screen had been moving, or its agent thinking, for some time.  A screen *)
(* that is painted once, resized or paged through is not worth one.  Time  *)
(* in which nobody looked counts with it, for ran_long_enough measures by  *)
(* the clock: after such a time one repaint is enough (app.rs:1412, though *)
(* the comment above it has it that a repaint never rings).                *)
BellEarned ==
  [][rang' => \E p \in Pane : /\ p = died \/ obs[p].state = "Working"
                              /\ span[p].long + span[p].missed >= LongEnough]_vars

(* A finish is heard: an agent that has worked for long enough, watched    *)
(* and left alone, and stops, exits, or dies with its pane, is followed by *)
(* a bell as soon as its screen has been quiet for the activity time, as   *)
(* far as anybody looks.  Not so the death of a pane that another one,     *)
(* after a short run, followed before the next tick: its bell is lost      *)
(* (app.rs:1438, though the comment above it promises one for them all).   *)
FinishHeard ==
  \A p \in Pane : p \in forgotten \/ /\ owed[p] <= Window + 2
                                     /\ loop = "left" => owed[p] = 0
=============================================================================
