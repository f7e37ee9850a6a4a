-------------------------- MODULE AgentBellProofs --------------------------
(***************************************************************************)
(* That a bell is earned and a finish is heard, for any panes, any times   *)
(* that are configured, and any number of turns.                           *)
(***************************************************************************)
EXTENDS AgentBell, TLAPS

-----------------------------------------------------------------------------
(* The sorts of the variables.                                             *)

Observation ==
  [command : {"none", "other", "agent"}, reading : {"plain", "busy", "asks"},
   hashed : BOOLEAN, output : 0 .. Window, input : 0 .. Grace + 1, own : BOOLEAN,
   state : {"none", "Working", "Waiting", "Idle"}, since : 0 .. Never]

Display == [moved : BOOLEAN, resized : BOOLEAN, viewer : BOOLEAN]

Doing == {"none", "silent", "asks", "streams", "thinks", "dead"}

SessionType ==
  /\ panes \in SUBSET Pane
  /\ focused \in Pane \cup {NoPane}
  /\ watched \in BOOLEAN
  /\ on \in SUBSET Options
  /\ obs \in [Pane -> Observation]
  /\ died \in Pane \cup {NoPane}
  /\ due \in BOOLEAN /\ rang \in BOOLEAN
  /\ loop \in {"runs", "ends", "left"}

OutsideType ==
  /\ agent \in [Pane -> Doing]
  /\ screen \in [Pane -> Display]

Movement == [long : Int, quiet : 0 .. Window + 2, missed : Nat]

HistoryType ==
  /\ effort \in [Pane -> 0 .. Enough]
  /\ owed \in [Pane -> 0 .. Window + 4]
  /\ span \in [Pane -> Movement]
  /\ forgotten \in SUBSET Pane

TypeOK == SessionType /\ OutsideType /\ HistoryType

LEMMA Sizes ==
  /\ Window \in Nat /\ Window >= 1
  /\ MinRun \in Nat /\ MinRun >= 1
  /\ Grace \in Nat /\ Grace >= 1
  /\ Never = MinRun + 1 /\ Enough = MinRun + 2 /\ LongEnough = MinRun - Window - 1
BY AgentAssumption DEF Never, Enough, LongEnough

LEMMA UnknownType == Unknown \in Observation
BY Sizes DEF Unknown, Observation

LEMMA NotedType ==
  ASSUME NEW o \in Observation
  PROVE  NoteOutput(o) \in Observation /\ NoteInput(o) \in Observation
<1>1. 0 \in 0 .. Window /\ 0 \in 0 .. Grace + 1 /\ (o.input > Grace) \in BOOLEAN
  BY Sizes
<1> QED
  BY <1>1 DEF NoteOutput, NoteInput, Observation

LEMMA StateType ==
  ASSUME NEW o \in Observation
  PROVE  /\ StateOf(o) \in {"none", "Working", "Waiting", "Idle"}
         /\ StateOf(o) = "Working" <=> (o.command = "agent" /\ (o.reading = "busy" \/ IsActive(o)))
BY DEF StateOf, Observation

LEMMA KnownType ==
  ASSUME SessionType, OutsideType, NEW p \in Pane
  PROVE  Known(p) \in Observation
<1>1. obs[p] \in Observation
  BY DEF SessionType
<1>2. Shows(p) \in {"plain", "busy", "asks"} /\ Command(p) \in {"none", "other", "agent"}
  BY DEF Shows, Command
<1>3. [obs[p] EXCEPT !.hashed = TRUE, !.reading = Shows(p)] \in Observation
  BY <1>1, <1>2 DEF Observation
<1>4. [obs[p] EXCEPT !.reading = "plain", !.hashed = FALSE] \in Observation
  BY <1>1 DEF Observation
<1>5. Refreshed(p) \in Observation
  BY <1>1, <1>3, <1>4, NotedType DEF Refreshed
<1>6. [Refreshed(p) EXCEPT !.command = Command(p)] \in Observation
  BY <1>2, <1>5 DEF Observation
<1> QED
  BY <1>1, <1>6 DEF Known

LEMMA StampedType ==
  ASSUME NEW p \in Pane, NEW o \in Observation
  PROVE  Stamped(p, o) \in Observation
<1>1. (IF p \in panes THEN StateOf(o) ELSE "none") \in {"none", "Working", "Waiting", "Idle"}
  BY StateType
<1>2. Never \in 0 .. Never /\ 0 \in 0 .. Never
  BY Sizes
<1> QED
  BY <1>1, <1>2 DEF Stamped, Observation

LEMMA StirredType ==
  ASSUME HistoryType, NEW p \in Pane, NEW later \in {0, 1}
  PROVE  /\ Stirred(p, later) \in Movement
         /\ Stirred(p, later).quiet = 0
         /\ Stirred(p, later).missed = IF Still(p) THEN 0 ELSE span[p].missed
         /\ Stirred(p, later).long =
              IF Still(p) THEN 0
              ELSE IF span[p].long + span[p].quiet + later < LongEnough
                   THEN span[p].long + span[p].quiet + later ELSE LongEnough
<1>1. span[p] \in Movement
  BY DEF HistoryType
<1>2. CASE Still(p)
  BY <1>2, Sizes DEF Stirred, AtRest, Movement
<1>3. CASE ~ Still(p)
  <2>1. Stirred(p, later) =
          [span[p] EXCEPT !.long = Least(span[p].long + span[p].quiet + later, LongEnough), !.quiet = 0]
    BY <1>3 DEF Stirred
  <2>2. Least(span[p].long + span[p].quiet + later, LongEnough) \in Int
    BY <1>1, Sizes DEF Least, Movement
  <2>3. /\ Stirred(p, later) \in Movement
        /\ Stirred(p, later).quiet = 0 /\ Stirred(p, later).missed = span[p].missed
        /\ Stirred(p, later).long = Least(span[p].long + span[p].quiet + later, LongEnough)
    <3> DEFINE most == Least(span[p].long + span[p].quiet + later, LongEnough)
    <3>1. Stirred(p, later) = [span[p] EXCEPT !.long = most, !.quiet = 0] /\ most \in Int
      BY <2>1, <2>2
    <3>2. 0 \in 0 .. Window + 2
      BY Sizes
    <3> HIDE DEF most
    <3>3. /\ Stirred(p, later) \in Movement
          /\ Stirred(p, later).quiet = 0 /\ Stirred(p, later).missed = span[p].missed
          /\ Stirred(p, later).long = most
      BY <1>1, <3>1, <3>2 DEF Movement
    <3> QED
      BY <3>3 DEF most
  <2>4. Least(span[p].long + span[p].quiet + later, LongEnough) =
          IF span[p].long + span[p].quiet + later < LongEnough
          THEN span[p].long + span[p].quiet + later ELSE LongEnough
    BY DEF Least
  <2> QED
    BY <1>3, <2>3, <2>4
<1> QED
  BY <1>2, <1>3

LEMMA QuieterType ==
  ASSUME SessionType, HistoryType, NEW p \in Pane
  PROVE  /\ AtRest \in Movement
         /\ Quieter(p) \in Movement
         /\ due => /\ Quieter(p).long = span[p].long /\ Quieter(p).quiet = span[p].quiet
                   /\ Quieter(p).missed = Older(span[p].missed, LongEnough)
         /\ ~ due /\ span[p].quiet <= Window =>
              /\ Quieter(p).long = span[p].long /\ Quieter(p).quiet = span[p].quiet + 1
              /\ Quieter(p).missed = span[p].missed
         /\ ~ due /\ ~ (span[p].quiet <= Window) => Quieter(p) = AtRest
<1>1. span[p] \in Movement /\ AtRest \in Movement
  BY Sizes DEF HistoryType, AtRest, Movement
<1>2. CASE due
  <2>1. Quieter(p) = [span[p] EXCEPT !.missed = Older(span[p].missed, LongEnough)]
    BY <1>2 DEF Quieter
  <2>2. Older(span[p].missed, LongEnough) \in Nat
    BY <1>1, Sizes DEF Older, Movement
  <2> QED
    BY <1>1, <1>2, <2>1, <2>2 DEF Movement
<1>3. CASE ~ due /\ span[p].quiet <= Window
  <2>1. span[p].quiet + 1 \in 0 .. Window + 2 /\ ~ (span[p].quiet > Window)
    BY <1>1, <1>3, Sizes DEF Movement
  <2>2. Quieter(p) = [span[p] EXCEPT !.quiet = span[p].quiet + 1]
    BY <1>3, <2>1 DEF Quieter
  <2> QED
    BY <1>1, <1>3, <2>1, <2>2 DEF Movement
<1>4. CASE ~ due /\ ~ (span[p].quiet <= Window)
  <2>1. span[p].quiet > Window
    BY <1>1, <1>4, Sizes DEF Movement
  <2> QED
    BY <1>1, <1>4, <2>1 DEF Quieter
<1> QED
  BY <1>1, <1>2, <1>3, <1>4

(* What users and agents do to a pane keeps it a pane.                     *)
LEMMA EditTypes ==
  ASSUME SessionType, OutsideType, HistoryType, NEW p \in Pane
  PROVE  /\ [obs EXCEPT ![p] = NoteInput(obs[p])] \in [Pane -> Observation]
         /\ [obs EXCEPT ![p] = [Unknown EXCEPT !.since = obs[p].since]] \in [Pane -> Observation]
         /\ OwesAnew(p) => owed' \in [Pane -> 0 .. Window + 4]
         /\ StopsOwing(p) => effort' \in [Pane -> 0 .. Enough] /\ owed' \in [Pane -> 0 .. Window + 4]
         /\ Stirs(p) => span' \in [Pane -> Movement]
         /\ Moves(p) => screen' \in [Pane -> Display]
<1>1. obs[p] \in Observation /\ obs \in [Pane -> Observation]
  BY DEF SessionType
<1>2. [Unknown EXCEPT !.since = obs[p].since] \in Observation
  BY <1>1, UnknownType DEF Observation
<1>3. [obs EXCEPT ![p] = NoteInput(obs[p])] \in [Pane -> Observation]
  BY <1>1, NotedType
<1>4. [obs EXCEPT ![p] = [Unknown EXCEPT !.since = obs[p].since]] \in [Pane -> Observation]
  BY <1>1, <1>2
<1>6. OwesAnew(p) => owed' \in [Pane -> 0 .. Window + 4]
  BY Sizes DEF OwesAnew, HistoryType, Least
<1>7. StopsOwing(p) => effort' \in [Pane -> 0 .. Enough] /\ owed' \in [Pane -> 0 .. Window + 4]
  BY Sizes DEF StopsOwing, HistoryType
<1>8. Stirs(p) => span' \in [Pane -> Movement]
  BY StirredType DEF Stirs, HistoryType
<1>9. Moves(p) => screen' \in [Pane -> Display]
  BY DEF Moves, OutsideType, Display
<1> QED
  BY <1>3, <1>4, <1>6, <1>7, <1>8, <1>9

LEMMA ExcusedType ==
  ASSUME HistoryType, NEW S, Excused(S)
  PROVE  effort' \in [Pane -> 0 .. Enough] /\ owed' \in [Pane -> 0 .. Window + 4]
BY Sizes DEF Excused, HistoryType

LEMMA InitType == Init => TypeOK
<1> SUFFICES ASSUME Init PROVE TypeOK
  OBVIOUS
<1>1. SessionType
  BY UnknownType DEF Init, SessionType, Options
<1>2. OutsideType
  BY DEF Init, OutsideType, Display, Doing
<1>3. HistoryType
  BY Sizes DEF Init, HistoryType, AtRest, Movement
<1> QED
  BY <1>1, <1>2, <1>3 DEF TypeOK

LEMMA StepType ==
  ASSUME TypeOK, [Next]_vars
  PROVE  TypeOK'
<1> USE DEF TypeOK
<1>1. CASE Tick
  <2>1. \A p \in Pane : Known(p) \in Observation /\ Stamped(p, Known(p)) \in Observation
    BY KnownType, StampedType
  <2>2. obs' = [p \in Pane |-> Stamped(p, [q \in Pane |-> Known(q)][p])]
    BY <1>1 DEF Tick
  <2>3. obs' \in [Pane -> Observation]
    BY <2>1, <2>2
  <2>4. \A p \in Pane : Looked(p) \in Display
    BY DEF Looked, OutsideType, Display
  <2>5. screen' \in [Pane -> Display]
    BY <1>1, <2>4 DEF Tick, OutsideType
  <2>6. SessionType'
    BY <1>1, <2>3 DEF Tick, SessionType
  <2>7. OutsideType'
    BY <1>1, <2>5 DEF Tick, OutsideType
  <2>8. span' \in [Pane -> Movement]
    BY <1>1, StirredType DEF Tick, HistoryType
  <2>9. owed' \in [Pane -> 0 .. Window + 4] /\ UNCHANGED <<effort, forgotten>>
    BY <1>1, Sizes DEF Tick, HistoryType
  <2> QED
    BY <2>6, <2>7, <2>8, <2>9 DEF HistoryType
<1>2. CASE Pass
  <2>1. \A p \in Pane :
          [obs[p] EXCEPT !.output = Older(obs[p].output, Window),
                         !.input = Older(obs[p].input, Grace + 1),
                         !.since = Older(obs[p].since, MinRun)] \in Observation
    <3> TAKE p \in Pane
    <3>1. obs[p] \in Observation
      BY DEF SessionType
    <3>2. /\ obs[p].output \in 0 .. Window /\ obs[p].input \in 0 .. Grace + 1
          /\ obs[p].since \in 0 .. Never
      BY <3>1 DEF Observation
    <3>3. /\ Older(obs[p].output, Window) \in 0 .. Window
          /\ Older(obs[p].input, Grace + 1) \in 0 .. Grace + 1
          /\ Older(obs[p].since, MinRun) \in 0 .. Never
      <4>1. Older(obs[p].output, Window) \in 0 .. Window
        BY <3>2, Sizes DEF Older
      <4>2. Older(obs[p].input, Grace + 1) \in 0 .. Grace + 1
        BY <3>2, Sizes DEF Older
      <4>3. Older(obs[p].since, MinRun) \in 0 .. Never
        BY <3>2, Sizes DEF Older
      <4> QED
        BY <4>1, <4>2, <4>3
    <3> QED
      BY <3>1, <3>3 DEF Observation
  <2>2. obs' \in [Pane -> Observation]
    BY <1>2, <2>1 DEF Pass
  <2>3. screen' \in [Pane -> Display]
    BY <1>2 DEF Pass, OutsideType, Display
  <2>5. span' \in [Pane -> Movement]
    BY <1>2, QuieterType, StirredType DEF Pass
  <2>6. effort' \in [Pane -> 0 .. Enough] /\ owed' \in [Pane -> 0 .. Window + 4]
    <3>1. \A p \in Pane : /\ (IF effort[p] < Enough THEN effort[p] + 1 ELSE effort[p]) \in 0 .. Enough
                          /\ 0 \in 0 .. Enough
                          /\ (IF ~ due /\ owed[p] \in 1 .. Window + 3 THEN owed[p] + 1 ELSE owed[p])
                               \in 0 .. Window + 4
      BY Sizes DEF HistoryType
    <3>2. effort' \in [Pane -> 0 .. Enough]
      BY <1>2, <3>1 DEF Pass
    <3>3. owed' \in [Pane -> 0 .. Window + 4]
      BY <1>2, <3>1 DEF Pass
    <3> QED
      BY <3>2, <3>3
  <2> QED
    BY <1>2, <2>2, <2>3, <2>5, <2>6 DEF Pass, SessionType, OutsideType, HistoryType
<1>3. CASE Watch
  BY <1>3, ExcusedType DEF Watch, Happens, SessionType, OutsideType, HistoryType
<1>4. CASE Leave
  <2>1. SessionType'
    BY <1>4 DEF Leave, FlushAgentBell, SessionType
  <2>2. owed' \in [Pane -> 0 .. Window + 4]
    BY <1>4, Sizes DEF Leave, FlushAgentBell, HistoryType
  <2> QED
    BY <1>4, <2>1, <2>2 DEF Leave, OutsideType, HistoryType
<1>5. ASSUME NEW option \in Options, SetOption(option) PROVE TypeOK'
  BY <1>5, ExcusedType DEF SetOption, Happens, SessionType, OutsideType, HistoryType
<1>6. ASSUME NEW p \in Pane, NEW does \in {"silent", "asks", "streams", "thinks"}, Turn(p, does)
      PROVE  TypeOK'
  <2>1. owed' \in [Pane -> 0 .. Window + 4] /\ effort' \in [Pane -> 0 .. Enough]
    <3>1. [owed EXCEPT ![p] = 0] \in [Pane -> 0 .. Window + 4]
      BY Sizes DEF HistoryType
    <3> QED
      BY <1>6, <3>1, EditTypes DEF Turn, HistoryType
  <2>2. agent' \in [Pane -> Doing] /\ screen' \in [Pane -> Display]
    BY <1>6, EditTypes DEF Turn, OutsideType, Doing
  <2> QED
    BY <1>6, <2>1, <2>2, EditTypes DEF Turn, Happens, SessionType, OutsideType, HistoryType
<1>7. ASSUME NEW p \in Pane, NEW what \in {"none", "silent", "dead"}, Becomes(p, what) PROVE TypeOK'
  <2>1. owed' \in [Pane -> 0 .. Window + 4] /\ effort' \in [Pane -> 0 .. Enough]
    BY <1>7, EditTypes DEF Becomes, HistoryType
  <2>2. agent' \in [Pane -> Doing] /\ screen' \in [Pane -> Display]
    BY <1>7 DEF Becomes, OutsideType, Doing, Display
  <2> QED
    BY <1>7, <2>1, <2>2, EditTypes DEF Becomes, Happens, SessionType, OutsideType, HistoryType
<1>8. ASSUME NEW p \in Pane, Removed(p)
      PROVE  /\ panes' \in SUBSET Pane /\ focused' \in Pane \cup {NoPane}
             /\ obs' \in [Pane -> Observation] /\ screen' \in [Pane -> Display]
             /\ loop' \in {"runs", "ends", "left"}
  BY <1>8, EditTypes DEF Removed, SessionType, OutsideType, Display
<1>9. ASSUME NEW p \in Pane, PaneDied(p) PROVE TypeOK'
  <2>1. owed' \in [Pane -> 0 .. Window + 4] /\ effort' \in [Pane -> 0 .. Enough]
    BY <1>9, Sizes DEF PaneDied, HistoryType
  <2>2. forgotten' \in SUBSET Pane
    BY <1>9 DEF PaneDied, HistoryType
  <2> QED
    BY <1>8, <1>9, <2>1, <2>2 DEF PaneDied, SessionType, OutsideType, HistoryType
<1>10. ASSUME NEW p \in Pane, SendKeys(p) PROVE TypeOK'
  BY <1>10, EditTypes, ExcusedType DEF SendKeys, Happens, SessionType, OutsideType, HistoryType
<1>11. ASSUME NEW p \in Pane, Focus(p) PROVE TypeOK'
  BY <1>11, ExcusedType DEF Focus, Happens, SessionType, OutsideType, HistoryType
<1>12. ASSUME NEW p \in Pane, Resize(p) PROVE TypeOK'
  <2>1. screen' \in [Pane -> Display]
    BY <1>12 DEF Resize, OutsideType, Display
  <2>2. effort' \in [Pane -> 0 .. Enough]
    BY <1>12, Sizes DEF Resize, HistoryType
  <2>3. owed' \in [Pane -> 0 .. Window + 4]
    BY <1>12, EditTypes DEF Resize
  <2>4. span' \in [Pane -> Movement]
    BY <1>12, EditTypes DEF Resize, HistoryType
  <2> QED
    BY <1>12, <2>1, <2>2, <2>3, <2>4 DEF Resize, Happens, SessionType, OutsideType, HistoryType
<1>13. ASSUME NEW p \in Pane, View(p) PROVE TypeOK'
  <2>1. screen' \in [Pane -> Display]
    BY <1>13 DEF View, OutsideType, Display
  <2> QED
    BY <1>13, <2>1, ExcusedType DEF View, Happens, SessionType, OutsideType, HistoryType
<1>14. ASSUME NEW p \in Pane, Close(p) PROVE TypeOK'
  <2>1. /\ panes' \in SUBSET Pane /\ focused' \in Pane \cup {NoPane}
        /\ obs' \in [Pane -> Observation] /\ screen' \in [Pane -> Display]
        /\ loop' \in {"runs", "ends", "left"}
    BY <1>8, <1>14 DEF Close
  <2>2. effort' \in [Pane -> 0 .. Enough] /\ owed' \in [Pane -> 0 .. Window + 4]
    BY <1>14, ExcusedType DEF Close
  <2> QED
    BY <1>14, <2>1, <2>2 DEF Close, Happens, SessionType, OutsideType, HistoryType
<1>15. CASE UNCHANGED vars
  BY <1>15 DEF vars, outside, history, SessionType, OutsideType, HistoryType
<1> QED
  BY <1>1, <1>2, <1>3, <1>4, <1>5, <1>6, <1>7, <1>9, <1>10, <1>11, <1>12, <1>13, <1>14, <1>15
     DEF Next, Ends, Starts, Dies

(* The session, its panes and the histories keep to their sorts, for any   *)
(* panes, times and turns.                                                 *)
THEOREM TypeCorrect == Spec => []TypeOK
  BY InitType, StepType, PTL DEF Spec

-----------------------------------------------------------------------------
(* The inductive invariant: what is so of every pane.                      *)

(* What nobody has looked at in this interval may be one interval late.    *)
Slack == IF due THEN 1 ELSE 0

(* What the session knows of a pane agrees with itself: a pane that shows  *)
(* as working runs an agent and has a start; between polls its state is    *)
(* that of its command, reading and output; and a pane that is gone or     *)
(* runs nothing has neither.                                               *)
KnownOK(p) ==
  LET o == obs[p] IN
  /\ o.own => o.input > Grace
  /\ screen[p].viewer => p \in panes /\ agent[p] \notin {"none", "dead"}
  /\ p \notin panes => /\ o.command = "none" /\ o.reading = "plain" /\ o.state = "none"
                       /\ o.output = Window /\ ~ o.hashed
  /\ p = died => p \notin panes
  /\ agent[p] # "dead" => /\ o.command = "none" => ~ o.hashed
                          /\ ~ o.hashed => o.output = Window /\ o.reading = "plain"
  /\ o.reading = "busy" => o.state = "Working"
  /\ o.state = "Working" => o.command = "agent" /\ o.hashed
  /\ p \in panes => (o.state = "Working" <=> o.since # Never)
  /\ ~ due /\ p \in panes => o.state = StateOf(o)
  /\ p \in panes /\ due /\ agent[p] = "streams" => screen[p].moved

(* The screen of a pane that counts as active has moved as lately as that, *)
(* one that nobody has looked at since it moved is moving still, and a     *)
(* pane that shows as working has been moving since it did.                *)
SpanOK(p) ==
  LET o == obs[p]  s == span[p] IN
  /\ s.long >= 0 \/ s.long >= LongEnough
  /\ IsActive(o) => s.quiet <= o.output + 1
  /\ Unseen(p) /\ o.hashed => s.quiet <= Slack
  /\ agent[p] = "thinks" => s.quiet = 0
  /\ o.state = "Working" \/ p = died =>
       /\ s.quiet <= Window + Slack
       /\ o.since # Never
       /\ s.long + s.missed >= LongEnough \/ o.since <= s.long + s.quiet + s.missed

(* Watched, and left alone by the user.                                    *)
Alone(p) == p # focused /\ watched /\ on = Options /\ obs[p].own

(* An agent that works alone shows as working within two intervals, and    *)
(* has done so since: its screen is looked at in every one, and a resize   *)
(* hides nothing from a look while the pane is active.                     *)
EffortOK(p) ==
  LET o == obs[p]  e == effort[p] IN
  e > 0 =>
    /\ p \in panes /\ Alone(p) /\ Works(p) /\ ~ screen[p].viewer
    /\ IF o.state = "Working" THEN o.since >= MinRun \/ e <= o.since + 2 ELSE e <= 1 + Slack
    /\ ~ due \/ e >= 2 =>
         /\ o.command = "agent"
         /\ screen[p].resized /\ o.hashed => o.output + (IF due THEN 0 ELSE 1) < Window

(* A bell that is due comes when the pane stops showing as working, after  *)
(* a run that was long enough, and nothing holds that up for longer than   *)
(* the activity time: each look finds the screen as it was, or starts the  *)
(* wait anew.  Of a pane that is gone it comes with the next tick, for     *)
(* that pane or another that died after it, unless that one's run was too  *)
(* short.                                                                  *)
OwedOK(p) ==
  LET o == obs[p]  k == owed[p] IN
  /\ p \in forgotten => p \notin panes
  /\ k > 0 /\ p \notin forgotten =>
       /\ Alone(p) /\ o.since = MinRun
       /\ k <= Window + 1 + Slack
       /\ loop # "left"
       /\ p \notin panes => died # NoPane /\ RanLongEnough(obs[died])
       /\ p \in panes =>
            /\ o.state = "Working" /\ ~ Works(p) /\ ~ screen[p].viewer
            /\ IF screen[p].moved THEN k <= 1 + Slack
               ELSE o.reading # "busy" /\ k <= o.output + 2

PaneOK(p) == KnownOK(p) /\ SpanOK(p) /\ EffortOK(p) /\ OwedOK(p)

BellInv ==
  /\ loop = "runs" \/ panes = {}
  /\ \A p \in Pane : PaneOK(p)

(* Reading off the sorts of one pane.                                      *)
LEMMA PaneType ==
  ASSUME TypeOK, NEW p \in Pane
  PROVE  /\ obs[p] \in Observation /\ screen[p] \in Display /\ agent[p] \in Doing
         /\ effort[p] \in 0 .. Enough /\ owed[p] \in 0 .. Window + 4
         /\ span[p] \in Movement
BY DEF TypeOK, SessionType, OutsideType, HistoryType

(* A pane that a step does nothing to, but for excusing it.                *)
LEMMA Unmoved ==
  ASSUME TypeOK, NEW p \in Pane, PaneOK(p),
         obs'[p] = obs[p], screen'[p] = screen[p], span'[p] = span[p], agent'[p] = agent[p],
         p \in panes' <=> p \in panes, p = died' => p = died,
         due' = due, p \in forgotten => p \in forgotten', p \in forgotten' => p \notin panes',
         effort'[p] \in {0, effort[p]}, owed'[p] \in {0, owed[p]},
         effort'[p] > 0 => p # focused' /\ watched' = watched /\ on' = on,
         owed'[p] > 0 /\ p \notin forgotten' =>
           /\ p # focused' /\ watched' = watched /\ on' = on /\ loop' # "left"
           /\ p \notin panes /\ died # NoPane /\ RanLongEnough(obs[died]) =>
                died' # NoPane /\ RanLongEnough(obs'[died'])
  PROVE  PaneOK(p)'
<1> USE DEF PaneOK
<1>1. KnownOK(p)'
  BY DEF KnownOK, StateOf, IsActive
<1>2. SpanOK(p)'
  BY DEF SpanOK, IsActive, Unseen, Still, Slack
<1>3. EffortOK(p)'
  BY PaneType DEF EffortOK, Alone, Works, Slack
<1>4. OwedOK(p)'
  BY PaneType DEF OwedOK, Alone, Works, Slack
<1> QED
  BY <1>1, <1>2, <1>3, <1>4

LEMMA BellInit == Init => BellInv
<1> SUFFICES ASSUME Init PROVE BellInv
  OBVIOUS
<1>1. \A p \in Pane : PaneOK(p)
  <2> TAKE p \in Pane
  <2>1. /\ obs[p] = Unknown /\ screen[p] = [moved |-> FALSE, resized |-> FALSE, viewer |-> FALSE]
        /\ effort[p] = 0 /\ owed[p] = 0 /\ span[p] = AtRest /\ p \notin forgotten
        /\ p # died /\ agent[p] \in {"none", "streams"} /\ p \in panes /\ ~ due
    BY AgentAssumption DEF Init
  <2>2. KnownOK(p)
    BY <2>1, Sizes DEF KnownOK, Unknown, StateOf
  <2>3. SpanOK(p)
    BY <2>1, Sizes DEF SpanOK, AtRest, Unknown, IsActive, Unseen
  <2>4. EffortOK(p) /\ OwedOK(p)
    BY <2>1 DEF EffortOK, OwedOK
  <2> QED
    BY <2>2, <2>3, <2>4 DEF PaneOK
<1> QED
  BY <1>1 DEF BellInv, Init

-----------------------------------------------------------------------------
(* Each step keeps the invariant.                                          *)

(* What is done to one pane, or for its focus, leaves the others as they   *)
(* were.                                                                   *)
LEMMA Others ==
  ASSUME TypeOK, BellInv, NEW p \in Pane, NEW q \in Pane, q # p, p \in panes, loop = "runs",
         UNCHANGED <<panes, watched, on, died, due, loop, forgotten>>, focused' \in {focused, p},
         \A r \in Pane : r # p => obs'[r] = obs[r],
         screen'[q] = screen[q], span'[q] = span[q], agent'[q] = agent[q],
         effort'[q] \in {0, effort[q]}, owed'[q] \in {0, owed[q]}
  PROVE  PaneOK(q)'
<1>1. PaneOK(q)
  BY DEF BellInv
<1>2. (owed'[q] > 0 /\ q \notin forgotten) \/ effort'[q] > 0 => q # focused'
  BY <1>1, PaneType DEF PaneOK, OwedOK, EffortOK, Alone
<1>3. q \in forgotten => q \notin panes
  BY <1>1 DEF PaneOK, OwedOK
<1>4. died # NoPane => obs'[died] = obs[died]
  BY DEF BellInv, PaneOK, KnownOK, TypeOK, SessionType
<1> QED
  BY <1>1, <1>2, <1>3, <1>4, Unmoved DEF RanLongEnough

(* An agent that has worked alone for long enough shows as having run for  *)
(* long enough.                                                            *)
LEMMA LongRun ==
  ASSUME TypeOK, NEW p \in Pane, KnownOK(p), EffortOK(p), effort[p] >= Enough
  PROVE  /\ p \in panes /\ Alone(p) /\ ~ screen[p].viewer 
         /\ obs[p].state = "Working" /\ obs[p].since = MinRun
BY PaneType, Sizes DEF KnownOK, EffortOK, Observation, Slack

(* What is typed by nobody, but moves a screen: what the agent does.       *)
LEMMA TurnKeeps ==
  ASSUME TypeOK, BellInv, NEW p \in Pane,
         NEW does \in {"silent", "asks", "streams", "thinks"}, Turn(p, does)
  PROVE  BellInv'
<1> USE DEF BellInv
<1>1. ASSUME NEW q \in Pane, q # p PROVE PaneOK(q)'
  BY <1>1, Others DEF Turn, Happens, StopsOwing, OwesAnew, Moves, Stirs, TypeOK, OutsideType, HistoryType
<1>2. PaneOK(p)'
  <2>1. /\ KnownOK(p) /\ SpanOK(p) /\ EffortOK(p) /\ OwedOK(p)
        /\ p \in panes /\ agent[p] \notin {"none", "dead"} /\ loop = "runs"
        /\ UNCHANGED <<panes, focused, watched, on, obs, died, due, loop, forgotten>>
    BY DEF PaneOK, Turn, Happens
  <2>2. agent'[p] = does /\ screen'[p] = [screen[p] EXCEPT !.moved = TRUE] /\ span'[p] = Stirred(p, 0)
    BY DEF Turn, Moves, Stirs, TypeOK, OutsideType, HistoryType
  <2>3. /\ screen'[p].moved /\ screen'[p].resized = screen[p].resized
        /\ screen'[p].viewer = screen[p].viewer
    BY <2>2, PaneType DEF Display
  <2>4. KnownOK(p)'
    BY <2>1, <2>2, <2>3 DEF KnownOK, StateOf, IsActive
  <2>5. SpanOK(p)'
    BY <2>1, <2>2, <2>3, PaneType, StirredType, Sizes
       DEF TypeOK, SpanOK, KnownOK, IsActive, Unseen, Still, Slack, Observation, Movement
  <2>6. EffortOK(p)'
    BY <2>1, <2>2, <2>3, PaneType, Sizes
       DEF Turn, StopsOwing, EffortOK, Alone, Works, Slack, TypeOK, HistoryType
  <2>7. OwedOK(p)'
    <3>1. CASE Works(p) /\ does \in {"silent", "asks"}
      <4>1. StopsOwing(p)
        BY <3>1 DEF Turn
      <4>2. owed[p] = 0
        BY <2>1, <3>1, PaneType DEF OwedOK
      <4>3. owed'[p] = IF effort[p] >= Enough THEN 1 ELSE 0
        BY <4>1, <4>2 DEF StopsOwing, TypeOK, HistoryType
      <4>4. CASE effort[p] >= Enough
        <5>1. /\ Alone(p) /\ ~ screen[p].viewer 
              /\ obs[p].state = "Working" /\ obs[p].since = MinRun
          BY <2>1, <4>4, LongRun
        <5> QED
          BY <2>1, <2>2, <2>3, <3>1, <4>3, <5>1, Sizes DEF OwedOK, Works, Slack, Alone
      <4> QED
        BY <2>1, <4>3, <4>4 DEF OwedOK
    <3>2. CASE ~ (Works(p) /\ does \in {"silent", "asks"})
      <4>1. owed'[p] = IF Works(p) \/ does \in {"streams", "thinks"} THEN 0 ELSE Least(owed[p], 1)
        BY <3>2 DEF Turn, OwesAnew, TypeOK, HistoryType
      <4>2. owed'[p] > 0 => owed'[p] = 1 /\ owed[p] > 0 /\ does \notin {"streams", "thinks"}
        BY <4>1, PaneType, Sizes DEF Least
      <4> QED
        BY <2>1, <2>2, <2>3, <4>2, Sizes DEF OwedOK, Works, Slack, Alone
    <3> QED
      BY <3>1, <3>2
  <2> QED
    BY <2>4, <2>5, <2>6, <2>7 DEF PaneOK
<1> QED
  BY <1>1, <1>2 DEF Turn, Happens

(* An agent ends, is started, or dies.                                     *)
LEMMA BecomesKeeps ==
  ASSUME TypeOK, BellInv, NEW p \in Pane, NEW what \in {"none", "silent", "dead"},
         Becomes(p, what)
  PROVE  BellInv'
<1> USE DEF BellInv
<1>1. ASSUME NEW q \in Pane, q # p PROVE PaneOK(q)'
  BY <1>1, Others DEF Becomes, Happens, StopsOwing, OwesAnew, Stirs, TypeOK, OutsideType, HistoryType
<1>2. PaneOK(p)'
  <2>1. /\ KnownOK(p) /\ SpanOK(p) /\ EffortOK(p) /\ OwedOK(p)
        /\ p \in panes /\ agent[p] # "dead" /\ loop = "runs"
        /\ UNCHANGED <<panes, focused, watched, on, obs, died, due, loop, forgotten>>
    BY DEF PaneOK, Becomes, Happens
  <2>2. /\ agent'[p] = what /\ span'[p] = Stirred(p, 0)
        /\ screen'[p] = [screen[p] EXCEPT !.moved = TRUE, !.viewer = FALSE]
    BY DEF Becomes, Stirs, TypeOK, OutsideType, HistoryType
  <2>3. /\ screen'[p].moved /\ ~ screen'[p].viewer /\ screen'[p].resized = screen[p].resized
    BY <2>2, PaneType DEF Display
  <2>4. KnownOK(p)'
    BY <2>1, <2>2, <2>3 DEF KnownOK, StateOf, IsActive
  <2>5. SpanOK(p)'
    BY <2>1, <2>2, <2>3, PaneType, StirredType, Sizes
       DEF TypeOK, SpanOK, KnownOK, IsActive, Unseen, Still, Slack, Observation, Movement
  <2>6. EffortOK(p)'
    BY <2>1, <2>2, <2>3, PaneType, Sizes
       DEF Becomes, StopsOwing, EffortOK, Alone, Works, Slack, TypeOK, HistoryType
  <2>7. OwedOK(p)'
    <3>1. CASE Works(p)
      <4>1. owed'[p] = IF effort[p] >= Enough THEN 1 ELSE 0
        BY <2>1, <3>1, PaneType DEF Becomes, StopsOwing, OwedOK, TypeOK, HistoryType
      <4>2. CASE effort[p] >= Enough
        <5>1. /\ Alone(p) 
              /\ obs[p].state = "Working" /\ obs[p].since = MinRun
          BY <2>1, <4>2, LongRun
        <5> QED
          BY <2>1, <2>2, <2>3, <4>1, <5>1, Sizes DEF OwedOK, Works, Slack, Alone
      <4> QED
        BY <2>1, <4>1, <4>2 DEF OwedOK
    <3>2. CASE ~ Works(p)
      <4>1. owed'[p] > 0 => owed'[p] = 1 /\ owed[p] > 0
        BY <3>2, PaneType, Sizes DEF Becomes, OwesAnew, Least, TypeOK, HistoryType
      <4> QED
        BY <2>1, <2>2, <2>3, <4>1, Sizes DEF OwedOK, Works, Slack, Alone
    <3> QED
      BY <3>1, <3>2
  <2> QED
    BY <2>4, <2>5, <2>6, <2>7 DEF PaneOK
<1> QED
  BY <1>1, <1>2 DEF Becomes, Happens

LEMMA SendKeysKeeps ==
  ASSUME TypeOK, BellInv, NEW p \in Pane, SendKeys(p)
  PROVE  BellInv'
<1> USE DEF BellInv
<1>1. ASSUME NEW q \in Pane, q # p PROVE PaneOK(q)'
  BY <1>1, Others
     DEF SendKeys, Happens, Excused, Moves, Stirs, TypeOK, SessionType, OutsideType, HistoryType
<1>2. PaneOK(p)'
  <2>1. /\ KnownOK(p) /\ SpanOK(p) /\ OwedOK(p) /\ p \in panes
        /\ UNCHANGED <<panes, focused, watched, on, died, due, loop, agent, forgotten>>
    BY DEF PaneOK, SendKeys, Happens
  <2>2. /\ effort'[p] = 0 /\ owed'[p] = 0 /\ span'[p] = Stirred(p, 0)
        /\ obs'[p] = NoteInput(obs[p]) /\ screen'[p] = [screen[p] EXCEPT !.moved = TRUE]
    BY DEF SendKeys, Excused, Moves, Stirs, TypeOK, SessionType, OutsideType, HistoryType
  <2>3. /\ screen'[p].moved /\ screen'[p].resized = screen[p].resized
        /\ screen'[p].viewer = screen[p].viewer
    BY <2>2, PaneType DEF Display
  <2>4. /\ ~ obs'[p].own /\ obs'[p].command = obs[p].command /\ obs'[p].reading = obs[p].reading
        /\ obs'[p].hashed = obs[p].hashed /\ obs'[p].output = obs[p].output
        /\ obs'[p].state = obs[p].state /\ obs'[p].since = obs[p].since
    BY <2>2, PaneType DEF NoteInput, Observation
  <2>5. KnownOK(p)'
    BY <2>1, <2>3, <2>4 DEF KnownOK, StateOf, IsActive
  <2>6. SpanOK(p)'
    BY <2>1, <2>2, <2>3, <2>4, PaneType, StirredType, Sizes
       DEF TypeOK, SpanOK, KnownOK, IsActive, Unseen, Still, Slack, Observation, Movement
  <2> QED
    BY <2>1, <2>2, <2>5, <2>6 DEF PaneOK, EffortOK, OwedOK
<1> QED
  BY <1>1, <1>2 DEF SendKeys, Happens

LEMMA FocusKeeps ==
  ASSUME TypeOK, BellInv, NEW p \in Pane, Focus(p)
  PROVE  BellInv'
<1> USE DEF BellInv
<1>1. ASSUME NEW q \in Pane, q # p PROVE PaneOK(q)'
  BY <1>1, Others DEF Focus, Happens, Excused, TypeOK, HistoryType
<1>2. effort'[p] = 0 /\ owed'[p] = 0
  BY DEF Focus, Excused
<1>3. PaneOK(p)'
  BY <1>2, Unmoved DEF Focus, Happens, PaneOK, OwedOK
<1> QED
  BY <1>1, <1>3 DEF Focus, Happens

LEMMA ResizeKeeps ==
  ASSUME TypeOK, BellInv, NEW p \in Pane, Resize(p)
  PROVE  BellInv'
<1> USE DEF BellInv
<1>1. ASSUME NEW q \in Pane, q # p PROVE PaneOK(q)'
  BY <1>1, Others DEF Resize, Happens, OwesAnew, Stirs, TypeOK, OutsideType, HistoryType
<1>2. PaneOK(p)'
  <2>1. /\ KnownOK(p) /\ SpanOK(p) /\ EffortOK(p) /\ OwedOK(p) /\ p \in panes
        /\ UNCHANGED <<panes, focused, watched, on, obs, died, due, loop, agent, forgotten>>
    BY DEF PaneOK, Resize, Happens
  <2>2. /\ span'[p] = IF Still(p) THEN span[p] ELSE Stirred(p, 0)
        /\ screen'[p] = [screen[p] EXCEPT !.moved = TRUE, !.resized = TRUE]
        /\ effort'[p] = IF obs[p].output + 1 < Window THEN effort[p] ELSE 0
        /\ owed'[p] = Least(owed[p], 1)
    BY DEF Resize, Stirs, OwesAnew, TypeOK, OutsideType, HistoryType
  <2>3. screen'[p].moved /\ screen'[p].resized /\ screen'[p].viewer = screen[p].viewer
    BY <2>2, PaneType DEF Display
  <2>4. KnownOK(p)'
    BY <2>1, <2>3 DEF KnownOK, StateOf, IsActive
  <2>5. SpanOK(p)'
    BY <2>1, <2>2, <2>3, PaneType, StirredType, Sizes
       DEF TypeOK, SpanOK, KnownOK, IsActive, Unseen, Still, Slack, Observation, Movement
  <2>6. EffortOK(p)'
    BY <2>1, <2>2, <2>3, PaneType, Sizes DEF EffortOK, Alone, Works, Slack, Observation
  <2>7. OwedOK(p)'
    <3>1. owed'[p] > 0 => owed'[p] = 1 /\ owed[p] > 0
      BY <2>2, PaneType, Sizes DEF Least
    <3> QED
      BY <2>1, <2>3, <3>1, Sizes DEF OwedOK, Works, Slack, Alone
  <2> QED
    BY <2>4, <2>5, <2>6, <2>7 DEF PaneOK
<1> QED
  BY <1>1, <1>2 DEF Resize, Happens

LEMMA ViewKeeps ==
  ASSUME TypeOK, BellInv, NEW p \in Pane, View(p)
  PROVE  BellInv'
<1> USE DEF BellInv
<1>1. ASSUME NEW q \in Pane, q # p PROVE PaneOK(q)'
  BY <1>1, Others DEF View, Happens, Excused, TypeOK, OutsideType, HistoryType
<1>2. PaneOK(p)'
  <2>1. /\ KnownOK(p) /\ SpanOK(p) /\ OwedOK(p) /\ p \in panes /\ agent[p] \notin {"none", "dead"}
        /\ UNCHANGED <<panes, focused, watched, on, obs, died, due, loop, agent, span, forgotten>>
    BY DEF PaneOK, View, Happens
  <2>2. /\ effort'[p] = 0 /\ owed'[p] = 0
        /\ screen'[p] = [screen[p] EXCEPT !.viewer = ~ screen[p].viewer]
    BY DEF View, Excused, TypeOK, OutsideType, HistoryType
  <2>3. screen'[p].moved = screen[p].moved /\ screen'[p].resized = screen[p].resized
    BY <2>2, PaneType DEF Display
  <2>4. KnownOK(p)'
    BY <2>1, <2>3 DEF KnownOK, StateOf, IsActive
  <2>5. SpanOK(p)'
    BY <2>1, <2>3 DEF SpanOK, IsActive, Unseen, Still, Slack
  <2> QED
    BY <2>1, <2>2, <2>4, <2>5 DEF PaneOK, EffortOK, OwedOK
<1> QED
  BY <1>1, <1>2 DEF View, Happens

LEMMA WatchKeeps ==
  ASSUME TypeOK, BellInv, Watch \/ \E option \in Options : SetOption(option)
  PROVE  BellInv'
<1>1. /\ UNCHANGED <<panes, focused, obs, died, due, loop, agent, screen, span, forgotten>>
      /\ loop = "runs" /\ Excused(Pane)
  BY DEF Watch, SetOption, Happens
<1>2. ASSUME NEW p \in Pane PROVE PaneOK(p)'
  <2>1. PaneOK(p) /\ effort'[p] = 0 /\ owed'[p] = 0
    BY <1>1 DEF BellInv, Excused
  <2> QED
    BY <1>1, <2>1, Unmoved DEF PaneOK, OwedOK
<1> QED
  BY <1>1, <1>2 DEF BellInv

(* Once the last pane is gone, a bell that is due is rung on the way out.  *)
LEMMA LeaveKeeps ==
  ASSUME TypeOK, BellInv, Leave
  PROVE  BellInv'
<1>1. /\ UNCHANGED <<panes, focused, watched, on, obs, due, agent, screen, effort, span, forgotten>>
      /\ loop = "ends" /\ panes = {} /\ died' = NoPane
  BY DEF Leave, FlushAgentBell, BellInv
<1>2. ASSUME NEW p \in Pane PROVE PaneOK(p)'
  <2>1. PaneOK(p) /\ p # NoPane
    BY AgentAssumption DEF BellInv
  <2>2. p \notin forgotten => owed'[p] = 0
    <3>1. CASE owed[p] > 0 /\ p \notin forgotten
      <4>2. died # NoPane /\ "agent-bell" \in on /\ RanLongEnough(obs[died])
        BY <1>1, <2>1, <3>1 DEF PaneOK, OwedOK, Alone, Options
      <4>3. rang' = (died # NoPane /\ "agent-bell" \in on /\ RanLongEnough(obs[died]))
        BY DEF Leave, FlushAgentBell
      <4>4. rang'
        BY <4>2, <4>3, Zenon
      <4> QED
        BY <4>4 DEF Leave, FlushAgentBell
    <3>2. CASE ~ (owed[p] > 0)
      BY <3>2, PaneType DEF Leave, FlushAgentBell
    <3> QED
      BY <3>1, <3>2
  <2>4. owed'[p] \in {0, owed[p]}
    BY DEF Leave, FlushAgentBell
  <2>3. effort'[p] = effort[p] /\ effort[p] = 0
    BY <1>1, <2>1, PaneType DEF PaneOK, EffortOK
  <2> QED
    BY <1>1, <2>1, <2>2, <2>3, <2>4, Unmoved
<1> QED
  BY <1>1, <1>2 DEF BellInv

(* A pane goes, closed or with its program: nothing but how long it worked *)
(* is kept of it, and that only where its death was noted.                 *)
LEMMA RemovedKnown ==
  ASSUME TypeOK, BellInv, NEW p \in Pane, p \in panes, Removed(p), due' = due,
         agent' = agent
  PROVE  /\ obs'[p].command = "none" /\ obs'[p].state = "none" /\ obs'[p].output = Window
         /\ obs'[p].own /\ obs'[p].since = obs[p].since /\ ~ obs'[p].hashed
         /\ ~ screen'[p].moved /\ p \notin panes' /\ p # focused'
         /\ KnownOK(p)'
<1>1. /\ obs'[p] = [Unknown EXCEPT !.since = obs[p].since]
      /\ screen'[p] = [moved |-> FALSE, resized |-> FALSE, viewer |-> FALSE]
  BY DEF Removed, TypeOK, SessionType, OutsideType
<1>2. p \notin panes' /\ p # focused'
  BY AgentAssumption DEF Removed
<1>3. /\ obs'[p].command = "none" /\ obs'[p].state = "none" /\ obs'[p].output = Window
      /\ obs'[p].own /\ obs'[p].since = obs[p].since /\ ~ obs'[p].hashed
      /\ obs'[p].reading = "plain" /\ obs'[p].input = Grace + 1
      /\ ~ screen'[p].moved /\ ~ screen'[p].viewer
  BY <1>1, PaneType DEF Unknown, Observation
<1>4. KnownOK(p)'
  BY <1>2, <1>3, Sizes DEF KnownOK
<1> QED
  BY <1>2, <1>3, <1>4

LEMMA CloseKeeps ==
  ASSUME TypeOK, BellInv, NEW p \in Pane, Close(p)
  PROVE  BellInv'
<1>1. /\ p \in panes /\ Removed(p) /\ loop = "runs" /\ Excused({p, focused'})
      /\ UNCHANGED <<watched, on, died, due, agent, span, forgotten>>
  BY DEF Close, Happens
<1>2. ASSUME NEW q \in Pane, q # p PROVE PaneOK(q)'
  <2>1. PaneOK(q) /\ obs'[q] = obs[q] /\ screen'[q] = screen[q] /\ (q \in panes' <=> q \in panes)
    BY <1>1, <1>2 DEF BellInv, Removed, TypeOK, SessionType, OutsideType
  <2>2. loop' # "left"
    BY <1>1 DEF Removed
  <2>3. /\ effort'[q] \in {0, effort[q]} /\ owed'[q] \in {0, owed[q]}
        /\ q = focused' => effort'[q] = 0 /\ owed'[q] = 0
    BY <1>1 DEF Excused
  <2>4. died # NoPane => obs'[died] = obs[died]
    BY <1>1 DEF BellInv, PaneOK, KnownOK, Removed, TypeOK, SessionType
  <2> QED
    BY <1>1, <2>1, <2>2, <2>3, <2>4, Unmoved DEF PaneOK, OwedOK, RanLongEnough
<1>3. PaneOK(p)'
  <2>1. KnownOK(p) /\ SpanOK(p)
    BY DEF BellInv, PaneOK
  <2>2. effort'[p] = 0 /\ owed'[p] = 0
    BY <1>1 DEF Excused
  <2>3. SpanOK(p)'
    BY <1>1, <2>1, RemovedKnown, Sizes, PaneType DEF SpanOK, KnownOK, IsActive, Unseen
  <2> QED
    BY <1>1, <2>2, <2>3, RemovedKnown, PaneType DEF PaneOK, EffortOK, OwedOK
<1>4. loop' = "runs" \/ panes' = {}
  BY <1>1 DEF Removed
<1> QED
  BY <1>2, <1>3, <1>4 DEF BellInv

LEMMA PaneDiedKeeps ==
  ASSUME TypeOK, BellInv, NEW p \in Pane, PaneDied(p)
  PROVE  BellInv'
<1> DEFINE noted == obs[p].own /\ watched /\ obs[p].state = "Working"
<1>1. /\ p \in panes /\ Removed(p) /\ loop = "runs" /\ agent[p] = "dead"
      /\ UNCHANGED <<watched, on, due, agent, span>>
      /\ died' = IF noted THEN p ELSE died
      /\ forgotten' = IF noted /\ ~ RanLongEnough(obs[p]) THEN forgotten \cup (Pane \ panes) ELSE forgotten
  BY DEF PaneDied
<1>2. ASSUME NEW q \in Pane, q # p PROVE PaneOK(q)'
  <2>1. PaneOK(q) /\ obs'[q] = obs[q] /\ screen'[q] = screen[q] /\ (q \in panes' <=> q \in panes)
    BY <1>1, <1>2 DEF BellInv, Removed, TypeOK, SessionType, OutsideType
  <2>2. loop' # "left"
    BY <1>1 DEF Removed
  <2>3. effort'[q] = IF q = focused' THEN 0 ELSE effort[q]
    BY DEF PaneDied
  <2>4. owed'[q] = IF q = focused' THEN 0 ELSE owed[q]
    BY <1>2 DEF PaneDied
  <2>5. q = died => q \notin panes
    BY <2>1 DEF PaneOK, KnownOK
  <2>6. obs'[p].since = obs[p].since
    BY <1>1, RemovedKnown
  <2>7. died # NoPane => obs'[died] = obs[died]
    BY <1>1 DEF BellInv, PaneOK, KnownOK, Removed, TypeOK, SessionType
  <2>8. q \notin panes /\ q \notin forgotten' /\ died # NoPane /\ RanLongEnough(obs[died]) =>
          died' # NoPane /\ RanLongEnough(obs'[died'])
    BY <1>1, <2>6, <2>7, AgentAssumption DEF RanLongEnough
  <2>9. (q \in forgotten => q \in forgotten') /\ (q \in forgotten' => q \notin panes')
    BY <1>1, <2>1 DEF PaneOK, OwedOK
  <2> HIDE DEF noted
  <2> QED
    BY <1>1, <1>2, <2>1, <2>2, <2>3, <2>4, <2>5, <2>8, <2>9, Unmoved
<1>3. PaneOK(p)'
  <2>1. KnownOK(p) /\ SpanOK(p) /\ EffortOK(p) /\ OwedOK(p)
    BY DEF BellInv, PaneOK
  <2>2. owed'[p] = owed[p]
    BY DEF PaneDied
  <2>3. effort'[p] = 0
    BY <1>1, <2>1, PaneType DEF PaneDied, EffortOK, Works
  <2>4. p # died
    BY <1>1, <2>1 DEF KnownOK
  <2>5. SpanOK(p)'
    BY <1>1, <2>1, <2>4, RemovedKnown, Sizes, PaneType DEF SpanOK, IsActive, Unseen, Slack
  <2>6. OwedOK(p)'
    <3>1. CASE owed[p] > 0 /\ p \notin forgotten
      <4>1. died' = p /\ p # NoPane /\ RanLongEnough(obs[p])
        BY <1>1, <2>1, <3>1, AgentAssumption, Sizes DEF OwedOK, Alone, RanLongEnough
      <4>2. RanLongEnough(obs'[p])
        BY <1>1, <4>1, RemovedKnown DEF RanLongEnough
      <4> QED
        BY <1>1, <2>1, <2>2, <3>1, <4>1, <4>2, RemovedKnown DEF OwedOK, Alone, Slack, Removed, RanLongEnough
    <3>2. CASE ~ (owed[p] > 0 /\ p \notin forgotten)
      BY <1>1, <2>1, <2>2, <3>2, RemovedKnown DEF OwedOK
    <3> QED
      BY <3>1, <3>2
  <2> QED
    BY <1>1, <2>3, <2>5, <2>6, RemovedKnown DEF PaneOK, EffortOK
<1>4. loop' = "runs" \/ panes' = {}
  BY <1>1 DEF Removed
<1> QED
  BY <1>2, <1>3, <1>4 DEF BellInv

(* An interval goes by.                                                    *)
LEMMA PassKeeps ==
  ASSUME TypeOK, BellInv, Pass
  PROVE  BellInv'
<1>1. /\ loop = "runs" /\ due'
      /\ UNCHANGED <<panes, focused, watched, on, died, loop, agent, forgotten>>
  BY DEF Pass
<1>2. ASSUME NEW p \in Pane PROVE PaneOK(p)'
  <2>1. KnownOK(p) /\ SpanOK(p) /\ EffortOK(p) /\ OwedOK(p)
    BY DEF BellInv, PaneOK
  <2>2. obs'[p] = [obs[p] EXCEPT !.output = Older(obs[p].output, Window),
                                 !.input = Older(obs[p].input, Grace + 1),
                                 !.since = Older(obs[p].since, MinRun)]
    BY DEF Pass, TypeOK, SessionType
  <2>3. /\ obs'[p].output = Older(obs[p].output, Window)
        /\ obs'[p].input = Older(obs[p].input, Grace + 1)
        /\ obs'[p].since = Older(obs[p].since, MinRun)
        /\ obs'[p].command = obs[p].command /\ obs'[p].reading = obs[p].reading
        /\ obs'[p].hashed = obs[p].hashed /\ obs'[p].own = obs[p].own /\ obs'[p].state = obs[p].state
    BY <2>2, PaneType DEF Observation
  <2>4. screen'[p] = [screen[p] EXCEPT !.moved = screen[p].moved \/ agent[p] = "streams"]
    BY DEF Pass, TypeOK, OutsideType
  <2>5. /\ screen'[p].moved <=> (screen[p].moved \/ agent[p] = "streams")
        /\ screen'[p].resized = screen[p].resized /\ screen'[p].viewer = screen[p].viewer
    <3>1. screen'[p].moved = (screen[p].moved \/ agent[p] = "streams")
      BY <2>4, PaneType DEF Display
    <3>2. screen'[p].resized = screen[p].resized /\ screen'[p].viewer = screen[p].viewer
      BY <2>4, PaneType DEF Display
    <3> QED
      BY <3>1, <3>2
  <2>6. span'[p] = IF Works(p) THEN Stirred(p, 1) ELSE IF Still(p) THEN AtRest ELSE Quieter(p)
    BY DEF Pass
  <2>7. /\ obs[p].output \in 0 .. Window /\ obs[p].input \in 0 .. Grace + 1
        /\ obs[p].since \in 0 .. Never
        /\ span[p].long \in Int /\ span[p].quiet \in 0 .. Window + 2 /\ span[p].missed \in Nat
    BY PaneType DEF Observation, Movement
  <2>8. KnownOK(p)'
    BY <1>1, <2>1, <2>3, <2>5, <2>7, Sizes DEF KnownOK, Older
  <2>9. SpanOK(p)'
    <3>1. /\ AtRest.long = 0 /\ AtRest.quiet = Window + 2 /\ AtRest.missed = 0
          /\ Still(p) <=> span[p].quiet = Window + 2
      BY <2>7, Sizes DEF AtRest, Still
    <3>2. /\ span'[p] \in Movement
          /\ Works(p) => span'[p].quiet = 0
          /\ ~ Works(p) => span'[p].quiet = IF due \/ Still(p) THEN span[p].quiet ELSE span[p].quiet + 1
      <4>1. CASE Works(p)
        BY <2>6, <4>1, StirredType DEF TypeOK
      <4>2. CASE ~ Works(p) /\ Still(p)
        BY <2>6, <3>1, <4>2, QuieterType DEF TypeOK
      <4>3. CASE ~ Works(p) /\ ~ Still(p)
        BY <2>6, <2>7, <3>1, <4>3, QuieterType, Sizes DEF TypeOK
      <4> QED
        BY <4>1, <4>2, <4>3
    <3>3. span'[p].quiet \in Nat /\ span'[p].long \in Int /\ span'[p].missed \in Nat
      BY <3>2, Sizes DEF Movement
    <3>4. span'[p].long >= 0 \/ span'[p].long >= LongEnough
      <4>1. CASE Works(p)
        BY <2>1, <2>6, <2>7, <4>1, StirredType, Sizes DEF SpanOK, TypeOK
      <4>2. CASE ~ Works(p)
        BY <2>1, <2>6, <2>7, <3>1, <4>2, QuieterType, Sizes DEF SpanOK, TypeOK
      <4> QED
        BY <4>1, <4>2
    <3>5. IsActive(obs'[p]) => span'[p].quiet <= obs'[p].output + 1
      BY <2>1, <2>3, <2>7, <3>1, <3>2, Sizes DEF SpanOK, IsActive, Older
    <3>6. Unseen(p)' /\ obs'[p].hashed => span'[p].quiet <= 1
      BY <1>1, <2>1, <2>3, <2>5, <2>7, <3>1, <3>2, <3>3, Sizes DEF SpanOK, Unseen, Still, Works, Slack
    <3>7. agent'[p] = "thinks" => span'[p].quiet = 0
      BY <1>1, <3>2 DEF Works
    <3>8. ASSUME obs[p].state = "Working" \/ p = died
          PROVE  /\ span'[p].quiet <= Window + 1 /\ obs'[p].since # Never
                 /\ \/ span'[p].long + span'[p].missed >= LongEnough
                    \/ obs'[p].since <= span'[p].long + span'[p].quiet + span'[p].missed
      <4>1. /\ span[p].quiet <= Window + Slack /\ obs[p].since # Never /\ ~ Still(p)
            /\ \/ span[p].long + span[p].missed >= LongEnough
               \/ obs[p].since <= span[p].long + span[p].quiet + span[p].missed
            /\ span[p].long >= 0 \/ span[p].long >= LongEnough
        BY <1>1, <2>1, <2>7, <3>1, <3>8, Sizes DEF SpanOK, Slack
      <4>2. obs'[p].since # Never /\ obs'[p].since <= obs[p].since + 1 /\ obs'[p].since \in Nat
        BY <2>3, <2>7, <4>1, Sizes DEF Older
      <4>3. span'[p].quiet <= Window + 1
        BY <2>7, <3>2, <4>1, Sizes DEF Slack
      <4>4. CASE Works(p)
        BY <2>6, <2>7, <4>1, <4>2, <4>3, <4>4, StirredType, Sizes DEF TypeOK
      <4>5. CASE ~ Works(p) /\ due
        <5>1. /\ span'[p].long = span[p].long /\ span'[p].quiet = span[p].quiet
              /\ span'[p].missed = Older(span[p].missed, LongEnough)
          BY <2>6, <4>1, <4>5, QuieterType DEF TypeOK
        <5> QED
          BY <2>7, <4>1, <4>2, <4>3, <5>1, Sizes DEF Older
      <4>6. CASE ~ Works(p) /\ ~ due
        <5>1. span[p].quiet <= Window
          BY <2>7, <4>1, <4>6, Sizes DEF Slack
        <5>2. /\ span'[p].long = span[p].long /\ span'[p].quiet = span[p].quiet + 1
              /\ span'[p].missed = span[p].missed
          BY <2>6, <4>1, <4>6, <5>1, QuieterType DEF TypeOK
        <5> QED
          BY <2>7, <4>1, <4>2, <4>3, <5>2, Sizes
      <4> QED
        BY <4>2, <4>3, <4>4, <4>5, <4>6
    <3> QED
      BY <1>1, <2>3, <3>4, <3>5, <3>6, <3>7, <3>8 DEF SpanOK, Slack
  <2>10. EffortOK(p)'
    <3>1. effort'[p] = IF /\ Works(p) /\ p \in panes \ {focused} /\ watched /\ on = Options
                          /\ ~ due /\ ~ screen[p].viewer /\ obs[p].own
                       THEN IF effort[p] < Enough THEN effort[p] + 1 ELSE effort[p]
                       ELSE 0
      BY DEF Pass
    <3>2. effort'[p] > 0 => /\ Works(p) /\ p \in panes /\ Alone(p) /\ ~ screen[p].viewer /\ ~ due
                            /\ effort'[p] <= effort[p] + 1
      BY <3>1, PaneType, Sizes DEF Alone
    <3>3. effort[p] \in Nat /\ effort'[p] \in Nat
      BY <3>1, PaneType, Sizes
    <3> QED
      BY <1>1, <2>1, <2>3, <2>5, <2>7, <3>2, <3>3, Sizes
         DEF EffortOK, KnownOK, Alone, Works, Slack, Older
  <2>11. OwedOK(p)'
    <3>1. owed'[p] = IF ~ due /\ owed[p] \in 1 .. Window + 3 THEN owed[p] + 1 ELSE owed[p]
      BY DEF Pass
    <3>2. /\ owed[p] \in Nat /\ owed'[p] \in Nat
          /\ owed'[p] > 0 => owed[p] > 0 /\ owed'[p] <= owed[p] + Slack' - Slack
      BY <1>1, <3>1, PaneType, Sizes DEF Slack
    <3>3. died # NoPane /\ RanLongEnough(obs[died]) => RanLongEnough(obs'[died])
      <4> SUFFICES ASSUME died # NoPane, RanLongEnough(obs[died]) PROVE RanLongEnough(obs'[died])
        OBVIOUS
      <4>1. died \in Pane
        BY DEF TypeOK, SessionType
      <4>2. obs[died].since \in 0 .. Never
        BY <4>1, PaneType DEF Observation
      <4>3. obs'[died] = [obs[died] EXCEPT !.output = Older(obs[died].output, Window),
                                           !.input = Older(obs[died].input, Grace + 1),
                                           !.since = Older(obs[died].since, MinRun)]
        BY <4>1 DEF Pass
      <4>4. obs'[died].since = Older(obs[died].since, MinRun)
        BY <4>1, <4>3, PaneType DEF Observation
      <4> QED
        BY <4>2, <4>4, Sizes DEF RanLongEnough, Older
    <3>4. CASE owed'[p] > 0 /\ p \notin forgotten
      <4>1. /\ Alone(p) /\ Alone(p)' /\ obs[p].since = MinRun /\ obs'[p].since = MinRun
            /\ owed[p] <= Window + 1 + Slack
        BY <1>1, <2>1, <2>3, <3>2, <3>4, Sizes DEF OwedOK, Alone, Older
      <4>2. p \notin panes => died # NoPane /\ RanLongEnough(obs'[died])
        BY <2>1, <3>2, <3>3, <3>4 DEF OwedOK
      <4>3. p \in panes =>
              /\ obs'[p].state = "Working" /\ ~ Works(p) /\ ~ screen'[p].viewer
              /\ IF screen'[p].moved THEN owed'[p] <= 1 + Slack'
                 ELSE obs'[p].reading # "busy" /\ owed'[p] <= obs'[p].output + 2
        BY <1>1, <2>1, <2>3, <2>5, <2>7, <3>2, <3>4, Sizes DEF OwedOK, Works, Slack, Older
      <4> QED
        BY <1>1, <2>1, <3>2, <4>1, <4>2, <4>3, PaneType, Sizes DEF OwedOK, RanLongEnough, Works, Slack
    <3>5. CASE ~ (owed'[p] > 0 /\ p \notin forgotten)
      BY <1>1, <2>1, <3>5 DEF OwedOK
    <3> QED
      BY <3>4, <3>5
  <2> QED
    BY <2>8, <2>9, <2>10, <2>11 DEF PaneOK
<1> QED
  BY <1>1, <1>2 DEF BellInv

(* What a poll makes of a pane.                                            *)
LEMMA Polled ==
  ASSUME TypeOK, NEW p \in Pane, p \in panes, due
  PROVE  /\ Known(p).command = Command(p) /\ Known(p).input = obs[p].input
         /\ Known(p).since = obs[p].since
         /\ obs[p].command = "none" =>
              /\ Known(p).reading = "plain" /\ ~ Known(p).hashed
              /\ Known(p).output = obs[p].output /\ Known(p).own = obs[p].own
              /\ Looked(p) = screen[p]
         /\ obs[p].command # "none" /\ screen[p].viewer =>
              /\ Known(p).reading = obs[p].reading /\ Known(p).hashed = obs[p].hashed
              /\ Looked(p) = screen[p]
         /\ obs[p].command # "none" /\ ~ screen[p].viewer =>
              /\ Known(p).reading = Shows(p) /\ Known(p).hashed
              /\ ~ Looked(p).moved /\ ~ Looked(p).resized /\ ~ Looked(p).viewer
         /\ obs[p].command # "none" =>
              IF \/ screen[p].viewer /\ IsActive(obs[p])
                 \/ /\ ~ screen[p].viewer /\ (~ obs[p].hashed \/ screen[p].moved)
                    /\ ~ (obs[p].hashed /\ screen[p].resized /\ ~ IsActive(obs[p]))
              THEN Known(p).output = 0 /\ (Known(p).own <=> obs[p].input > Grace)
              ELSE Known(p).output = obs[p].output /\ Known(p).own = obs[p].own
<1> DEFINE o == obs[p]
           read == [o EXCEPT !.hashed = TRUE, !.reading = Shows(p)]
           seen == (~ o.hashed \/ screen[p].moved) /\ ~ (o.hashed /\ screen[p].resized /\ ~ IsActive(o))
<1>1. o \in Observation /\ screen[p] \in Display
  BY PaneType
<1>2. Known(p) = [Refreshed(p) EXCEPT !.command = Command(p)]
  BY DEF Known
<1>3. Refreshed(p) = IF o.command = "none" THEN [o EXCEPT !.reading = "plain", !.hashed = FALSE]
                     ELSE IF screen[p].viewer THEN IF IsActive(o) THEN NoteOutput(o) ELSE o
                     ELSE IF seen THEN NoteOutput(read) ELSE read
  BY DEF Refreshed
<1>4. Shows(p) \in {"plain", "busy", "asks"}
  BY DEF Shows
<1>5. /\ read \in Observation /\ read.hashed /\ read.reading = Shows(p)
      /\ read.input = o.input /\ read.since = o.since /\ read.output = o.output /\ read.own = o.own
  BY <1>1, <1>4 DEF Observation
<1>6. ASSUME NEW r \in Observation
      PROVE  /\ NoteOutput(r).output = 0 /\ (NoteOutput(r).own <=> r.input > Grace)
             /\ NoteOutput(r).input = r.input /\ NoteOutput(r).since = r.since
             /\ NoteOutput(r).reading = r.reading /\ NoteOutput(r).hashed = r.hashed
  <2>1. NoteOutput(r).own = (r.input > Grace)
    BY DEF NoteOutput, Observation
  <2> QED
    BY <2>1 DEF NoteOutput, Observation
<1>7. Refreshed(p) \in Observation
  <2>1. [o EXCEPT !.reading = "plain", !.hashed = FALSE] \in Observation
    BY <1>1 DEF Observation
  <2> HIDE DEF o, read, seen
  <2> QED
    BY <1>1, <1>3, <1>5, <2>1, NotedType
<1>8. /\ Known(p).command = Command(p) /\ Known(p).input = Refreshed(p).input
      /\ Known(p).since = Refreshed(p).since /\ Known(p).reading = Refreshed(p).reading
      /\ Known(p).hashed = Refreshed(p).hashed /\ Known(p).output = Refreshed(p).output
      /\ Known(p).own = Refreshed(p).own
  BY <1>2, <1>7 DEF Observation
<1>9. CASE o.command = "none"
  <2>1. Refreshed(p) = [o EXCEPT !.reading = "plain", !.hashed = FALSE] /\ Looked(p) = screen[p]
    BY <1>3, <1>9 DEF Looked
  <2> QED
    BY <1>1, <1>8, <1>9, <2>1 DEF Observation
<1>10. CASE o.command # "none" /\ screen[p].viewer
  <2>1. Refreshed(p) = (IF IsActive(o) THEN NoteOutput(o) ELSE o) /\ Looked(p) = screen[p]
    BY <1>3, <1>10 DEF Looked
  <2>2. CASE IsActive(o)
    BY <1>1, <1>6, <1>8, <1>10, <2>1, <2>2
  <2>3. CASE ~ IsActive(o)
    BY <1>1, <1>8, <1>10, <2>1, <2>3
  <2> QED
    BY <2>2, <2>3
<1>11. CASE o.command # "none" /\ ~ screen[p].viewer
  <2>1. Refreshed(p) = (IF seen THEN NoteOutput(read) ELSE read)
    BY <1>3, <1>11
  <2>2. Looked(p) = [screen[p] EXCEPT !.moved = FALSE, !.resized = FALSE]
    BY <1>11 DEF Looked
  <2>3. ~ Looked(p).moved /\ ~ Looked(p).resized /\ ~ Looked(p).viewer
    BY <1>1, <1>11, <2>2 DEF Display
  <2>4. CASE seen
    <3>1. Refreshed(p) = NoteOutput(read)
      BY <2>1, <2>4
    <3> HIDE DEF read
    <3> QED
      BY <1>5, <1>6, <1>8, <1>11, <2>3, <2>4, <3>1
  <2>5. CASE ~ seen
    <3>1. Refreshed(p) = read
      BY <2>1, <2>5
    <3> HIDE DEF read
    <3> QED
      BY <1>5, <1>8, <1>11, <2>3, <2>5, <3>1
  <2> QED
    BY <2>4, <2>5
<1> QED
  BY <1>9, <1>10, <1>11

(* What a tick leaves in a pane that is not polled.                        *)
LEMMA UnpolledTick ==
  ASSUME TypeOK, BellInv, Tick, NEW p \in Pane,
         ~ (due /\ p \in panes)
  PROVE  PaneOK(p)'
<1>1. /\ UNCHANGED <<panes, focused, watched, on, loop, agent, effort, forgotten>>
      /\ ~ due' /\ died' = NoPane /\ p # NoPane
  BY AgentAssumption DEF Tick
<1>2. KnownOK(p) /\ SpanOK(p) /\ EffortOK(p) /\ OwedOK(p)
  BY DEF BellInv, PaneOK
<1>3. Known(p) = obs[p] /\ span'[p] = span[p] /\ screen'[p] = screen[p]
  <2>1. Known(p) = obs[p]
    BY DEF Known
  <2>2. span'[p] = span[p]
    BY DEF Tick, StirsAnyway
  <2>3. screen'[p] = IF due THEN Looked(p) ELSE screen[p]
    BY DEF Tick
  <2>4. due => obs[p].command = "none"
    BY <1>2 DEF KnownOK
  <2> QED
    BY <2>1, <2>2, <2>3, <2>4 DEF Looked
<1>4. obs'[p] = Stamped(p, obs[p])
  BY <1>3 DEF Tick
<1>5. CASE p \in panes
  <2>1. obs'[p] = obs[p]
    <3>1. StateOf(obs[p]) = obs[p].state /\ (obs[p].state = "Working" <=> obs[p].since # Never)
      BY <1>2, <1>5 DEF KnownOK
    <3>2. obs'[p] = [obs[p] EXCEPT !.state = obs[p].state, !.since = obs[p].since]
      BY <1>4, <1>5, <3>1 DEF Stamped
    <3> QED
      BY <3>2, PaneType DEF Observation
  <2>2. KnownOK(p)'
    BY <1>1, <1>2, <1>3, <1>5, <2>1 DEF KnownOK, StateOf, IsActive
  <2>3. SpanOK(p)'
    BY <1>1, <1>2, <1>3, <1>5, <2>1, PaneType, Sizes
       DEF SpanOK, KnownOK, IsActive, Unseen, Still, Slack
  <2>4. EffortOK(p)'
    BY <1>1, <1>2, <1>3, <1>5, <2>1 DEF EffortOK, Alone, Works, Slack
  <2>5. owed'[p] \in {0, owed[p]}
    BY DEF Tick
  <2>6. OwedOK(p)'
    BY <1>1, <1>2, <1>3, <1>5, <2>1, <2>5 DEF OwedOK, Alone, Works, Slack
  <2> QED
    BY <2>2, <2>3, <2>4, <2>6 DEF PaneOK
<1>6. CASE p \notin panes
  <2>1. /\ obs'[p].state = "none" /\ obs'[p].command = obs[p].command
        /\ obs'[p].reading = obs[p].reading /\ obs'[p].hashed = obs[p].hashed
        /\ obs'[p].output = obs[p].output /\ obs'[p].input = obs[p].input /\ obs'[p].own = obs[p].own
    BY <1>4, <1>6, PaneType DEF Stamped, Observation
  <2>2. KnownOK(p)'
    BY <1>1, <1>2, <1>3, <1>6, <2>1 DEF KnownOK
  <2>3. SpanOK(p)'
    BY <1>1, <1>2, <1>3, <1>6, <2>1, Sizes DEF SpanOK, KnownOK, IsActive, Unseen
  <2>4. effort'[p] = 0
    BY <1>1, <1>2, <1>6, PaneType DEF EffortOK
  <2>5. p \notin forgotten => owed'[p] = 0
    <3>1. CASE owed[p] > 0 /\ p \notin forgotten
      <4>2. died # NoPane /\ RanLongEnough(obs[died]) /\ "agent-bell" \in on
        BY <1>2, <1>6, <3>1 DEF OwedOK, Alone, Options
      <4>3. SomeoneFinished([q \in Pane |-> Known(q)])
        BY <4>2 DEF SomeoneFinished
      <4>4. rang' = ("agent-bell" \in on /\ SomeoneFinished([q \in Pane |-> Known(q)]))
        BY DEF Tick
      <4>5. rang'
        BY <4>2, <4>3, <4>4, Zenon
      <4> QED
        BY <4>5 DEF Tick
    <3>2. CASE ~ (owed[p] > 0)
      BY <3>2, PaneType DEF Tick
    <3> QED
      BY <3>1, <3>2
  <2> QED
    BY <1>1, <1>6, <2>2, <2>3, <2>4, <2>5 DEF PaneOK, EffortOK, OwedOK
<1> QED
  BY <1>5, <1>6

(* ... and in one that is.                                                 *)
LEMMA PolledTick ==
  ASSUME TypeOK, BellInv, Tick, NEW p \in Pane,
         due, p \in panes
  PROVE  PaneOK(p)'
<1> DEFINE o == obs[p]
           n == Known(p)
           st == StateOf(n)
<1>1. /\ UNCHANGED <<panes, focused, watched, on, loop, agent, effort, forgotten>>
      /\ ~ due' /\ died' = NoPane /\ p # NoPane
  BY AgentAssumption DEF Tick
<1>2. KnownOK(p) /\ SpanOK(p) /\ EffortOK(p) /\ OwedOK(p)
  BY DEF BellInv, PaneOK
<1>3. /\ obs'[p] = Stamped(p, n) /\ screen'[p] = Looked(p)
      /\ span'[p] = IF StirsAnyway(p, n) THEN Stirred(p, 0) ELSE span[p]
  BY DEF Tick
<1>4. o \in Observation /\ n \in Observation
  BY PaneType, KnownType DEF TypeOK
<1>5. /\ obs'[p].state = st /\ obs'[p].command = n.command
      /\ obs'[p].reading = n.reading /\ obs'[p].hashed = n.hashed
      /\ obs'[p].output = n.output /\ obs'[p].input = n.input /\ obs'[p].own = n.own
      /\ obs'[p].since = IF st # "Working" THEN Never ELSE IF n.since = Never THEN 0 ELSE n.since
  <2>1. obs'[p] = [n EXCEPT !.state = st,
                            !.since = IF st # "Working" THEN Never ELSE IF n.since = Never THEN 0 ELSE n.since]
    BY <1>3 DEF Stamped
  <2> HIDE DEF n, st
  <2> QED
    BY <1>4, <2>1 DEF Observation
<1>6. st = "Working" <=> n.command = "agent" /\ (n.reading = "busy" \/ n.output < Window)
  BY <1>4, StateType DEF IsActive
<1>7. /\ o.output \in 0 .. Window /\ o.input \in 0 .. Grace + 1 /\ o.since \in 0 .. Never
      /\ n.output \in 0 .. Window /\ span[p].quiet \in Nat /\ span[p].long \in Int
      /\ span[p].missed \in Nat
      /\ effort[p] \in Nat /\ owed[p] \in Nat
  BY <1>4, PaneType, Sizes DEF Observation, Movement
<1>8. /\ n.command = Command(p) /\ n.input = o.input /\ n.since = o.since
      /\ o.command = "none" =>
           /\ n.reading = "plain" /\ ~ n.hashed /\ n.output = o.output /\ n.own = o.own
           /\ screen'[p] = screen[p]
      /\ o.command # "none" /\ screen[p].viewer =>
           /\ n.reading = o.reading /\ n.hashed = o.hashed /\ screen'[p] = screen[p]
           /\ IF o.output < Window THEN n.output = 0 /\ (n.own <=> o.input > Grace)
              ELSE n.output = o.output /\ n.own = o.own
      /\ o.command # "none" /\ ~ screen[p].viewer =>
           /\ n.reading = Shows(p) /\ n.hashed
           /\ ~ screen'[p].moved /\ ~ screen'[p].resized /\ ~ screen'[p].viewer
           /\ IF /\ ~ o.hashed \/ screen[p].moved
                 /\ ~ (o.hashed /\ screen[p].resized /\ ~ (o.output < Window))
              THEN n.output = 0 /\ (n.own <=> o.input > Grace)
              ELSE n.output = o.output /\ n.own = o.own
  BY <1>3, Polled DEF IsActive
<1>9. obs'[p] \in Observation
  BY <1>3, <1>4, StampedType
<1> HIDE DEF n, st
<1>10. KnownOK(p)'
  <2>1. n.own => n.input > Grace
    BY <1>2, <1>8 DEF KnownOK
  <2>2. screen'[p].viewer => agent[p] \notin {"none", "dead"}
    BY <1>2, <1>8 DEF KnownOK
  <2>3. agent[p] # "dead" => n.command # "none" /\ (~ n.hashed => n.output = Window /\ n.reading = "plain")
    <3>1. agent[p] # "dead" => n.command # "none"
      BY <1>8 DEF Command
    <3> QED
      BY <1>2, <1>7, <1>8, <3>1 DEF KnownOK
  <2>4. n.reading = "busy" => st = "Working"
    BY <1>2, <1>6, <1>8 DEF KnownOK, Shows, Command
  <2>5. st = "Working" => n.command = "agent" /\ n.hashed
    BY <1>6, <1>7, <1>8, <2>3, Sizes DEF Command
  <2>6. st = "Working" <=> obs'[p].since # Never
    BY <1>5, <1>8, Sizes
  <2>7. obs'[p].state = StateOf(obs'[p])
    BY <1>5 DEF st, StateOf, IsActive
  <2>8. StateOf(obs[p])' = StateOf(obs'[p])
    BY DEF StateOf, IsActive
  <2> QED
    BY <1>1, <1>5, <2>1, <2>2, <2>3, <2>4, <2>5, <2>6, <2>7, <2>8 DEF KnownOK
<1>11. SpanOK(p)'
  <2>1. StirsAnyway(p, n) <=> \/ ~ o.hashed /\ n.output = 0
                              \/ screen[p].viewer /\ (st = "Working" \/ Unseen(p))
    BY DEF StirsAnyway, st
  <2>2. /\ StirsAnyway(p, n) => span'[p].quiet = 0
        /\ ~ StirsAnyway(p, n) => span'[p] = span[p]
    BY <1>3, StirredType DEF TypeOK
  <2>3. /\ span'[p].quiet \in Nat /\ span'[p].quiet <= span[p].quiet /\ span'[p].long \in Int
        /\ span'[p].missed \in Nat
        /\ span'[p].long >= 0 \/ span'[p].long >= LongEnough
    BY <1>2, <1>3, <1>7, StirredType, Sizes DEF SpanOK, TypeOK, Movement
  <2>4. IsActive(o) => span[p].quiet <= o.output + 1
    BY <1>2 DEF SpanOK
  <2>5. n.output < Window => span'[p].quiet <= n.output + 1
    <3>1. CASE o.command = "none"
      BY <1>7, <1>8, <2>3, <2>4, <3>1 DEF IsActive
    <3>2. CASE o.command # "none" /\ screen[p].viewer
      <4>1. n.command = "agent"
        BY <1>2, <1>8, <3>2 DEF KnownOK, Command
      <4> QED
        BY <1>6, <1>7, <2>1, <2>2, <3>2, <4>1
    <3>3. CASE o.command # "none" /\ ~ screen[p].viewer
      <4>1. CASE n.output = o.output
        BY <1>7, <2>3, <2>4, <4>1 DEF IsActive
      <4>2. CASE ~ o.hashed /\ n.output = 0
        BY <1>7, <2>1, <2>2, <4>2
      <4>3. CASE o.hashed /\ n.output = 0 /\ screen[p].moved /\ ~ (screen[p].resized /\ ~ (o.output < Window))
        <5>1. Unseen(p)
          BY <1>7, <2>4, <4>3, Sizes DEF Unseen, Still, IsActive
        <5>2. span[p].quiet <= 1
          BY <1>2, <4>3, <5>1 DEF SpanOK, Slack
        <5> QED
          BY <1>7, <2>3, <4>3, <5>2
      <4> QED
        BY <1>8, <3>3, <4>1, <4>2, <4>3
    <3> QED
      BY <3>1, <3>2, <3>3
  <2>6. Unseen(p)' /\ n.hashed => span'[p].quiet = 0
    <3>1. CASE o.command # "none" /\ screen[p].viewer /\ ~ StirsAnyway(p, n)
      <4>1. ~ Unseen(p) /\ span'[p] = span[p] /\ screen'[p] = screen[p]
        BY <1>8, <2>1, <2>2, <3>1
      <4> QED
        BY <4>1 DEF Unseen, Still
    <3> QED
      BY <1>8, <2>2, <3>1 DEF Unseen
  <2>7. agent[p] = "thinks" => span'[p].quiet = 0
    BY <1>2, <1>7, <2>3 DEF SpanOK
  <2>8. ASSUME st = "Working"
        PROVE  /\ span'[p].quiet <= Window /\ obs'[p].since # Never
               /\ \/ span'[p].long + span'[p].missed >= LongEnough
                  \/ obs'[p].since <= span'[p].long + span'[p].quiet + span'[p].missed
    <3>1. span'[p].quiet <= Window
      <4>1. CASE n.output < Window
        BY <1>7, <2>3, <2>5, <4>1, Sizes
      <4>2. CASE n.reading = "busy" /\ screen[p].viewer
        BY <2>1, <2>2, <2>8, <4>2, Sizes
      <4>3. CASE n.reading = "busy" /\ ~ screen[p].viewer
        BY <1>8, <2>7, <4>3, Sizes DEF Shows
      <4> QED
        BY <1>6, <2>8, <4>1, <4>2, <4>3
    <3>2. obs'[p].since # Never /\ obs'[p].since = IF o.since = Never THEN 0 ELSE o.since
      BY <1>5, <1>8, <2>8, Sizes
    <3>3. o.since # Never => /\ ~ Still(p)
                             /\ \/ span[p].long + span[p].missed >= LongEnough
                                \/ o.since <= span[p].long + span[p].quiet + span[p].missed
      BY <1>2, <1>7, Sizes DEF SpanOK, KnownOK, Still, Slack
    <3>4. CASE StirsAnyway(p, n)
      <4>1. /\ span'[p].quiet = 0
            /\ span'[p].missed = IF Still(p) THEN 0 ELSE span[p].missed
            /\ span'[p].long = IF Still(p) THEN 0
                               ELSE IF span[p].long + span[p].quiet + 0 < LongEnough
                                    THEN span[p].long + span[p].quiet + 0 ELSE LongEnough
        BY <1>3, <3>4, StirredType DEF TypeOK
      <4>2. span[p].long >= 0 \/ span[p].long >= LongEnough
        BY <1>2 DEF SpanOK
      <4> QED
        BY <1>7, <3>1, <3>2, <3>3, <4>1, <4>2, Sizes
    <3>5. CASE ~ StirsAnyway(p, n)
      BY <1>7, <2>2, <2>3, <3>1, <3>2, <3>3, <3>5, Sizes
    <3> QED
      BY <3>4, <3>5
  <2> QED
    BY <1>1, <1>5, <1>7, <2>3, <2>5, <2>6, <2>7, <2>8, Sizes DEF SpanOK, IsActive, Slack
<1>12. EffortOK(p)'
  <2> SUFFICES ASSUME effort[p] > 0 PROVE EffortOK(p)'
    BY <1>1 DEF EffortOK
  <2>1. /\ Alone(p) /\ Works(p) /\ ~ screen[p].viewer
        /\ IF o.state = "Working" THEN o.since >= MinRun \/ effort[p] <= o.since + 2
           ELSE effort[p] <= 2
        /\ effort[p] >= 2 => /\ o.command = "agent"
                             /\ screen[p].resized /\ o.hashed => o.output < Window
    BY <1>2, <1>7, Sizes DEF EffortOK, Slack
  <2>2. n.command = "agent"
    BY <1>8, <2>1 DEF Works, Command
  <2>3. n.own /\ ~ screen'[p].viewer
    BY <1>2, <1>8, <2>1 DEF KnownOK, Alone
  <2>4. n.hashed => ~ screen'[p].resized
    BY <1>8, <2>1
  <2>5. effort[p] >= 2 => st = "Working"
    <3> SUFFICES ASSUME effort[p] >= 2 PROVE n.reading = "busy" \/ n.output < Window
      BY <1>6, <2>2
    <3>1. CASE agent[p] = "thinks"
      BY <1>8, <2>1, <3>1 DEF Shows
    <3>2. CASE agent[p] = "streams"
      <4>1. screen[p].moved
        BY <1>2, <3>2 DEF KnownOK
      <4> QED
        BY <1>8, <2>1, <4>1, Sizes
    <3> QED
      BY <2>1, <3>1, <3>2 DEF Works
  <2>6. IF st = "Working" THEN obs'[p].since >= MinRun \/ effort[p] <= obs'[p].since + 2
        ELSE effort[p] <= 1
    <3>1. CASE st = "Working"
      <4>1. CASE o.state = "Working"
        <5>1. o.since # Never
          BY <1>2, <4>1 DEF KnownOK
        <5> QED
          BY <1>5, <1>7, <1>8, <2>1, <3>1, <4>1, <5>1
      <4>2. CASE o.state # "Working"
        <5>1. obs'[p].since = 0
          BY <1>2, <1>5, <1>8, <3>1, <4>2 DEF KnownOK
        <5> QED
          BY <1>7, <2>1, <3>1, <4>2, <5>1
      <4> QED
        BY <4>1, <4>2
    <3>2. CASE st # "Working"
      BY <1>7, <2>5, <3>2
    <3> QED
      BY <3>1, <3>2
  <2> QED
    BY <1>1, <1>5, <2>1, <2>2, <2>3, <2>4, <2>6, Sizes DEF EffortOK, Alone, Works, Slack
<1>13. OwedOK(p)'
  <2>0. p \notin forgotten
    BY <1>2 DEF OwedOK
  <2> SUFFICES ASSUME owed'[p] > 0 PROVE OwedOK(p)'
    BY <1>1, <2>0 DEF OwedOK
  <2>1. owed'[p] = owed[p] /\ ~ rang' /\ owed[p] > 0
    BY DEF Tick
  <2>2. /\ Alone(p) /\ o.since = MinRun /\ loop # "left"
        /\ o.state = "Working" /\ ~ Works(p) /\ ~ screen[p].viewer
        /\ IF screen[p].moved THEN owed[p] <= 2 ELSE owed[p] <= o.output + 2
    BY <1>2, <1>7, <2>0, <2>1, Sizes DEF OwedOK, Slack
  <2>3. o.command = "agent" /\ o.hashed
    BY <1>2, <2>2 DEF KnownOK
  <2>4. n.own /\ n.since = MinRun
    BY <1>2, <1>8, <2>2, <2>3 DEF KnownOK, Alone
  <2>5. st = "Working"
    <3> SUFFICES ASSUME st # "Working" PROVE FALSE
      OBVIOUS
    <3>1. WorthABell(p, n)
      BY <2>2, <2>4, Sizes DEF WorthABell, RanLongEnough, Alone
    <3>2. JustFinished(obs[p].state, StateOf(n))
      BY <2>2 DEF JustFinished, st
    <3>3. SomeoneFinished([q \in Pane |-> Known(q)])
      BY <3>1, <3>2 DEF SomeoneFinished, n
    <3>4. rang' = ("agent-bell" \in on /\ SomeoneFinished([q \in Pane |-> Known(q)]))
      BY DEF Tick
    <3>5. "agent-bell" \in on
      BY <2>2 DEF Alone, Options
    <3> QED
      BY <2>1, <3>3, <3>4, <3>5, Zenon
  <2>6. n.reading # "busy" /\ ~ screen'[p].moved /\ ~ screen'[p].viewer
    BY <1>8, <2>2, <2>3 DEF Works, Shows
  <2>7. n.output < Window
    BY <1>6, <2>5, <2>6
  <2>8. owed[p] <= n.output + 2
    BY <1>7, <1>8, <2>2, <2>3
  <2>9. obs'[p].since = MinRun
    BY <1>5, <2>4, <2>5, Sizes
  <2> QED
    BY <1>1, <1>5, <1>7, <2>0, <2>1, <2>2, <2>4, <2>5, <2>6, <2>7, <2>8, <2>9, Sizes
       DEF OwedOK, Alone, Works, Slack
<1> QED
  BY <1>10, <1>11, <1>12, <1>13 DEF PaneOK

LEMMA TickKeeps ==
  ASSUME TypeOK, BellInv, Tick
  PROVE  BellInv'
<1>1. ASSUME NEW p \in Pane PROVE PaneOK(p)'
  BY UnpolledTick, PolledTick
<1>2. UNCHANGED <<loop, panes>>
  BY DEF Tick
<1> QED
  BY <1>1, <1>2 DEF BellInv

LEMMA BellStep ==
  ASSUME TypeOK, BellInv, [Next]_vars
  PROVE  BellInv'
<1>1. CASE Tick
  BY <1>1, TickKeeps
<1>2. CASE Pass
  BY <1>2, PassKeeps
<1>3. CASE Watch \/ \E option \in Options : SetOption(option)
  BY <1>3, WatchKeeps
<1>4. CASE Leave
  BY <1>4, LeaveKeeps
<1>5. ASSUME NEW p \in Pane, \E does \in {"silent", "asks", "streams", "thinks"} : Turn(p, does)
      PROVE  BellInv'
  BY <1>5, TurnKeeps
<1>6. ASSUME NEW p \in Pane, Ends(p) \/ Starts(p) \/ Dies(p) PROVE BellInv'
  BY <1>6, BecomesKeeps DEF Ends, Starts, Dies
<1>7. ASSUME NEW p \in Pane,
             PaneDied(p) \/ SendKeys(p) \/ Focus(p) \/ Resize(p) \/ View(p) \/ Close(p)
      PROVE  BellInv'
  BY <1>7, PaneDiedKeeps, SendKeysKeeps, FocusKeeps, ResizeKeeps, ViewKeeps, CloseKeeps
<1>8. CASE UNCHANGED vars
  <2>1. ASSUME NEW p \in Pane PROVE PaneOK(p)'
    <3>1. PaneOK(p) /\ effort'[p] = effort[p] /\ owed'[p] = owed[p]
      BY <1>8 DEF BellInv, vars, history
    <3>2. effort[p] > 0 \/ (owed[p] > 0 /\ p \notin forgotten) => p # focused
      BY <3>1 DEF PaneOK, EffortOK, OwedOK, Alone
    <3>3. /\ owed[p] > 0 /\ p \notin forgotten => loop # "left"
          /\ p \in forgotten => p \notin panes
      BY <3>1 DEF PaneOK, OwedOK
    <3> QED
      BY <1>8, <3>1, <3>2, <3>3, Unmoved DEF vars, outside, history
  <2> QED
    BY <1>8, <2>1 DEF BellInv, vars
<1> QED
  BY <1>1, <1>2, <1>3, <1>4, <1>5, <1>6, <1>7, <1>8 DEF Next

LEMMA BellAlways == Spec => [](TypeOK /\ BellInv)
  BY InitType, StepType, BellInit, BellStep, PTL DEF Spec

-----------------------------------------------------------------------------
(* A bell that rings is for a pane that ran for long enough, as the session *)
(* counts it; its screen had then been moving for the activity time less.  *)
LEMMA RingStep ==
  ASSUME TypeOK, BellInv, Next, rang'
  PROVE  \E p \in Pane : /\ p = died \/ obs[p].state = "Working"
                         /\ span[p].long + span[p].missed >= LongEnough
<1>1. ASSUME NEW p \in Pane, p = died \/ obs[p].state = "Working", RanLongEnough(obs[p])
      PROVE  span[p].long + span[p].missed >= LongEnough
  <2>1. SpanOK(p)
    BY DEF BellInv, PaneOK
  <2>2. /\ span[p].quiet <= Window + 1
        /\ \/ span[p].long + span[p].missed >= LongEnough
           \/ obs[p].since <= span[p].long + span[p].quiet + span[p].missed
        /\ obs[p].since >= MinRun
    BY <1>1, <2>1, PaneType, Sizes DEF SpanOK, Slack, RanLongEnough, Movement
  <2>3. obs[p].since \in Nat /\ span[p].long \in Int /\ span[p].quiet \in Nat /\ span[p].missed \in Nat
    BY PaneType, Sizes DEF Observation, Movement
  <2> QED
    BY <2>2, <2>3, Sizes
<1>2. ASSUME died # NoPane, RanLongEnough(obs[died])
      PROVE  \E p \in Pane : /\ p = died \/ obs[p].state = "Working"
                             /\ span[p].long + span[p].missed >= LongEnough
  BY <1>1, <1>2 DEF TypeOK, SessionType
<1>3. CASE Tick
  <2>2. rang' = ("agent-bell" \in on /\ SomeoneFinished([q \in Pane |-> Known(q)]))
    BY <1>3 DEF Tick
  <2>3. SomeoneFinished([q \in Pane |-> Known(q)])
    BY <2>2, Zenon
  <2>4. CASE \E p \in panes : /\ JustFinished(obs[p].state, StateOf([q \in Pane |-> Known(q)][p]))
                              /\ WorthABell(p, [q \in Pane |-> Known(q)][p])
    <3>1. PICK p \in panes : /\ JustFinished(obs[p].state, StateOf([q \in Pane |-> Known(q)][p]))
                             /\ WorthABell(p, [q \in Pane |-> Known(q)][p])
      BY <2>4
    <3>2. p \in Pane
      BY DEF TypeOK, SessionType
    <3>3. obs[p].state = "Working" /\ WorthABell(p, Known(p))
      BY <3>1, <3>2 DEF JustFinished
    <3>4. Known(p).since = obs[p].since
      BY <3>2, Polled DEF Known
    <3>5. RanLongEnough(obs[p])
      BY <3>3, <3>4 DEF WorthABell, RanLongEnough
    <3> QED
      BY <1>1, <3>2, <3>3, <3>5
  <2> QED
    BY <1>2, <2>3, <2>4 DEF SomeoneFinished
<1>4. CASE Leave
  <2>1. rang' = (died # NoPane /\ "agent-bell" \in on /\ RanLongEnough(obs[died]))
    BY <1>4 DEF Leave, FlushAgentBell
  <2>2. died # NoPane /\ RanLongEnough(obs[died])
    BY <2>1, Zenon
  <2> QED
    BY <1>2, <2>2
<1> QED
  BY <1>3, <1>4
     DEF Next, Pass, Watch, SetOption, Turn, Ends, Starts, Dies, Becomes, PaneDied, SendKeys, Focus,
         Resize, View, Close, Happens, vars

(* A bell is earned: it is for a pane that showed as working, or died so,  *)
(* and whose screen had been moving for the minimum run less the activity  *)
(* time - the time in which nobody looked counted with it - whoever typed, *)
(* resized, paged, came or went.                                           *)
THEOREM BellAlwaysEarned == Spec => BellEarned
<1>1. TypeOK /\ BellInv /\ [Next]_vars =>
        \/ rang' => \E p \in Pane : /\ p = died \/ obs[p].state = "Working"
                                    /\ span[p].long + span[p].missed >= LongEnough
        \/ UNCHANGED vars
  BY RingStep
<1> QED
  BY <1>1, BellAlways, PTL DEF Spec, BellEarned

(* A finish is heard: an agent that worked watched and alone for long      *)
(* enough, and stops, exits or dies, rings within the activity time and    *)
(* two polls of the last move of its screen, as far as anybody looks, or   *)
(* before the session ends; but not where its pane's death was followed,   *)
(* before the next tick, by one after a short run.                         *)
THEOREM FinishAlwaysHeard == Spec => []FinishHeard
<1>1. TypeOK /\ BellInv => FinishHeard
  <2> SUFFICES ASSUME TypeOK, BellInv, NEW p \in Pane
               PROVE  p \in forgotten \/ (owed[p] <= Window + 2 /\ (loop = "left" => owed[p] = 0))
    BY DEF FinishHeard
  <2>1. OwedOK(p)
    BY DEF BellInv, PaneOK
  <2> QED
    BY <2>1, PaneType, Sizes DEF OwedOK, Slack
<1> QED
  BY <1>1, BellAlways, PTL
=============================================================================
