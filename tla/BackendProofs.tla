--------------------------- MODULE BackendProofs ---------------------------
(***************************************************************************)
(* That the backend's state keeps its types, that a pane's death is        *)
(* reported once and that no output is lost, for any number of panes, any  *)
(* capacities and any programs.                                            *)
(*                                                                         *)
(* The flag that the two threads of a pane share is what makes DiesOnce    *)
(* inductive: it is up whenever a report is being made or waits in the     *)
(* channel, so that the thread that comes second finds it up; and it is    *)
(* down for every id not spawned yet, whose program will start afresh.     *)
(* OutputKept needs the like: such an id has nothing shown or on its way.  *)
(***************************************************************************)
EXTENDS Backend, TLAPS

(* Who takes a step: the loop, a thread of a pane, or a program.           *)
LoopStep ==
  \/ Spawn \/ SpawnFails \/ LoopSteps \/ TakeOutput \/ TakeEvent
  \/ \E p \in Pane : Kill(p) \/ \E fatal \in BOOLEAN : Write(p, fatal)

ThreadStep(p) ==
  ReaderReads(p) \/ ReaderSends(p) \/ ReaderEnds(p) \/ WaiterReturns(p) \/ Reports(p)

ProgramStep(p) == ProgramWrites(p) \/ ProgramReads(p) \/ ProgramExits(p) \/ HangsUp(p)

LEMMA Steps == Next => LoopStep \/ \E p \in Pane : ThreadStep(p) \/ ProgramStep(p)
  BY DEF Next, LoopStep, ThreadStep, ProgramStep

-----------------------------------------------------------------------------
(* Types.                                                                  *)

LEMMA LoopsTyped ==
  /\ Idle \in Loops /\ Failing \in Loops /\ Ended \in Loops
  /\ Idle.doing = "idle" /\ Failing.doing = "failing" /\ Ended.doing = "ended"
  /\ \A p \in Pane, n \in 1 .. Burst, fatal \in BOOLEAN :
       Writing(p, n, fatal) \in Loops /\ Writing(p, n, fatal).left = n
<1> USE BackendAssumption DEF Loops
<1>1. Idle \in Loops /\ Idle.doing = "idle"
  BY DEF Idle, Nowhere
<1>2. Failing \in Loops /\ Failing.doing = "failing"
  BY DEF Failing, Nowhere
<1>3. Ended \in Loops /\ Ended.doing = "ended"
  BY DEF Ended, Nowhere
<1>4. ASSUME NEW p \in Pane, NEW n \in 1 .. Burst, NEW fatal \in BOOLEAN
      PROVE  Writing(p, n, fatal) \in Loops /\ Writing(p, n, fatal).left = n
  BY DEF Writing
<1> QED  BY <1>1, <1>2, <1>3, <1>4

LEMMA HeadTyped == ASSUME NEW S, NEW s \in Seq(S), s # <<>> PROVE Head(s) \in S
  OBVIOUS

LEMMA InitTypes == Init => TypeOK
<1> SUFFICES ASSUME Init PROVE TypeOK
  OBVIOUS
<1>1. SessionType
  BY BackendAssumption, LoopsTyped DEF Init, SessionType
<1>2. ChannelType /\ ThreadType /\ ProgramType
  BY BackendAssumption DEF Init, ChannelType, ThreadType, ProgramType
<1> QED  BY <1>1, <1>2 DEF TypeOK

(* What the session knows is changed by its loop alone.                    *)
LEMMA SessionTypes == ASSUME TypeOK, Next PROVE SessionType'
<1> USE BackendAssumption DEF TypeOK, SessionType
<1>1. CASE Spawn
  BY <1>1 DEF Spawn, Pane
<1>2. CASE SpawnFails
  <2>1. loop' = Failing /\ nextId' = nextId + 1 /\ UNCHANGED <<held, listed, shown, sent>>
    BY <1>2 DEF SpawnFails
  <2> QED  BY <1>2, <2>1, LoopsTyped DEF SpawnFails
<1>3. CASE ReportSpawnFailed
  BY <1>3, LoopsTyped DEF ReportSpawnFailed
<1>4. CASE WriteOn
  <2>1. loop.left = 1 \/ loop.left - 1 \in 1 .. Burst
    BY <1>4 DEF WriteOn, Loops
  <2>2. CASE loop.left = 1
    BY <1>4, <2>2, LoopsTyped DEF WriteOn
  <2>3. CASE loop.left - 1 \in 1 .. Burst
    <3>1. loop.pane \in Pane /\ loop.fatal \in BOOLEAN
      BY <1>4 DEF WriteOn, Loops, ProgramType
    <3>2. loop' = Writing(loop.pane, loop.left - 1, loop.fatal)
      BY <1>4, <2>3 DEF WriteOn
    <3>3. loop' \in Loops /\ loop'.left > 0
      BY <2>3, <3>1, <3>2, LoopsTyped
    <3> QED  BY <1>4, <3>3 DEF WriteOn
  <2> QED  BY <2>1, <2>2, <2>3
<1>5. CASE WriteFails
  BY <1>5, LoopsTyped DEF WriteFails
<1>6. CASE TakeOutput
  <2>1. Head(output).pane \in Pane /\ Head(output).chunk \in Nat
    <3>1. Head(output) \in [pane : Pane, chunk : Nat]
      BY <1>6, HeadTyped DEF TakeOutput, ChannelType
    <3> QED  BY <3>1
  <2>2. shown' \in [Pane -> Nat]
    BY <1>6, <2>1 DEF TakeOutput
  <2>3. /\ sent' \in 0 .. MaxKeys
        /\ loop' \in Loops /\ (loop'.doing = "writing" => loop'.left > 0)
    <3>1. CASE UNCHANGED <<loop, sent>>
      BY <3>1
    <3>2. CASE sent < MaxKeys /\ sent' = sent + 1 /\ loop' = Writing(Head(output).pane, 1, FALSE)
      <4>1. 1 \in 1 .. Burst /\ sent + 1 \in 0 .. MaxKeys
        BY <3>2
      <4>2. loop' \in Loops /\ loop'.left = 1
        BY <2>1, <3>2, <4>1, LoopsTyped
      <4>3. loop'.left > 0
        BY <4>2
      <4> QED  BY <3>2, <4>1, <4>2, <4>3
    <3> QED  BY <1>6, <3>1, <3>2 DEF TakeOutput
  <2> QED  BY <1>6, <2>2, <2>3 DEF TakeOutput
<1>7. CASE TakeEvent
  BY <1>7, LoopsTyped DEF TakeEvent
<1>8. ASSUME NEW p \in Pane, Kill(p) PROVE SessionType'
  <2>1. loop' \in {Idle, Ended} /\ held' \subseteq held /\ listed' \subseteq listed
    BY <1>8 DEF Kill
  <2> QED  BY <1>8, <2>1, LoopsTyped DEF Kill
<1>9. ASSUME NEW p \in Pane, NEW fatal \in BOOLEAN, Write(p, fatal) PROVE SessionType'
  BY <1>9, LoopsTyped DEF Write
<1>10. ASSUME NEW p \in Pane, ThreadStep(p) \/ ProgramStep(p) PROVE SessionType'
  BY <1>10 DEF ThreadStep, ReaderReads, ReaderSends, ReaderEnds, WaiterReturns, Reports,
               ProgramStep, ProgramWrites, ProgramReads, ProgramExits, HangsUp
<1> QED  BY <1>1, <1>2, <1>3, <1>4, <1>5, <1>6, <1>7, <1>8, <1>9, <1>10, Steps
         DEF LoopStep, LoopSteps

LEMMA ChannelTypes == ASSUME TypeOK, Next PROVE ChannelType'
<1> USE BackendAssumption DEF TypeOK, ChannelType, Pane
<1>1. CASE ReportSpawnFailed
  BY <1>1 DEF ReportSpawnFailed
<1>2. CASE TakeOutput
  BY <1>2 DEF TakeOutput
<1>3. CASE TakeEvent
  BY <1>3 DEF TakeEvent
<1>4. CASE LoopStep /\ ~ ReportSpawnFailed /\ ~ TakeOutput /\ ~ TakeEvent
  BY <1>4 DEF LoopStep, LoopSteps, Spawn, SpawnFails, WriteOn, WriteFails, Kill, Write
<1>5. ASSUME NEW p \in Pane, ReaderSends(p) PROVE ChannelType'
  BY <1>5 DEF ThreadType, ReaderSends
<1>6. ASSUME NEW p \in Pane, Reports(p) PROVE ChannelType'
  BY <1>6 DEF Reports
<1>7. ASSUME NEW p \in Pane, ReaderReads(p) \/ ReaderEnds(p) \/ WaiterReturns(p) \/ ProgramStep(p)
      PROVE  ChannelType'
  BY <1>7 DEF ReaderReads, ReaderEnds, WaiterReturns,
              ProgramStep, ProgramWrites, ProgramReads, ProgramExits, HangsUp
<1> QED  BY <1>1, <1>2, <1>3, <1>4, <1>5, <1>6, <1>7, Steps DEF ThreadStep

LEMMA ThreadTypes == ASSUME TypeOK, Next PROVE ThreadType'
<1> USE BackendAssumption DEF TypeOK, ThreadType, Pane
<1>1. CASE LoopStep
  BY <1>1 DEF LoopStep, LoopSteps, Spawn, SpawnFails, ReportSpawnFailed, WriteOn, WriteFails,
              TakeOutput, TakeEvent, Kill, Write, threads
<1>2. ASSUME NEW p \in Pane, ReaderReads(p) PROVE ThreadType'
  <2>1. Head(tty[p]) \in Nat
    <3>1. tty[p] \in Seq(Nat) /\ tty[p] # <<>>
      BY <1>2 DEF ReaderReads, ProgramType
    <3> QED  BY <3>1
  <2> QED  BY <1>2, <2>1 DEF ReaderReads
<1>3. ASSUME NEW p \in Pane, ReaderSends(p) \/ ReaderEnds(p) \/ WaiterReturns(p) \/ Reports(p)
      PROVE  ThreadType'
  BY <1>3 DEF ReaderSends, ReaderEnds, WaiterReturns, Reports, Emit
<1>4. ASSUME NEW p \in Pane, ProgramStep(p) PROVE ThreadType'
  BY <1>4 DEF ProgramStep, ProgramWrites, ProgramReads, ProgramExits, HangsUp, threads
<1> QED  BY <1>1, <1>2, <1>3, <1>4, Steps DEF ThreadStep

LEMMA ProgramTypes == ASSUME TypeOK, Next PROVE ProgramType'
<1> USE BackendAssumption DEF TypeOK, ProgramType, Pane
<1>1. CASE Spawn \/ SpawnFails
  <2>1. nextId \in Pane /\ running' \subseteq running \cup {nextId} /\ open' \subseteq open \cup {nextId}
    BY <1>1 DEF Spawn, SpawnFails, SessionType
  <2> QED  BY <1>1, <2>1 DEF Spawn, SpawnFails
<1>2. CASE WriteOn
  <2>1. loop.pane \in Pane /\ typed[loop.pane] + 1 \in 0 .. TtyCapacity
    <3>1. loop.pane \in open /\ typed[loop.pane] < TtyCapacity
      BY <1>2 DEF WriteOn
    <3>2. loop.pane \in Pane /\ typed[loop.pane] \in 0 .. TtyCapacity
      BY <3>1
    <3> QED  BY <3>1, <3>2
  <2>2. typed' \in [Pane -> 0 .. TtyCapacity]
    BY <1>2, <2>1 DEF WriteOn
  <2> QED  BY <1>2, <2>2 DEF WriteOn
<1>3. CASE \/ ReportSpawnFailed \/ WriteFails \/ TakeOutput \/ TakeEvent
           \/ \E p \in Pane : Kill(p) \/ \E fatal \in BOOLEAN : Write(p, fatal)
  BY <1>3 DEF ReportSpawnFailed, WriteFails, TakeOutput, TakeEvent, Kill, Write, outside
<1>4. ASSUME NEW p \in Pane, ReaderReads(p) PROVE ProgramType'
  <2>1. tty' \in [Pane -> Seq(Nat)]
    BY <1>4 DEF ReaderReads
  <2> QED  BY <1>4, <2>1 DEF ReaderReads
<1>5. ASSUME NEW p \in Pane, ReaderSends(p) \/ ReaderEnds(p) \/ WaiterReturns(p) \/ Reports(p)
      PROVE  ProgramType'
  BY <1>5 DEF ReaderSends, ReaderEnds, WaiterReturns, Reports, outside
<1>6. ASSUME NEW p \in Pane, ProgramWrites(p) PROVE ProgramType'
  <2>1. tty' \in [Pane -> Seq(Nat)] /\ wrote' \in [Pane -> Nat]
    BY <1>6 DEF ProgramWrites
  <2>2. owes' \subseteq owes
    BY <1>6 DEF ProgramWrites
  <2> QED  BY <1>6, <2>1, <2>2 DEF ProgramWrites
<1>7. ASSUME NEW p \in Pane, ProgramReads(p) PROVE ProgramType'
  <2>1. typed' \in [Pane -> 0 .. TtyCapacity]
    <3>1. typed[p] - 1 \in 0 .. TtyCapacity
      BY <1>7 DEF ProgramReads
    <3> QED  BY <1>7, <3>1 DEF ProgramReads
  <2>2. owes' \subseteq Copying
    BY <1>7 DEF ProgramReads
  <2> QED  BY <1>7, <2>1, <2>2 DEF ProgramReads
<1>8. ASSUME NEW p \in Pane, ProgramExits(p) \/ HangsUp(p) PROVE ProgramType'
  BY <1>8 DEF ProgramExits, HangsUp
<1> QED  BY <1>1, <1>2, <1>3, <1>4, <1>5, <1>6, <1>7, <1>8, Steps
         DEF LoopStep, LoopSteps, ThreadStep, ProgramStep

LEMMA NextTypes == TypeOK /\ [Next]_vars => TypeOK'
<1>1. TypeOK /\ UNCHANGED vars => TypeOK'
  BY DEF vars, threads, outside, TypeOK, SessionType, ChannelType, ThreadType, ProgramType
<1> QED  BY <1>1, SessionTypes, ChannelTypes, ThreadTypes, ProgramTypes DEF TypeOK

(* Every state the backend reaches has the types its module declares       *)
(* (backend/native.rs, app.rs).                                            *)
THEOREM TypeCorrect == Spec => []TypeOK
  BY InitTypes, NextTypes, PTL DEF Spec

-----------------------------------------------------------------------------
(* A death is reported once.                                               *)

Reporting(p) == reader[p] = "reporting" \/ waiter[p] = "reporting"

NotSpawned ==
  \A p \in Pane : p >= nextId => reader[p] = "none" /\ waiter[p] = "none" /\ ~ dead[p]

FlagUp == \A p \in Pane : Reporting(p) \/ Queued(p) # {} => dead[p]

DeathInv == NotSpawned /\ FlagUp /\ DiesOnce

LEMMA InitDeath == Init => DeathInv
  BY DEF Init, DeathInv, NotSpawned, FlagUp, DiesOnce, Reporting, Queued

(* Steps that no report is part of: nobody starts or ends one, the channel *)
(* stays as it is, and no pane gets back a program or a terminal.          *)
NoReport ==
  /\ events' = events /\ dead' = dead /\ nextId' \in Nat /\ nextId' >= nextId
  /\ \A p \in Pane :
       /\ Reporting(p)' <=> Reporting(p)
       /\ reader'[p] = "reporting" <=> reader[p] = "reporting"
       /\ waiter'[p] = "reporting" <=> waiter[p] = "reporting"
       /\ p >= nextId' => reader'[p] = reader[p] /\ waiter'[p] = waiter[p]
       /\ p \in (running \cap open)' => p \in running \cap open \/ p >= nextId

LEMMA NoReportDeath == ASSUME TypeOK, DeathInv, NoReport PROVE DeathInv'
<1>1. \A p \in Pane : Queued(p)' = Queued(p)
  BY DEF NoReport, Queued
<1>2. NotSpawned'
  BY DEF TypeOK, SessionType, DeathInv, NotSpawned, NoReport, Pane
<1>3. FlagUp'
  BY <1>1 DEF DeathInv, FlagUp, NoReport
<1>4. ASSUME NEW p \in Pane, p >= nextId PROVE ~ Reporting(p) /\ Queued(p) = {}
  BY <1>4 DEF DeathInv, NotSpawned, FlagUp, Reporting
<1>5. DiesOnce'
  BY <1>1, <1>4 DEF DeathInv, DiesOnce, NoReport, Reporting
<1> QED  BY <1>2, <1>3, <1>5 DEF DeathInv

LEMMA LoopNoReport ==
  ASSUME TypeOK, DeathInv, LoopStep, ~ ReportSpawnFailed, ~ TakeEvent PROVE NoReport
<1> USE DEF TypeOK, SessionType, ThreadType, ProgramType, Reporting, NoReport, Pane
<1>1. CASE Spawn
  BY <1>1 DEF Spawn, DeathInv, NotSpawned
<1>2. CASE SpawnFails
  BY <1>2 DEF SpawnFails, threads
<1>3. CASE WriteOn
  BY <1>3 DEF WriteOn, threads
<1>4. CASE WriteFails
  BY <1>4 DEF WriteFails, threads, outside
<1>5. CASE TakeOutput
  BY <1>5 DEF TakeOutput, threads, outside
<1>6. ASSUME NEW p \in Pane, Kill(p) PROVE NoReport
  BY <1>6 DEF Kill, threads, outside
<1>7. ASSUME NEW p \in Pane, NEW fatal \in BOOLEAN, Write(p, fatal) PROVE NoReport
  BY <1>7 DEF Write, threads, outside
<1> QED  BY <1>1, <1>2, <1>3, <1>4, <1>5, <1>6, <1>7 DEF LoopStep, LoopSteps

LEMMA OthersNoReport ==
  ASSUME TypeOK, DeathInv, NEW p \in Pane, ReaderReads(p) \/ ReaderSends(p) \/ ProgramStep(p)
  PROVE  NoReport
<1> USE DEF TypeOK, SessionType, ThreadType, ProgramType, Reporting, NoReport
<1>1. CASE ReaderReads(p) \/ ReaderSends(p)
  <2>1. p < nextId
    BY <1>1 DEF ReaderReads, ReaderSends, DeathInv, NotSpawned, Pane
  <2>2. /\ reader[p] # "reporting"
        /\ reader' \in {[reader EXCEPT ![p] = "sending"], [reader EXCEPT ![p] = "reading"]}
        /\ UNCHANGED <<nextId, events, waiter, dead, running, open>>
    BY <1>1 DEF ReaderReads, ReaderSends, outside
  <2>3. reader'[p] # "reporting" /\ \A q \in Pane : q # p => reader'[q] = reader[q]
    BY <2>2
  <2>4. nextId \in Nat /\ \A q \in Pane : q >= nextId => q # p
    BY <2>1 DEF Pane
  <2> QED  BY <2>2, <2>3, <2>4
<1>2. CASE ProgramStep(p)
  BY <1>2 DEF ProgramStep, ProgramWrites, ProgramReads, ProgramExits, HangsUp, threads
<1> QED  BY <1>1, <1>2

(* Of a channel: what its next state holds of a pane.                      *)
LEMMA Appended ==
  ASSUME TypeOK, NEW x \in Pane \cup {0}, events' = Append(events, x), NEW p \in Pane
  PROVE  Queued(p)' = Queued(p) \cup (IF x = p THEN {Len(events) + 1} ELSE {})
<1>1. events \in Seq(Pane \cup {0})
  BY DEF TypeOK, ChannelType
<1>2. DOMAIN events' = DOMAIN events \cup {Len(events) + 1}
  BY <1>1
<1>3. /\ \A i \in DOMAIN events : events'[i] = events[i]
      /\ events'[Len(events) + 1] = x
  BY <1>1
<1> QED  BY <1>2, <1>3 DEF Queued

LEMMA Taken ==
  ASSUME TypeOK, events # <<>>, events' = Tail(events), NEW p \in Pane, NEW i \in Queued(p)'
  PROVE  i \in Nat /\ i + 1 \in Queued(p)
<1>1. events \in Seq(Pane \cup {0})
  BY DEF TypeOK, ChannelType
<1>2. i \in 1 .. Len(events) - 1 /\ events'[i] = p
  BY <1>1 DEF Queued
<1>3. events[i + 1] = p
  BY <1>1, <1>2
<1> QED  BY <1>1, <1>2, <1>3 DEF Queued

LEMMA ReportSpawnFailedDeath == ASSUME TypeOK, DeathInv, ReportSpawnFailed PROVE DeathInv'
<1>1. ASSUME NEW p \in Pane PROVE Queued(p)' = Queued(p)
  <2>1. 0 # p
    BY DEF Pane
  <2> QED  BY <2>1, Appended DEF ReportSpawnFailed
<1>2. UNCHANGED <<nextId, reader, waiter, dead, running, open>>
  BY DEF ReportSpawnFailed, threads, outside
<1> QED  BY <1>1, <1>2 DEF DeathInv, NotSpawned, FlagUp, DiesOnce, Reporting

LEMMA TakeEventDeath == ASSUME TypeOK, DeathInv, TakeEvent PROVE DeathInv'
<1>1. UNCHANGED <<nextId, reader, waiter, dead, running, open>>
  BY DEF TakeEvent, threads, outside
<1>2. ASSUME NEW p \in Pane, NEW i \in Queued(p)' PROVE i \in Nat /\ i + 1 \in Queued(p)
  BY Taken DEF TakeEvent
<1>3. ASSUME NEW p \in Pane, NEW i \in Queued(p)', NEW j \in Queued(p)' PROVE i = j
  <2>1. i + 1 = j + 1
    BY <1>2 DEF DeathInv, DiesOnce
  <2> QED  BY <1>2, <2>1
<1>4. \A p \in Pane : Queued(p)' # {} => Queued(p) # {}
  BY <1>2
<1>5. NotSpawned' /\ FlagUp'
  BY <1>1, <1>4 DEF DeathInv, NotSpawned, FlagUp, Reporting
<1>6. DiesOnce'
  BY <1>1, <1>3, <1>4 DEF DeathInv, DiesOnce
<1> QED  BY <1>5, <1>6 DEF DeathInv

(* The thread that finds the flag down is the only one that reports, and   *)
(* the one that finds it up does not.                                      *)
LEMMA EndSeenDeath ==
  ASSUME TypeOK, DeathInv, NEW p \in Pane, ReaderEnds(p) \/ WaiterReturns(p)
  PROVE  DeathInv'
<1>1. /\ p \notin running \cap open /\ dead' = [dead EXCEPT ![p] = TRUE]
      /\ UNCHANGED <<nextId, events, running, open>>
      /\ \/ reader[p] = "reading" /\ reader' = Emit(p, reader) /\ waiter' = waiter
         \/ waiter[p] = "waiting" /\ waiter' = Emit(p, waiter) /\ reader' = reader
  BY DEF ReaderEnds, WaiterReturns, outside
<1>2. \A q \in Pane : Queued(q)' = Queued(q)
  BY <1>1 DEF Queued
<1>3. p < nextId
  BY <1>1 DEF DeathInv, NotSpawned, TypeOK, SessionType, Pane
<1>4. \A q \in Pane : q # p => reader'[q] = reader[q] /\ waiter'[q] = waiter[q] /\ dead'[q] = dead[q]
  BY <1>1 DEF Emit, TypeOK, ThreadType
<1>5. dead'[p]
  BY <1>1 DEF TypeOK, ThreadType
<1>6. CASE dead[p]
  <2>1. reader'[p] = "reporting" => reader[p] = "reporting"
    BY <1>1, <1>6 DEF Emit, TypeOK, ThreadType
  <2>2. waiter'[p] = "reporting" => waiter[p] = "reporting"
    BY <1>1, <1>6 DEF Emit, TypeOK, ThreadType
  <2>3. DiesOnce'
    BY <1>1, <1>2, <1>4, <2>1, <2>2 DEF DeathInv, DiesOnce
  <2> QED  BY <1>1, <1>2, <1>3, <1>4, <1>5, <2>3
           DEF DeathInv, NotSpawned, FlagUp, Reporting, TypeOK, SessionType, Pane
<1>7. CASE ~ dead[p]
  <2>1. reader[p] # "reporting" /\ waiter[p] # "reporting" /\ Queued(p) = {}
    BY <1>7 DEF DeathInv, FlagUp, Reporting
  <2>2. ~ (reader'[p] = "reporting" /\ waiter'[p] = "reporting")
    BY <1>1, <2>1
  <2>3. DiesOnce'
    BY <1>1, <1>2, <1>4, <2>1, <2>2 DEF DeathInv, DiesOnce
  <2> QED  BY <1>1, <1>2, <1>3, <1>4, <1>5, <2>3
           DEF DeathInv, NotSpawned, FlagUp, Reporting, TypeOK, SessionType, Pane
<1> QED  BY <1>6, <1>7

LEMMA ReportsDeath == ASSUME TypeOK, DeathInv, NEW p \in Pane, Reports(p) PROVE DeathInv'
<1>1. /\ events' = Append(events, p)
      /\ UNCHANGED <<nextId, dead, running, open>>
      /\ \/ reader[p] = "reporting" /\ reader' = [reader EXCEPT ![p] = "done"] /\ waiter' = waiter
         \/ waiter[p] = "reporting" /\ waiter' = [waiter EXCEPT ![p] = "done"] /\ reader' = reader
  BY DEF Reports, outside
<1>2. Reporting(p) /\ dead[p] /\ p < nextId /\ Queued(p) = {} /\ p \notin running \cap open
  BY <1>1 DEF DeathInv, NotSpawned, FlagUp, DiesOnce, Reporting, TypeOK, SessionType, Pane
<1>3. reader'[p] # "reporting" /\ waiter'[p] # "reporting"
  BY <1>1 DEF DeathInv, DiesOnce, TypeOK, ThreadType
<1>4. \A q \in Pane : q # p => reader'[q] = reader[q] /\ waiter'[q] = waiter[q]
  BY <1>1 DEF TypeOK, ThreadType
<1>5. Queued(p)' = {Len(events) + 1} /\ \A q \in Pane : q # p => Queued(q)' = Queued(q)
  BY <1>1, <1>2, Appended
<1>6. NotSpawned'
  BY <1>1, <1>2, <1>4 DEF DeathInv, NotSpawned, TypeOK, SessionType, Pane
<1>7. FlagUp'
  BY <1>1, <1>2, <1>4, <1>5 DEF DeathInv, FlagUp, Reporting
<1>8. DiesOnce'
  BY <1>1, <1>2, <1>3, <1>4, <1>5 DEF DeathInv, DiesOnce
<1> QED  BY <1>6, <1>7, <1>8 DEF DeathInv

LEMMA NextDeath == TypeOK /\ DeathInv /\ [Next]_vars => DeathInv'
<1> SUFFICES ASSUME TypeOK, DeathInv, [Next]_vars PROVE DeathInv'
  OBVIOUS
<1>1. CASE UNCHANGED vars
  BY <1>1 DEF vars, threads, outside, DeathInv, NotSpawned, FlagUp, DiesOnce, Reporting, Queued
<1>2. CASE LoopStep
  BY <1>2, LoopNoReport, NoReportDeath, ReportSpawnFailedDeath, TakeEventDeath
<1>3. ASSUME NEW p \in Pane, ThreadStep(p) \/ ProgramStep(p) PROVE DeathInv'
  BY <1>3, OthersNoReport, NoReportDeath, EndSeenDeath, ReportsDeath DEF ThreadStep
<1> QED  BY <1>1, <1>2, <1>3, Steps

(* However its two threads and the channel's room interleave, a pane's     *)
(* death is reported by one thread, at most once, and only after its       *)
(* program has exited or its terminal is closed (native.rs emit_pane_died).*)
THEOREM DeathsOnce == Spec => []DiesOnce
<1>1. DeathInv => DiesOnce
  BY DEF DeathInv
<1> QED  BY InitTypes, NextTypes, InitDeath, NextDeath, <1>1, PTL DEF Spec

-----------------------------------------------------------------------------
(* No output is lost.                                                      *)

(* An id that is still to be spent has nothing anywhere.                   *)
Unspent(p) ==
  /\ p \notin listed /\ p \notin open /\ reader[p] = "none"
  /\ tty[p] = <<>> /\ wrote[p] = 0 /\ shown[p] = 0 /\ Places(p) = {}

Fresh == \A p \in Pane : p >= nextId => Unspent(p)

OutputInv == Fresh /\ OutputKept

LEMMA InitOutput == Init => OutputInv
  BY DEF Init, OutputInv, Fresh, Unspent, Places, OutputKept

(* A pane that nothing happens to.                                         *)
Same(p) ==
  /\ wrote'[p] = wrote[p] /\ tty'[p] = tty[p] /\ batch'[p] = batch[p] /\ shown'[p] = shown[p]
  /\ reader'[p] = "sending" <=> reader[p] = "sending"

LEMMA SameHanded == ASSUME NEW p \in Pane, Same(p) PROVE Handed(p)' = Handed(p)
  BY DEF Same, Handed

LEMMA SameKept ==
  ASSUME NEW p \in Pane, Same(p), Kept(p),
         Places(p)' = Places(p), \A i \in Places(p) : output'[i] = output[i]
  PROVE  Kept(p)'
<1>1. Handed(p)' = Handed(p)
  BY SameHanded
<1> QED  BY <1>1 DEF Same, Kept

(* Steps that move no output.                                              *)
Quiet ==
  /\ output' = output /\ listed' \subseteq listed /\ open' \subseteq open
  /\ nextId' \in Nat /\ nextId' >= nextId
  /\ \A p \in Pane : Same(p)
  /\ \A p \in Pane : p >= nextId => reader'[p] = reader[p]

LEMMA QuietOutput == ASSUME TypeOK, OutputInv, Quiet PROVE OutputInv'
<1>1. \A p \in Pane : Places(p)' = Places(p)
  BY DEF Quiet, Places
<1>2. Fresh'
  BY <1>1 DEF OutputInv, Fresh, Unspent, Quiet, Same, TypeOK, SessionType, Pane
<1>3. ASSUME NEW p \in listed' PROVE Kept(p)'
  BY <1>1, SameKept DEF OutputInv, OutputKept, Quiet, TypeOK, SessionType
<1> QED  BY <1>2, <1>3 DEF OutputInv, OutputKept

LEMMA LoopQuiet ==
  ASSUME TypeOK, OutputInv, LoopStep, ~ Spawn, ~ TakeOutput PROVE Quiet
<1> USE DEF TypeOK, SessionType, Quiet, Same, Pane
<1>1. CASE SpawnFails
  BY <1>1 DEF SpawnFails, threads
<1>2. CASE LoopSteps
  <2>1. CASE ReportSpawnFailed
    BY <2>1 DEF ReportSpawnFailed, threads, outside
  <2>2. CASE WriteOn
    BY <2>2 DEF WriteOn, threads
  <2>3. CASE WriteFails
    BY <2>3 DEF WriteFails, threads, outside
  <2> QED  BY <1>2, <2>1, <2>2, <2>3 DEF LoopSteps
<1>3. CASE TakeEvent
  BY <1>3 DEF TakeEvent, threads, outside
<1>4. ASSUME NEW p \in Pane, Kill(p) PROVE Quiet
  BY <1>4 DEF Kill, threads, outside
<1>5. ASSUME NEW p \in Pane, NEW fatal \in BOOLEAN, Write(p, fatal) PROVE Quiet
  BY <1>5 DEF Write, threads, outside
<1> QED  BY <1>1, <1>2, <1>3, <1>4, <1>5 DEF LoopStep

LEMMA OthersQuiet ==
  ASSUME TypeOK, OutputInv, NEW p \in Pane,
         \/ ReaderEnds(p) \/ WaiterReturns(p) \/ Reports(p)
         \/ ProgramReads(p) \/ ProgramExits(p) \/ HangsUp(p)
  PROVE  Quiet
<1> USE DEF TypeOK, SessionType, Quiet, Same
<1>1. CASE ReaderEnds(p) \/ Reports(p)
  <2>1. /\ UNCHANGED <<output, listed, open, nextId, wrote, tty, batch, shown>>
        /\ \A q \in Pane : q # p => reader'[q] = reader[q]
    BY <1>1 DEF ReaderEnds, Reports, Emit, outside, ThreadType
  <2>2. reader'[p] = reader[p] \/ (reader[p] \notin {"none", "sending"} /\ reader'[p] # "sending")
    <3>1. CASE ReaderEnds(p)
      <4>1. reader[p] = "reading" /\ reader'[p] = IF dead[p] THEN "done" ELSE "reporting"
        BY <3>1 DEF ReaderEnds, Emit, ThreadType
      <4> QED  BY <4>1
    <3>2. CASE Reports(p)
      BY <3>2 DEF Reports, ThreadType
    <3> QED  BY <1>1, <3>1, <3>2
  <2>3. p >= nextId => reader[p] = "none"
    BY DEF OutputInv, Fresh, Unspent
  <2>4. \A q \in Pane : reader'[q] = "sending" <=> reader[q] = "sending"
    BY <2>1, <2>2
  <2>5. \A q \in Pane : q >= nextId => reader'[q] = reader[q]
    BY <2>1, <2>2, <2>3
  <2> QED  BY <2>1, <2>4, <2>5
<1>2. CASE WaiterReturns(p)
  BY <1>2 DEF WaiterReturns, outside
<1>3. CASE ProgramReads(p) \/ ProgramExits(p) \/ HangsUp(p)
  BY <1>3 DEF ProgramReads, ProgramExits, HangsUp, threads
<1> QED  BY <1>1, <1>2, <1>3

LEMMA SpawnOutput == ASSUME TypeOK, OutputInv, Spawn PROVE OutputInv'
<1> USE DEF TypeOK, SessionType
<1>1. PICK new \in Pane : new = nextId
  BY DEF Spawn, Pane
<1>2. /\ nextId \in Nat /\ nextId' = nextId + 1
      /\ listed' = listed \cup {new} /\ open' = open \cup {new}
      /\ reader' = [reader EXCEPT ![new] = "reading"]
      /\ UNCHANGED <<output, wrote, tty, batch, shown>>
  BY <1>1 DEF Spawn, Pane
<1>3. \A p \in Pane : Places(p)' = Places(p)
  BY <1>2 DEF Places
<1>4. \A p \in Pane : p # new => Same(p) /\ reader'[p] = reader[p]
  BY <1>2 DEF Same, ThreadType
<1>5. Fresh'
  BY <1>1, <1>2, <1>3, <1>4 DEF OutputInv, Fresh, Unspent, Pane
<1>6. Kept(new)'
  <2>1. /\ Places(new)' = {} /\ tty'[new] = <<>> /\ wrote'[new] = 0 /\ shown'[new] = 0
        /\ reader'[new] = "reading"
    BY <1>1, <1>2, <1>3 DEF OutputInv, Fresh, Unspent, Pane, ThreadType
  <2>2. Handed(new)' = 0
    <3>1. Len(tty'[new]) = 0
      BY <2>1
    <3>2. Handed(new)' = wrote'[new] - Len(tty'[new]) - IF reader'[new] = "sending" THEN 1 ELSE 0
      BY DEF Handed
    <3> QED  BY <2>1, <3>1, <3>2
  <2> QED  BY <1>2, <2>1, <2>2 DEF Kept
<1>7. ASSUME NEW p \in listed, p # new PROVE Kept(p)'
  BY <1>2, <1>3, <1>4, <1>7, SameKept DEF OutputInv, OutputKept
<1> QED  BY <1>2, <1>5, <1>6, <1>7 DEF OutputInv, OutputKept

LEMMA HandedIs ==
  ASSUME TypeOK, NEW p \in Pane
  PROVE  /\ wrote[p] \in Nat /\ Len(tty[p]) \in Nat /\ Handed(p) \in Int
         /\ reader[p] = "sending" => Handed(p) = wrote[p] - Len(tty[p]) - 1
         /\ reader[p] # "sending" => Handed(p) = wrote[p] - Len(tty[p])
<1>1. wrote[p] \in Nat /\ Len(tty[p]) \in Nat
  BY DEF TypeOK, ProgramType
<1>2. CASE reader[p] = "sending"
  BY <1>1, <1>2 DEF Handed
<1>3. CASE reader[p] # "sending"
  BY <1>1, <1>3 DEF Handed
<1> QED  BY <1>1, <1>2, <1>3

(* A step of one pane that leaves the other panes' output alone.           *)
LEMMA OneMoves ==
  ASSUME TypeOK, OutputInv, NEW p \in Pane, p \in listed => Kept(p)',
         UNCHANGED <<nextId, listed, open>>, p < nextId,
         \A q \in Pane : q # p =>
           /\ Same(q) /\ reader'[q] = reader[q]
           /\ Places(q)' = Places(q) /\ \A i \in Places(q) : output'[i] = output[i]
  PROVE  OutputInv'
<1>1. Fresh'
  BY DEF OutputInv, Fresh, Unspent, Same, TypeOK, SessionType, Pane
<1>2. ASSUME NEW q \in listed, q # p PROVE Kept(q)'
  BY <1>2, SameKept DEF OutputInv, OutputKept, TypeOK, SessionType
<1> QED  BY <1>1, <1>2 DEF OutputInv, OutputKept

LEMMA ReadsOutput ==
  ASSUME TypeOK, OutputInv, NEW p \in Pane, ReaderReads(p) PROVE OutputInv'
<1>1. /\ reader[p] = "reading" /\ tty[p] # <<>> /\ tty[p] \in Seq(Nat)
      /\ UNCHANGED <<nextId, listed, open, output, shown, wrote>>
      /\ batch'[p] = Head(tty[p]) /\ tty'[p] = Tail(tty[p]) /\ reader'[p] = "sending"
      /\ \A q \in Pane : q # p => Same(q) /\ reader'[q] = reader[q]
  BY DEF ReaderReads, Same, TypeOK, ThreadType, ProgramType
<1>2. p < nextId
  BY <1>1 DEF OutputInv, Fresh, Unspent, TypeOK, SessionType, Pane
<1>3. \A q \in Pane : Places(q)' = Places(q)
  BY <1>1 DEF Places
<1>4. ASSUME p \in listed PROVE Kept(p)'
  <2>1. Kept(p)
    BY <1>4 DEF OutputInv, OutputKept
  <2>2. /\ Len(tty[p]) \in Nat /\ Len(tty[p]) > 0 /\ Len(tty'[p]) = Len(tty[p]) - 1
        /\ batch'[p] = tty[p][1]
        /\ \A i \in DOMAIN tty'[p] : i + 1 \in DOMAIN tty[p] /\ tty'[p][i] = tty[p][i + 1] /\ i \in Nat
    BY <1>1
  <2>3. Handed(p) = wrote[p] - Len(tty[p]) /\ wrote[p] \in Nat
    BY <1>1, HandedIs
  <2>4. Handed(p)' = Handed(p)
    <3>1. Handed(p)' = wrote'[p] - Len(tty'[p]) - 1
      BY <1>1 DEF Handed
    <3> QED  BY <1>1, <2>2, <2>3, <3>1
  <2>5. batch'[p] = Handed(p) + 1
    <3>1. 1 \in DOMAIN tty[p]
      BY <1>1, <2>2
    <3> QED  BY <2>1, <2>2, <2>3, <3>1 DEF Kept
  <2>6. \A i \in DOMAIN tty'[p] : tty'[p][i] = wrote[p] - Len(tty'[p]) + i
    BY <2>1, <2>2, <2>3 DEF Kept
  <2> QED  BY <1>1, <1>3, <2>1, <2>4, <2>5, <2>6 DEF Kept
<1> QED  BY <1>1, <1>2, <1>3, <1>4, OneMoves

LEMMA WritesOutput ==
  ASSUME TypeOK, OutputInv, NEW p \in Pane, ProgramWrites(p) PROVE OutputInv'
<1>1. /\ p \in open /\ tty[p] \in Seq(Nat) /\ wrote[p] \in Nat
      /\ UNCHANGED <<nextId, listed, open, output, shown, reader, batch>>
      /\ wrote'[p] = wrote[p] + 1 /\ tty'[p] = Append(tty[p], wrote[p] + 1)
      /\ \A q \in Pane : q # p => Same(q) /\ reader'[q] = reader[q]
  BY DEF ProgramWrites, Same, threads, TypeOK, ProgramType
<1>2. p < nextId
  BY <1>1 DEF OutputInv, Fresh, Unspent, TypeOK, SessionType, Pane
<1>3. \A q \in Pane : Places(q)' = Places(q)
  BY <1>1 DEF Places
<1>4. ASSUME p \in listed PROVE Kept(p)'
  <2>1. Kept(p)
    BY <1>4 DEF OutputInv, OutputKept
  <2>2. Len(tty'[p]) = Len(tty[p]) + 1 /\ Len(tty[p]) \in Nat
    BY <1>1
  <2>3. Handed(p)' = Handed(p)
    <3>1. CASE reader[p] = "sending"
      <4>1. Handed(p)' = wrote'[p] - Len(tty'[p]) - 1
        BY <1>1, <3>1 DEF Handed
      <4>2. Handed(p) = wrote[p] - Len(tty[p]) - 1 /\ wrote[p] \in Nat /\ wrote'[p] = wrote[p] + 1
        BY <1>1, <3>1, HandedIs
      <4> QED  BY <2>2, <4>1, <4>2
    <3>2. CASE reader[p] # "sending"
      <4>1. Handed(p)' = wrote'[p] - Len(tty'[p]) - 0
        BY <1>1, <3>2 DEF Handed
      <4>2. Handed(p) = wrote[p] - Len(tty[p]) - 0 /\ wrote[p] \in Nat /\ wrote'[p] = wrote[p] + 1
        BY <1>1, <3>2, HandedIs
      <4> QED  BY <2>2, <4>1, <4>2
    <3> QED  BY <3>1, <3>2
  <2>4. ASSUME NEW i \in DOMAIN tty'[p] PROVE tty'[p][i] = wrote'[p] - Len(tty'[p]) + i
    <3>1. CASE i \in DOMAIN tty[p]
      <4>1. tty'[p][i] = tty[p][i] /\ i \in Nat
        BY <1>1, <3>1
      <4> QED  BY <1>1, <2>1, <2>2, <3>1, <4>1 DEF Kept
    <3>2. CASE i = Len(tty[p]) + 1
      BY <1>1, <2>2, <3>2
    <3> QED  BY <1>1, <2>2, <3>1, <3>2
  <2> QED  BY <1>1, <1>3, <2>1, <2>3, <2>4 DEF Kept
<1> QED  BY <1>1, <1>2, <1>3, <1>4, OneMoves

LEMMA SendsOutput ==
  ASSUME TypeOK, OutputInv, NEW p \in Pane, ReaderSends(p) PROVE OutputInv'
<1> DEFINE last == Len(output) + 1
<1>1. /\ reader[p] = "sending" /\ reader'[p] = "reading" /\ batch[p] \in Nat
      /\ output \in Seq([pane : Pane, chunk : Nat])
      /\ output' = Append(output, [pane |-> p, chunk |-> batch[p]])
      /\ UNCHANGED <<nextId, listed, open, shown, wrote, tty, batch>>
      /\ \A q \in Pane : q # p => Same(q) /\ reader'[q] = reader[q]
  BY DEF ReaderSends, Same, outside, TypeOK, ChannelType, ThreadType
<1>2. p < nextId
  BY <1>1 DEF OutputInv, Fresh, Unspent, TypeOK, SessionType, Pane
<1>3. /\ last \in Nat /\ DOMAIN output' = DOMAIN output \cup {last}
      /\ \A i \in DOMAIN output : output'[i] = output[i] /\ i \in Nat /\ i < last
      /\ output'[last].pane = p /\ output'[last].chunk = batch[p]
  BY <1>1
<1> HIDE DEF last
<1>4. \A q \in Pane : Places(q)' = Places(q) \cup IF q = p THEN {last} ELSE {}
  BY <1>3 DEF Places
<1>5. \A q \in Pane : \A i \in Places(q) : output'[i] = output[i] /\ i \in Nat /\ i < last
  BY <1>3 DEF Places
<1>6. ASSUME p \in listed PROVE Kept(p)'
  <2>1. Kept(p)
    BY <1>6 DEF OutputInv, OutputKept
  <2>2. Handed(p)' = Handed(p) + 1 /\ Handed(p) \in Int
    <3>1. Handed(p)' = wrote'[p] - Len(tty'[p]) - 0
      BY <1>1 DEF Handed
    <3> QED  BY <1>1, <3>1, HandedIs
  <2>3. batch[p] = Handed(p) + 1
    BY <1>1, <2>1 DEF Kept
  <2>4. {output'[i].chunk : i \in Places(p)'} = {output[i].chunk : i \in Places(p)} \cup {batch[p]}
    BY <1>3, <1>4, <1>5
  <2>5. {output'[i].chunk : i \in Places(p)'} = shown[p] + 1 .. Handed(p) + 1
    <3>1. shown[p] \in Nat /\ Handed(p) + 1 >= shown[p] + 1
      BY <2>1, <2>2 DEF Kept, TypeOK, SessionType
    <3>2. (shown[p] + 1 .. Handed(p)) \cup {Handed(p) + 1} = shown[p] + 1 .. Handed(p) + 1
      BY <2>2, <3>1
    <3>3. {output[i].chunk : i \in Places(p)} = shown[p] + 1 .. Handed(p)
      BY <2>1 DEF Kept
    <3> QED  BY <2>3, <2>4, <3>2, <3>3
  <2>6. ASSUME NEW i \in Places(p)', NEW j \in Places(p)', i < j
        PROVE  output'[i].chunk < output'[j].chunk
    <3>1. i \in Places(p) /\ output'[i] = output[i]
      BY <1>3, <1>4, <1>5, <2>6
    <3>2. CASE j \in Places(p)
      BY <1>5, <2>1, <2>6, <3>1, <3>2 DEF Kept
    <3>3. CASE j = last
      <4>1. output[i].chunk \in shown[p] + 1 .. Handed(p)
        BY <2>1, <3>1 DEF Kept
      <4>2. output'[j].chunk = Handed(p) + 1
        BY <1>3, <2>3, <3>3
      <4> QED  BY <2>2, <3>1, <4>1, <4>2
    <3> QED  BY <1>4, <3>2, <3>3
  <2>7. shown[p] \in Nat /\ shown[p] <= Handed(p) + 1
    BY <2>1, <2>2 DEF Kept, TypeOK, SessionType
  <2> QED  BY <1>1, <2>1, <2>2, <2>5, <2>6, <2>7 DEF Kept
<1> QED  BY <1>1, <1>2, <1>4, <1>5, <1>6, OneMoves

(* The first chunk a pane has in the channel is the next that it is to be  *)
(* shown.                                                                  *)
LEMMA FirstIsNext ==
  ASSUME TypeOK, NEW p \in Pane, Kept(p), NEW k \in Places(p), \A i \in Places(p) : k <= i
  PROVE  /\ output[k].chunk = shown[p] + 1 /\ shown[p] + 1 <= Handed(p)
         /\ {output[i].chunk : i \in Places(p) \ {k}} = shown[p] + 2 .. Handed(p)
<1> DEFINE chunk(i) == output[i].chunk
<1>1. shown[p] \in Nat /\ Handed(p) \in Int /\ \A i \in Places(p) : i \in Nat
  <2>1. shown[p] \in Nat
    BY DEF TypeOK, SessionType
  <2>2. Handed(p) \in Int
    BY HandedIs DEF Kept
  <2>3. output \in Seq([pane : Pane, chunk : Nat])
    BY DEF TypeOK, ChannelType
  <2>4. DOMAIN output = 1 .. Len(output)
    BY <2>3
  <2> QED  BY <2>1, <2>2, <2>4 DEF Places
<1>2. /\ {chunk(i) : i \in Places(p)} = shown[p] + 1 .. Handed(p)
      /\ \A i, j \in Places(p) : i < j => chunk(i) < chunk(j)
  BY DEF Kept
<1> HIDE DEF chunk
<1>3. \A i \in Places(p) : chunk(i) \in shown[p] + 1 .. Handed(p) /\ chunk(i) \in Int
  BY <1>1, <1>2
<1>4. \A i \in Places(p) : i # k => chunk(k) < chunk(i)
  BY <1>1, <1>2
<1>5. shown[p] + 1 <= Handed(p)
  BY <1>1, <1>3
<1>6. PICK i \in Places(p) : chunk(i) = shown[p] + 1
  BY <1>1, <1>2, <1>5
<1>7. i = k
  BY <1>1, <1>3, <1>4, <1>6
<1>8. chunk(k) = shown[p] + 1
  BY <1>6, <1>7
<1>9. {chunk(j) : j \in Places(p) \ {k}} = (shown[p] + 1 .. Handed(p)) \ {chunk(k)}
  <2>1. \A j \in Places(p) \ {k} : chunk(j) # chunk(k)
    BY <1>3, <1>4
  <2> QED  BY <1>2, <2>1
<1>10. (shown[p] + 1 .. Handed(p)) \ {chunk(k)} = shown[p] + 2 .. Handed(p)
  BY <1>1, <1>8
<1> QED  BY <1>5, <1>8, <1>9, <1>10 DEF chunk

LEMMA TakesOutput == ASSUME TypeOK, OutputInv, TakeOutput PROVE OutputInv'
<1>1. /\ output \in Seq([pane : Pane, chunk : Nat]) /\ output # <<>> /\ output' = Tail(output)
      /\ UNCHANGED <<nextId, listed, open, reader, batch, wrote, tty>>
  BY DEF TakeOutput, threads, outside, TypeOK, ChannelType
<1>2. PICK q \in Pane : q = output[1].pane
  <2>1. Head(output) \in [pane : Pane, chunk : Nat]
    BY <1>1, HeadTyped
  <2>2. Head(output) = output[1]
    BY <1>1
  <2> QED  BY <2>1, <2>2
<1>3. /\ \A p \in Pane : p # q => shown'[p] = shown[p]
      /\ q \in listed => shown'[q] = output[1].chunk
      /\ q \notin listed => shown' = shown
  <2>1. Head(output) = output[1]
    BY <1>1
  <2> QED  BY <1>2, <2>1 DEF TakeOutput, TypeOK, SessionType
<1>4. /\ DOMAIN output = 1 .. Len(output) /\ Len(output) \in Nat /\ 1 \in DOMAIN output
      /\ DOMAIN output' = 1 .. Len(output) - 1
      /\ \A i \in DOMAIN output' : output'[i] = output[i + 1]
  BY <1>1
<1>5. ASSUME NEW p \in Pane
      PROVE  /\ \A i \in Places(p)' : i \in Nat /\ i + 1 \in Places(p) \ {1} /\ output'[i] = output[i + 1]
             /\ \A j \in Places(p) \ {1} : j - 1 \in Places(p)' /\ output'[j - 1] = output[j]
             /\ 1 \in Places(p) <=> p = q
  <2>1. \A i \in Places(p)' : i \in Nat /\ i + 1 \in Places(p) \ {1} /\ output'[i] = output[i + 1]
    BY <1>4 DEF Places
  <2>2. ASSUME NEW j \in Places(p) \ {1}
        PROVE  j - 1 \in Places(p)' /\ output'[j - 1] = output[j]
    <3>1. j - 1 \in DOMAIN output' /\ (j - 1) + 1 = j
      BY <1>4 DEF Places
    <3>2. output'[j - 1] = output[j]
      BY <1>4, <3>1
    <3> QED  BY <3>1, <3>2 DEF Places
  <2> QED  BY <1>2, <1>4, <2>1, <2>2 DEF Places
<1>6. Fresh'
  <2>1. q < nextId
    BY <1>5 DEF OutputInv, Fresh, Unspent, TypeOK, SessionType, Pane
  <2>2. ASSUME NEW p \in Pane, p >= nextId PROVE Unspent(p)'
    <3>1. p # q /\ Unspent(p)
      BY <2>1, <2>2 DEF OutputInv, Fresh, TypeOK, SessionType, Pane
    <3>2. Places(p)' = {}
      BY <1>5, <3>1 DEF Unspent
    <3> QED  BY <1>1, <1>3, <3>1, <3>2 DEF Unspent
  <2> QED  BY <1>1, <2>2 DEF Fresh
<1>7. ASSUME NEW p \in listed PROVE Kept(p)'
  <2>1. p \in Pane /\ Kept(p)
    BY DEF OutputInv, OutputKept, TypeOK, SessionType
  <2>2. Handed(p)' = Handed(p)
    BY <1>1 DEF Handed
  <2>3. {output'[i].chunk : i \in Places(p)'} = {output[i].chunk : i \in Places(p) \ {1}}
    BY <1>5, <2>1
  <2>4. ASSUME NEW i \in Places(p)', NEW j \in Places(p)', i < j
        PROVE  output'[i].chunk < output'[j].chunk
    <3>1. /\ i + 1 \in Places(p) /\ j + 1 \in Places(p) /\ i + 1 < j + 1
          /\ output'[i] = output[i + 1] /\ output'[j] = output[j + 1]
      BY <1>5, <2>1, <2>4
    <3> QED  BY <2>1, <3>1 DEF Kept
  <2>5. /\ shown'[p] <= Handed(p)
        /\ {output'[i].chunk : i \in Places(p)'} = shown'[p] + 1 .. Handed(p)
    <3>1. CASE p = q
      <4>1. 1 \in Places(p) /\ \A i \in Places(p) : 1 <= i
        BY <1>4, <1>5, <2>1, <3>1 DEF Places
      <4>2. /\ output[1].chunk = shown[p] + 1 /\ shown[p] + 1 <= Handed(p)
            /\ {output[i].chunk : i \in Places(p) \ {1}} = shown[p] + 2 .. Handed(p)
        BY <2>1, <4>1, FirstIsNext
      <4>3. shown'[p] = shown[p] + 1 /\ shown[p] \in Nat
        BY <1>3, <3>1, <4>2 DEF TypeOK, SessionType
      <4>4. shown'[p] + 1 = shown[p] + 2
        BY <4>3
      <4> QED  BY <2>3, <4>2, <4>3, <4>4
    <3>2. CASE p # q
      <4>1. Places(p) \ {1} = Places(p) /\ shown'[p] = shown[p]
        BY <1>3, <1>5, <2>1, <3>2
      <4> QED  BY <2>1, <2>3, <4>1 DEF Kept
    <3> QED  BY <3>1, <3>2
  <2> QED  BY <1>1, <2>1, <2>2, <2>4, <2>5 DEF Kept
<1> QED  BY <1>1, <1>6, <1>7 DEF OutputInv, OutputKept

LEMMA NextOutput == TypeOK /\ OutputInv /\ [Next]_vars => OutputInv'
<1> SUFFICES ASSUME TypeOK, OutputInv, [Next]_vars PROVE OutputInv'
  OBVIOUS
<1>1. CASE UNCHANGED vars
  BY <1>1 DEF vars, threads, outside, OutputInv, Fresh, Unspent, OutputKept, Kept, Handed, Places
<1>2. CASE LoopStep
  BY <1>2, SpawnOutput, TakesOutput, LoopQuiet, QuietOutput
<1>3. ASSUME NEW p \in Pane, ThreadStep(p) \/ ProgramStep(p) PROVE OutputInv'
  BY <1>3, ReadsOutput, SendsOutput, WritesOutput, OthersQuiet, QuietOutput
  DEF ThreadStep, ProgramStep
<1> QED  BY <1>1, <1>2, <1>3, Steps

(* Whatever blocks on its way, the output of a pane that the app lists is  *)
(* shown from the start, without a gap and in order, and the rest of it is *)
(* in the channel, with its reader or in the terminal (native.rs           *)
(* spawn_reader, app.rs run, which takes the channel's chunks).            *)
THEOREM OutputAlwaysKept == Spec => []OutputKept
<1>1. OutputInv => OutputKept
  BY DEF OutputInv
<1> QED  BY InitTypes, NextTypes, InitOutput, NextOutput, <1>1, PTL DEF Spec
=============================================================================
