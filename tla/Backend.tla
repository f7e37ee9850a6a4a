------------------------------ MODULE Backend ------------------------------
(***************************************************************************)
(* The PTY backend and its threads.  Each pane has a reader thread, which  *)
(* moves what its program writes into one bounded channel, and a waiter    *)
(* thread, which waits for its program; whichever of them sees the end     *)
(* first reports it through another.  One event loop empties both          *)
(* channels, and while it writes to a pseudo-terminal, or reports that a   *)
(* pane could not be spawned, it waits without emptying either.            *)
(*                                                                         *)
(* Modelled from src/src/backend/native.rs and the calls that              *)
(* src/src/app.rs makes of it.  Programs and the kernel's buffers are      *)
(* external: what is written arrives in chunks, numbered as written.       *)
(***************************************************************************)
EXTENDS Integers, Sequences, FiniteSets

CONSTANTS
  MaxPanes,        \* bound: panes ever spawned
  OutputCapacity,  \* of the output channel (256)
  EventCapacity,   \* of the event channel (64)
  TtyCapacity,     \* chunks a terminal holds on their way out, keys on their way in
  MaxChunks,       \* bound: pane -> chunks its program writes
  Keyed,           \* bound: panes whose terminals are written to
  Killable,        \* bound: panes that are killed
  MaxKeys,         \* bound: keys and answers written to terminals
  Burst,           \* bound: keys in one write
  Copying          \* programs that write what they read before they read on

ASSUME BackendAssumption ==
  /\ MaxPanes \in Nat /\ MaxKeys \in Nat /\ Burst \in Nat \ {0}
  /\ OutputCapacity \in Nat \ {0} /\ EventCapacity \in Nat \ {0}
  /\ TtyCapacity \in Nat \ {0}

Pane == 1 .. MaxPanes

ASSUME ChunksAssumption == MaxChunks \in [Pane -> Nat]

VARIABLES
  nextId,    \* NativeBackend.next_id
  held,      \* the keys of NativeBackend.panes
  listed,    \* App.panes
  loop,      \* what the event loop is doing
  output,    \* the output channel: chunks with their panes
  events,    \* the event channel: panes that died, and 0 for a failed spawn
  reader,    \* pane -> what its reader thread does
  batch,     \* pane -> the chunk its reader holds
  waiter,    \* pane -> what its waiter thread does
  dead,      \* pane -> the flag its two threads share
  shown,     \* pane -> the last chunk its emulator was given
  running,   \* panes whose program has not exited
  open,      \* panes whose terminal somebody still has open
  wrote,     \* pane -> chunks written so far
  tty,       \* pane -> chunks in the terminal, not yet read by the reader
  typed,     \* pane -> keys in the terminal, not yet read by the program
  owes,      \* copying programs that have read and not yet written
  sent       \* keys written to terminals so far (bounded by MaxKeys)

threads == <<reader, batch, waiter, dead>>
outside == <<running, open, wrote, tty, typed, owes>>
vars == <<nextId, held, listed, loop, output, events, shown, sent, threads, outside>>

(* What the loop may be doing: waiting in its select; writing `left` keys  *)
(* to a pane; reporting a failed spawn; or nothing more.                   *)
Nowhere(what) == [doing |-> what, pane |-> 0, left |-> 0, fatal |-> FALSE]
Idle == Nowhere("idle")
Failing == Nowhere("failing")
Ended == Nowhere("ended")
Writing(p, n, fatal) == [doing |-> "writing", pane |-> p, left |-> n, fatal |-> fatal]

Init ==
  /\ nextId = 1 /\ held = {} /\ listed = {} /\ loop = Idle
  /\ output = <<>> /\ events = <<>>
  /\ reader = [p \in Pane |-> "none"] /\ waiter = [p \in Pane |-> "none"]
  /\ batch = [p \in Pane |-> 0] /\ dead = [p \in Pane |-> FALSE]
  /\ shown = [p \in Pane |-> 0] /\ wrote = [p \in Pane |-> 0]
  /\ tty = [p \in Pane |-> <<>>] /\ typed = [p \in Pane |-> 0]
  /\ running = {} /\ open = {} /\ owes = {} /\ sent = 0

-----------------------------------------------------------------------------
(* The event loop: spawning and killing.                                   *)

(* spawn: both threads start before the pane is put into the map.          *)
Spawn ==
  /\ loop = Idle /\ nextId <= MaxPanes
  /\ nextId' = nextId + 1
  /\ held' = held \cup {nextId} /\ listed' = listed \cup {nextId}
  /\ running' = running \cup {nextId} /\ open' = open \cup {nextId}
  /\ reader' = [reader EXCEPT ![nextId] = "reading"]
  /\ waiter' = [waiter EXCEPT ![nextId] = "waiting"]
  /\ UNCHANGED <<loop, output, events, shown, sent, batch, dead, wrote, tty, typed, owes>>

(* spawn fails with no terminal or no program; or with a program already   *)
(* started, when the terminal's ends cannot be had.  The id is spent.      *)
SpawnFails ==
  /\ loop = Idle /\ nextId <= MaxPanes
  /\ nextId' = nextId + 1
  /\ running' \in {running, running \cup {nextId}}
  /\ loop' = Failing
  /\ UNCHANGED <<held, listed, output, events, shown, sent, threads, open, wrote, tty, typed, owes>>

(* send_spawn_failed waits for room in a channel that only this loop       *)
(* empties.  Then the error leaves the loop, whose caller had asked for a  *)
(* pane: the report itself is read by nobody.                              *)
ReportSpawnFailed ==
  /\ loop = Failing /\ Len(events) < EventCapacity
  /\ events' = Append(events, 0)
  /\ loop' = Ended
  /\ UNCHANGED <<nextId, held, listed, output, shown, sent, threads, outside>>

(* kill, and the pane is dropped.  Once the waiter has reaped the program  *)
(* the signal may fail, which some callers ignore and the others end on.   *)
Kill(p) ==
  /\ loop = Idle /\ p \in held \cap listed \cap Killable
  /\ held' = held \ {p} /\ listed' = listed \ {p}
  /\ loop' \in {Idle} \cup IF waiter[p] = "waiting" THEN {} ELSE {Ended}
  /\ UNCHANGED <<nextId, output, events, shown, sent, threads, outside>>

-----------------------------------------------------------------------------
(* The event loop: writing.  write_all and flush block the loop's thread.  *)

(* Keys from a client, or of send-keys, whose failure ends the session.    *)
Write(p, fatal) ==
  /\ loop = Idle /\ p \in held \cap listed \cap Keyed /\ sent + Burst <= MaxKeys
  /\ sent' = sent + Burst
  /\ loop' = Writing(p, Burst, fatal)
  /\ UNCHANGED <<nextId, held, listed, output, events, shown, threads, outside>>

WriteOn ==
  /\ loop.doing = "writing" /\ loop.pane \in open /\ typed[loop.pane] < TtyCapacity
  /\ typed' = [typed EXCEPT ![loop.pane] = @ + 1]
  /\ loop' = IF loop.left = 1 THEN Idle ELSE Writing(loop.pane, loop.left - 1, loop.fatal)
  /\ UNCHANGED <<nextId, held, listed, output, events, shown, sent, threads,
                 running, open, wrote, tty, owes>>

(* Nobody has the terminal open any more: the write is an error.           *)
WriteFails ==
  /\ loop.doing = "writing" /\ loop.pane \notin open
  /\ loop' = IF loop.fatal THEN Ended ELSE Idle
  /\ UNCHANGED <<nextId, held, listed, output, events, shown, sent, threads, outside>>

-----------------------------------------------------------------------------
(* The event loop: its two channels.                                       *)

(* A chunk goes to its pane's emulator, if the app still lists the pane.   *)
(* One that asks the terminal something is answered at once, in the loop.  *)
TakeOutput ==
  /\ loop = Idle /\ output # <<>>
  /\ output' = Tail(output)
  /\ LET p == Head(output).pane IN
       IF p \in listed
         THEN /\ shown' = [shown EXCEPT ![p] = Head(output).chunk]
              /\ \/ UNCHANGED <<loop, sent>>
                 \/ /\ p \in Keyed /\ sent < MaxKeys /\ sent' = sent + 1
                    /\ loop' = Writing(p, 1, FALSE)
         ELSE UNCHANGED <<shown, loop, sent>>
  /\ UNCHANGED <<nextId, held, listed, events, threads, outside>>

(* PaneDied: the pane is dropped from the app, not from the backend; the   *)
(* session ends with its last pane.                                        *)
TakeEvent ==
  /\ loop = Idle /\ events # <<>>
  /\ events' = Tail(events)
  /\ listed' = listed \ {Head(events)}
  /\ loop' = IF listed' = {} THEN Ended ELSE Idle
  /\ UNCHANGED <<nextId, held, output, shown, sent, threads, outside>>

-----------------------------------------------------------------------------
(* The threads.                                                            *)

(* Mutant: a pane is reported by each thread that sees its end.            *)
EveryThreadReports(p, thread) == [thread EXCEPT ![p] = "reporting"]

(* emit_pane_died: the first of the two to swap the flag reports.          *)
Emit(p, thread) == [thread EXCEPT ![p] = IF dead[p] THEN "done" ELSE "reporting"]

ReaderReads(p) ==
  /\ reader[p] = "reading" /\ tty[p] # <<>>
  /\ batch' = [batch EXCEPT ![p] = Head(tty[p])]
  /\ tty' = [tty EXCEPT ![p] = Tail(@)]
  /\ reader' = [reader EXCEPT ![p] = "sending"]
  /\ UNCHANGED <<nextId, held, listed, loop, output, events, shown, sent, waiter, dead,
                 running, open, wrote, typed, owes>>

(* Mutant: a chunk that finds no room is let go.                           *)
ReaderDrops(p) ==
  /\ reader[p] = "sending"
  /\ output' = IF Len(output) < OutputCapacity
                 THEN Append(output, [pane |-> p, chunk |-> batch[p]]) ELSE output
  /\ reader' = [reader EXCEPT ![p] = "reading"]
  /\ UNCHANGED <<nextId, held, listed, loop, events, shown, sent, batch, waiter, dead, outside>>

(* Mutant: a reader that finds no room takes the channel for closed.       *)
ReaderGivesUp(p) ==
  /\ reader[p] = "sending"
  /\ IF Len(output) < OutputCapacity
       THEN /\ output' = Append(output, [pane |-> p, chunk |-> batch[p]])
            /\ reader' = [reader EXCEPT ![p] = "reading"]
       ELSE reader' = [reader EXCEPT ![p] = "done"] /\ UNCHANGED output
  /\ UNCHANGED <<nextId, held, listed, loop, events, shown, sent, batch, waiter, dead, outside>>

(* blocking_send: the thread waits for room.                               *)
ReaderSends(p) ==
  /\ reader[p] = "sending" /\ Len(output) < OutputCapacity
  /\ output' = Append(output, [pane |-> p, chunk |-> batch[p]])
  /\ reader' = [reader EXCEPT ![p] = "reading"]
  /\ UNCHANGED <<nextId, held, listed, loop, events, shown, sent, batch, waiter, dead, outside>>

(* End of file: read through, and closed by everybody who had it.          *)
ReaderEnds(p) ==
  /\ reader[p] = "reading" /\ tty[p] = <<>> /\ p \notin open
  /\ reader' = Emit(p, reader)
  /\ dead' = [dead EXCEPT ![p] = TRUE]
  /\ UNCHANGED <<nextId, held, listed, loop, output, events, shown, sent, batch, waiter, outside>>

WaiterReturns(p) ==
  /\ waiter[p] = "waiting" /\ p \notin running
  /\ waiter' = Emit(p, waiter)
  /\ dead' = [dead EXCEPT ![p] = TRUE]
  /\ UNCHANGED <<nextId, held, listed, loop, output, events, shown, sent, batch, reader, outside>>

(* Mutant: a death that finds no room in the channel goes unreported.      *)
ReportsIfRoom(p) ==
  /\ \/ reader[p] = "reporting" /\ reader' = [reader EXCEPT ![p] = "done"] /\ UNCHANGED waiter
     \/ waiter[p] = "reporting" /\ waiter' = [waiter EXCEPT ![p] = "done"] /\ UNCHANGED reader
  /\ events' = IF Len(events) < EventCapacity THEN Append(events, p) ELSE events
  /\ UNCHANGED <<nextId, held, listed, loop, output, shown, sent, batch, dead, outside>>

(* The report waits for room.                                              *)
Reports(p) ==
  /\ Len(events) < EventCapacity
  /\ \/ reader[p] = "reporting" /\ reader' = [reader EXCEPT ![p] = "done"] /\ UNCHANGED waiter
     \/ waiter[p] = "reporting" /\ waiter' = [waiter EXCEPT ![p] = "done"] /\ UNCHANGED reader
  /\ events' = Append(events, p)
  /\ UNCHANGED <<nextId, held, listed, loop, output, shown, sent, batch, dead, outside>>

-----------------------------------------------------------------------------
(* Programs, and whoever else has their terminals.                         *)

ProgramWrites(p) ==
  /\ p \in open /\ wrote[p] < MaxChunks[p] /\ Len(tty[p]) < TtyCapacity
  /\ wrote' = [wrote EXCEPT ![p] = @ + 1]
  /\ tty' = [tty EXCEPT ![p] = Append(@, wrote[p] + 1)]
  /\ owes' = owes \ {p}
  /\ UNCHANGED <<nextId, held, listed, loop, output, events, shown, sent, threads,
                 running, open, typed>>

ProgramReads(p) ==
  /\ p \in running \cap open /\ typed[p] > 0 /\ p \notin owes
  /\ typed' = [typed EXCEPT ![p] = @ - 1]
  /\ owes' = IF p \in Copying /\ wrote[p] < MaxChunks[p] THEN owes \cup {p} ELSE owes
  /\ UNCHANGED <<nextId, held, listed, loop, output, events, shown, sent, threads,
                 running, open, wrote, tty>>

(* A program exits, and its terminal is closed unless a child it started   *)
(* has it open too.                                                        *)
ProgramExits(p) ==
  /\ p \in running
  /\ running' = running \ {p}
  /\ open' \in {open, open \ {p}}
  /\ owes' = owes \ {p}
  /\ UNCHANGED <<nextId, held, listed, loop, output, events, shown, sent, threads,
                 wrote, tty, typed>>

(* The terminal is closed: by the last child, or by a program that goes on *)
(* without one.                                                            *)
HangsUp(p) ==
  /\ p \in open
  /\ open' = open \ {p}
  /\ UNCHANGED <<nextId, held, listed, loop, output, events, shown, sent, threads,
                 running, wrote, tty, typed, owes>>

-----------------------------------------------------------------------------
LoopSteps == ReportSpawnFailed \/ WriteOn \/ WriteFails

(* The threads end with the process, soon after its loop.                  *)
Next ==
  /\ loop # Ended
  /\ \/ Spawn \/ SpawnFails
     \/ LoopSteps \/ TakeOutput \/ TakeEvent
     \/ \E p \in Pane :
          \/ Kill(p)
          \/ \E fatal \in BOOLEAN : Write(p, fatal)
          \/ ReaderReads(p) \/ ReaderSends(p) \/ ReaderEnds(p) \/ WaiterReturns(p) \/ Reports(p)
          \/ ProgramWrites(p) \/ ProgramReads(p) \/ ProgramExits(p) \/ HangsUp(p)

Spec == Init /\ [][Next]_vars

(* The loop goes on, and its select! is fair to both channels; threads are *)
(* scheduled.  Programs read what they are sent, and a copying program     *)
(* writes what it owes.                                                    *)
Fairness ==
  /\ WF_vars(loop # Ended /\ LoopSteps) /\ WF_vars(loop # Ended /\ TakeOutput) /\ WF_vars(loop # Ended /\ TakeEvent)
  /\ \A p \in Pane :
       /\ WF_vars(loop # Ended /\ (ReaderReads(p) \/ ReaderSends(p) \/ ReaderEnds(p)))
       /\ WF_vars(loop # Ended /\ WaiterReturns(p)) /\ WF_vars(loop # Ended /\ Reports(p))
       /\ WF_vars(loop # Ended /\ ProgramReads(p)) /\ WF_vars(loop # Ended /\ p \in owes /\ ProgramWrites(p))

FairSpec == Spec /\ Fairness

-----------------------------------------------------------------------------
Loops ==
  [doing : {"idle", "failing", "writing", "ended"}, pane : Pane \cup {0},
   left : 0 .. Burst, fatal : BOOLEAN]

SessionType ==
  /\ nextId \in 1 .. MaxPanes + 1
  /\ held \subseteq Pane /\ listed \subseteq Pane
  /\ loop \in Loops /\ (loop.doing = "writing" => loop.left > 0)
  /\ shown \in [Pane -> Nat] /\ sent \in 0 .. MaxKeys

ChannelType ==
  output \in Seq([pane : Pane, chunk : Nat]) /\ events \in Seq(Pane \cup {0})

ThreadType ==
  /\ reader \in [Pane -> {"none", "reading", "sending", "reporting", "done"}]
  /\ waiter \in [Pane -> {"none", "waiting", "reporting", "done"}]
  /\ batch \in [Pane -> Nat] /\ dead \in [Pane -> BOOLEAN]

ProgramType ==
  /\ running \subseteq Pane /\ open \subseteq Pane /\ owes \subseteq Copying
  /\ wrote \in [Pane -> Nat] /\ tty \in [Pane -> Seq(Nat)]
  /\ typed \in [Pane -> 0 .. TtyCapacity]

TypeOK == SessionType /\ ChannelType /\ ThreadType /\ ProgramType

(* How much of what a pane's program wrote has been handed to the channel, *)
(* and where in the channel what is left of it is.                         *)
Handed(p) == wrote[p] - Len(tty[p]) - IF reader[p] = "sending" THEN 1 ELSE 0
Places(p) == {i \in DOMAIN output : output[i].pane = p}

(* From the start, without a gap and in order: shown; then in the channel, *)
(* with the reader, and in the terminal.                                   *)
Kept(p) ==
  /\ shown[p] <= Handed(p)
  /\ {output[i].chunk : i \in Places(p)} = shown[p] + 1 .. Handed(p)
  /\ \A i, j \in Places(p) : i < j => output[i].chunk < output[j].chunk
  /\ reader[p] = "sending" => batch[p] = Handed(p) + 1
  /\ \A i \in DOMAIN tty[p] : tty[p][i] = wrote[p] - Len(tty[p]) + i

(* Whatever blocks on the way, all that a program wrote reaches its pane's *)
(* emulator in order, or is on its way there.  Only a pane that the app    *)
(* has dropped, because its death overtook its output on the other channel *)
(* or because it was killed, loses some.                                   *)
OutputKept == \A p \in listed : Kept(p)

(* A pane's death is reported once, by one of the two threads that see its *)
(* end, and only when its program has exited or its terminal is closed.    *)
Queued(p) == {i \in DOMAIN events : events[i] = p}

DiesOnce ==
  \A p \in Pane :
    /\ ~ (reader[p] = "reporting" /\ waiter[p] = "reporting")
    /\ reader[p] = "reporting" \/ waiter[p] = "reporting" => Queued(p) = {}
    /\ \A i, j \in Queued(p) : i = j
    /\ reader[p] = "reporting" \/ waiter[p] = "reporting" \/ Queued(p) # {}
         => p \notin running \cap open

(* The two ways in which the loop waits for something that only the loop   *)
(* would bring about.                                                      *)
ReportsToItself == loop = Failing /\ Len(events) = EventCapacity

WaitsForItself ==
  /\ loop.doing = "writing"
  /\ LET p == loop.pane IN
       /\ typed[p] = TtyCapacity /\ p \in owes
       /\ Len(tty[p]) = TtyCapacity /\ reader[p] = "sending" /\ Len(output) = OutputCapacity

(* And one in which nobody is left to read what it writes.                 *)
WritesToNobody ==
  loop.doing = "writing" /\ loop.pane \in open \ running /\ typed[loop.pane] = TtyCapacity

Stuck == ReportsToItself \/ WaitsForItself \/ WritesToNobody

(* Programs that read their input let the loop come back from every write  *)
(* and report, but for those three.                                        *)
LoopReturns == (loop.doing \in {"writing", "failing"}) ~> (loop \in {Idle, Ended} \/ Stuck)

(* A program that exits takes its pane with it, whatever else is going on. *)
DeathsArrive ==
  \A p \in Pane : (p \in listed \ running) ~> (p \notin listed \/ loop = Ended \/ Stuck)
=============================================================================
