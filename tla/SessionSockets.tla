--------------------------- MODULE SessionSockets ---------------------------
(***************************************************************************)
(* The socket directory, where a session's name is a file.  Every server   *)
(* binds, moves and unlinks its own socket there, and every one-shot       *)
(* command (`wv ls`, `exec`, `attach`, ...) unlinks the sockets nobody     *)
(* answers on.  No lock is held: each of them asks about a name first and  *)
(* acts on the answer later, in separate system calls.                     *)
(*                                                                         *)
(* Modelled from src/src/session/server.rs, paths.rs and launch.rs and     *)
(* from rename_session of src/src/app.rs.                                  *)
(***************************************************************************)
EXTENDS Naturals

CONSTANTS
  Name,     \* what a session may be called
  Server,   \* server processes, each started once
  Lister,   \* one-shot processes
  Nobody    \* of a name without a file, and of a process without a name

ASSUME SocketsAssumption == Nobody \notin Name \cup Server

VARIABLES
  file,       \* name -> the server whose socket the file is
  phase,      \* server -> how far it has come
  path,       \* server -> its name (SocketPath), once it has been given one
  moving,     \* server -> the name a rename found free
  asked,      \* one-shot -> the file it looks at, or found dead
  crossed     \* has a file come into use under an answer that it was not?

vars == <<file, phase, path, moving, asked, crossed>>

Idle == [name |-> Nobody, dead |-> FALSE]

Init ==
  /\ file = [n \in Name |-> Nobody]
  /\ phase = [s \in Server |-> "unborn"]
  /\ path = [s \in Server |-> Nobody]
  /\ moving = [s \in Server |-> Nobody]
  /\ asked = [l \in Lister |-> Idle]
  /\ crossed = FALSE

-----------------------------------------------------------------------------
(* A connection succeeds if there is a file and its server is listening,   *)
(* which it does until its process has ended.                              *)
Live(n) == file[n] # Nobody /\ phase[file[n]] \in {"serving", "closing"}

(* The file's server will use it, or is using it.                          *)
InUse(n) == file[n] # Nobody /\ phase[file[n]] \in {"bound", "serving", "closing"}

Remove(n) == file' = [file EXCEPT ![n] = Nobody]

At(s, from, to) ==
  /\ phase[s] = from
  /\ phase' = [phase EXCEPT ![s] = to]

(* Some server of `by` or a one-shot holds the answer that nobody uses     *)
(* `n`, and will act on it.                                                *)
Presumed(n, by) ==
  \/ \E s \in by : phase[s] = "clearing" /\ path[s] = n
  \/ \E s \in by : moving[s] = n
  \/ \E l \in Lister : asked[l].dead /\ asked[l].name = n

(* History: an answer and the use of `n` have crossed.  Nobody reads it.   *)
CrossIf(condition) == crossed' = (crossed \/ condition)

-----------------------------------------------------------------------------
(* `wv`: a server is started for a name nobody answers to.                 *)
Start(s, n) ==
  /\ At(s, "unborn", "asking")
  /\ ~ Live(n)
  /\ path' = [path EXCEPT ![s] = n]
  /\ UNCHANGED <<file, moving, asked, crossed>>

(* Mutant: a name that is taken is not asked about.                        *)
AskTrusting(s) ==
  /\ \/ At(s, "asking", "clearing") /\ file[path[s]] # Nobody
     \/ At(s, "asking", "binding") /\ file[path[s]] = Nobody
  /\ UNCHANGED <<file, path, moving, asked, crossed>>

(* bind: is there a file...                                                *)
Ask(s) ==
  /\ \/ At(s, "asking", "probing") /\ file[path[s]] # Nobody
     \/ At(s, "asking", "binding") /\ file[path[s]] = Nobody
  /\ UNCHANGED <<file, path, moving, asked, crossed>>

(* ...that somebody answers on?  Then the name is taken.                   *)
Probe(s) ==
  /\ \/ At(s, "probing", "ended") /\ Live(path[s]) /\ UNCHANGED crossed
     \/ At(s, "probing", "clearing") /\ ~ Live(path[s]) /\ CrossIf(InUse(path[s]))
  /\ UNCHANGED <<file, path, moving, asked>>

(* Remove it, unless somebody else has, which is an error.                 *)
Clear(s) ==
  /\ \/ At(s, "clearing", "binding") /\ file[path[s]] # Nobody
     \/ At(s, "clearing", "ended") /\ file[path[s]] = Nobody
  /\ Remove(path[s])
  /\ UNCHANGED <<path, moving, asked, crossed>>

(* Binding makes the file, or fails if there is one.                       *)
Bind(s) ==
  /\ \/ /\ At(s, "binding", "bound")
        /\ file[path[s]] = Nobody
        /\ file' = [file EXCEPT ![path[s]] = s]
        /\ CrossIf(Presumed(path[s], Server \ {s}))
     \/ /\ At(s, "binding", "ended")
        /\ file[path[s]] # Nobody
        /\ UNCHANGED <<file, crossed>>
  /\ UNCHANGED <<path, moving, asked>>

(* Until then a connection is refused.                                     *)
Listen(s) == At(s, "bound", "serving") /\ UNCHANGED <<file, path, moving, asked, crossed>>

-----------------------------------------------------------------------------
(* rename-session: the new name must be one nobody answers to...           *)
AskRename(s, n) ==
  /\ phase[s] = "serving" /\ moving[s] = Nobody
  /\ n # path[s]
  /\ ~ Live(n)
  /\ moving' = [moving EXCEPT ![s] = n]
  /\ CrossIf(InUse(n))
  /\ UNCHANGED <<file, phase, path, asked>>

(* Mutant: the guard does not learn the new path.                          *)
RenameUntold(s) ==
  LET n == moving[s]  own == path[s] IN
  /\ phase[s] = "serving" /\ n # Nobody
  /\ moving' = [moving EXCEPT ![s] = Nobody]
  /\ IF file[own] = Nobody
       THEN UNCHANGED <<file, crossed>>
       ELSE /\ CrossIf(Presumed(n, Server \ {s}))
            /\ file' = [file EXCEPT ![n] = file[own], ![own] = Nobody]
  /\ UNCHANGED <<phase, path, asked>>

(* ...and then the file moves over whatever is there by now, and the       *)
(* server with it.  A file that has gone is a refusal.                     *)
Rename(s) ==
  LET n == moving[s]  own == path[s] IN
  /\ phase[s] = "serving" /\ n # Nobody
  /\ moving' = [moving EXCEPT ![s] = Nobody]
  /\ IF file[own] = Nobody
       THEN UNCHANGED <<file, path, crossed>>
       ELSE /\ CrossIf(Presumed(n, Server \ {s}))
            /\ file' = [file EXCEPT ![n] = file[own], ![own] = Nobody]
            /\ path' = [path EXCEPT ![s] = n]
  /\ UNCHANGED <<phase, asked>>

(* `run` returns...                                                        *)
Stop(s) ==
  /\ moving[s] = Nobody
  /\ At(s, "serving", "closing")
  /\ UNCHANGED <<file, path, moving, asked, crossed>>

(* ...and dropping the guard unlinks what is at the path, whoever's it is; *)
(* its process, and so the listener, ends with that.                       *)
Unlink(s) ==
  /\ At(s, "closing", "ended")
  /\ Remove(path[s])
  /\ UNCHANGED <<path, moving, asked, crossed>>

(* A server that is killed leaves its file.                                *)
Die(s) ==
  /\ phase[s] \notin {"unborn", "ended", "killed"}
  /\ phase' = [phase EXCEPT ![s] = "killed"]
  /\ moving' = [moving EXCEPT ![s] = Nobody]
  /\ UNCHANGED <<file, path, asked, crossed>>

-----------------------------------------------------------------------------
(* list_sessions, for each file it comes to: nobody answers?               *)
See(l, n) ==
  /\ asked[l] = Idle /\ file[n] # Nobody
  /\ asked' = [asked EXCEPT ![l] = [name |-> n, dead |-> FALSE]]
  /\ UNCHANGED <<file, phase, path, moving, crossed>>

(* A session that answers is listed; a file that has gone does not answer. *)
ProbeSeen(l) ==
  LET n == asked[l].name IN
  /\ n # Nobody /\ ~ asked[l].dead
  /\ asked' = [asked EXCEPT ![l] = IF Live(n) THEN Idle ELSE [name |-> n, dead |-> TRUE]]
  /\ CrossIf(InUse(n) /\ ~ Live(n))
  /\ UNCHANGED <<file, phase, path, moving>>

UnlinkDead(l) ==
  /\ asked[l].dead
  /\ Remove(asked[l].name)
  /\ asked' = [asked EXCEPT ![l] = Idle]
  /\ UNCHANGED <<phase, path, moving, crossed>>

-----------------------------------------------------------------------------
Next ==
  \/ \E s \in Server :
       \/ Ask(s) \/ Probe(s) \/ Clear(s) \/ Bind(s) \/ Listen(s)
       \/ Rename(s) \/ Stop(s) \/ Unlink(s) \/ Die(s)
       \/ \E n \in Name : Start(s, n) \/ AskRename(s, n)
  \/ \E l \in Lister : ProbeSeen(l) \/ UnlinkDead(l) \/ \E n \in Name : See(l, n)

Spec == Init /\ [][Next]_vars

-----------------------------------------------------------------------------
(* The sorts of the variables; only a server that serves is being renamed. *)
TypeOK ==
  /\ file \in [Name -> Server \cup {Nobody}]
  /\ phase \in [Server -> {"unborn", "asking", "probing", "clearing", "binding",
                           "bound", "serving", "closing", "ended", "killed"}]
  /\ path \in [Server -> Name \cup {Nobody}]
  /\ moving \in [Server -> Name \cup {Nobody}]
  /\ \A s \in Server : moving[s] # Nobody => phase[s] = "serving"
  /\ asked \in [Lister -> [name : Name \cup {Nobody}, dead : BOOLEAN]]
  /\ crossed \in BOOLEAN

(* A living server is found under its name, through its own renames and    *)
(* everybody else's starts, stops and listings, for as long as no file has *)
(* come into use while somebody held the answer that it was not.           *)
StaysReachable ==
  \A s \in Server :
    ~ crossed /\ phase[s] \in {"bound", "serving", "closing"} => file[path[s]] = s

(* A server that was shut down leaves no file behind, under any name.      *)
NameGivenBack ==
  \A n \in Name : ~ crossed /\ file[n] # Nobody => phase[file[n]] # "ended"

(* The directory is the registry of names that SessionNames describes.     *)
Names == INSTANCE SessionNames WITH
  holder <- [n \in Name |-> IF InUse(n) THEN file[n] ELSE Nobody],
  lost <- crossed

ImplementsNames == Names!Spec
=============================================================================
