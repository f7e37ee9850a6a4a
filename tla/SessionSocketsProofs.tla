----------------------- MODULE SessionSocketsProofs -----------------------
(***************************************************************************)
(* That living servers stay reachable, that names are given back, and that *)
(* the socket directory implements the registry SessionNames, proved for   *)
(* any names, servers and one-shots.                                       *)
(***************************************************************************)
EXTENDS SessionSockets, TLAPS

Using == {"bound", "serving", "closing"}

(* A server's process is past its start once it has been given a name.     *)
Named == \A s \in Server : phase[s] # "unborn" => path[s] \in Name

(* The file of a server in use is at its path...                           *)
Found == \A s \in Server : phase[s] \in Using => file[path[s]] = s

(* ...where nobody presumes that it is not in use...                       *)
Unpresumed == \A n \in Name : InUse(n) => ~ Presumed(n, Server)

(* ...and no file is anywhere but at its server's path, nor outlives it    *)
(* unless it was killed.                                                   *)
Own == \A n \in Name : file[n] # Nobody =>
         path[file[n]] = n /\ phase[file[n]] \in Using \cup {"killed"}

SocketsInv == TypeOK /\ Named /\ (~ crossed => Found /\ Unpresumed /\ Own)

-----------------------------------------------------------------------------
(* Initially there is no file and no server.                               *)
LEMMA InitInv == Init => SocketsInv
<1> SUFFICES ASSUME Init PROVE SocketsInv
  OBVIOUS
<1>1. TypeOK
  BY SocketsAssumption DEF Init, Idle, TypeOK
<1>2. Named /\ Found /\ Unpresumed /\ Own
  BY SocketsAssumption DEF Init, Named, Found, Unpresumed, Own, Using, InUse
<1> QED  BY <1>1, <1>2 DEF SocketsInv

(* A server that starts has no file.                                       *)
LEMMA StartInv ==
  ASSUME SocketsInv, NEW s \in Server, NEW n \in Name, Start(s, n) PROVE SocketsInv'
<1>1. TypeOK'
  BY SocketsAssumption DEF SocketsInv, TypeOK, Named, Start, At
<1>2. Named'
  BY SocketsAssumption DEF SocketsInv, TypeOK, Named, Start, At
<1>3. ASSUME ~ crossed' PROVE Found'
  BY <1>3, SocketsAssumption
  DEF SocketsInv, TypeOK, Named, Found, Unpresumed, Own, Using, InUse, Presumed,
      Start, At
<1>4. ASSUME ~ crossed' PROVE Unpresumed'
  BY <1>4, SocketsAssumption
  DEF SocketsInv, TypeOK, Named, Found, Unpresumed, Own, Using, InUse, Presumed,
      Start, At
<1>5. ASSUME ~ crossed' PROVE Own'
  BY <1>5, SocketsAssumption
  DEF SocketsInv, TypeOK, Named, Found, Unpresumed, Own, Using, InUse, Presumed,
      Start, At
<1> QED  BY <1>1, <1>2, <1>3, <1>4, <1>5 DEF SocketsInv

(* Asking changes nothing but what the server will do.                     *)
LEMMA AskInv ==
  ASSUME SocketsInv, NEW s \in Server, Ask(s) PROVE SocketsInv'
<1>1. TypeOK'
  BY SocketsAssumption DEF SocketsInv, TypeOK, Named, Ask, At
<1>2. Named'
  BY SocketsAssumption DEF SocketsInv, TypeOK, Named, Ask, At
<1>3. ASSUME ~ crossed' PROVE Found'
  BY <1>3, SocketsAssumption
  DEF SocketsInv, TypeOK, Named, Found, Unpresumed, Own, Using, InUse, Presumed, Ask,
      At
<1>4. ASSUME ~ crossed' PROVE Unpresumed'
  BY <1>4, SocketsAssumption
  DEF SocketsInv, TypeOK, Named, Found, Unpresumed, Own, Using, InUse, Presumed, Ask,
      At
<1>5. ASSUME ~ crossed' PROVE Own'
  BY <1>5, SocketsAssumption
  DEF SocketsInv, TypeOK, Named, Found, Unpresumed, Own, Using, InUse, Presumed, Ask,
      At
<1> QED  BY <1>1, <1>2, <1>3, <1>4, <1>5 DEF SocketsInv

(* A server that found nobody at its name presumes that no one is.         *)
LEMMA ProbeInv ==
  ASSUME SocketsInv, NEW s \in Server, Probe(s) PROVE SocketsInv'
<1>0. ASSUME ~ crossed' PROVE ~ crossed /\ (phase'[s] = "clearing" => ~ InUse(path[s]))
  BY <1>0, Zenon DEF Probe, At, CrossIf, SocketsInv, TypeOK
<1>1. TypeOK'
  <2>1. crossed' \in BOOLEAN
    BY Zenon DEF SocketsInv, TypeOK, Probe, At, Live, CrossIf
  <2> QED  BY <2>1, SocketsAssumption DEF SocketsInv, TypeOK, Named, Probe, At, Live
<1>2. Named'
  BY SocketsAssumption DEF SocketsInv, TypeOK, Named, Probe, At, Live
<1>3. ASSUME ~ crossed' PROVE Found'
  BY <1>0, <1>3, SocketsAssumption
  DEF SocketsInv, TypeOK, Named, Found, Unpresumed, Own, Using, InUse, Probe, At, Live
<1>4. ASSUME ~ crossed' PROVE Unpresumed'
  <2> SUFFICES ASSUME NEW m \in Name, InUse(m)', Presumed(m, Server)' PROVE FALSE
    BY DEF Unpresumed
  <2>1. ASSUME NEW t \in Server, phase'[t] = "clearing", path'[t] = m PROVE FALSE
    BY <1>0, <1>4, <2>1, SocketsAssumption
    DEF SocketsInv, TypeOK, Named, Found, Unpresumed, Own, Using, InUse, Probe, At,
        Live, Presumed
  <2>2. ASSUME NEW t \in Server, moving'[t] = m PROVE FALSE
    BY <1>0, <1>4, <2>2, SocketsAssumption
    DEF SocketsInv, TypeOK, Named, Found, Unpresumed, Own, Using, InUse, Probe, At,
        Live, Presumed
  <2>3. ASSUME NEW k \in Lister, asked'[k].dead, asked'[k].name = m PROVE FALSE
    BY <1>0, <1>4, <2>3, SocketsAssumption
    DEF SocketsInv, TypeOK, Named, Found, Unpresumed, Own, Using, InUse, Probe, At,
        Live, Presumed
  <2> QED  BY <2>1, <2>2, <2>3 DEF Presumed
<1>5. ASSUME ~ crossed' PROVE Own'
  BY <1>0, <1>5, SocketsAssumption
  DEF SocketsInv, TypeOK, Named, Found, Unpresumed, Own, Using, InUse, Probe, At, Live
<1> QED  BY <1>1, <1>2, <1>3, <1>4, <1>5 DEF SocketsInv

(* The file that is removed was presumed not to be in use, and is not.     *)
LEMMA ClearInv ==
  ASSUME SocketsInv, NEW s \in Server, Clear(s) PROVE SocketsInv'
<1>1. TypeOK'
  BY SocketsAssumption DEF SocketsInv, TypeOK, Named, Clear, At, Remove
<1>2. Named'
  BY SocketsAssumption DEF SocketsInv, TypeOK, Named, Clear, At, Remove
<1>3. ASSUME ~ crossed' PROVE Found'
  BY <1>3, SocketsAssumption
  DEF SocketsInv, TypeOK, Named, Found, Unpresumed, Own, Using, InUse, Presumed,
      Clear, At, Remove
<1>4. ASSUME ~ crossed' PROVE Unpresumed'
  BY <1>4, SocketsAssumption
  DEF SocketsInv, TypeOK, Named, Found, Unpresumed, Own, Using, InUse, Presumed,
      Clear, At, Remove
<1>5. ASSUME ~ crossed' PROVE Own'
  BY <1>5, SocketsAssumption
  DEF SocketsInv, TypeOK, Named, Found, Unpresumed, Own, Using, InUse, Presumed,
      Clear, At, Remove
<1> QED  BY <1>1, <1>2, <1>3, <1>4, <1>5 DEF SocketsInv

(* The new file is not presumed dead, unless answers have crossed.         *)
LEMMA BindInv ==
  ASSUME SocketsInv, NEW s \in Server, Bind(s) PROVE SocketsInv'
<1> DEFINE n == path[s]
<1>1. n \in Name /\ UNCHANGED <<path, moving, asked>> /\ phase[s] = "binding"
  BY DEF Bind, At, SocketsInv, Named
<1>2. CASE file[n] = Nobody
  <2>1. At(s, "binding", "bound") /\ file' = [file EXCEPT ![n] = s]
    BY <1>2 DEF Bind
  <2>2. crossed' = (crossed \/ Presumed(n, Server \ {s}))
    BY <1>2 DEF Bind, CrossIf
  <2>3. TypeOK'
    <3>1. crossed' \in BOOLEAN
      BY <2>2, Zenon
    <3> QED  BY <1>1, <2>1, <3>1 DEF SocketsInv, TypeOK, At
  <2>4. Named'
    BY <1>1, <2>1 DEF SocketsInv, TypeOK, Named, At
  <2>5. ASSUME ~ crossed' PROVE Found' /\ Unpresumed' /\ Own'
    <3>1. ~ crossed /\ ~ Presumed(n, Server \ {s})
      BY <2>2, <2>5, Zenon
    <3>2. Found' /\ Own'
      BY <1>1, <1>2, <2>1, <3>1, SocketsAssumption
      DEF SocketsInv, TypeOK, Named, Found, Own, Using, At
    <3>3. \A m \in Name \ {n} : InUse(m)' => InUse(m)
      BY <1>1, <2>1, <3>1, SocketsAssumption
      DEF SocketsInv, TypeOK, Own, Using, InUse, At
    <3>4. \A m \in Name : Presumed(m, Server)' => Presumed(m, Server \ {s})
      BY <1>1, <2>1, SocketsAssumption DEF SocketsInv, TypeOK, Presumed, At
    <3>5. \A m \in Name : Presumed(m, Server \ {s}) => Presumed(m, Server)
      BY DEF Presumed
    <3> QED  BY <1>1, <3>1, <3>2, <3>3, <3>4, <3>5 DEF SocketsInv, Unpresumed
  <2> QED  BY <2>3, <2>4, <2>5 DEF SocketsInv
<1>3. CASE file[n] # Nobody
  <2>1. At(s, "binding", "ended") /\ UNCHANGED <<file, crossed>>
    BY <1>3 DEF Bind
  <2> QED
    BY <1>1, <2>1, SocketsAssumption
    DEF SocketsInv, TypeOK, Named, Found, Unpresumed, Own, Using, InUse, Presumed, At
<1> QED  BY <1>2, <1>3

(* Listening is using.                                                     *)
LEMMA ListenInv ==
  ASSUME SocketsInv, NEW s \in Server, Listen(s) PROVE SocketsInv'
<1>1. TypeOK'
  BY SocketsAssumption DEF SocketsInv, TypeOK, Named, Listen, At
<1>2. Named'
  BY SocketsAssumption DEF SocketsInv, TypeOK, Named, Listen, At
<1>3. ASSUME ~ crossed' PROVE Found'
  BY <1>3, SocketsAssumption
  DEF SocketsInv, TypeOK, Named, Found, Unpresumed, Own, Using, InUse, Presumed,
      Listen, At
<1>4. ASSUME ~ crossed' PROVE Unpresumed'
  BY <1>4, SocketsAssumption
  DEF SocketsInv, TypeOK, Named, Found, Unpresumed, Own, Using, InUse, Presumed,
      Listen, At
<1>5. ASSUME ~ crossed' PROVE Own'
  BY <1>5, SocketsAssumption
  DEF SocketsInv, TypeOK, Named, Found, Unpresumed, Own, Using, InUse, Presumed,
      Listen, At
<1> QED  BY <1>1, <1>2, <1>3, <1>4, <1>5 DEF SocketsInv

(* The name found free is presumed so, by a server that serves.            *)
LEMMA AskRenameInv ==
  ASSUME SocketsInv, NEW s \in Server, NEW n \in Name, AskRename(s, n) PROVE SocketsInv'
<1>0. ASSUME ~ crossed' PROVE ~ crossed /\ ~ InUse(n)
  BY <1>0, Zenon DEF AskRename, CrossIf
<1>1. TypeOK'
  <2>1. crossed' \in BOOLEAN
    BY Zenon DEF SocketsInv, TypeOK, AskRename, Live, CrossIf
  <2> QED  BY <2>1, SocketsAssumption DEF SocketsInv, TypeOK, Named, AskRename, Live
<1>2. Named'
  BY SocketsAssumption DEF SocketsInv, TypeOK, Named, AskRename, Live
<1>3. ASSUME ~ crossed' PROVE Found'
  BY <1>0, <1>3, SocketsAssumption
  DEF SocketsInv, TypeOK, Named, Found, Unpresumed, Own, Using, InUse, AskRename, Live
<1>4. ASSUME ~ crossed' PROVE Unpresumed'
  <2> SUFFICES ASSUME NEW m \in Name, InUse(m)', Presumed(m, Server)' PROVE FALSE
    BY DEF Unpresumed
  <2>1. ASSUME NEW t \in Server, phase'[t] = "clearing", path'[t] = m PROVE FALSE
    BY <1>0, <1>4, <2>1, SocketsAssumption
    DEF SocketsInv, TypeOK, Named, Found, Unpresumed, Own, Using, InUse, AskRename,
        Live, Presumed
  <2>2. ASSUME NEW t \in Server, moving'[t] = m PROVE FALSE
    BY <1>0, <1>4, <2>2, SocketsAssumption
    DEF SocketsInv, TypeOK, Named, Found, Unpresumed, Own, Using, InUse, AskRename,
        Live, Presumed
  <2>3. ASSUME NEW k \in Lister, asked'[k].dead, asked'[k].name = m PROVE FALSE
    BY <1>0, <1>4, <2>3, SocketsAssumption
    DEF SocketsInv, TypeOK, Named, Found, Unpresumed, Own, Using, InUse, AskRename,
        Live, Presumed
  <2> QED  BY <2>1, <2>2, <2>3 DEF Presumed
<1>5. ASSUME ~ crossed' PROVE Own'
  BY <1>0, <1>5, SocketsAssumption
  DEF SocketsInv, TypeOK, Named, Found, Unpresumed, Own, Using, InUse, AskRename, Live
<1> QED  BY <1>1, <1>2, <1>3, <1>4, <1>5 DEF SocketsInv

(* File and path move together, over a file that is not in use.            *)
LEMMA RenameInv ==
  ASSUME SocketsInv, NEW s \in Server, Rename(s) PROVE SocketsInv'
<1> DEFINE n == moving[s]
           own == path[s]
<1>1. /\ n \in Name /\ own \in Name /\ phase[s] = "serving"
      /\ moving' = [moving EXCEPT ![s] = Nobody]
      /\ UNCHANGED <<phase, asked>>
  BY DEF Rename, SocketsInv, TypeOK, Named
<1>2. CASE file[own] = Nobody
  <2>1. UNCHANGED <<file, path, crossed>>
    BY <1>2 DEF Rename
  <2> QED
    BY <1>1, <2>1, SocketsAssumption
    DEF SocketsInv, TypeOK, Named, Found, Unpresumed, Own, Using, InUse, Presumed
<1>3. CASE file[own] # Nobody
  <2>1. /\ file' = [file EXCEPT ![n] = file[own], ![own] = Nobody]
        /\ path' = [path EXCEPT ![s] = n]
    BY <1>3 DEF Rename
  <2>2. crossed' = (crossed \/ Presumed(n, Server \ {s}))
    BY <1>3 DEF Rename, CrossIf
  <2>3. TypeOK'
    <3>1. crossed' \in BOOLEAN
      BY <2>2, Zenon
    <3> QED  BY <1>1, <2>1, <3>1 DEF SocketsInv, TypeOK
  <2>4. Named'
    BY <1>1, <2>1 DEF SocketsInv, TypeOK, Named
  <2>5. ASSUME ~ crossed' PROVE Found' /\ Unpresumed' /\ Own'
    <3>1. ~ crossed /\ ~ Presumed(n, Server \ {s})
      BY <2>2, <2>5, Zenon
    <3>2. Found /\ Unpresumed /\ Own
      BY <3>1 DEF SocketsInv
    (* What it moves is its own file, and what it moves over is not in use. *)
    <3>3. file[own] = s /\ ~ InUse(n) /\ n # own
      BY <1>1, <3>2, SocketsAssumption DEF Found, Unpresumed, Presumed, Using, InUse
    <3>4. Found' /\ Own'
      BY <1>1, <1>3, <2>1, <3>2, <3>3, SocketsAssumption
      DEF SocketsInv, TypeOK, Named, Found, Own, Using, InUse
    <3>5. \A m \in Name \ {n} : InUse(m)' => InUse(m)
      BY <1>1, <2>1, <3>3, SocketsAssumption DEF SocketsInv, TypeOK, InUse
    <3>6. \A m \in Name : Presumed(m, Server)' => Presumed(m, Server \ {s})
      BY <1>1, <2>1, SocketsAssumption DEF SocketsInv, TypeOK, Presumed
    <3>7. \A m \in Name : Presumed(m, Server \ {s}) => Presumed(m, Server)
      BY DEF Presumed
    <3> QED  BY <1>1, <3>1, <3>2, <3>4, <3>5, <3>6, <3>7 DEF Unpresumed
  <2> QED  BY <2>3, <2>4, <2>5 DEF SocketsInv
<1> QED  BY <1>2, <1>3

(* A server that is closing still has its file.                            *)
LEMMA StopInv ==
  ASSUME SocketsInv, NEW s \in Server, Stop(s) PROVE SocketsInv'
<1>1. TypeOK'
  BY SocketsAssumption DEF SocketsInv, TypeOK, Named, Stop, At
<1>2. Named'
  BY SocketsAssumption DEF SocketsInv, TypeOK, Named, Stop, At
<1>3. ASSUME ~ crossed' PROVE Found'
  BY <1>3, SocketsAssumption
  DEF SocketsInv, TypeOK, Named, Found, Unpresumed, Own, Using, InUse, Presumed, Stop,
      At
<1>4. ASSUME ~ crossed' PROVE Unpresumed'
  BY <1>4, SocketsAssumption
  DEF SocketsInv, TypeOK, Named, Found, Unpresumed, Own, Using, InUse, Presumed, Stop,
      At
<1>5. ASSUME ~ crossed' PROVE Own'
  BY <1>5, SocketsAssumption
  DEF SocketsInv, TypeOK, Named, Found, Unpresumed, Own, Using, InUse, Presumed, Stop,
      At
<1> QED  BY <1>1, <1>2, <1>3, <1>4, <1>5 DEF SocketsInv

(* The file it unlinks is its own.                                         *)
LEMMA UnlinkInv ==
  ASSUME SocketsInv, NEW s \in Server, Unlink(s) PROVE SocketsInv'
<1>1. TypeOK'
  BY SocketsAssumption DEF SocketsInv, TypeOK, Named, Unlink, At, Remove
<1>2. Named'
  BY SocketsAssumption DEF SocketsInv, TypeOK, Named, Unlink, At, Remove
<1>3. ASSUME ~ crossed' PROVE Found'
  BY <1>3, SocketsAssumption
  DEF SocketsInv, TypeOK, Named, Found, Unpresumed, Own, Using, InUse, Presumed,
      Unlink, At, Remove
<1>4. ASSUME ~ crossed' PROVE Unpresumed'
  BY <1>4, SocketsAssumption
  DEF SocketsInv, TypeOK, Named, Found, Unpresumed, Own, Using, InUse, Presumed,
      Unlink, At, Remove
<1>5. ASSUME ~ crossed' PROVE Own'
  BY <1>5, SocketsAssumption
  DEF SocketsInv, TypeOK, Named, Found, Unpresumed, Own, Using, InUse, Presumed,
      Unlink, At, Remove
<1> QED  BY <1>1, <1>2, <1>3, <1>4, <1>5 DEF SocketsInv

(* The file of a killed server is in use no longer.                        *)
LEMMA DieInv ==
  ASSUME SocketsInv, NEW s \in Server, Die(s) PROVE SocketsInv'
<1>1. TypeOK'
  BY SocketsAssumption DEF SocketsInv, TypeOK, Named, Die
<1>2. Named'
  BY SocketsAssumption DEF SocketsInv, TypeOK, Named, Die
<1>3. ASSUME ~ crossed' PROVE Found'
  BY <1>3, SocketsAssumption
  DEF SocketsInv, TypeOK, Named, Found, Unpresumed, Own, Using, InUse, Presumed, Die
<1>4. ASSUME ~ crossed' PROVE Unpresumed'
  BY <1>4, SocketsAssumption
  DEF SocketsInv, TypeOK, Named, Found, Unpresumed, Own, Using, InUse, Presumed, Die
<1>5. ASSUME ~ crossed' PROVE Own'
  BY <1>5, SocketsAssumption
  DEF SocketsInv, TypeOK, Named, Found, Unpresumed, Own, Using, InUse, Presumed, Die
<1> QED  BY <1>1, <1>2, <1>3, <1>4, <1>5 DEF SocketsInv

(* A one-shot that has seen a file presumes nothing yet.                   *)
LEMMA SeeInv ==
  ASSUME SocketsInv, NEW l \in Lister, NEW n \in Name, See(l, n) PROVE SocketsInv'
<1>1. TypeOK'
  BY SocketsAssumption DEF SocketsInv, TypeOK, Named, See
<1>2. Named'
  BY SocketsAssumption DEF SocketsInv, TypeOK, Named, See
<1>3. ASSUME ~ crossed' PROVE Found'
  BY <1>3, SocketsAssumption
  DEF SocketsInv, TypeOK, Named, Found, Unpresumed, Own, Using, InUse, Presumed, See
<1>4. ASSUME ~ crossed' PROVE Unpresumed'
  BY <1>4, SocketsAssumption
  DEF SocketsInv, TypeOK, Named, Found, Unpresumed, Own, Using, InUse, Presumed, See
<1>5. ASSUME ~ crossed' PROVE Own'
  BY <1>5, SocketsAssumption
  DEF SocketsInv, TypeOK, Named, Found, Unpresumed, Own, Using, InUse, Presumed, See
<1> QED  BY <1>1, <1>2, <1>3, <1>4, <1>5 DEF SocketsInv

(* It does when nobody answers.                                            *)
LEMMA ProbeSeenInv ==
  ASSUME SocketsInv, NEW l \in Lister, ProbeSeen(l) PROVE SocketsInv'
<1>0. ASSUME ~ crossed' PROVE ~ crossed /\ (InUse(asked[l].name) => Live(asked[l].name))
  BY <1>0, Zenon DEF ProbeSeen, CrossIf
<1>1. TypeOK'
  <2>1. crossed' \in BOOLEAN
    BY Zenon DEF SocketsInv, TypeOK, ProbeSeen, Idle, Live, CrossIf
  <2> QED  BY <2>1, SocketsAssumption
    DEF SocketsInv, TypeOK, Named, ProbeSeen, Idle, Live
<1>2. Named'
  BY SocketsAssumption DEF SocketsInv, TypeOK, Named, ProbeSeen, Idle, Live
<1>3. ASSUME ~ crossed' PROVE Found'
  BY <1>0, <1>3, SocketsAssumption
  DEF SocketsInv, TypeOK, Named, Found, Unpresumed, Own, Using, InUse, ProbeSeen,
      Idle, Live
<1>4. ASSUME ~ crossed' PROVE Unpresumed'
  <2> SUFFICES ASSUME NEW m \in Name, InUse(m)', Presumed(m, Server)' PROVE FALSE
    BY DEF Unpresumed
  <2>1. ASSUME NEW t \in Server, phase'[t] = "clearing", path'[t] = m PROVE FALSE
    BY <1>0, <1>4, <2>1, SocketsAssumption
    DEF SocketsInv, TypeOK, Named, Found, Unpresumed, Own, Using, InUse, ProbeSeen,
        Idle, Live, Presumed
  <2>2. ASSUME NEW t \in Server, moving'[t] = m PROVE FALSE
    BY <1>0, <1>4, <2>2, SocketsAssumption
    DEF SocketsInv, TypeOK, Named, Found, Unpresumed, Own, Using, InUse, ProbeSeen,
        Idle, Live, Presumed
  <2>3. ASSUME NEW k \in Lister, asked'[k].dead, asked'[k].name = m PROVE FALSE
    BY <1>0, <1>4, <2>3, SocketsAssumption
    DEF SocketsInv, TypeOK, Named, Found, Unpresumed, Own, Using, InUse, ProbeSeen,
        Idle, Live, Presumed
  <2> QED  BY <2>1, <2>2, <2>3 DEF Presumed
<1>5. ASSUME ~ crossed' PROVE Own'
  BY <1>0, <1>5, SocketsAssumption
  DEF SocketsInv, TypeOK, Named, Found, Unpresumed, Own, Using, InUse, ProbeSeen,
      Idle, Live
<1> QED  BY <1>1, <1>2, <1>3, <1>4, <1>5 DEF SocketsInv

(* What it then unlinks is not in use.                                     *)
LEMMA UnlinkDeadInv ==
  ASSUME SocketsInv, NEW l \in Lister, UnlinkDead(l) PROVE SocketsInv'
<1>1. TypeOK'
  BY SocketsAssumption DEF SocketsInv, TypeOK, Named, UnlinkDead, Idle, Remove
<1>2. Named'
  BY SocketsAssumption DEF SocketsInv, TypeOK, Named, UnlinkDead, Idle, Remove
<1>3. ASSUME ~ crossed' PROVE Found'
  BY <1>3, SocketsAssumption
  DEF SocketsInv, TypeOK, Named, Found, Unpresumed, Own, Using, InUse, Presumed,
      UnlinkDead, Idle, Remove
<1>4. ASSUME ~ crossed' PROVE Unpresumed'
  <2> SUFFICES ASSUME NEW m \in Name, InUse(m)', Presumed(m, Server)' PROVE FALSE
    BY DEF Unpresumed
  <2>1. ASSUME NEW t \in Server, phase'[t] = "clearing", path'[t] = m PROVE FALSE
    BY <1>4, <2>1, SocketsAssumption
    DEF SocketsInv, TypeOK, Named, Found, Unpresumed, Own, Using, InUse, Presumed,
        UnlinkDead, Idle, Remove
  <2>2. ASSUME NEW t \in Server, moving'[t] = m PROVE FALSE
    BY <1>4, <2>2, SocketsAssumption
    DEF SocketsInv, TypeOK, Named, Found, Unpresumed, Own, Using, InUse, Presumed,
        UnlinkDead, Idle, Remove
  <2>3. ASSUME NEW k \in Lister, asked'[k].dead, asked'[k].name = m PROVE FALSE
    BY <1>4, <2>3, SocketsAssumption
    DEF SocketsInv, TypeOK, Named, Found, Unpresumed, Own, Using, InUse, Presumed,
        UnlinkDead, Idle, Remove
  <2> QED  BY <2>1, <2>2, <2>3 DEF Presumed
<1>5. ASSUME ~ crossed' PROVE Own'
  BY <1>5, SocketsAssumption
  DEF SocketsInv, TypeOK, Named, Found, Unpresumed, Own, Using, InUse, Presumed,
      UnlinkDead, Idle, Remove
<1> QED  BY <1>1, <1>2, <1>3, <1>4, <1>5 DEF SocketsInv

-----------------------------------------------------------------------------
(* Every step keeps the invariant.                                         *)
LEMMA NextInv == SocketsInv /\ [Next]_vars => SocketsInv'
<1> SUFFICES ASSUME SocketsInv, [Next]_vars PROVE SocketsInv'
  OBVIOUS
<1>1. CASE UNCHANGED vars
  BY <1>1 DEF vars, SocketsInv, TypeOK, Named, Found, Unpresumed, Own, InUse, Presumed
<1>2. CASE Next
  BY <1>2, StartInv, AskInv, ProbeInv, ClearInv, BindInv, ListenInv, AskRenameInv, RenameInv,
     StopInv, UnlinkInv, DieInv, SeeInv, ProbeSeenInv, UnlinkDeadInv
  DEF Next
<1> QED  BY <1>1, <1>2

LEMMA InvAlways == Spec => []SocketsInv
BY InitInv, NextInv, PTL DEF Spec

(* The types, and that a server stays reachable under its name unless      *)
(* answers cross, and takes the name with it when it is shut down.         *)
THEOREM SocketsCorrect == Spec => [](TypeOK /\ StaysReachable /\ NameGivenBack)
<1>1. SocketsInv => TypeOK /\ StaysReachable /\ NameGivenBack
  BY DEF SocketsInv, Found, Own, Using, StaysReachable, NameGivenBack
<1> QED  BY <1>1, InvAlways, PTL

-----------------------------------------------------------------------------
(* Who holds which name, in the terms of SessionNames.                     *)
Holder == [n \in Name |-> IF InUse(n) THEN file[n] ELSE Nobody]

(* The steps that change nobody's name.                                    *)
LEMMA HolderStays ==
  ASSUME \A n \in Name : (InUse(n) <=> InUse(n)') /\ (InUse(n) => file'[n] = file[n])
  PROVE  Holder' = Holder
BY DEF Holder

(* A server that binds takes a name that is free, and has no other.        *)
LEMMA BindClaims ==
  ASSUME SocketsInv, ~ crossed, NEW s \in Server, Bind(s), Holder' # Holder
  PROVE  Names!Claim(s, path[s])
<1> PICK n \in Name : n = path[s]
  BY DEF Bind, At, SocketsInv, Named
<1>1. phase[s] = "binding"
  BY DEF Bind, At
<1>2. \A m \in Name : file[m] # s
  BY <1>1, SocketsAssumption DEF SocketsInv, Own, Using
<1>3. file[n] = Nobody /\ At(s, "binding", "bound") /\ file' = [file EXCEPT ![n] = s]
  <2> SUFFICES ASSUME ~ (At(s, "binding", "bound") /\ file[n] = Nobody
                           /\ file' = [file EXCEPT ![n] = s])
               PROVE FALSE
    OBVIOUS
  <2>1. At(s, "binding", "ended") /\ file' = file
    BY DEF Bind
  <2>2. \A m \in Name : (InUse(m) <=> InUse(m)') /\ (InUse(m) => file'[m] = file[m])
    BY <1>2, <2>1 DEF SocketsInv, TypeOK, InUse, At
  <2> QED  BY <2>2, HolderStays
<1>4. \A m \in Name \ {n} : InUse(m)' = InUse(m) /\ file'[m] = file[m]
  BY <1>1, <1>2, <1>3 DEF SocketsInv, TypeOK, InUse, At
<1>5. InUse(n)' /\ file'[n] = s
  BY <1>1, <1>3, SocketsAssumption DEF SocketsInv, TypeOK, InUse, At
<1>6. Holder' = [Holder EXCEPT ![n] = s]
  BY <1>1, <1>4, <1>5 DEF Holder
<1>7. Holder[n] = Nobody /\ \A m \in Name : Holder[m] # s
  BY <1>1, <1>2, <1>3, SocketsAssumption DEF Holder, InUse
<1> QED  BY <1>6, <1>7 DEF Names!Claim, Holder

(* A rename exchanges the name for one that is free.                       *)
LEMMA RenameExchanges ==
  ASSUME SocketsInv, ~ crossed, NEW s \in Server, Rename(s), Holder' # Holder
  PROVE  Names!Exchange(path[s], moving[s])
<1> PICK n \in Name, own \in Name : n = moving[s] /\ own = path[s]
  BY DEF Rename, SocketsInv, TypeOK, Named
<1>1. /\ phase[s] = "serving" /\ UNCHANGED phase
      /\ file[own] = s /\ ~ InUse(n) /\ n # own
  BY SocketsAssumption
  DEF Rename, SocketsInv, TypeOK, Named, Found, Unpresumed, Presumed, Using, InUse
<1>2. file' = [file EXCEPT ![n] = s, ![own] = Nobody]
  BY <1>1, SocketsAssumption DEF Rename
<1>3. /\ \A m \in Name \ {n, own} : InUse(m)' = InUse(m) /\ file'[m] = file[m]
      /\ InUse(n)' /\ file'[n] = s /\ ~ InUse(own)' /\ InUse(own)
  BY <1>1, <1>2, SocketsAssumption DEF SocketsInv, TypeOK, InUse
<1>4. Holder' = [Holder EXCEPT ![own] = Nobody, ![n] = Holder[own]]
  BY <1>1, <1>3 DEF Holder
<1>5. Holder[own] # Nobody /\ Holder[n] = Nobody
  BY <1>1, <1>3, SocketsAssumption DEF Holder
<1> QED  BY <1>4, <1>5 DEF Names!Exchange, Holder

(* A server that unlinks its socket, or is killed, gives its name back.    *)
LEMMA EndReleases ==
  ASSUME SocketsInv, ~ crossed, NEW s \in Server, Unlink(s) \/ Die(s), Holder' # Holder
  PROVE  path[s] \in Name /\ Names!Release(path[s])
<1>1. phase[s] \in Using
  <2> SUFFICES ASSUME phase[s] \notin Using PROVE FALSE
    OBVIOUS
  <2>1. file' = file /\ Die(s)
    BY DEF Unlink, Die, At, Using
  <2>2. \A m \in Name : InUse(m)' = InUse(m)
    BY <2>1 DEF SocketsInv, TypeOK, Die, InUse, Using
  <2> QED  BY <2>1, <2>2, HolderStays
<1> PICK n \in Name : n = path[s]
  BY <1>1 DEF SocketsInv, Named, Using
<1>2. file[n] = s /\ InUse(n) /\ \A m \in Name \ {n} : file[m] # s
  BY <1>1, SocketsAssumption DEF SocketsInv, Named, Found, Own, Using, InUse
<1>3. phase' = [phase EXCEPT ![s] = phase'[s]] /\ phase'[s] \in {"ended", "killed"}
  BY DEF Unlink, Die, At, SocketsInv, TypeOK
<1>4. \A m \in Name \ {n} : InUse(m)' = InUse(m) /\ file'[m] = file[m]
  BY <1>2, <1>3 DEF Unlink, Die, Remove, SocketsInv, TypeOK, InUse
<1>5. ~ InUse(n)'
  BY <1>2, <1>3 DEF Unlink, Die, Remove, SocketsInv, TypeOK, InUse
<1>6. Holder' = [Holder EXCEPT ![n] = Nobody] /\ Holder[n] # Nobody
  BY <1>2, <1>4, <1>5, SocketsAssumption DEF Holder
<1> QED  BY <1>2, <1>6 DEF Names!Release, Holder

(* What is cleared or unlinked on a true answer is nobody's name.          *)
LEMMA RestStutters ==
  ASSUME SocketsInv, ~ crossed,
         \/ \E s \in Server :
              \/ Ask(s) \/ Probe(s) \/ Clear(s) \/ Listen(s) \/ Stop(s)
              \/ \E n \in Name : Start(s, n) \/ AskRename(s, n)
         \/ \E l \in Lister : ProbeSeen(l) \/ UnlinkDead(l) \/ \E n \in Name : See(l, n)
  PROVE  Holder' = Holder
<1>1. ASSUME NEW s \in Server, NEW n, Start(s, n) \/ Ask(s) \/ Probe(s) \/ Listen(s) \/ Stop(s)
      PROVE  Holder' = Holder
  <2>1. file' = file /\ phase' = [phase EXCEPT ![s] = phase'[s]]
        /\ (phase[s] \in Using <=> phase'[s] \in Using)
    BY <1>1 DEF Start, Ask, Probe, Listen, Stop, At, SocketsInv, TypeOK, Using
  <2> QED  BY <2>1, HolderStays DEF SocketsInv, TypeOK, InUse, Using
<1>2. ASSUME NEW s, NEW n, NEW l, AskRename(s, n) \/ See(l, n) \/ ProbeSeen(l)
      PROVE  Holder' = Holder
  <2>1. file' = file /\ phase' = phase
    BY <1>2 DEF AskRename, See, ProbeSeen
  <2> QED  BY <2>1, HolderStays DEF InUse
<1>3. ASSUME NEW s \in Server, Clear(s) PROVE Holder' = Holder
  <2>1. path[s] \in Name /\ ~ InUse(path[s]) /\ phase[s] = "clearing"
        /\ \A m \in Name : file[m] # s
    BY <1>3, SocketsAssumption
    DEF Clear, At, SocketsInv, Named, Unpresumed, Presumed, Own, Using
  <2>2. phase' = [phase EXCEPT ![s] = phase'[s]] /\ file' = [file EXCEPT ![path[s]] = Nobody]
    BY <1>3 DEF Clear, At, Remove, SocketsInv, TypeOK
  <2>3. \A m \in Name : (InUse(m) <=> InUse(m)') /\ (InUse(m) => file'[m] = file[m])
    BY <2>1, <2>2 DEF SocketsInv, TypeOK, InUse
  <2> QED  BY <2>3, HolderStays
<1>4. ASSUME NEW l \in Lister, UnlinkDead(l) PROVE Holder' = Holder
  <2>1. \A m \in Name : asked[l].name = m => ~ InUse(m)
    BY <1>4 DEF UnlinkDead, SocketsInv, Unpresumed, Presumed
  <2>2. phase' = phase /\ file' = [file EXCEPT ![asked[l].name] = Nobody]
    BY <1>4 DEF UnlinkDead, Remove
  <2>3. \A m \in Name : (InUse(m) <=> InUse(m)') /\ (InUse(m) => file'[m] = file[m])
    BY <2>1, <2>2 DEF SocketsInv, TypeOK, InUse
  <2> QED  BY <2>3, HolderStays
<1> QED  BY <1>1, <1>2, <1>3, <1>4

(* Each step of the directory is a step of the registry, or none.          *)
LEMMA NamesStep ==
  ASSUME SocketsInv, [Next]_vars PROVE [Names!Next]_<<Holder, crossed>>
<1>0. crossed \in BOOLEAN /\ crossed' \in BOOLEAN
  BY NextInv DEF SocketsInv, TypeOK
<1>1. CASE UNCHANGED vars
  BY <1>1 DEF vars, Holder, InUse
<1>2. CASE crossed'
  <2>1. Names!Lose
    BY <1>0, <1>2 DEF Names!Lose
  <2> QED  BY <2>1 DEF Names!Next
<1>3. CASE Next /\ ~ crossed' /\ Holder' # Holder
  <2>1. ~ crossed
    BY <1>0, <1>3, Zenon
    DEF Next, Start, Ask, Probe, Clear, Bind, Listen, AskRename, Rename, Stop, Unlink, Die,
        See, ProbeSeen, UnlinkDead, CrossIf
  <2>2. PICK s \in Server : Bind(s) \/ Rename(s) \/ Unlink(s) \/ Die(s)
    BY <1>3, <2>1, RestStutters DEF Next
  <2>3. \E n \in Name :
          Names!Release(n) \/ (\E t \in Server : Names!Claim(t, n)) \/ \E m \in Name : Names!Exchange(m, n)
    <3>1. CASE Bind(s)
      <4>1. path[s] \in Name
        BY <3>1 DEF SocketsInv, Named, Bind, At
      <4>2. Names!Claim(s, path[s])
        BY <3>1, <1>3, <2>1, BindClaims
      <4> QED  BY <4>1, <4>2, Zenon DEF Names!Claim, Names!Exchange, Names!Release
    <3>2. CASE Rename(s)
      <4>1. path[s] \in Name /\ moving[s] \in Name
        BY <3>2 DEF SocketsInv, TypeOK, Named, Rename
      <4>2. Names!Exchange(path[s], moving[s])
        BY <3>2, <1>3, <2>1, RenameExchanges
      <4> QED  BY <4>1, <4>2, Zenon DEF Names!Claim, Names!Exchange, Names!Release
    <3>3. CASE Unlink(s) \/ Die(s)
      <4>1. path[s] \in Name /\ Names!Release(path[s])
        BY <3>3, <1>3, <2>1, EndReleases
      <4> QED  BY <4>1, Zenon DEF Names!Claim, Names!Exchange, Names!Release
    <3> QED  BY <2>2, <3>1, <3>2, <3>3
  <2> QED  BY <1>0, <1>3, <2>1, <2>3 DEF Names!Next
<1>4. CASE Holder' = Holder /\ ~ crossed'
  <2>1. Next \/ UNCHANGED vars => (crossed => crossed')
    BY Zenon
    DEF vars, Next, Start, Ask, Probe, Clear, Bind, Listen, AskRename, Rename, Stop, Unlink, Die,
        See, ProbeSeen, UnlinkDead, CrossIf
  <2> QED  BY <1>0, <1>4, <2>1
<1> QED  BY <1>1, <1>2, <1>3, <1>4

(* The socket directory implements the registry of names.                  *)
THEOREM SocketsImplementNames == Spec => ImplementsNames
<1>1. Init => Names!Init
  BY SocketsAssumption DEF Init, Names!Init, InUse
<1>2. SocketsInv /\ [Next]_vars => [Names!Next]_<<Holder, crossed>>
  BY NamesStep
<1> QED  BY <1>1, <1>2, InvAlways, PTL DEF Spec, ImplementsNames, Names!Spec, Holder
=============================================================================
