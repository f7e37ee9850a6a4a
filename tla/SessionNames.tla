---------------------------- MODULE SessionNames ----------------------------
(***************************************************************************)
(* What the socket directory promises: a registry of names.  A name has at *)
(* most one holder and a session one name, which only it can give up or    *)
(* exchange for another that is free.  The promise ends when it is lost:   *)
(* when somebody has treated a held name as free.                          *)
(***************************************************************************)
CONSTANTS Name, Server, Nobody

VARIABLES holder, lost

Init == holder = [n \in Name |-> Nobody] /\ lost = FALSE

(* A session takes a free name...                                          *)
Claim(s, n) ==
  /\ holder[n] = Nobody
  /\ \A m \in Name : holder[m] # s
  /\ holder' = [holder EXCEPT ![n] = s]

(* ...exchanges it...                                                      *)
Exchange(m, n) ==
  /\ holder[m] # Nobody /\ holder[n] = Nobody
  /\ holder' = [holder EXCEPT ![m] = Nobody, ![n] = holder[m]]

(* ...and gives it back.                                                   *)
Release(n) ==
  /\ holder[n] # Nobody
  /\ holder' = [holder EXCEPT ![n] = Nobody]

Lose == lost' = TRUE

Next ==
  \/ /\ ~ lost /\ UNCHANGED lost
     /\ \E n \in Name :
          Release(n) \/ (\E s \in Server : Claim(s, n)) \/ \E m \in Name : Exchange(m, n)
  \/ Lose

Spec == Init /\ [][Next]_<<holder, lost>>
=============================================================================
