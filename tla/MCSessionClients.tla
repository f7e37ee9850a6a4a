-------------------------- MODULE MCSessionClients --------------------------
(***************************************************************************)
(* Two terminals, one of them remote, and two sizes, one inside the other, *)
(* so that a terminal can change without moving the session.               *)
(***************************************************************************)
EXTENDS SessionClients

CONSTANTS local, remote

Two == {local, remote}
Remote == {remote}
Wide == <<2, 1>>
InnerSizes == {<<1, 1>>, <<2, 1>>}
OneSize == {<<2, 1>>}
=============================================================================
