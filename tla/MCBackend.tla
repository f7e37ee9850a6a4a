----------------------------- MODULE MCBackend -----------------------------
(* Constants for checking Backend.                                         *)
EXTENDS Backend

(* The first pane may fill every buffer on its way; the second is silent.  *)
FiveAndNone == <<5, 0>>
=============================================================================
