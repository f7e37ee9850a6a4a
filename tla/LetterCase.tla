----------------------------- MODULE LetterCase -----------------------------
(***************************************************************************)
(* The case of letters, for the picker, which ranks a match whatever its   *)
(* case is, and for the keys, which are sent in lower case under Ctrl.     *)
(***************************************************************************)
CONSTANTS Upper, LowerOf     \* the upper-case characters, and their lower case

Fold(ch) == IF ch \in Upper THEN LowerOf[ch] ELSE ch
=============================================================================
