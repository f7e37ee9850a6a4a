---------------------------- MODULE MCAgentBell ----------------------------
(* Constants for checking AgentBell.                                       *)
EXTENDS AgentBell, TLC
CONSTANTS left, right
BothPanes == {left, right}
Swapped == Permutations(BothPanes)
=============================================================================
