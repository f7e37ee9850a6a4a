------------------------------ MODULE MCLayout ------------------------------
(***************************************************************************)
(* Layouts to start from for TLC: a lone pane, and three panes with a      *)
(* divider each way.                                                       *)
(***************************************************************************)
EXTENDS Layout

MCSizes == {<<12, 9>>, <<9, 7>>}
MCStartups ==
  {Leaf(1), Joined(Vertical, 60, Leaf(1), Joined(Horizontal, 60, Leaf(2), Leaf(3)))}
MCShares == {30}
MCAmounts == {2}
=============================================================================
