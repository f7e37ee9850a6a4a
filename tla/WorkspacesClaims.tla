-------------------------- MODULE WorkspacesClaims --------------------------
(***************************************************************************)
(* What a comment of src/src/app.rs says about the windows of a session,   *)
(* stated as a property of module Workspaces.  The code does otherwise:    *)
(* see the findings in the README.                                         *)
(***************************************************************************)
EXTENDS Workspaces

(* app.rs:4276, of close_pane: "Close `pane`, animating the panes that     *)
(* grow into its space."  The panes beside the closing one stay.           *)
CloseKeepsTheOthers ==
  [][\A p \in PaneId : FinishClosing(p) =>
       win[current].leaves \ {p} \subseteq win'[current].leaves]_vars
=============================================================================
