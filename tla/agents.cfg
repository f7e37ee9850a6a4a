SPECIFICATION Spec
CONSTANTS
  left = left
  right = right
  Pane <- BothPanes
  NoPane = NoPane
  Window = 2
  MinRun = 4
  Grace = 1
  MaxTurns = 3
INVARIANTS FinishHeard
PROPERTIES BellEarned
\* The session may end.
CHECK_DEADLOCK FALSE
SYMMETRY Swapped
