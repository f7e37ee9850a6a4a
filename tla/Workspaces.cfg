SPECIFICATION FairSpec
CONSTANTS
  WindowCount = 2
  MaxPanes = 3
  Daemons = {1}
  ReapedKillFails = TRUE
INVARIANTS PlacedOnce OwnFocus ProcessRegistered
PROPERTIES MovesKeepPanes RestKeepsStep QuitsWhenDone NumbersRetire ClosingEnds LastExitEnds
\* The program stops when the session ends.
CHECK_DEADLOCK FALSE
