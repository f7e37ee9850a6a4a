SPECIFICATION Spec
CONSTANTS
  WindowCount = 1
  MaxPanes = 2
  Daemons = {}
  ReapedKillFails = FALSE
PROPERTY CloseKeepsTheOthers
\* The program stops when the session ends.
CHECK_DEADLOCK FALSE
