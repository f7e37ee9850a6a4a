SPECIFICATION FairSpec
CONSTANTS
  local = local
  remote = remote
  Client <- Two
  Nested <- Remote
  Size <- OneSize
  InitialSize <- Wide
  NestedEnv = FALSE
  Settings = {}
  LastWords = {"detach", "quit"}
  Endings = {"Quit", "Failed"}
  MaxContent = 0
  MaxTurns = 0
INVARIANT FarewellIsLast
PROPERTY EveryoneLeaves
\* A client connects once, and a session may end.
CHECK_DEADLOCK FALSE
