SPECIFICATION FairSpec
CONSTANTS
  local = local
  remote = remote
  Client <- Two
  Nested <- Remote
  Size <- InnerSizes
  InitialSize <- Wide
  NestedEnv = FALSE
  Settings = {"on"}
  LastWords = {}
  Endings = {}
  MaxContent = 1
  MaxTurns = 1
INVARIANTS DiffsApply
PROPERTIES SizeFollows ScreensSettle
\* A client connects once, and a session may end.
CHECK_DEADLOCK FALSE
