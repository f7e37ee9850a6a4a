SPECIFICATION FairSpec
CONSTANTS
  MaxPanes = 2
  OutputCapacity = 2
  EventCapacity = 1
  TtyCapacity = 1
  MaxChunks <- FiveAndNone
  MaxKeys = 3
  Burst = 3
  Killable = {1}
  Keyed = {1}
  Copying = {1}
INVARIANTS OutputKept DiesOnce
PROPERTIES LoopReturns DeathsArrive
\* The session ends, or its loop waits for itself.
CHECK_DEADLOCK FALSE
