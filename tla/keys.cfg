SPECIFICATION Spec
CONSTANTS
  Letters <- MCLetters
  Symbols <- MCSymbols
  Upper <- MCUpper
  LowerOf <- MCLowerOf
  PressKeys <- MCPressKeys
  SentNames <- MCSentNames
  BindNames <- MCBindNames
  PrefixNames <- MCPrefixNames
  Session <- MCSession
  Labels <- MCLabels
  PeerLabels <- MCPeerLabels
  InitialName <- MCInitialName
  MaxKeys = 3
  MaxRequests = 2
  MaxEvents = 4
  MaxInput = 2
INVARIANTS TypeOK ChordsReachable PickerShowsBest
PROPERTIES PickerKeepsRow KeysArrive
\* The bounds end a run.
CHECK_DEADLOCK FALSE
