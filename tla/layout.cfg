SPECIFICATION Spec
CONSTANTS
  WindowCount = 2
  MaxPanes = 4
  MaxCommands = 2
  Sizes <- MCSizes
  Shares <- MCShares
  Amounts <- MCAmounts
  Startups <- MCStartups
INVARIANTS
  LeavesTile
  FocusCrosses
  LayoutLands
PROPERTIES
  RearrangingKeeps
  ClosingKeepsOrder
