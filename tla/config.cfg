SPECIFICATION FairLoad
CONSTANTS
  Inputs <- MCInputs
  ConfPath <- MCConfPath
  Home <- MCHome
  Letters <- MCLetters
  Symbols <- MCSymbols
INVARIANTS SettingsAgree LastLineWins
PROPERTIES LoadEnds
\* Loading is one call, and returns.
CHECK_DEADLOCK FALSE
