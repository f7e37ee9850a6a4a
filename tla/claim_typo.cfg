SPECIFICATION Spec
CONSTANTS
  WindowCount = 3
  SessionName <- MCSession
  QueueCapacity = 1
  Callers = {"a", "b", "c"}
  Child <- MCChild
  CallerLines <- MistypedLines
  Mortal = {2}
  Late = {"c"}
  Interruptible = {"b"}
  ScriptLine <- MCScriptLine
  TemplateOf <- MCTemplateOf
  Branches <- MCBranches
  ScreenLines = {1, 3}
  Pasts <- MCPasts
INVARIANT TypoKeepsPanes
\* The session may end.
CHECK_DEADLOCK FALSE
