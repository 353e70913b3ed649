SPECIFICATION Spec
CONSTANTS
  Sources <- GoodSources
  Main = "main"
  Predefined <- MCPredefined
  MaxMacros = 4
  MaxFuncs = 1
  MaxCond = 3
  MaxDepth = 2
  None = None
INVARIANT ActiveIffAllOn
PROPERTIES PreprocessesAsC Terminates
