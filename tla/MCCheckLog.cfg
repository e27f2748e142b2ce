CONSTANTS
  Env <- MCEnv
  EnvMode = 3
  SetNames <- MCSetNames
  PrintModes <- MCPrintModes
  MaxRuns = 2
  MaxResults = 2
  MaxPrints = 2
  MaxSets = 1
  MaxSuites = 1
SPECIFICATION Spec
INVARIANTS TapFollows XmlNested LogsAgree OutputOnce
CHECK_DEADLOCK FALSE
