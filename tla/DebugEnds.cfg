CONSTANTS
  atStep = atStep
  atOutput = atOutput
  NoPlace = NoPlace
  Places <- MCPlaces
  Outputs <- MCOutputs
  BreakpointLists <- MCBreakpointLists
  Entries = {"execute"}
  StepKinds = {"StepIn", "StepOver", "StepOut"}
  MaxDepth = 1
  MaxStops = 2
  MaxDiagnostics = 1
  MaxCommands = 3
  Threshold = 2
  MaxSteps = 2
  MaxItems = 2
  MaxLines = 2
  IdsFirst = TRUE
  Selectors = FALSE
  Payloads = FALSE
SPECIFICATION FairDebugging
PROPERTY NobodyWaitsForever
CHECK_DEADLOCK FALSE
