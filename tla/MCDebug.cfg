CONSTANTS
  atStep = atStep
  atOutput = atOutput
  NoPlace = NoPlace
  Places <- MCPlaces
  Outputs <- MCOutputs
  BreakpointLists <- MCBreakpointLists
  Entries = {"execute"}
  StepKinds = {"StepIn", "StepOver", "StepOut"}
  MaxDepth = 2
  MaxStops = 2
  MaxDiagnostics = 1
  MaxCommands = 5
  Threshold = 2
  MaxSteps = 2
  MaxItems = 2
  MaxLines = 9
  IdsFirst = TRUE
  Selectors = FALSE
  Payloads = FALSE
SPECIFICATION DebuggingSpec
INVARIANTS StackIsCallChain SessionReportsRun BreakpointsLandTrue
PROPERTIES GateHonoursGrants ImplementsPauses
CHECK_DEADLOCK FALSE
