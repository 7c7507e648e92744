CONSTANTS
  a = a
  b = b
  c = c
  Workflows = {a, b, c}
  Unknown = Unknown
  NoWorkflow = NoWorkflow
  Root = a
  MaxU128 = 1000
  MaxSteps = 2
  MaxActions = 1
  MaxCallDepth = 3
  Evidence <- CallEvidence
  Documents <- CallDocuments
SPECIFICATION Spec
INVARIANTS
  FinishedIsReported
CHECK_DEADLOCK FALSE
