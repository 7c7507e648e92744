CONSTANTS
  a = a
  b = b
  c = c
  Workflows = {a}
  Unknown = Unknown
  NoWorkflow = NoWorkflow
  Root = a
  MaxU128 = 1000
  MaxSteps = 2
  MaxActions = 2
  MaxCallDepth = 1
  Evidence <- NoEvidence
  Documents <- RoutingDocuments
SPECIFICATION Spec
INVARIANTS
  ScheduledRetryRuns
CHECK_DEADLOCK FALSE
