CONSTANTS
  a = a
  Workflows = {a}
  Unknown = Unknown
  NoWorkflow = NoWorkflow
  MaxU128 = 1000
  MaxSteps = 3
  MaxActions = 1
  Plans <- MCPlans
SPECIFICATION FairSpec
INVARIANTS
  ReadsPublished
  OutcomeIsTheLevels
PROPERTIES
  CancelOverrides
  StreamsInStepOrder
  CancelSettles
CHECK_DEADLOCK FALSE
