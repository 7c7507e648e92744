SPECIFICATION ChannelsSpec
CONSTANTS
  r1 = r1
  r2 = r2
  r3 = r3
  t1 = t1
  t2 = t2
  broker1 = broker1
  NoStep = NoStep
  Steps <- ReceiveSteps
  Topics <- BothTopics
  TopicOf <- StepTopics
  Connection <- OneBroker
  PartitionCount <- OnePartition
  Entries <- EnteredTwice
  Expects <- StepExpects
  Timed = {r1}
  MayBeRefused = {r3}
  Kinds <- RecordKinds
  Modes = {"live", "dry", "replay"}
  MaxRecords <- RecordsOfFirst
  MaxTrims = 1
  MaxAttempts = 2
  Callers = {c1, c2}
  Burst = 2
  Period = 2
  Limited = TRUE
  MaxLag = 1
  MaxStarts = 3
  MaxIdle = 4
  MaxClock = 6
  Hosts = {h1, h2}
  ExchangeNone = ExchangeNone
  Ports <- SomePorts
  ExchangeEntries <- OneEntry
  InsecureAll = FALSE
  AllowDowngrade = FALSE
  MaxRedirects = 2
  Timeout = 1
  MaxBytes = 1
  MaxLate = 1
  Capacity = 2
  MaxEvents = 4
INVARIANTS
  EveryHopIsSafe
  RateKept
  CollectComplete
  AnswersAreTrue
PROPERTIES
  ReceivesAreExact
CHECK_DEADLOCK FALSE
