SPECIFICATION ChannelsEndSpec
CONSTANTS
  r1 = r1
  r2 = r2
  r3 = r3
  t1 = t1
  t2 = t2
  broker1 = broker1
  NoStep = NoStep
  Steps <- TwoSteps
  Topics = {t1}
  TopicOf <- StepTopics
  Connection <- OneBroker
  PartitionCount <- TwoPartitions
  Entries <- Alongside
  Expects <- AnyExpects
  Timed = {r1}
  MayBeRefused = {}
  Kinds <- OneKind
  Modes = {"live"}
  MaxRecords <- OneRecord
  MaxTrims = 0
  MaxAttempts = 2
  Callers = {c1, c2}
  Burst = 1
  Period = 2
  Limited = TRUE
  MaxLag = 1
  MaxStarts = 2
  MaxIdle = 3
  MaxClock = 12
  Hosts = {h1, h2}
  ExchangeNone = ExchangeNone
  Ports <- SomePorts
  ExchangeEntries <- OneEntry
  InsecureAll = FALSE
  AllowDowngrade = FALSE
  MaxRedirects = 2
  Timeout = 1
  MaxBytes = 1
  MaxLate = 1
  Capacity = 2
  MaxEvents = 4
PROPERTIES
  ReceivesEnd
  NobodySleepsOn
  EveryHolderFreed
CHECK_DEADLOCK FALSE
