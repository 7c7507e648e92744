SPECIFICATION CommandsSpec
CONSTANTS
  Inputs <- MCInputs
  Requests <- MCRequests
  Specs <- MCSpecs
  Restricted = TRUE
  Allowed = {"inside"}
  Workflows = {a}
  Unknown = Unknown
  NoWorkflow = NoWorkflow
  MaxU128 = 1000
  MaxSteps = 3
  MaxActions = 1
  Plans <- MCPlans
  NumSteps = 2
  ReplayRequests = {"open", "secret"}
  AsWritten <- MCAsWritten
  MaxAttempts = 2
  Runs <- MCRuns
  Hosts = {h1, h2}
  Excepted = {h1}
  Lines <- MCLines
  RunFiles <- MCFiles
  NoPath = NoPath
  Absent = Absent
  Documents <- MCApis
  PathOrder <- MCPathOrder
  Unspeakable = {"a b"}
  UnfitSources = {"unfit"}
  IdLike = {"id", "ownerId"}
  UrlRequests <- MCUrls
  Directories <- MCDirectories
  Links <- MCLinks
  UrlFiles = {"f", "p:q", "r%41", "rA"}
  WithColon = {"p:q"}
  AsUrl <- MCAsUrl
  ExampleRequests <- MCExamples
  NameOrder <- MCNameOrder
  NaturalLength <- MCNaturalLength
INVARIANTS
  AnswersAreExact
  ReplayIsFaithful
  ReportsTellTruth
  
PROPERTIES
  ScopeRunsExactly
CHECK_DEADLOCK FALSE
