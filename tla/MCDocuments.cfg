SPECIFICATION DocumentsSpec
CONSTANTS
  Nodes = 3
  Graphs <- MCGraphs
  Elsewhere = 0
  Documents <- RuleDocuments
  Dotted = {"k.1", "s.1"}
  Spaced = {"k 1", "w 1"}
  Workflows <- MCWorkflows
  ParametersNoName = "no name"
  CookieHeader = "Cookie"
  BodyHeader = "Content-Type"
  Replaces <- MCReplaces
  ComponentsDocuments <- MCComponents
  ComponentsNoName = "no name"
  Descriptions <- MCDescriptions
  Directories <- MCDirectories
  Collections <- MCCollections
  Disks <- MCDisks
  BindingNone = BindingNone
  Missing = Missing
  Catalogues <- MCCatalogues
  OperationTargets <- MCTargets
  FixedMethods <- MCFixedMethods
  Wire <- MCWire
  Tokens <- MCTokens
  OperationNone = OperationNone
  Servers = {s1, s2}
  Messages = {m1, m2}
  TargetNone = TargetNone
  MaxTraits = 2
  MaxSchemes = 2
  MaxHostParts = 2
INVARIANTS
  AcceptanceIsSound
  DeclarationsAreClear
  TargetsAreMeant
PROPERTIES
  CyclesExact
CHECK_DEADLOCK FALSE
