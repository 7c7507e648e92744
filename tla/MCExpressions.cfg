CONSTANTS
  Tasks = {t1, t2, t3}
  Patterns = {p1, p2, p3, long}
  Long = {long}
  Capacity = 2
  MaxCompiles = 4
  Alphabet = {"(", ")", "!", "&", "=", "'", "v"}
  Limit = 2
  MaxLength = 6
  Values <- MCValues
  IntMin <- MCIntMin
  IntMax = 3
  Conditions <- MCConditions
  Bodies <- MCBodies
  ContentTypes = {"json", "xml", "other"}
  Replacements <- MCReplacements
  Segments = {"a", "b", "items", "new", "", "-", "0", "1", "2", "01", "x", "y", "comment"}
  MaxReplacements = 2
  Versions <- MCVersions
SPECIFICATION ExpressionsSpec
INVARIANTS ConditionsDecideRight CriteriaFailClosed
PROPERTIES CompilationsAreShared ReplacementsAreAtomic
CHECK_DEADLOCK FALSE
