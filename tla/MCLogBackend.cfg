SPECIFICATION LogSpec
CONSTANTS
  Classes = {"Core", "Log"}
  RuleStrings <- MCRuleStrings
  Kinds <- MCKinds
  Threads = {a, b}
  Capacity = 2
  MaxLogs = 1
  WriteLimit = 2
  MaxMessages = 3
  MaxStarts = 4
INVARIANTS
  FileIsTheAccepted
  FilterAsWritten
PROPERTY StopReturns
CHECK_DEADLOCK FALSE
