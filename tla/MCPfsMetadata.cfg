SPECIFICATION Spec
CONSTANTS
  BlockSize = 10
  InodeSize = 3
  MaxNodes = 3
  Names = {"a", "b?", "c"}
  Sanitized <- MCSanitized
  EntrySizes = {3, 4}
  DirentSize = 5
INVARIANTS
  PathsMatchTree
  ListsTheTree
CHECK_DEADLOCK FALSE
