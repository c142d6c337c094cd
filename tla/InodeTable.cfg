\* The sizes of the program.
SPECIFICATION Spec
CONSTANTS
  BlockSize = 65536
  InodeSize = 168
  MaxInodes = 4300
INVARIANT AllInodesRead
CHECK_DEADLOCK FALSE
