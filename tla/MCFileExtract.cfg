SPECIFICATION Spec
CONSTANTS
  Wrap = 16
  Block = 4
  Page = 2
  MaxRead = 8
  PkgSizes = {8, 13}
  ImageOffsets = {2, 5}
  PfscOffsets = {0, 3}
  SectorMaps <- MCSectorMaps
  Locs = {0, 1, 3}
  BlockCounts = {0, 1, 2, 3}
  FileSizes <- MCFileSizes
INVARIANTS
  PreflightAgrees
  WrittenAsTold
CHECK_DEADLOCK FALSE
