\* A buffer as large as the index of the loops can count.
SPECIFICATION ScanSpec
CONSTANTS
  MagicSize = 2
  MinHeader = 3
  FastStart = 8
  FastStride = 4
  SectorSize = 2
  SampleAbove = 15
  SampleStride = 3
  Wrap = 16
  MaxSize = 16
  MaxHits = 2
PROPERTY ScanEnds
CHECK_DEADLOCK FALSE
