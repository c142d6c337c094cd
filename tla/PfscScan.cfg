\* Buffers around the sizes at which the searches begin and end.
SPECIFICATION ScanSpec
CONSTANTS
  MagicSize = 2
  MinHeader = 3
  FastStart = 8
  FastStride = 4
  SectorSize = 2
  SampleAbove = 15
  SampleStride = 3
  Wrap = 32
  MaxSize = 17
  MaxHits = 2
INVARIANT FindsHeader
PROPERTY ScanEnds
CHECK_DEADLOCK FALSE
