\* Images of up to six sectors, with up to two headers in the decrypted
\* bytes and one in the encrypted ones.
SPECIFICATION Spec
CONSTANTS
  MagicSize = 1
  MinHeader = 2
  FastStart = 8
  FastStride = 4
  SectorSize = 2
  SampleAbove = 9
  SampleStride = 3
  Regions = {1, 5, 8, 12, 13}
  ImageSizes = {1, 6, 20}
  CacheLengths = {0, 2, 6}
  Positions = {0, 1, 2, 3, 5, 8, 11}
  MapEnds = {1, 3, 4, 6, 9, 20}
  MinLoad = 3
  RetryLoad = 7
  UpdateLoad = 5
INVARIANTS
  ErrorsAreTrue
  MapOfTheHeader
CHECK_DEADLOCK FALSE
