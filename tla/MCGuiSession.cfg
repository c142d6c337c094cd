SPECIFICATION FairSpec
CONSTANTS
  MaxEntries = 2
  MaxFaults = 1
INVARIANTS
  EntriesAccounted
  CheckpointBracketsWork
  ShownFolderHidesNoFailure
  EnabledMeansQuiet
  WarnedIffCrashed
PROPERTIES
  NothingOverwritten
  ViewSpec
  JobEnds
