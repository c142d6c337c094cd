SPECIFICATION PartsSpec
CONSTANTS
  Followed <- MCFollowed
  Games = {"a", "b"}
  HandFiles = {"a"}
  MaxSettings = 3
  KeySize <- MCKeySize
  KeyWidth = 6
  PsfBytes <- MCPsfBytes
  MaxPsf = 4
  CondWaiters = {"c1", "c2"}
  TimedWaiters = {"t1"}
  Objects = {"f", "g"}
  IoPaths = {"p", "q"}
  MaxIo = 4
  Dumps <- MCDumps
  FreeNames <- MCFreeNames
  MaxPane = 4
  InstallPaths <- MCInstallPaths
  HandLists <- MCHandLists
  MaxDirs = 2
  MaxInstall = 5
  TrophyDirs <- MCTrophyDirs
  Bindings <- MCBindings
  MaxTrophy = 2
  Ranges <- MCRanges
  MaxTick = 3
  MaxPool = 3
INVARIANTS TrophiesAccounted NoHoldAndWait ListIsTheOrder RestartKeeps StopReachesWaits SizeCountsTheWritten RenameLosesNothing PreviewIsOfThePackage
PROPERTIES FoldersReturn GamesApart OpenFindsTheEncoded
CHECK_DEADLOCK FALSE
