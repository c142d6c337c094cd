SPECIFICATION Spec
CONSTANTS
  Packages <- MCPackages
  MaxCalls = 3
  MaxSpoilt = 1
INVARIANTS
  NamesFound
  SfoIsThePackages
  KeysAreThePackages
  EntriesOnDisk
  CliOnlyPackages
CHECK_DEADLOCK FALSE
