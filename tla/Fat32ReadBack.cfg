CONSTANTS
  RESERVED_SECTORS = 8
  SECTORS_PER_FAT = 2
  SECTORS_PER_CLUSTER = 2
  TOTAL_SECTORS = 20
  FatEntriesPerSector = 4
  DirEntriesPerSector = 1
  Names <- MCDistinctNames
  ShortNames <- MCShortNames
  ShortName <- MCDistinctShortName
  Contents <- MCContents
  Nothing = Nothing
  MaxCalls = 3
  MaxErrors = 0
  MaxBoots = 1
SPECIFICATION Spec
CHECK_DEADLOCK FALSE
INVARIANTS
  ReadsBackWhatWasWritten
