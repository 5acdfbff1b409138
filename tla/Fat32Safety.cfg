CONSTANTS
  RESERVED_SECTORS = 8
  SECTORS_PER_FAT = 2
  SECTORS_PER_CLUSTER = 2
  TOTAL_SECTORS = 20
  FatEntriesPerSector = 4
  DirEntriesPerSector = 1
  Names <- MCNames
  ShortNames <- MCShortNames
  ShortName <- MCShortName
  Contents <- MCContents
  Nothing = Nothing
  MaxCalls = 3
  MaxErrors = 2
  MaxBoots = 1
SPECIFICATION Spec
CHECK_DEADLOCK FALSE
INVARIANTS
  ChainsSound
  NoCrossLink
  NoLeak
  CopiesAgree
  RegionsKept
PROPERTIES
  StoreSpec
