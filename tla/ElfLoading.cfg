CONSTANTS
  Files <- MCFiles
  MemorySize = 7
  StorageAddress = 3
  SizeModulus = 1024
SPECIFICATION FairSpec
INVARIANTS TypeOK LoadingDefined NothingTakenFromBadFiles
PROPERTIES BytesLoadedOnce ImplementsElfImage LoadingEnds
CHECK_DEADLOCK FALSE
