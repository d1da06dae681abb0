CONSTANTS
  Capacity = 43
  StorageAddress = 3
  SizeModulus = 128
  ItemTypes <- MCItemTypes
  Counts <- MCCounts
  MaxBlocks = 4
SPECIFICATION Spec
INVARIANTS TypeOK BlocksUsable
PROPERTIES ThrowsOnlyWhenFull AnnouncedOffsetKept FreeOffsetMonotone
CHECK_DEADLOCK FALSE
