CONSTANTS
  Capacity = 16
  StorageAddress = 0
  SizeModulus = 128
  ItemTypes <- MCItemTypes
  Counts <- MCCounts
  MaxBlocks = 2
SPECIFICATION Spec
INVARIANT AllocatedBeforeFree
CHECK_DEADLOCK FALSE
