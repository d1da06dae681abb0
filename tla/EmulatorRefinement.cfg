CONSTANTS
  Modulus = 32
  RegisterCount = 3
  ImmediateLimit = 12
  Programs <- MCAlignedBaseKept
SPECIFICATION Spec
PROPERTY ImplementsRelocatedIsa
CHECK_DEADLOCK FALSE
