CONSTANTS
  Modulus = 32
  RegisterCount = 3
  ImmediateLimit = 12
  Programs <- MCJumps
SPECIFICATION Spec
PROPERTY ImplementsIsa
CHECK_DEADLOCK FALSE
