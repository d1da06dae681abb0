CONSTANTS
  Modulus = 32
  RegisterCount = 3
  ImmediateLimit = 12
  Programs <- MCSelfBase
SPECIFICATION Spec
PROPERTY JalrUsesOldBase
CHECK_DEADLOCK FALSE
