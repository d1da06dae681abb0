CONSTANTS
  Modulus = 32
  RegisterCount = 3
  ImmediateLimit = 12
  Programs <- MCAll
SPECIFICATION FairSpec
INVARIANTS TypeOK PcEven PcAligned RegistersAligned RunTimeBounded
PROPERTY ForwardProgramsReturn
CHECK_DEADLOCK FALSE
