CONSTANTS
  MemoryArguments <- MCMemoryArguments
  SizeArguments <- MCSizeArguments
  Programs <- MCPrograms
  Keys = {0, 1, 2}
  StorageAddress = 2
  IntModulus = 256
  SizeModulus = 65536
  MaxTextureSize = 31
  MaxEvents = 4
SPECIFICATION FairSpec
INVARIANTS TypeOK CallbacksDefined KeyboardReplayed EndsConsistently
PROPERTIES QuitEndsProcess
CHECK_DEADLOCK FALSE
