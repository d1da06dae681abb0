CONSTANT Programs <- MCPrograms
SPECIFICATION Spec
INVARIANTS TypeOK Rv64gDecoded Rv64gAccepted OnlyUntestedBitsIgnored OffsetsEven
CHECK_DEADLOCK FALSE
