CONSTANTS
  U8 = 16
  IntBits = 16
  MantissaBits = 26
  NumLocals = 2
  cpool <- FloatPool
  Bytecodes <- MCBytecodes
SPECIFICATION CallSpec
INVARIANTS
  CallTypeOK
  CleanFallbackIsInvisible
PROPERTY CallEnds
CHECK_DEADLOCK FALSE
