CONSTANTS
  U8 = 16
  IntBits = 16
  MantissaBits = 26
  NumLocals = 2
  cpool <- FloatPool
  Bytecodes <- DirtyBytecodes
SPECIFICATION CallSpec
INVARIANT FallbackIsInvisible
CHECK_DEADLOCK FALSE
