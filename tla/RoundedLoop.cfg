CONSTANTS
  U8 = 8
  IntBits = 12
  MantissaBits = 20
  NumLocals = 2
  Bytecodes <- RoundedLoops
SPECIFICATION LoopSpec
INVARIANT FoldIsResult
CHECK_DEADLOCK FALSE
