CONSTANTS
  U8 = 8
  IntBits = 12
  MantissaBits = 20
  NumLocals = 2
  Bytecodes <- AllLoops
SPECIFICATION LoopSpec
INVARIANT FoldIsResult
PROPERTY RecognisedLoopsEnd
CHECK_DEADLOCK FALSE
