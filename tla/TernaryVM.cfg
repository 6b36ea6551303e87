CONSTANTS
  U8 = 16
  IntBits = 16
  MantissaBits = 26
  NumLocals = 2
  cpool <- MCPool
  Bytecodes <- TernaryBytecodes
SPECIFICATION Spec
PROPERTY ImplementsStackMachine
CHECK_DEADLOCK FALSE
