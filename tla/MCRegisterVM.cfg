CONSTANTS
  U8 = 16
  IntBits = 16
  MantissaBits = 26
  NumLocals = 2
  cpool <- MCPool
  Bytecodes <- MCBytecodes
SPECIFICATION Spec
INVARIANTS
  VMTypeOK
  PanicsOnlyBeyondRegisters
PROPERTIES
  ImplementsStackMachine
  ReferencesDrift
CHECK_DEADLOCK FALSE
