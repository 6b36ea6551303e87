CONSTANTS
  U8 = 4
  IntBits = 8
  MantissaBits = 13
  MaxInstructions = 3
  Bytecodes <- MCBytecodes
SPECIFICATION CompilerSpec
INVARIANTS
  CompilerTypeOK
  JumpsStayInside
  ExpansionsInOrder
  JumpsReachTheirTargets
PROPERTY CompilerEnds
CHECK_DEADLOCK FALSE
