SPECIFICATION Spec
CONSTANTS
  Text = Text
  NulText = NulText
  ProtoKey = ProtoKey
  None = None
  MaxI32 = 1
  MaxSafe = 3
  MaxI64 = 7
  MaxU64 = 15
  MaxValues = 3
  DebugAssertions = FALSE
  Numbers <- MCNumbers
  Graphs <- MCGraphs
INVARIANTS
  SerdeTypeOK
  ReferencesExact
  SpineIsAPath
  ChangesAreKnown
  RefusalsAreKnown
  CircularIffCycle
PROPERTY
  FromJsEnds
CHECK_DEADLOCK FALSE
