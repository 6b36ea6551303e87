SPECIFICATION Spec
CONSTANTS
  Text = Text
  NulText = NulText
  ProtoKey = ProtoKey
  None = None
  Half = Half
  NaN = NaN
  Infinity = Infinity
  MaxI32 = 1
  MaxI64 = 3
  MaxU64 = 7
  MaxI128 = 15
  MaxU128 = 31
  Handles = {a, b, c}
  MaxNodes = 2
  MaxEntries = 1
  MaxTables = 1
  MaxRaw = 1
  MaxAtOnce = 1
  FromScript <- MCFromScript
  FromHost <- MCFromHost
INVARIANTS
  HostTypeOK
  CountsExactUnfrozen
  TablesFreedOnce
  EchoKeepsValues
  PanicsAreKnown
SYMMETRY HandleSymmetry
CHECK_DEADLOCK FALSE
