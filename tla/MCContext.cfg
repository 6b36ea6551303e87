SPECIFICATION Spec
CONSTANTS
  Promises = {p1, p2}
  Callbacks = {f}
  MaxContexts = 2
  MaxCalls = 3
  None = None
INVARIANTS
  ContextTypeOK
  SettledValueIsItsOwn
  ContextsFreedOnce
  ClosuresOutliveCalls
  OkMeansDone
PROPERTIES
  
  AwaitEnds
CHECK_DEADLOCK FALSE
