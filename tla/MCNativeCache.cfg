CONSTANTS
  Threads = {t1, t2}
  steady = steady
  flaky = flaky
  twin = twin
  Functions <- MCFunctions
  Keys <- MCFunctions
  KeyOf <- TwinsCollide
  Native <- MCFunctions
  GoesToC = {twin}
  Steady = {steady}
  Buffers = {1, 2, 3}
  MaxEntries = 1
  NoBuffer = 0
SPECIFICATION Spec
INVARIANTS
  TypeOK
  RunsMappedCode
  CacheBounded
  RetiredStaysOut
PROPERTIES
  SteadyStaysCached
  CallsEnd
