CONSTANTS
  Roots = {r1, r2}
  NoRoot = NoRoot
  Wakers = {w1}
  NoWaker = NoWaker
  Timers = {}
  MaxSlots = 2
  MaxGeneration = 1
  MaxRequests = 1
  MaxDepth = 2
  TakeDuringPoll = FALSE
  Coroutines = {c1, c2}
  MaxLeases = 1
  ReleaseRunsCode = TRUE
SPECIFICATION DriverSpec
CHECK_DEADLOCK FALSE
SYMMETRY DriverSymmetry
INVARIANTS RootsBalanced CompletionAlive NoTurnAfterTerminal NoExceptionLeaks
PROPERTIES LeasesOutliveOperation
