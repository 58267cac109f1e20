CONSTANTS
  Roots = {r1}
  NoRoot = NoRoot
  Wakers = {w1, w2}
  NoWaker = NoWaker
  Timers = {}
  MaxSlots = 1
  MaxGeneration = 1
  MaxRequests = 2
  MaxDepth = 2
  TakeDuringPoll = FALSE
  Coroutines = {c1}
  MaxLeases = 1
  ReleaseRunsCode = TRUE
SPECIFICATION DriverFairSpec
CHECK_DEADLOCK FALSE
PROPERTIES WakeConsumed CancelAcknowledged
