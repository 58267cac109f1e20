CONSTANTS
  Roots = {r1, r2}
  NoRoot = NoRoot
  Wakers = {w1, w2}
  NoWaker = NoWaker
  Timers = {t1}
  MaxSlots = 2
  MaxGeneration = 2
  MaxRequests = 1
  MaxDepth = 2
  TakeDuringPoll = FALSE
SPECIFICATION Spec
CHECK_DEADLOCK FALSE
SYMMETRY RootSymmetry
CONSTRAINT TimerOrRequest
INVARIANTS IdsNeverReused NoLostWake ShutdownDrains
PROPERTIES ImplementsContract
