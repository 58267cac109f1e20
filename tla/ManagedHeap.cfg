CONSTANTS
  Programs <- MCPrograms
  MaxSlots = 4
  MaxGeneration = 2
  MaxRoots = 2
  MaxDepth = 4
SPECIFICATION Spec
CHECK_DEADLOCK FALSE
INVARIANTS NoDangling HooksOnce
PROPERTIES NoAlias CollectComplete FinalizedBeforeCleared MarkedReleaseAfterLastView ExceptionKept
