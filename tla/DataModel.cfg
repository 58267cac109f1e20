CONSTANTS
  Exposed = {}
  Start <- NoClasses
  MaxClasses = 4
  MaxBases = 2
  Slots = {x}
  MaxDepth = 1
  MaxAssignments = 2
  Reentrant = TRUE
  SlotReuse = FALSE
  Hierarchies <- Orders
  Natives = {"int", "float", "complex", "bytes", "bytearray", "list", "tuple", "set", "dict", "memoryview"}
  Codes <- FunctionCodes
  MaxDefaults = 4
  Argued <- ArgumentLists
  Through <- Routes
  Lists <- SomeLists
  Ranges <- SomeRanges
  Views <- SomeViews
  Bounds <- SomeBounds
  Steps <- SomeSteps
  Changes <- OtherLists
  Largest = 9
SPECIFICATION Spec
CHECK_DEADLOCK FALSE
INVARIANTS MroIsC3Undisturbed RefusedOnlyOnConflict OperatorsFollowDataModel
  CallsBindLikePython SubscriptsFollowLanguage
