CONSTANTS
  Definitions <- MostDefinitions
  Statements <- MostStatements
  MaxModules = 4
  MaxStatements = 4
  MaxRefusals = 1
  MaxHooks = 1
SPECIFICATION Spec
CHECK_DEADLOCK FALSE
INVARIANTS OneObjectPerLoad FailedUnpublished InitializingIsRunning LeafIsCachedAtFirst
