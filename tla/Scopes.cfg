CONSTANTS
  Modules <- MostModules
SPECIFICATION Spec
CHECK_DEADLOCK FALSE
INVARIANTS BindsLikePython PlansMatch
