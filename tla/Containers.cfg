CONSTANTS
  a = a
  twin = twin
  b = b
  Kinds = {"dict", "set", "weakkey", "weakvalue", "weakset"}
  Keys = {a, twin, b}
  Values = {"v", "w"}
  Class <- MCClass
  Hash <- MCHash
  MaxDepth = 2
  MaxOperations = 4
  Exposed = {}
SYMMETRY Twins
SPECIFICATION Spec
CHECK_DEADLOCK FALSE
INVARIANTS UniqueKeys IterationFaithful
PROPERTIES ImplementsMap
