CONSTANTS
  Exposed = {}
  KindsOf <- DescriptorKinds
  HookSets <- HookFamilies
  Slotted = {FALSE, TRUE}
  Sorts = {"instance", "exception"}
SPECIFICATION Spec
CHECK_DEADLOCK FALSE
INVARIANTS ReadsFollowDataModel WritesFollowDataModel
PROPERTIES ObserversTold
