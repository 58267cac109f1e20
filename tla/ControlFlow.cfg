SPECIFICATION Spec
CONSTANTS
    Functions <- Programs
    Meaning <- MeaningOf
    MaxRepeat = 1
    Exposed = {}
INVARIANTS 
  FollowsSource
  NoSweptUse
