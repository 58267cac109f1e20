SPECIFICATION Spec
CONSTANTS
    Functions <- EarlyExit
    Meaning <- MeaningOf
    MaxRepeat = 1
    Exposed = {}
INVARIANT FollowsSource
