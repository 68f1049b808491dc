SPECIFICATION Spec
CONSTANTS
    k1 = k1
    k2 = k2
    k3 = k3
    k4 = k4
    k5 = k5
    Never = Never
    Calls <- FiveCalls
    Limit = 2
    Window = 3
    MaxDelay = 1
    MaxTime = 8
    MaxFaults = 1
SYMMETRY Symmetry
INVARIANTS DenialEarned RetryEnough
PROPERTY AdmitsAtMost
CHECK_DEADLOCK FALSE
