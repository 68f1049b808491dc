SPECIFICATION Spec
CONSTANTS
    p1 = p1
    p2 = p2
    r1 = r1
    r2 = r2
    None = None
    Pairs <- TwoPairs
    Requests <- TwoRequests
    AccessTTL = 2
    RefreshTTL = 5
    Leeway = 3
    Minute = 3
    MaxClock = 8
    MaxFaults = 1
SYMMETRY Symmetry
INVARIANTS TypeOK RevokedRefused RotationOnce
CHECK_DEADLOCK FALSE
