SPECIFICATION AdminSpec
CONSTANTS
    r1 = r1
    r2 = r2
    v1 = v1
    v2 = v2
    v3 = v3
    w1 = w1
    w2 = w2
    Values = {v1, v2, v3}
    None = None
    Garbled = Garbled
    Given = {v3}
    Start = v1
    Languages = {v1, v2}
    English = v2
    Requests = {r1, r2}
    MaxCalls = 3
    MaxTime = 1
    MaxFaults = 1
    Viewers = {w1, w2}
    Nothing = Nothing
    StatsTtl = 1
    Sites <- TwoSites
    MaxTicks = 2
    MaxChanges = 1
    MaxAsks = 3
SYMMETRY Symmetry
CHECK_DEADLOCK FALSE
INVARIANTS
    KeysKept
    UndoPossible
    LanguageFollows
    FiguresTrue
