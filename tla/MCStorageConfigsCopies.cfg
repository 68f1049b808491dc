SPECIFICATION Spec
CONSTANTS
    c1 = c1
    c2 = c2
    g1 = g1
    g2 = g2
    i1 = i1
    r1 = r1
    r2 = r2
    Home = Home
    Local = Local
    None = None
    Configs <- HomeAndTwo
    Repos <- TwoRepos
    Images <- OneImage
    Requests <- TwoRequests
    Settings <- TwoOrImage
    MaxFaults = 1
SYMMETRY Symmetry
INVARIANTS EachBackendRecorded
CHECK_DEADLOCK FALSE
