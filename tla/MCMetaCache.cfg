SPECIFICATION FairSpec
CONSTANTS
    i1 = i1
    n1 = n1
    n2 = n2
    c1 = c1
    r1 = r1
    r2 = r2
    q1 = q1
    q2 = q2
    None = None
    Images <- OneImage
    Names <- TwoNames
    Categories <- OneCategory
    Readers <- TwoReaders
    Requests <- TwoRequests
    MaxFaults = 1
INVARIANTS TypeOK StaleAccounted
PROPERTIES EventuallyFresh
CHECK_DEADLOCK FALSE
