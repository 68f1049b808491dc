SPECIFICATION Spec
CONSTANTS
    u1 = u1
    u2 = u2
    u3 = u3
    c1 = c1
    r1 = r1
    r2 = r2
    None = None
    Users <- ThreeUsers
    Codes <- OneCode
    Requests <- TwoRequests
    MaxFaults = 1
SYMMETRY Symmetry
INVARIANTS TypeOK InviteAdmitsOne OneFounder AdminRemains
CHECK_DEADLOCK FALSE
