SPECIFICATION ProfilesSpec
CONSTANTS
    u1 = u1
    u2 = u2
    v1 = v1
    v2 = v2
    v3 = v3
    p1 = p1
    p2 = p2
    x1 = x1
    x2 = x2
    r1 = r1
    r2 = r2
    Absent = Absent
    Zero = Zero
    Users <- TwoUsers
    Cols <- NameAndMark
    UniqueCols <- Named
    ColValues <- ThreeValues
    Domain <- NamesAndMarks
    First <- FirstValues
    Passwords <- TwoPasswords
    Accounts <- TwoAccounts
    Callers <- TwoRequests
    Scopes <- EditsOrLogins
    MaxBlanks = 1
SYMMETRY Symmetry
INVARIANT SignInKept
PROPERTY OthersKept
CHECK_DEADLOCK FALSE
