SPECIFICATION Spec
CONSTANTS
    u1 = u1
    u2 = u2
    c1 = c1
    c2 = c2
    k1 = k1
    k2 = k2
    d1 = d1
    d2 = d2
    g1 = g1
    Uploads <- TwoUploads
    Contents <- TwoContents
    Keys <- TwoKeys
    Deletes <- TwoDeletes
    Readers <- OneReader
    Quota = 1
    MaxTries = 2
    MaxEvents = 2
SYMMETRY Symmetry
CONSTRAINT Scope
INVARIANTS ContentIntact FilesBehindRows QuotaUnlessOverlap OrphansAccounted VariantsAccounted
           AnswersOwn
CHECK_DEADLOCK FALSE
