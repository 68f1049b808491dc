SPECIFICATION LiteFairSpec
CONSTANTS
    t1 = t1
    t2 = t2
    Rows <- TwoTasks
    Limits <- ZeroOrOne
    MaxFailures = 1
PROPERTIES RetriesRunOut
CHECK_DEADLOCK FALSE
