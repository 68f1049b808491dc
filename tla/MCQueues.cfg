SPECIFICATION QueuesFairSpec
CONSTANTS
    t1 = t1
    t2 = t2
    p1 = p1
    p2 = p2
    s1 = s1
    Tasks <- OneTask
    Procs <- TwoProcs
    Slots <- OneSlot
    MaxRetries = 1
    MaxTime = 2
    MaxFaults = 1
    Rows <- TwoTasks
    Limits <- ZeroOrOne
    MaxFailures = 3
INVARIANTS TypeOK NoTaskLost RetryBudgetSpent ListsAccounted ClaimsAccounted DeliveredAtLeastOnce
PROPERTIES EventuallySettled StarvedOnlyByFailing
CHECK_DEADLOCK FALSE
