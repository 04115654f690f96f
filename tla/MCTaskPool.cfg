CONSTANTS
    w1 = w1
    w2 = w2
    main = main
    other = other
    t1 = t1
    t2 = t2
    NULL = NULL
    Nobody = Nobody
    Threads <- MCThreads
    Callers <- MCCallers
    Owner = main
    Tasks <- MCTasks
    DefaultThreads = 2
    MaxEntries = 3
SPECIFICATION FairSpec
INVARIANTS NeverPopEmpty NoSleepOnWork StoppedIsQuiet
PROPERTIES ImplementsWorkQueue QueuedTaskRuns StopReturnsUnlessRaced
