CONSTANTS
    w1 = w1
    w2 = w2
    main = main
    other = other
    t1 = t1
    t2 = t2
    NULL = NULL
    Nobody = Nobody
    Threads = {w1}
    Callers = {main}
    Owner = main
    Tasks = {t1}
    DefaultThreads = 1
    MaxEntries = 1
SPECIFICATION FairSpec
PROPERTY StopReturnsAlways
