CONSTANTS
    c1 = c1
    c2 = c2
    c3 = c3
    c4 = c4
    c5 = c5
    Consumers <- MCConsumers
    Nobody = Nobody
    None = None
    MaxTasks = 4
SPECIFICATION FairSpec
INVARIANTS NoSleepOnWork
PROPERTIES ImplementsWorkQueue TasksHandled
