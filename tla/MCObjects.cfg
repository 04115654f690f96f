CONSTANTS
    MaxTimers = 3
    MaxTime = 3
    Repeats <- MCRepeats
    Intervals = {1, 2}
    Pointers = {p1, p2, p3}
    Blocks = {b1, b2}
    Null = null
    Size = 2
    Buffers = {m1, m2, m3}
    Texts = {"empty", "Hello"}
    ByteBits = 3
    IntSize = 2
    ShortSize = 1
    MaxFields = 2
    MaxArrays = 3
    DTypeSize = 4
SPECIFICATION Spec
INVARIANTS TimersCorrect MemoryOwned StreamCorrect ArraysCorrect
PROPERTY GarbageGoes
CHECK_DEADLOCK FALSE
