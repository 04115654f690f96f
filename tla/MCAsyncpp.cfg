CONSTANTS
    asyncFs = asyncFs
    testVoid = testVoid
    other = other
    Coroutines = {asyncFs, testVoid, other}
    Script <- MCScript
    Order <- MCOrder
    Throwing = {"createDirectories", "removeAll"}
    None = None
    Nothing = Nothing
SPECIFICATION FairSpec
INVARIANTS OneToken MainThreadOnly
PROPERTIES ImplementsAwaitedCalls AllFinish
