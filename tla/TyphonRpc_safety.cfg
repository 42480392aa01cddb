CONSTANTS
    Callers = {c1, c2}
    MaxCalls = 2
    SockCap = 2
    MaxEvents = 1
    StopAnyTime = TRUE
    TextBreaksJson = FALSE
SPECIFICATION FairSpec
INVARIANTS
    TypeOK
    ReaderNeverBlocks
    NoLeakedEntries
    NoOrphanWaiter
PROPERTIES
    ImplementsPromise
    CallReturns
    StopEndsEverything
