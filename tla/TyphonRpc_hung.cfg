CONSTANTS
    Callers = {c1}
    MaxCalls = 2
    SockCap = 1
    MaxEvents = 0
    StopAnyTime = FALSE
    TextBreaksJson = FALSE
SPECIFICATION FairSpec
PROPERTY CallReturns
