SPECIFICATION FairSpec
CONSTANTS
    c1 = c1
    c2 = c2
    c3 = c3
    Callers <- MCCallers
    Interval = 2
    MaxAttempts = 2
    InitialBackoff = 1
    MaxBackoff = 3
    MaxJitter = 2
INVARIANTS
    TypeOK
    SlotsApart
    WaitIsBounded
PROPERTIES
    CallsEnd
CHECK_DEADLOCK FALSE
