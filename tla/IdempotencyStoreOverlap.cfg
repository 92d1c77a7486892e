SPECIFICATION Spec
CONSTANTS
    r1 = r1
    r2 = r2
    r3 = r3
    r4 = r4
    k1 = k1
    k2 = k2
    same = same
    other = other
    NoResponse = NoResponse
    TTL = 2
    Requests <- MCRequests
    Keys <- MCKeys
    KeyOf <- MCKeyOf
    FingerprintOf <- MCFingerprintOf
    Responses <- MCRequests
    ProducerOf <- MCProducerOf
INVARIANT
    NeverTwoRunning
CHECK_DEADLOCK FALSE
