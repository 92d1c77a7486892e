SPECIFICATION Spec
CONSTANTS
    r1 = r1
    r2 = r2
    r3 = r3
    k1 = k1
    same = same
    other = other
    NoResponse = NoResponse
    TTL = 1
    MaxActive = 2
    MaxMishaps = 0
    Requests <- MCRequests
    Keyed <- MCKeyed
    Keys <- MCKeys
    KeyOf <- MCKeyOf
    FingerprintOf <- MCFingerprintOf
    WantsEmail <- MCWantsEmail
INVARIANT
    ActiveIsNotCompleted
CHECK_DEADLOCK FALSE
