SPECIFICATION Spec
CONSTANTS
    r1 = r1
    r2 = r2
    r3 = r3
    k1 = k1
    same = same
    other = other
    NoResponse = NoResponse
    TTL = 1
    MaxActive = 2
    MaxMishaps = 1
    Requests <- MCRequests
    Keyed <- MCKeyed
    Keys <- MCKeys
    KeyOf <- MCKeyOf
    FingerprintOf <- MCFingerprintOf
    WantsEmail <- MCWantsEmail
INVARIANTS
    TypeOK
    CachedSuccessIsRecorded
    LoneReturnIsRecorded
PROPERTIES
    StoreSpec
    LoneRecordMovesForward
SYMMETRY MCSymmetry
CHECK_DEADLOCK FALSE
