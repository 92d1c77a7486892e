SPECIFICATION Spec
CONSTANTS
    a1 = a1
    a2 = a2
    b1 = b1
    ka = ka
    kb = kb
    tests = tests
    p1 = p1
    p2 = p2
    small = small
    Nowhere = Nowhere
    Run <- MCRun
    Key <- MCKey
    KeyOf <- MCKeyOf
    Prefix <- MCPrefix
    PrefixOf <- MCPrefixOf
    Mailed <- MCMailed
    Saved <- MCSaved
    Request <- MCRequest
    Model <- MCModel
    ModelOf <- MCModelOf
    QuestionCounts = {1, 2}
    MaxDeliveries = 1
    MaxFaults = 1
CONSTRAINT MCOverlap
INVARIANT
    EvidenceIdsUnique
SYMMETRY MCSymmetry
CHECK_DEADLOCK FALSE
