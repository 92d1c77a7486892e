SPECIFICATION Spec
CONSTANTS
    c1 = c1
    c2 = c2
    c3 = c3
    NoObservation = NoObservation
    Callers <- MCCallers
    SemanticBudget = 1
    MaxTaskRetries = 1
    MaxLlmCalls = 3
INVARIANT
    InvalidIsRejected
CHECK_DEADLOCK FALSE
