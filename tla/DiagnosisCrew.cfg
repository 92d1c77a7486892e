SPECIFICATION FairSpec
CONSTANTS
    c1 = c1
    c2 = c2
    c3 = c3
    NoObservation = NoObservation
    Callers <- MCCallers
    SemanticBudget = 1
    MaxTaskRetries = 1
    MaxLlmCalls = 3
INVARIANTS
    TypeOK
    SingleExecution
    WaiterIsServed
    ReturnsAcceptedObservation
    BatchAgrees
PROPERTIES
    StepsAreBounded
    LifecycleSpec
    WorkflowEnds
CHECK_DEADLOCK FALSE
