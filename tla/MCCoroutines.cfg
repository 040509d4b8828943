\* One body of each kind, calling each other.
SPECIFICATION FairSpec
CONSTANTS
    AsyncFuncs = {f1}
    Generators = {g1}
    AsyncGens = {a1}
    Host = host
    None = none
    MaxRequests = 3
    MaxSteps = 4
    MaxNative = 2
    EarlyCalls = FALSE
CHECK_DEADLOCK FALSE
INVARIANTS
    TypeOK
    HandOffIsExact
    AnswersInOrder
    ContinuationsReachHost
PROPERTIES
    RequestsAnswered
