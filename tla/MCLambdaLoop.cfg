\* Two requests with two work items each; any GET, POST or header may fail.
SPECIFICATION FairSpec
CONSTANTS
    MaxRequests = 2
    MaxFailures = 2
    MaxWork = 2
    Sources <- AllSources
CHECK_DEADLOCK FALSE
INVARIANTS
    TypeOK
    InvocationsAreIsolated
    AnswersAreOwn
PROPERTIES
    HandlerEnds
