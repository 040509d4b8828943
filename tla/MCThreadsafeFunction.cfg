\* One Host acquisition, two producers, two places in the queue.
SPECIFICATION FairSpec
CONSTANTS
    h = h
    p = p
    q = q
    Owners <- MCOwners
    HostOwners <- MCHostOwners
    InitialOwners <- MCOwners
    MaxQueueSize = 2
    MaxCalls = 6
    MaxNesting = 4
CHECK_DEADLOCK FALSE
INVARIANTS
    TypeOK
    FinalizedIsSafe
    WorkIsScheduled
    DeliveredInOrder
PROPERTIES
    ImplementsChannel
    ClosingLeadsToFinalized
    BlockedCallReturns
