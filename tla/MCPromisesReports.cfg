\* Two promises observed late, twice, or only by a detached statement, and chained,
\* with listeners that are called one at a time, under fair polling.
SPECIFICATION FairSpec
CONSTANTS
    s1 = s1
    MaxPromises = 2
    MaxFrames = 2
    MaxJoins = 0
    MaxTokens = 2
    MaxDepth = 2
    MaxPurges = 0
    Slots <- NoSlots
    Operations <- ReportOperations
CHECK_DEADLOCK FALSE
PROPERTIES
    ReportsAreOwed
    ReadyIsResumed
    RejectionIsReported
