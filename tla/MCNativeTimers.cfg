\* Three timers of any kind, two at a time; a callback polls again and runs another
\* one inside; descriptors may be ready at any poll; a fair loop.
SPECIFICATION FairSpec
CONSTANTS
    Kinds <- AllKinds
    Delays <- SomeDelays
    TimerMax = 2
    MaxId = 3
    MaxNow = 2
    MaxDepth = 2
    MaxLive = 2
    MaxJobs = 1
CHECK_DEADLOCK FALSE
INVARIANTS
    TypeOK
    ClearedIsGone
PROPERTIES
    RunsInOrder
    IdleIsIdle
    EveryTimerEnds
