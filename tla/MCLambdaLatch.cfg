\* Two requests: a handler awaits setTimeout after an earlier request left an
\* unhandled rejection.
SPECIFICATION FairSpec
CONSTANTS
    MaxRequests = 2
    MaxFailures = 2
    MaxWork = 2
    Sources <- NativeTimers
CHECK_DEADLOCK FALSE
PROPERTIES
    AwaitedTimerSettles
