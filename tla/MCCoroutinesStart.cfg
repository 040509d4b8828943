\* A body calls its own generator before the caller that started it goes on.
SPECIFICATION Spec
CONSTANTS
    AsyncFuncs = {f1}
    Generators = {g1}
    AsyncGens = {a1}
    Host = host
    None = none
    MaxRequests = 3
    MaxSteps = 4
    MaxNative = 2
    EarlyCalls = TRUE
CHECK_DEADLOCK FALSE
INVARIANTS
    StartStateIsThere
