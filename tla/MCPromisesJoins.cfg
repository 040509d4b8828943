\* Three promises, timers, descriptors, refused inputs and a chain among them,
\* combined by up to two combinators, forced by a deadline; one purge.
SPECIFICATION Spec
CONSTANTS
    MaxPromises = 3
    MaxFrames = 2
    MaxJoins = 2
    MaxTokens = 1
    MaxDepth = 1
    MaxPurges = 1
    Slots <- NoSlots
    Operations <- JoinOperations
    s1 = s1
CHECK_DEADLOCK FALSE
INVARIANTS
    TypeOK
    CountsAreExact
    CombinatorsAreRight
PROPERTIES
    CancelledIsInert
    SettledForGood
