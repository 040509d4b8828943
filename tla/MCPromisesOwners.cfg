\* Chains, adoptions and finally frames over three promises, one of them kept in an
\* arena cell, callbacks nested twice; one purge.
SPECIFICATION Spec
CONSTANTS
    s1 = s1
    MaxPromises = 3
    MaxFrames = 2
    MaxJoins = 0
    MaxTokens = 1
    MaxDepth = 2
    MaxPurges = 1
    Slots <- OneSlot
    Operations <- OwnerOperations
CHECK_DEADLOCK FALSE
INVARIANTS
    ContinuationsAreSafe
