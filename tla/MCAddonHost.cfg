\* Two Envs, two works on two pool threads, a cleanup handle, a cleanup hook and a
\* threadsafe function; callbacks poll, shut down and nest.
SPECIFICATION FairSpec
CONSTANTS
    Envs = {e1, e2}
    Works = {w1, w2}
    Workers = {k1, k2}
    Handles = {h1}
    Hooks = {c1}
    None = none
    MaxDepth = 3
    MaxOps = 4
INVARIANTS
    TypeOK
    WorkIsAccounted
    NothingRunsClosed
PROPERTIES
    HooksStartOnce
    WorkCompletes
    ShutdownEnds
