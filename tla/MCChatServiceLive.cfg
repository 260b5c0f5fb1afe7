\* Liveness, refinement, what clients see and what the busy test answers, when
\* a harness can always be created.
CONSTANTS
    Jobs = {r1, r2}
    Sessions = {s1, s2}
    None = None
    Deletable = {s1}
    Faults = {"open", "store"}
SPECIFICATION FairSpec
INVARIANTS
    StatusIsReal
PROPERTIES
    ImplementsSerialExecutor
    EveryJobEnds
    AbortEndsWork
CHECK_DEADLOCK FALSE
