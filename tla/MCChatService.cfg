\* Three requests to one session; everything can fail and the session can be
\* deleted.
CONSTANTS
    Jobs = {r1, r2, r3}
    Sessions = {s1}
    None = None
    Deletable = {s1}
    Faults = {"open", "create", "store"}
SPECIFICATION Spec
SYMMETRY RequestSymmetry
INVARIANTS
    ChatInv
    ChatSafety
    CrashNeedsDeletion
CHECK_DEADLOCK FALSE
