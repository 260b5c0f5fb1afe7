\* A reply of three messages with four parts and a steering message; a file of seven
\* entries; a branch of five entries with two requests for the settings at a time.
CONSTANTS
    MaxParts = 4
    MaxMessages = 3
    MaxSteers = 1
    MaxEntries = 7
    MaxMoves = 2
    MaxBranch = 5
    MaxLoads = 2
    None = None
SPECIFICATION MCSpec
INVARIANTS
    ReplyInv
    TreeInv
    UsageInv
CHECK_DEADLOCK FALSE
