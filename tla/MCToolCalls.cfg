\* Output of at most two lines and two bytes, four chunks in the pipes, one or two edits.
CONSTANTS
    maxLines = 2
    maxBytes = 2
    MaxText = 11
    MaxChunks = 2
    None = None
    MaxFound = 3
    MaxShown = 2
    Limits = {0, 1, 2, 3}
    NoCode = NoCode
    Sizes = {0, 1, 3}
    MaxLen = 4
    NoLimit = NoLimit
SPECIFICATION FairSpec
INVARIANTS
    ShellInv
    EditInv
    SearchInv
PROPERTY
    StoppedCallReturns
CHECK_DEADLOCK FALSE
