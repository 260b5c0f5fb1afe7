\* A file with two paths that appears and is removed, and a file with one path.
CONSTANTS
    plain = plain
    link = link
    Ops = {o1, o2, o3}
    Paths = {plain, link, other}
    Real <- Aliased
    Existing = {}
    Removable = {plain}
    None = None
SPECIFICATION FairSpec
INVARIANTS
    QueueInv
    ExclusivePerFile
PROPERTIES
    NoLostEdit
    CallsReturn
    QueueIsSerial
CHECK_DEADLOCK FALSE
