\* Two publishers and clients that come, close and abort at any moment.
CONSTANTS
    NSubs = 2
    Publishers = {turn, title}
    MaxSent = 2
    MAX_PENDING_EVENTS = 2
SPECIFICATION FairSpec
INVARIANTS
    HubInv
PROPERTIES
    EventsArrive
CHECK_DEADLOCK FALSE
