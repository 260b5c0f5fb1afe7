CONSTANTS
  Sessions = {s1}
  Streams = {1, 2, 3}
  Requests = {1, 2}
  Bounds <- MCBounds
  Null = Null
SPECIFICATION FairSpec
INVARIANTS LinkInv
PROPERTY LinkRecovers
CHECK_DEADLOCK FALSE
