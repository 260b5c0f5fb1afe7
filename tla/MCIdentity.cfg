CONSTANTS
  Tokens = {1, 2, 3}
  Tabs = {t1, t2}
  Callers = {c1, c2}
  MaxAges = 1
  MaxFaults = 1
  Codes = {k1}
  Commands = {p1, p2}
  Limits <- MCLimits
  None = None
  Nothing = Nothing
SPECIFICATION Spec
  
PROPERTY StoppedGoesOffline
CHECK_DEADLOCK FALSE
