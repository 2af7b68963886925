CONSTANTS
  n1 = n1  n2 = n2  y1 = y1  y2 = y2  y3 = y3  y4 = y4  s1 = s1  s2 = s2  u1 = u1  u2 = u2
  INVAL = INVAL
  Node = {n1, n2}
  Yod = {y1, y2, y3, y4}
  Request <- Jobs
  FIRSTJOBID = 100
  LASTJOBID = 110
  health_check = TRUE
  Scenarios <- SafeCases
SPECIFICATION Spec
INVARIANT JobIdsUnique
INVARIANT AllNodesLoaded
PROPERTY Ownership
PROPERTY KilledByOwner
CHECK_DEADLOCK FALSE
