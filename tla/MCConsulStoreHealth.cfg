SPECIFICATION Spec
CONSTANTS
  n1 = n1
  absent = absent
  Node <- MCNode
  Absent <- absent
  Tries = 2
  MaxStarts = 2
  MaxMembers = 1
  MaxSessions = 4
\* With the starts used up, a node may have nothing left to do.
CHECK_DEADLOCK FALSE
INVARIANTS
  HealthGoesWithSession
