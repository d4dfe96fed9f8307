SPECIFICATION Spec
CONSTANTS
  n1 = n1
  n2 = n2
  n3 = n3
  off = off
  Node <- MCNode
  Primary <- n1
  Other <- MCOther
  Off <- off
  Jump = 1
  MaxSets = 2
  MaxFailures = 2
INVARIANTS
  WipesOnlyOtherSets
