SPECIFICATION Spec
CONSTANTS
  c1 = c1
  c2 = c2
  Contents = {c1, c2}
  NoScene = NoScene
  MaxGeneration = 4
  MaxRegistry = 4
INVARIANT SoleCommitPoint
CHECK_DEADLOCK FALSE
