SPECIFICATION FairSpec
CONSTANTS
  s1 = s1
  m1 = m1
  Shapes = {s1}
  NoShape = NoShape
  Manifolds = {m1}
  CommandCapacity = 1
  MaxRevision = 0
  MaxGeneration = 1
  MaxWakes = 4
PROPERTY StartReturns
CHECK_DEADLOCK FALSE
