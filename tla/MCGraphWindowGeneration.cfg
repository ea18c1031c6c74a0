SPECIFICATION FairSpec
CONSTANTS
  s1 = s1
  m1 = m1
  Shapes = {s1}
  NoShape = NoShape
  Manifolds = {m1}
  CommandCapacity = 1
  MaxRevision = 0
  MaxGeneration = 2
  MaxWakes = 4
PROPERTY GenerationReachesWindow
CHECK_DEADLOCK FALSE
