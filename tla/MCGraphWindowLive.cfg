SPECIFICATION FairSpec
CONSTANTS
  s1 = s1
  m1 = m1
  Shapes = {s1}
  NoShape = NoShape
  Manifolds = {m1}
  CommandCapacity = 1
  MaxRevision = 2
  MaxGeneration = 1
  MaxWakes = 4
PROPERTIES
  ViewportSettles
  CallsReturn
  ShutdownReturns
CHECK_DEADLOCK FALSE
