SPECIFICATION Spec
CONSTANTS
  s1 = s1
  m1 = m1
  m2 = m2
  Shapes = {s1}
  NoShape = NoShape
  Manifolds = {m1, m2}
  CommandCapacity = 1
  MaxRevision = 2
  MaxGeneration = 2
  MaxWakes = 6
INVARIANTS
  TypeOK
  NeverSleepsOnWork
  ProofGeometryStays
CHECK_DEADLOCK FALSE
