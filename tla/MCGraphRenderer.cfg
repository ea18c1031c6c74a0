SPECIFICATION Spec
CONSTANTS
  n1 = n1
  n2 = n2
  e1 = e1
  p1 = p1
  p2 = p2
  NodeIds = {n1, n2}
  EdgeIds = {e1}
  Places = {p1, p2}
  Vacant = Vacant
  NoNode = NoNode
  MaxRevision = 3
SYMMETRY Symmetry
CHECK_DEADLOCK FALSE
INVARIANTS
  TypeOK
  SlotsAgree
  SceneIsWhatWasSent
  GpuShowsScene
  PickIsRightWithinRevision
