SPECIFICATION Spec
CONSTANTS
  n1 = n1
  n2 = n2
  a = a
  e1 = e1
  e2 = e2
  Notes = {n1, n2}
  Words = {a}
  Ids = {e1, e2}
  NoNote = NoNote
  NoLease = NoLease
  NoAnchors = NoAnchors
  MaxLength = 2
  Context = 1
  MaxEntities = 2
  MaxMentions = 2
  MaxRevision = 3
  MaxNer = 1
  MaxGeneration = 2
SYMMETRY Symmetry
CHECK_DEADLOCK FALSE
INVARIANTS
  TypeOK
  AnchorsFit
  LeaseIsCommitted
  StoredBehindDocuments
  MentionsCoherent
PROPERTY
  StaleSaveReplacesNothing
