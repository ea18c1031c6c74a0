SPECIFICATION MCSpec
CONSTANTS
  c1 = c1
  c2 = c2
  Contents = {c1, c2}
  NoScene = NoScene
  MaxGeneration = 4
  MaxRegistry = 4
  hybrid = hybrid
  hopf = hopf
  ManifoldList <- TwoManifolds
  PageStates = {"good", "bad", "unusable", "absent"}
  MaxScene = 2
  phoenix = phoenix
  notes = notes
  welcome = welcome
  research = research
  native = native
  lower = lower
  upper = upper
  bad = bad
  Names <- AllNames
  BadName = bad
  AsciiFold <- Ascii
  CaseFold <- Lowercase
  SeedName <- Seed
  MaxEntries = 5
  StartTrees <- OneNote
  TypedNames = {upper}
  CommandCapacity = 2
  EventCapacity = 2
  MaxIncidents = 6
SYMMETRY ContentSymmetry
CHECK_DEADLOCK FALSE
INVARIANTS
  TypeOK
  ManifestNamesPair
  ResidentIsCommitted
  ResidentMatchesAtlas
  InstallNeverStale
  SceneTypeOK
  OneThreadHashes
  SyncNeverRejected
  DrawnIsOneView
  ShellTypeOK
  ManifestReopens
PROPERTIES
  CoherentSpec
  NewNotesAreEmpty
  UnsavedEditsStay
