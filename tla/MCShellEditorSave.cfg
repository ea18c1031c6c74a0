SPECIFICATION ShellSpec
CONSTANTS
  phoenix = phoenix
  notes = notes
  welcome = welcome
  research = research
  native = native
  lower = lower
  upper = upper
  bad = bad
  Names <- AllNames
  BadName = bad
  AsciiFold <- Ascii
  CaseFold <- Lowercase
  SeedName <- Seed
  MaxEntries = 6
  StartTrees <- TwoNotes
  TypedNames = {upper}
  CommandCapacity = 2
  EventCapacity = 2
  MaxIncidents = 6
INVARIANT TextStaysInItsNote
CHECK_DEADLOCK FALSE
