\* Two requests that create and rename two tacs, through upgrades, a conversion and a rollback.
SPECIFICATION Spec
CONSTANTS
  i1 = i1
  i2 = i2
  t1 = t1
  t2 = t2
  low = low
  up = up
  None = None
  Uuids <- TwoUuids
  Names <- TheNames
  Keys <- TheKeys
  Foldings <- Either
  Nodes <- Own
  Threads <- TwoThreads
SYMMETRY Symmetry
INVARIANTS TypeOK DuplicatesReported NamesRecorded OldLettersRead
PROPERTIES KeepsContract ReferencesFollow
