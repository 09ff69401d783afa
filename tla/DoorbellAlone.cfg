\* One process that types the rings of two nodes, for one delivery each.
SPECIFICATION FairSpec
CONSTANTS
  a = a
  c = c
  d1 = d1
  d2 = d2
  q = q
  Nodes <- TwoNodes
  Bells <- OneBell
  Last = 2
  For <- OneEach
  Announced <- Second
  Threads <- OneThread
  Routes <- ItermOnly
INVARIANTS RingsOnce
PROPERTIES KeepsContract UnreadRings
