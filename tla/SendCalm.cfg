\* One request at a time, in every mode.
SPECIFICATION FairSpec
CONSTANTS
  a = a
  b = b
  r1 = r1
  r2 = r2
  Nodes <- TwoNodes
  Ids <- TwoIds
  Texts <- OneText
  Envelopes <- Mixed
  Requests <- OneRequest
INVARIANT NoCrossTalk
PROPERTIES KeepsContract GetsThrough
