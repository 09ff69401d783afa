\* Two nodes write to each other at the same time.
SPECIFICATION Spec
CONSTANTS
  a = a
  b = b
  r1 = r1
  r2 = r2
  Nodes <- TwoNodes
  Ids <- TwoIds
  Texts <- OneText
  Envelopes <- Exchange
  Requests <- TwoRequests
INVARIANT NoCrossTalk
