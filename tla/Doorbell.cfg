\* Two processes that queue the rings of one node for two deliveries.
SPECIFICATION Spec
CONSTANTS
  a = a
  c = c
  d1 = d1
  d2 = d2
  q = q
  Nodes <- OneNode
  Bells <- TwoBells
  Last = 2
  For <- BothForA
  Announced <- Second
  Threads <- OneThread
  Routes <- QueueOnly
SYMMETRY Symmetry
INVARIANTS TypeOK NothingBuried QueueOnce
