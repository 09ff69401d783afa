\* One registration at a time, of every kind, for three routes to two terminals.
SPECIFICATION Spec
CONSTANTS
  n1 = n1
  n2 = n2
  t1 = t1
  t2 = t2
  x = x
  y = y
  z = z
  None = None
  Nodes <- TwoNodes
  Routes <- Terminals
  Places <- Panes
  Place <- PaneOf
  Calls <- Varied
  Threads <- TwoThreads
  Last = 2
SYMMETRY Symmetry
INVARIANTS TypeOK EnterConsented ProofCurrent
PROPERTIES KeepsSeats
