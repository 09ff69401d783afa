\* Two processes started on ledgers of four ages, an earlier release serving beside them.
SPECIFICATION FairSpec
CONSTANTS
  s1 = s1
  s2 = s2
  d1 = d1
  None = None
  Earlier = Earlier
  Starters <- TwoStarters
  Mail <- OneDelivery
  Ledgers <- OldLedgers
INVARIANTS TypeOK ServesWhole
PROPERTIES KeepsLedger GetsUp
