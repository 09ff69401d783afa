\* Two requests overlapping on two messages: one that can expire, one sent to a tac.
SPECIFICATION Spec
CONSTANTS
  r1 = r1
  r2 = r2
  Messages <- TwoMessages
  Requests <- TwoRequests
  MaxAttempts = 2
  Limit = 1
  Perishable <- OneMessage
  TacMail <- Second
SYMMETRY Symmetry
INVARIANTS TypeOK PoisonRule OneWinner RungsClimbed
PROPERTIES KeepsContested UnfitBodyWithheld OnlyAckGoesBack
