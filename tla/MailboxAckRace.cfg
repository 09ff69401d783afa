\* Two overlapping requests and one message: the ladder goes backwards.
SPECIFICATION Spec
CONSTANTS
  r1 = r1
  r2 = r2
  Messages <- OneMessage
  Requests <- TwoRequests
  MaxAttempts = 2
  Limit = 1
  Perishable <- Nobody
  TacMail <- Nobody
PROPERTY NeverBackwards
