\* One request at a time, again and again: the contract holds and everything settles.
SPECIFICATION FairSpec
CONSTANTS
  r1 = r1
  r2 = r2
  Messages <- TwoMessages
  Requests <- OneRequest
  MaxAttempts = 2
  Limit = 1
  Perishable <- OneMessage
  TacMail <- Second
PROPERTIES KeepsContract Settles
