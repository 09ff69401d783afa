\* One session after another on two messages: one that can expire, one sent to a tac.
SPECIFICATION FairReaderSpec
CONSTANTS
  r1 = r1
  Messages <- TwoMessages
  Requests <- OneRequest
  MaxAttempts = 2
  Limit = 1
  Perishable <- First
  TacMail <- Second
INVARIANTS ReaderTypeOK SeenBeforeMarked
PROPERTIES ClearMeansSeen KeepsInbox EverythingShown
