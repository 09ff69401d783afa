\* Two requests overlap; one id is retried with the same envelope and with others.
SPECIFICATION Spec
CONSTANTS
  a = a
  b = b
  r1 = r1
  r2 = r2
  Nodes <- TwoNodes
  Ids <- OneId
  Texts <- TwoTexts
  Envelopes <- Retries
  Requests <- TwoRequests
SYMMETRY Symmetry
INVARIANTS TypeOK AnswerTrue
PROPERTY KeepsContested
