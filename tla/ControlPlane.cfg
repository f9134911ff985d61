SPECIFICATION Spec
CONSTANTS
  c1 = c1
  r1 = r1
  r2 = r2
  operator = operator
  k1 = k1
  b1 = b1
  b2 = b2
  NoKey = NoKey
  Connector <- OneSystem
  Request <- Requests
  Operator = operator
  Key <- OneKey
  Body <- TwoBodies
  Message <- Messages
  FirstFile <- Files
  MaxWork = 2
  MaxRequests = 4
  MaxFaults = 1
INVARIANTS NoWorkAfterRevocation ActiveIsCertified AnswersAgree EvidenceBeforeAnswer
PROPERTIES AnsweredOnce
SYMMETRY Symmetry
CHECK_DEADLOCK FALSE
