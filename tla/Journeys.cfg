SPECIFICATION Spec
CONSTANTS
  k1 = k1 k2 = k2 i1 = i1 i2 = i2 r1 = r1 r2 = r2 m1 = m1 m2 = m2 v1 = v1 v2 = v2
  Journey <- Journeys
  Request <- MCRequest
  Key <- MCKey
  Item <- MCItem
  Value <- MCValue
  Match <- MCMatch
  MaxRequests = 3
CHECK_DEADLOCK FALSE
SYMMETRY Twice
INVARIANTS DeliveredWasAccepted AcceptedWasRecorded NothingLeftPending
