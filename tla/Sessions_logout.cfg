CONSTANTS
  Ids = {s1, s2}
  Requests = {q1, q2}
  NoId = NoId
  Expiry = 1
  MaxTime = 3
SPECIFICATION Spec
CHECK_DEADLOCK FALSE
INVARIANTS
  LogoutIsFinal
