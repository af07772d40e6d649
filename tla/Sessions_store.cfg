CONSTANTS
  Ids = {s1, s2}
  Requests = {q1, q2}
  NoId = NoId
  Expiry = 1
  MaxTime = 3
SPECIFICATION FairSpec
CHECK_DEADLOCK FALSE
INVARIANTS
  TypeOK
  NoLiveSessionLost
PROPERTIES
  ExpiredSessionsGo
  GoneStaysGone
