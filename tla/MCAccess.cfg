SPECIFICATION MCSpec

CONSTANTS
  w1 = w1
  w2 = w2
  c1 = c1
  c2 = c2
  s1 = s1
  s2 = s2
  t1 = t1
  t2 = t2
  t3 = t3
  Workers = {w1, w2}
  Calls = {c1, c2}
  SessionIds = {s1, s2}
  TokenIds = {t1, t2, t3}
  Statuses <- MCStatuses
  Offered <- MCOffered
  Absent = Absent
  NoSession = NoSession
  NoToken = NoToken
  NoWorker = NoWorker
  RefreshTtl = 2
  AccessTtl = 1
  MaxNow = 2
  MaxArrivals = 2
  MaxChanges = 2
  MaxFailures = 1
  MaxLogins = 2
  MaxLosses = 1

SYMMETRY MCSymmetry
CHECK_DEADLOCK FALSE

INVARIANTS
  TypeOK
  CacheFollowsTenant
  EndedSessionsIssueNothing
  OneLiveToken
  ReuseIsAReplay
