SPECIFICATION FairSpec
CONSTANTS
  q1 = q1
  t1 = t1
  a1 = a1
  o1 = o1
  Clients = {1, 2}
  Wg = {1}
  QuotaRuns = {q1}
  TtlRuns = {t1}
  AlertRuns = {a1}
  Requests = {o1}
  MaxDay = 1
  MaxMonth = 1
  Settings <- Everything
CHECK_DEADLOCK FALSE
INVARIANTS TypeOK RevokedStaysInTurn SuspendedForCause
PROPERTIES OverstayEnds ResetLifts
