SPECIFICATION FairSpec
CONSTANTS
  j1 = j1
  j2 = j2
  j3 = j3
  t1 = t1
  t2 = t2
  Jobs = {j1, j2, j3}
  Action <- Asked
  Ticks = {t1, t2}
  Rec = t1
  None = None
  Settings <- Everywhere
CHECK_DEADLOCK FALSE
INVARIANTS TypeOK NoFalseSuccess PlannedRebootSucceeds RunsOnce ToldOnceInTurn
PROPERTIES LedgerSpec JobsEnd
