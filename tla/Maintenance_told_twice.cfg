SPECIFICATION Spec
CONSTANTS
  j1 = j1
  j2 = j2
  j3 = j3
  t1 = t1
  t2 = t2
  Jobs = {j1}
  Action <- Asked
  Ticks = {t1, t2}
  Rec = t1
  None = None
  Settings <- Overlapping
CHECK_DEADLOCK FALSE
INVARIANT ToldOnce
