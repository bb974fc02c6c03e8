SPECIFICATION FairSpec
CONSTANTS
  w1 = w1  w2 = w2  w3 = w3
  c1 = c1  c2 = c2
  t1 = t1  t2 = t2  t3 = t3  t4 = t4  t5 = t5
  Workers = {w1, w2, w3}
  Clients = {c1, c2}
  Stopper = c1
  Tasks = {t1, t2, t3, t4, t5}
  NoTask = NoTask
  Free = Free
  Child <- Nested
  MaxSpurious = 1
INVARIANTS TaskConservation WakeupPerTask AtMostOneMissesStop
PROPERTIES SyncAfterExecution PoolSpec Serviced StopOutcome
CHECK_DEADLOCK FALSE
