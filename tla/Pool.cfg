SPECIFICATION FairPoolSpec
CONSTANTS
  NotStarted = NotStarted  Idle = Idle  Exited = Exited
  t1 = t1  t2 = t2  t3 = t3  t4 = t4  w1 = w1  w2 = w2  w3 = w3
  Tasks = {t1, t2, t3, t4}
  Cancels <- TwoCancel
  Workers = {w1, w2, w3}
  NumWorkers = 3
  Starts = 1
  Capacity = 2
INVARIANTS
  PoolTypeOK
  StopDrains
  OnePlace
PROPERTIES
  StopReturns
  SubmitsEnd
CHECK_DEADLOCK FALSE
