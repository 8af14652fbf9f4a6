SPECIFICATION ScannerSpec
CONSTANTS
  NotStarted = NotStarted  Idle = Idle  Exited = Exited
  w1 = w1  w2 = w2  c1 = c1  c2 = c2
  NoContent = NoContent
  Tree <- SmallTree
  Tasks <- SmallFiles
  Cancels = {}
  Workers = {w1}
  NumWorkers = 1
  Starts = 1
  Capacity = 1
  Contents = {c1, c2}
  IgnoreHidden = TRUE
  MaxScans = 2
  MaxFaults = 1
INVARIANT CachedImpliesQueued
CHECK_DEADLOCK FALSE
