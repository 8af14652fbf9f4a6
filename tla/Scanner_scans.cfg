SPECIFICATION FairScannerSpec
CONSTANTS
  NotStarted = NotStarted  Idle = Idle  Exited = Exited
  w1 = w1  w2 = w2  c1 = c1  c2 = c2
  NoContent = NoContent
  Tree <- MixedTree
  Tasks <- MixedFiles
  Cancels = {}
  Workers = {w1}
  NumWorkers = 1
  Starts = 1
  Capacity = 1
  Contents = {c1, c2}
  IgnoreHidden = TRUE
  MaxScans = 2
  MaxFaults = 2
INVARIANTS
  ScannerTypeOK
  ScanComplete
  CacheSound
PROPERTY ScanEnds
CHECK_DEADLOCK FALSE
