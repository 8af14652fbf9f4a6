SPECIFICATION FairHashUpSpec
CONSTANTS
  NotStarted = NotStarted  Idle = Idle  Exited = Exited
  w1 = w1  c1 = c1  c2 = c2  s1 = s1
  NoContent = NoContent
  Tree <- OneFileTree
  Tasks <- OneFile
  Cancels = {}
  Workers = {w1}
  NumWorkers = 1
  Starts = 1
  Capacity = 1
  Contents = {c1, c2}
  IgnoreHidden = TRUE
  MaxScans = 2
  MaxFaults = 1
  Listeners = {s1}
  NoEntry = NoEntry
  NotRunning = NotRunning
  ThisHost = ThisHost
  MaxEntries = 2
  MaxIncidents = 2
INVARIANTS
  HashUpTypeOK
  NothingForgotten
PROPERTIES
  KeepsPromise
  EveryFileSettles
CHECK_DEADLOCK FALSE
