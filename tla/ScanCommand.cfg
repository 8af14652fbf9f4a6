SPECIFICATION FairCommandSpec
CONSTANTS
  f1 = f1  f2 = f2  f3 = f3
  Files = {f1, f2, f3}
  NumWorkers = 2
  StatsSize = 1
  MaxRuns = 2
  MaxZeros = 1
INVARIANTS
  CommandTypeOK
  NoSendOnClosed
  StatsAreAdded
  SummaryTruthful
  
PROPERTY RunReturns
CHECK_DEADLOCK FALSE
