SPECIFICATION StatsSpec
CONSTANTS
  s1 = s1  p1 = p1  p2 = p2  p3 = p3  hostA = hostA  hostB = hostB  c1 = c1
  m1 = m1  m2 = m2  m3 = m3  m4 = m4  go = go  md = md
  noExtension = noExtension
  Stores = {s1}
  Paths = {p1, p2, p3}
  Hosts = {hostA, hostB}
  Hashes = {c1}
  Files <- ThreeFiles
  ZeroLed = {}
  Tags = {}
  NoFile = NoFile
  NoHost = NoHost
  Garbled = Garbled
  Msgs = {m1, m2, m3, m4}
  Payload <- Letters
  BatchSize = 2
  MaxAckPending = 2
  MaxID = 3
  MaxPurges = 1
  MaxExits = 1
  MaxReceived = 4
  Extension <- Suffix
  TopLimit = 2
  MaxFaults = 1
INVARIANTS
  StatsTypeOK
  
  WrittenCountsRows
  TopOfExtensions
  NoDuplicateRows
  AckAccounted
PROPERTY ImplementsCatalog
CHECK_DEADLOCK FALSE
