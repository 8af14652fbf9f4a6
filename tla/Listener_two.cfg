SPECIFICATION FairListenerSpec
CONSTANTS
  s1 = s1  s2 = s2  p1 = p1  hostA = hostA  hostB = hostB  c1 = c1
  m1 = m1  m2 = m2  m3 = m3
  Stores = {s1, s2}
  Paths = {p1}
  Hosts = {hostA, hostB}
  Hashes = {c1}
  Files <- TwoFiles
  ZeroLed = {}
  Tags = {}
  NoFile = NoFile
  NoHost = NoHost
  Garbled = Garbled
  Msgs = {m1, m2}
  Payload <- Letters
  BatchSize = 2
  MaxAckPending = 2
  MaxID = 3
  MaxPurges = 1
  MaxExits = 2
  MaxFaults = 2
INVARIANTS
  ListenerTypeOK
  AckAccounted
PROPERTY EveryMessageLeaves
CHECK_DEADLOCK FALSE
