SPECIFICATION StoreSpec
CONSTANTS
  s1 = s1  s2 = s2  p1 = p1  p2 = p2  hostA = hostA  hostB = hostB
  c1 = c1  c2 = c2  t1 = t1  t2 = t2
  Stores = {s1, s2}
  Paths = {p1, p2}
  Hosts = {hostA, hostB}
  Hashes = {c1, c2}
  Files <- SharedFiles
  ZeroLed = {c2}
  Tags = {t1}
  NoFile = NoFile
  NoHost = NoHost
  MaxID = 3
  MaxPurges = 1
INVARIANT NoDuplicateRows
