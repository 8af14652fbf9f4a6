SPECIFICATION QueriesSpec
CONSTANTS
  a = a  b = b  jpg = jpg  JPG = JPG  png = png  unknown = unknown
  h1 = h1  h2 = h2  t1 = t1
  Empty = Empty
  Rows <- SomeRows
  Lower <- LowerCase
  Unnamed <- OnlyCounted
  Limits = {1, 2}
  DefaultLimit = 2
INVARIANTS
  QueriesTypeOK
  ServerAgrees
  ReportBalances
  TopListed
