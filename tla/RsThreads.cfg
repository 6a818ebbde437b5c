CONSTANTS
  c1 = c1
  i1 = i1
  i2 = i2
  v1 = v1
  v2 = v2
  v3 = v3
  v4 = v4
  v5 = v5
  t1 = t1
  t2 = t2
  Nothing = Nothing
  Unset = Unset
  Collections = {c1}
  Ids = {i1, i2}
  Values = {v2, v4}
  NameLength = 2
  Length <- mcLength
  Fields = {"age", "name", "size", "long", "split"}
  LongFields = {"long", "split"}
  SplitFields = {"split"}
  Payload <- mcPayload
  Queries <- mcQueries
  Threads = {t1, t2}
  Does <- mcDoesTwo
  Home <- mcHomeOwn
  Watched = {c1}
  Capacity = 1
  Faults = {"io"}
  TornLength = 7
  MaxRecords = 3
  MaxFaults = 1
SPECIFICATION Spec
INVARIANT IndexPoints
INVARIANT AckedIndexed
INVARIANT ReadsTell
INVARIANT HalvesAgree
INVARIANT EventsTell
CHECK_DEADLOCK FALSE
