CONSTANTS
  c1 = c1
  i1 = i1
  i2 = i2
  v1 = v1
  v2 = v2
  v3 = v3
  v4 = v4
  v5 = v5
  t1 = t1
  t2 = t2
  Nothing = Nothing
  Unset = Unset
  Collections = {c1}
  Ids = {i1, i2}
  Values = {v1}
  NameLength = 2
  Length <- mcLength
  Fields = {"age", "name", "size", "long", "split"}
  LongFields = {"long", "split"}
  SplitFields = {"split"}
  Payload <- mcPayload
  Queries <- mcQueries
  Threads = {t1}
  Does <- mcDoesAlone
  Home <- mcHomeAlone
  Watched = {}
  Capacity = 1
  Faults = {}
  TornLength = 7
  MaxRecords = 2
  MaxFaults = 0
SPECIFICATION Spec
INVARIANT RebuiltWhole
CHECK_DEADLOCK FALSE
