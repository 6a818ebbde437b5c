SPECIFICATION FairSpec
CONSTANTS
  a = a  b = b  x = x  y = y  p = p  q = q  r = r  t1 = t1  t2 = t2
  None = None  Torn = Torn  Absent = Absent  Closed = Closed
  Collections = {a, b}
  Ids = {x}
  Values = {p, r}
  Encoded <- MCEncoded
  Handles = 2
  Tasks = {t1}
  Does <- OneDoesAll
  Home <- TwoDocuments
  Watched = {}
  Faults = {"crash"}
  MaxFaults = 2
  MaxSequence = 2
INVARIANTS TypeOK AckedOnDisk AckedVisible DiskInSync WalDrained
PROPERTIES CrashCostsOneCollection RecoveryReachesDisk ImplementsStore
CHECK_DEADLOCK FALSE
