SPECIFICATION Spec
CONSTANTS
  a = a  b = b  x = x  y = y  p = p  q = q  r = r  t1 = t1  t2 = t2
  None = None  Torn = Torn  Absent = Absent  Closed = Closed
  Collections = {a}
  Ids = {x, y}
  Values = {p, q}
  Encoded <- MCEncoded
  Handles = 1
  Tasks = {t1, t2}
  Does <- CompactToo
  Home <- OwnDocument
  Watched = {a}
  Faults = {}
  MaxFaults = 0
  MaxSequence = 3
INVARIANTS AckedVisible MirrorInSync
PROPERTIES ImplementsStore
CHECK_DEADLOCK FALSE
