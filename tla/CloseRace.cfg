SPECIFICATION Spec
CONSTANTS
  a = a  b = b  x = x  y = y  p = p  q = q  r = r  t1 = t1  t2 = t2
  None = None  Torn = Torn  Absent = Absent  Closed = Closed
  Collections = {a, b}
  Ids = {x}
  Values = {p, q}
  Encoded <- MCEncoded
  Handles = 2
  Tasks = {t1, t2}
  Does <- CloseToo
  Home <- OwnCollection
  Watched = {}
  Faults = {}
  MaxFaults = 0
  MaxSequence = 2
INVARIANTS AckedVisible
CHECK_DEADLOCK FALSE
