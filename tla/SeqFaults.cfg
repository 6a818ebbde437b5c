SPECIFICATION Spec
CONSTANTS
  a = a  b = b  x = x  y = y  p = p  q = q  r = r  t1 = t1  t2 = t2
  None = None  Torn = Torn  Absent = Absent  Closed = Closed
  Collections = {a, b}
  Ids = {x, y}
  Values = {p, q}
  Encoded <- MCEncoded
  Handles = 1
  Tasks = {t1}
  Does <- OneKeepsAll
  Home <- ThreeDocuments
  Watched = {}
  Faults = {"crash", "io"}
  MaxFaults = 2
  MaxSequence = 2
INVARIANTS AckedOnDisk AckedVisible
PROPERTIES ImplementsStore
CHECK_DEADLOCK FALSE
