SPECIFICATION Spec
CONSTANTS
  t1 = t1  t2 = t2  Nobody = Nobody
  Tasks = {t1, t2}
  IdleTimeout = 0
  Faults = {}
  MaxFaults = 0
  MaxPauses = 0
  MaxCloses = 3
INVARIANTS ZeroDisables
CHECK_DEADLOCK FALSE
