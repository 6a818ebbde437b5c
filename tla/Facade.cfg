SPECIFICATION FairSpec
CONSTANTS
  t1 = t1  t2 = t2  Nobody = Nobody
  Tasks = {t1, t2}
  IdleTimeout = 1
  Faults = {"open", "close"}
  MaxFaults = 2
  MaxPauses = 2
  MaxCloses = 3
INVARIANTS TypeOK OpenAlone AlwaysAvailable OnTheWayToClose
PROPERTIES EveryCallReturns IdleCloses
CHECK_DEADLOCK FALSE
