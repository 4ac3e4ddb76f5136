SPECIFICATION CoordFairSpec
CONSTANTS
  Proc = {p1, p2}
  NoLease = NoLease
  MaxFaults = 4
INVARIANTS
  NoLeakedLock
PROPERTIES
  TakenOver
  DeadLeaseDropped
