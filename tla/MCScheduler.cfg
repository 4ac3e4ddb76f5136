SPECIFICATION Spec
CONSTANTS
  Definition = {d1}
  Builtin = {}
  Schedule = {"often", "rarely"}
  Occurs <- MCOccurs
  OnDemand <- AnyTime
  Worker = {w1, w2}
  NoClaim = NoClaim
  RunLease = 1
  Skew = 0
  MaxTime = 3
  MaxFaults = 3
SYMMETRY Executors
INVARIANTS
  HistoryAgrees
  ThreeTries
  NextOnlyWhenEnabled
  MissedAreSkipped
PROPERTIES
  RunsAsPromised
