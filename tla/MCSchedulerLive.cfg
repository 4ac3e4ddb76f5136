SPECIFICATION FairSpec
CONSTANTS
  Definition = {d1, d2}
  Builtin = {d1, d2}
  Schedule = {"often"}
  Occurs <- MCOccurs
  OnDemand <- AtTheStart
  Worker = {w1, w2}
  NoClaim = NoClaim
  RunLease = 1
  Skew = 0
  MaxTime = 1
  MaxFaults = 1
PROPERTIES
  
  DueIsServed
