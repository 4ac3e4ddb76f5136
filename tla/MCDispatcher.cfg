SPECIFICATION Spec
CONSTANTS
  Proc = {p1, p2}
  NoLease = NoLease
  MaxFaults = 1
  Event = {1, 2}
  Topic <- MCTopic
  Key <- MCKey
  ConsumerOf <- MCConsumerOf
  Owner = {"server-1"}
  NoOwner = NoOwner
  OwnerOf <- MCOwnerOf
  BatchSize = 2
  LeaseDuration = 1
  RetryDelay = 3
  Skew = 1
  MaxTime = 6
SYMMETRY Replicas
INVARIANTS
  ExactlyOnce
  OneSettler
PROPERTIES
  EventDelivered
