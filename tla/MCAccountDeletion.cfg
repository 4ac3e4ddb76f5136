SPECIFICATION FairSpec
CONSTANTS
  Account = {a, b}
  Deletion = {d, e}
  File = {f}
  Worker = {u, v}
  Nobody = Nobody
  Tries = 2
  MaxFaults = 1
INVARIANTS
  DeletedOwnNothing
  NothingForgotten
  PendingHasDeletion
PROPERTIES
  RemovedAsPromised
  PurgeEnds
CHECK_DEADLOCK FALSE
