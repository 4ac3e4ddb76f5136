SPECIFICATION Spec
CONSTANTS
  Filter = {all, some}
  NoFilter = all
  Page = {1, 2}
  MaxWrites = 1
  MaxLoads = 3
  MaxFailures = 1
INVARIANTS
  PagesTypeOK
  FailsClosed
  NewestIsShown
  WriteIsShown
CHECK_DEADLOCK FALSE
