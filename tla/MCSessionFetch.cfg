SPECIFICATION FairSpec
CONSTANTS
  Tab = {a, b}
  SharedStorage = TRUE
  HeartbeatInterval = 1
  RenewInterval = 2
  ActiveWindow = 1
  LeaderLease = 1
  MaxLogins = 2
  MaxRequests = 2
  MaxFaults = 1
INVARIANTS
  
  MaintenanceNeverLost
PROPERTIES
  IdleBrowserFallsSilent
