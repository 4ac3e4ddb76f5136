SPECIFICATION FilesFairSpec
CONSTANTS
  File = {1}
  Account = {"ann"}
  Uploader <- MCUploader
  Reserve <- MCReserve
  Size <- MCSize
  AccountLimit <- MCTight
  TotalLimit <- MCWide
  Recoverer = {r1, r2}
  Uploading = Uploading
  Nobody = Nobody
  UploadTimeout = 1
  ReservationTTL = 2
  RecoveryLease = 1
  BatchSize = 2
  MaxTime = 4
  MaxFaults = 1
INVARIANTS
  FilesTypeOK
  CountersMatch
  Acknowledged
  StoresAgree
  

  
