SPECIFICATION FairSpec
CONSTANTS
  Workers = {"v"}
  interval_seconds_ = 2
  MaxReports = 4
  HostOf <- MCHostOf
  NoHost = ""
INVARIANTS
  TypeOK
  ExactlyOnceIfOk
  OvertakenOnlyIfFailed
  TableAgreesWithQueue
PROPERTIES
  StopReturns
CHECK_DEADLOCK FALSE
