SPECIFICATION FairSpec
CONSTANTS
  thread_count = 0
  Reports <- MCReportsA
  Names <- MCNames
  Hash <- MCHash
  Empty = ""
  StaleLimit = 1
  SleepInterval = 1
  MaxReports = 2
  MaxLag = 1
  Ticking = TRUE
INVARIANTS
  FreshHostListed
  DetailHistoryIsLatest
PROPERTIES
  StopTerminates
  QueuedIsHandled
  SilentHostRemoved
