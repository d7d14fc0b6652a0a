SPECIFICATION Spec
CONSTANTS
  thread_count = 2
  Reports <- MCReportsAddressed
  Names <- MCNames
  Hash <- MCHash
  Empty = ""
  StaleLimit = 0
  SleepInterval = 0
  MaxReports = 3
  MaxLag = 0
  Ticking = FALSE
INVARIANT
  EveryQueueHasItsThread
