SPECIFICATION Spec
CONSTANTS
  Queriers = {q1}
  NoOne = NoOne
  Servers = {"a", "b"}
  AnyServer = ""
  Requests <- MCRequests
  Samples <- MCListedSamples
  DefaultPageSize = 2
  OnlineLimit = 1
  IntLimit = 8
  MaxRows = 3
  MaxTime = 2
INVARIANTS
  TypeOK
  WalkMissesNothing
  WalkIsExact
  TotalIsBracketed
  LatestCoversServers
  TrendPartitionsWindow
CHECK_DEADLOCK FALSE
