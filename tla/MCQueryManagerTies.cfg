SPECIFICATION Spec
CONSTANTS
  Queriers = {q1}
  NoOne = NoOne
  Servers = {"a"}
  AnyServer = ""
  Requests <- MCLatest
  Samples <- MCSamples
  DefaultPageSize = 2
  OnlineLimit = 1
  IntLimit = 8
  MaxRows = 2
  MaxTime = 2
INVARIANT
  TotalServersIsDistinct
CHECK_DEADLOCK FALSE
