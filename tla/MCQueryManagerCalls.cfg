SPECIFICATION Spec
CONSTANTS
  Queriers = {q1, q2}
  NoOne = NoOne
  Servers = {"a"}
  AnyServer = ""
  Requests <- MCCalls
  Samples <- MCCallsSamples
  DefaultPageSize = 2
  OnlineLimit = 1
  IntLimit = 8
  MaxRows = 1
  MaxTime = 0
PROPERTY
  QueriesAreAnswered
CHECK_DEADLOCK FALSE
