SPECIFICATION BusSpec
CONSTANTS
  StartCall = {a1, a2}
  Store = {db}
  Flush = Flush
  Delivery = {d1}
  Stream = {x1}
  MaxTicks = 2
  MaxFaults = 2
INVARIANTS NothingRunsAfterStop TornDownInOrder HealthIsTruthful
PROPERTIES StopReturns
CHECK_DEADLOCK FALSE
