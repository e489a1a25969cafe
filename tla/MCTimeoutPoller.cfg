SPECIFICATION FairSpec
CONSTANTS
  Record = {r1, r2}
  Poller = {p1, p2}
  NoRecord = NoRecord
  NoPoller = NoPoller
  Stores = {"memory", "mongo"}
  Lease = 2
  Limit = 2
  MaxDelay = 1
  MaxFaults = 1
INVARIANTS NeverLost Exclusive FiredOnceUndisturbed
PROPERTY EveryTimeoutFires
CHECK_DEADLOCK FALSE
