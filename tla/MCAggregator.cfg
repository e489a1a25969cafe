SPECIFICATION FairSpec
CONSTANTS
  Message = {m1, m2}
  Worker = {w1, w2}
  Tick = {t1}
  NoMessage = NoMessage
  Nobody = Nobody
  Gone = Gone
  Stores = {"memory", "mongo"}
  BatchSize = 2
  MaxFaults = 1
INVARIANTS NothingLost Exclusive ExecutedOnceUndisturbed
PROPERTY EveryEntryExecuted
CHECK_DEADLOCK FALSE
