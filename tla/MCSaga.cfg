SPECIFICATION FairSpec
CONSTANTS
  m1 = m1
  m2 = m2
  m3 = m3
  p1 = p1
  p2 = p2
  Msg = {m1, m2}
  Process = {p1, p2}
  Worker = {w1, w2}
  Regs <- TwoProcesses
  Starts <- FirstStarts
  Completes <- FirstCompletes
  Store <- OneStoreEach
  NoRow = NoRow
  Idle = Idle
  MaxAttempts = 2
  MaxFaults = 1
INVARIANTS RepeatedOnlyIfHalfDone TimeoutsScheduled DoneMeansApplied
PROPERTIES ImplementsAtomicSaga EveryMessageSettles
CHECK_DEADLOCK FALSE
