SPECIFICATION Spec
CONSTANTS
  m1 = m1
  m2 = m2
  m3 = m3
  p1 = p1
  p2 = p2
  Msg = {m1, m2, m3}
  Process = {p1}
  Worker = {w1, w2}
  Regs <- OneProcess
  Starts <- TwoStart
  Completes <- AnyHandler
  Store <- InMongo
  NoRow = NoRow
  Idle = Idle
  MaxAttempts = 2
  MaxFaults = 1
SYMMETRY Interchangeable
PROPERTY ChangedRowConflicts
CHECK_DEADLOCK FALSE
