SPECIFICATION FairSpec
CONSTANTS
  Msg = {m1}
  Consumer = {c1}
  Slot = {s1, s2, s3}
  MaxRetries = 2
  HasErrorQueue = FALSE
  DeadLetterUnhandled = TRUE
  AuditEnabled = TRUE
  Prefetch = 2
  MaxFaults = 1
  MaxRestarts = 0
PROPERTIES EventuallySettled
CHECK_DEADLOCK FALSE
