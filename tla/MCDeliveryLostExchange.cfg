SPECIFICATION FairSpec
CONSTANTS
  Msg = {m1}
  Consumer = {c1}
  Slot = {s1, s2, s3}
  MaxRetries = 2
  HasErrorQueue = TRUE
  DeadLetterUnhandled = FALSE
  AuditEnabled = FALSE
  Prefetch = 2
  MaxFaults = 1
  MaxRestarts = 1
PROPERTIES FinalFailureDeadLettered
CHECK_DEADLOCK FALSE
