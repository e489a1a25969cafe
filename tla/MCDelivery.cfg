SPECIFICATION Spec
CONSTANTS
  Msg = {m1}
  Consumer = {c1, c2}
  Slot = {s1, s2, s3}
  MaxRetries = 2
  HasErrorQueue = TRUE
  DeadLetterUnhandled = TRUE
  AuditEnabled = TRUE
  Prefetch = 2
  MaxFaults = 1
  MaxRestarts = 1
SYMMETRY Interchangeable
INVARIANTS NoLoss DeadLetterJustified OnePlaceWithoutRedelivery AuditMirrorsHandled
PROPERTY ImplementsAtLeastOnce
CHECK_DEADLOCK FALSE
