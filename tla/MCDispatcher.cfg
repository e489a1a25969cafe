SPECIFICATION FairSpec
CONSTANTS
  h1 = h1
  h2 = h2
  h3 = h3
  h4 = h4
  h5 = h5
  nowhere = nowhere
  bad = bad
  Msg = {m1}
  Host = {h1, h2, h3, h4, h5}
  Absent = {nowhere}
  Invalid = {bad}
  Itineraries <- Paths
  Registered = {h1, h2, h3, h5}
  Sagas = {h2}
  Aggregators = {h3}
  Handlers <- HandlersOf
  DeadLetterUnhandled = TRUE
  Attempts = 2
  Slot = {s1, s2, s3}
  Worker = {w1, w2}
  MaxFaults = 1
INVARIANTS HopsInOrder ItineraryKept StagesAgree OnceUndisturbed
PROPERTY EveryRouteEnds
CHECK_DEADLOCK FALSE
