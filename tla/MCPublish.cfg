SPECIFICATION Spec
CONSTANTS
  root = root
  mid = mid
  leaf = leaf
  r1 = r1
  r2 = r2
  q1 = q1
  nowhere = nowhere
  Type = {root, mid, leaf}
  Handler = {r1, r2}
  Host = {q1}
  Absent = {nowhere}
  Parents <- Hierarchy
  ParentsAt <- HierarchyAt
  Known <- KnownAt
  Registrations <- HandlersAt
  Others <- OthersAt
  Published = {leaf}
  Sent = {mid}
  Changeable <- LateHandlers
  Endpoints <- Lists
  Call = {c1, c2}
  MaxAttempts = 2
  MaxFaults = 1
  MaxChanges = 1
INVARIANTS MemoIsTrue ReachesEverySubscriber OneCopyPerConsumedType HandlersExact
CHECK_DEADLOCK FALSE
