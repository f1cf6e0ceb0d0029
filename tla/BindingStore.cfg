SPECIFICATION Spec
CONSTANTS
  s1 = s1
  s2 = s2
  p1 = p1
  MaxAttempt = 2
  RunIds = {r1, r2}
  Sessions = {x}
  BoundTimes <- MCTimes
  Stores <- MCStores
  Processes <- OneProcess
  ProcessOf <- SameProcess
  Entries <- MCEntries
  Admissible <- BindingAdmissible
  Sequenced = TRUE
  MaxFileBytes = 3
  Torn = Torn
INVARIANTS AckedIsFlushed ReadableUnlessTorn
PROPERTY KeepsPromise
CHECK_DEADLOCK FALSE
