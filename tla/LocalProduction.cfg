SPECIFICATION Spec
CONSTANTS
  Flaws = {unscoped, unrestorable}
  Closed = Closed
  Appliers = {c1, c2}
INVARIANT ReceiptsHold
PROPERTIES KeepsPromise WritesOnProof
CHECK_DEADLOCK FALSE
