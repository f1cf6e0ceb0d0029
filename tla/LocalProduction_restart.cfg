SPECIFICATION Spec
CONSTANTS
  Flaws = {unscoped, unrestorable}
  Closed = Closed
  Appliers = {c1}
PROPERTY RestartKeepsHistory
CHECK_DEADLOCK FALSE
