SPECIFICATION Spec
CONSTANTS
  Callers = {c1, c2}
  RiskClasses = {"R3"}
  ApprovalIds = {a1, a2}
  Reasons = {f1}
  NoReason = NoReason
  Times = {0, 1}
  NoRun = NoRun
  MaxAttempts = 2
PROPERTIES StaleCallsOnlyResume DoubtIsSettledFirst ImplementsMachine
CHECK_DEADLOCK FALSE
