SPECIFICATION Spec
CONSTANTS
  Drivers = {d1, d2}
  Sessions = {x1, x2}
  NoSession = NoSession
  NoRun = NoRun
  NoRecord = NoRecord
  MaxAttempts = 2
  RiskClasses = {"R2"}
  ApprovalIds <- NoApprovals
  Reasons = {f1}
  NoReason = NoReason
  Times = {0}
  Unreliable = {"bindings"}
INVARIANTS AutomaticStartIsSafe NoSilentLeak VerdictIsForBoundSession SuccessWasVerified
SYMMETRY Symmetry
CHECK_DEADLOCK FALSE
