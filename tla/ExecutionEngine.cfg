SPECIFICATION FairSpec
CONSTANTS
  Steps <- MCSteps
  Plans <- MCPlans
  MaxAttempts = 2
INVARIANTS GatesHold OneCallPerStep
PROPERTIES SettledStaysSettled Terminates
\* A run ends with its verdict.
CHECK_DEADLOCK FALSE
