SPECIFICATION Spec
CONSTANTS
  Deliverers = {d1}
  MaxAttempts = 3
  MissedAllowed = 2
  MaxActs = 4
  MaxFailures = 1
  MaxRestarts = 0
INVARIANT HelpIsPassedOn
CHECK_DEADLOCK FALSE
