SPECIFICATION MCSpec
CONSTANTS
  Guardians = {g1, g2}
  g1 = g1
  g2 = g2
  NoOne = NoOne
  Authorization = 5
  Connectivity = 2
  Response = 2
  FollowUps = {1}
  CheckInEvery = 2
  AiCheckInEvery = 2
  MaxInputs = 2
  MaxDelegations = 1
  MaxTokens = 2
  MaxTurns = 2
  WatchFor = 4
  MaxSubmits = 2
  MaxFailures = 1
  Checks = 2
  MaxLines = 3
CHECK_DEADLOCK FALSE
INVARIANTS SilenceEndsCoverage SomebodyIsDue OncePerJob NothingLeftUnsaid
PROPERTY ContextStaysWithin
