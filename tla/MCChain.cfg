\* The program: two of three guardians can join, and the pools do not divide evenly.
SPECIFICATION Chain
CONSTANTS
  Rider = 9
  Guardians = {3, 5, 7, 9}
  MaxGuardians = 2
  PointsPool = 3
  ReputationPool = 1
  MaxDuration = 3
  ProposalDuration = 1
  CheckInCooldown = 1
  MaxU32 = 6
  MaxU64 = 4
  PriorPoints = {2}
  MaxTime = 4
  Members = {g1, g2}
  NoOne = NoOne
  Callers = {c1, c2}
  MaxIntents = 2
  MaxApplications = 2
  EventsNew = 2
  EventsAccepted = 3
SYMMETRY Alike
INVARIANTS PoolsSharedExactly OneTransaction SettledAsOnChain
PROPERTY HandoverMovesForward
CHECK_DEADLOCK FALSE
