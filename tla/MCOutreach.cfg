SPECIFICATION Outreach
CONSTANTS
  Deliverers = {d1, d2}
  MaxAttempts = 2
  MissedAllowed = 1
  MaxActs = 2
  MaxLapses = 2
  MaxRestarts = 1
  Kinds = {companionship, relay}
  Callers = {c1, c2}
  MaxRequests = 2
INVARIANT OneBanner
PROPERTIES SentWithAuthority EventuallyCarried EventuallyThanked
CHECK_DEADLOCK FALSE
