\* Two guardians share three points; nine events: two assignments with a check-in
\* each, a relay, an end and two contributions; one lost answer.
SPECIFICATION OutboxSpec
CONSTANTS
  Guardians = {1, 2}
  MaxGuardians = 2
  Pool = 3
  BatchLimit = 4
  MaxEvents = 9
  MaxRequests = 1
  MaxCalls = 1
  MaxCheckIns = 1
  MaxLost = 1
CHECK_DEADLOCK FALSE
INVARIANTS JournalTellsJourney PoolShared
PROPERTY EventuallyJournaled
