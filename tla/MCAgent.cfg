SPECIFICATION MCSpec
CONSTANTS
  Executors = {e1, e2}
  MaxAttempts = 2
  MaxRetained = 2
  MaxRequests = 2
  MaxCalls = 2
  MaxChanges = 2
  MaxRestarts = 1
  NoContext = NoContext
  MaxChunks = 1
SYMMETRY Interchangeable
INVARIANTS EffectsOnce PaidOnce NeverOutlivesItsCaller
PROPERTY NothingFromThePast
CHECK_DEADLOCK FALSE
