\* One journey: three candidates, two places for applications.
SPECIFICATION Spec
CONSTANTS
  Guardians = {ana, bo, cy}
  ana = ana
  bo = bo
  cy = cy
  NoOne = NoOne
  MaxRound = 2
  MaxApplications = 2
  OpenLife = 3
  ActiveLife = 5
  ApplicationTtl = 2
  RelayTtl = 2
  CheckInEvery = 1
  AiCheckInEvery = 2
  Retention = 2
CHECK_DEADLOCK FALSE
PROPERTIES EscalatedOnlyAfterSilence ImplementsCustody EventuallyErased
