\* Two records, the first of which closes the journey; a withdrawal, a rotation, an expiry, a failure.
SPECIFICATION Spec
CONSTANTS
  ClosedAt = 0
  MaxRecords = 2
  MaxExpiries = 1
  MaxRotations = 1
  MaxFailures = 1
  MaxDrafts = 1
CHECK_DEADLOCK FALSE
INVARIANTS ConfirmedInOrder OneSubmission WithdrawnTogether
PROPERTY EventuallyPublished
