\* Two guardians share three points; a failure and two rulings.
SPECIFICATION Spec
CONSTANTS
  Guardians = {1, 2}
  Pool = 3
  MaxFailures = 1
  MaxRulings = 2
CHECK_DEADLOCK FALSE
INVARIANT CreditedOnce
PROPERTY EventuallySettled
