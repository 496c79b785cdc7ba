\* Two synchronizations at once, two requests; only a closed journey is erased.
SPECIFICATION Spec
CONSTANTS
  Syncs = {act, wake}
  act = act
  wake = wake
  RiderMayLeave = FALSE
  MaxRequests = 2
  MaxVersion = 4
  MaxFailures = 1
CHECK_DEADLOCK FALSE
INVARIANT ClosedStaysClosed
PROPERTY EventuallyCurrent
