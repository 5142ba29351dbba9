\* A cancelled job does not stay cancelled.
SPECIFICATION Spec
CONSTANTS
  Jobs = {j1}
  Requests = {r1}
  None = None
  MaxRestarts = 0
  MaxFaults = 0
PROPERTY
  CancelledStaysCancelled
CHECK_DEADLOCK FALSE
