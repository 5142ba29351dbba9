\* A job, its retry, and a cancel request.
SPECIFICATION Spec
CONSTANTS
  Jobs = {j1, j2}
  Requests = {r1}
  None = None
  MaxRestarts = 0
  MaxFaults = 0
SYMMETRY Symmetry
INVARIANTS
  RetryNeverRacesOriginal
  OutcomeMatchesSnapshot
CHECK_DEADLOCK FALSE
