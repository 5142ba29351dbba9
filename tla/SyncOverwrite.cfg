\* A save that is pending when a job commits.
SPECIFICATION Spec
CONSTANTS
  Steps = {s1}
  Published = {c1}
  Seed = Seed
  None = None
  MaxInFlight = 1
  MaxReloads = 0
  MaxResets = 0
  MaxFaults = 0
INVARIANT
  CommittedCourseStays
CHECK_DEADLOCK FALSE
