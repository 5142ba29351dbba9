\* Saves, a reload, a reset, a failing request and a committed course.
SPECIFICATION Spec
CONSTANTS
  Steps = {s1, s2}
  Published = {c1}
  Seed = Seed
  None = None
  MaxInFlight = 2
  MaxReloads = 1
  MaxResets = 1
  MaxFaults = 1
SYMMETRY SyncSymmetry
INVARIANTS
  TypeOK
  UnsavedIsNoticed
  IdleMeansSaved
  ServerNotAhead
PROPERTY
  StepsStaySaved
CHECK_DEADLOCK FALSE
