\* Two progress resets, a reload and a failing request.
SPECIFICATION FairSpec
CONSTANTS
  Steps = {s1, s2}
  Published = {}
  Seed = Seed
  None = None
  MaxInFlight = 2
  MaxReloads = 1
  MaxResets = 2
  MaxFaults = 1
PROPERTY
  StepsReachServer
CHECK_DEADLOCK FALSE
