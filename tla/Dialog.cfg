\* Two jobs, two sets of materials, two polls in flight, one save of the page, three clicks in
\* the open dialog.
SPECIFICATION FairSpec
CONSTANTS
  MaxJobs = 2
  Materials = {m1, m2}
  Path = Path
  None = None
  Page = Page
  MaxPolls = 2
  MaxSaves = 1
  MaxClicks = 3
INVARIANTS
  StagedIsListed
  RefreshIsCurrent
PROPERTIES
  PreparingEnds
  ShownJobSettles
  BusyEnds
CHECK_DEADLOCK FALSE
