\* One job and one cancel request, a restart and two failing statements.
SPECIFICATION FairSpec
CONSTANTS
  Jobs = {j1}
  Requests = {r1}
  None = None
  MaxRestarts = 1
  MaxFaults = 2
INVARIANTS
  TypeOK
  CancelInTimeNeverCommits
  StuckOnlyAfterCrash
  SucceededLeavesFullTrail
  FlagOutlivesRunner
PROPERTIES
  ImplementsPromise
  JobsSettle
  RowsSettle
CHECK_DEADLOCK FALSE
