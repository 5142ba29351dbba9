\* A project with a thread, two commands that may be sent twice, two failing statements
\* and a restart.
SPECIFICATION FairSpec
CONSTANTS
  p1 = p1
  t1 = t1
  t2 = t2
  Projects = {p1}
  Threads = {t1, t2}
  Commands = {c1, c2}
  Bodies <- LifeCycle
  None = None
  Past <- OneThread
  MaxSends = 2
  MaxFaults = 2
  MaxRestarts = 1
INVARIANTS
  TypeOK
  ReceiptsMatchLog
  ReadModelCurrent
  HotStreamIsLog
PROPERTIES
  DeletedProjectIsEmpty
  CreatedOnceThenUsed
  ImplementsLedger
  DispatchSettles
CHECK_DEADLOCK FALSE
