\* A project with a thread, three commands, a failing statement, a restart and two
\* subscriptions.
SPECIFICATION ShellSpec
CONSTANTS
  p1 = p1
  t1 = t1
  Projects = {p1}
  Threads = {t1}
  Commands = {c1, c2, c3}
  Bodies <- Changes
  None = None
  Past <- OneThread
  MaxSends = 1
  MaxFaults = 1
  MaxRestarts = 1
  MaxConnects = 2
INVARIANTS
  ViewIsShell
PROPERTY
  StoreMovesForward
SYMMETRY Perms
CHECK_DEADLOCK FALSE
