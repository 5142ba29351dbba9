\* One topic with two questions, a page reload and a new start.
SPECIFICATION Spec
CONSTANTS
  q1 = q1
  q2 = q2
  t1 = t1
  t2 = t2
  Topics = {t1}
  Real = {q1, q2}
  RealTopic <- OneTopic
  Variants = {v1}
  Scores = {0, 100}
  None = None
  MaxAttempts = 2
  MaxChecks = 1
  MaxPending = 1
  MaxSaves = 1
  MaxReloads = 1
  MaxResets = 1
INVARIANTS
  TypeOK
  GenerationUnlocked
  ResultsAvailable
  NoSpoilers
  RevealTracked
CHECK_DEADLOCK FALSE
