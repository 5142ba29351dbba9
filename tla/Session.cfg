\* Two topics of one question each, without reloads and new starts.
SPECIFICATION Spec
CONSTANTS
  q1 = q1
  q2 = q2
  t1 = t1
  t2 = t2
  Topics = {t1, t2}
  Real = {q1, q2}
  RealTopic <- TwoTopics
  Variants = {}
  Scores = {0, 100}
  None = None
  MaxAttempts = 2
  MaxChecks = 2
  MaxPending = 2
  MaxSaves = 0
  MaxReloads = 0
  MaxResets = 0
INVARIANTS
  SummaryMatchesAttempts
  RevealTracked
  FeedbackIsCurrent
  ActiveInTopic
SYMMETRY Alike
CHECK_DEADLOCK FALSE
