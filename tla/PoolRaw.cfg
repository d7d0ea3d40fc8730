SPECIFICATION Spec
CONSTANTS
  Tasks = {t1, t2, t3}
  Closers = {c1, c2}
  MinWorkers = 2
  MaxWorkers = 2
  QueueSize = 1
  RejectPolicy = "error"
  NoTask = NoTask
  Eager = {t1}
  Hopeless = {t2}
  MaxRetries <- MCMaxRetries
CHECK_DEADLOCK FALSE
INVARIANTS TypeOK RetryBudget StatsExact
