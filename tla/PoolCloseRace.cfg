SPECIFICATION StartedSpec
CONSTANTS
  Tasks = {t1, t2}
  Closers = {c1}
  MinWorkers = 1
  MaxWorkers = 1
  QueueSize = 1
  RejectPolicy = "block"
  NoTask = NoTask
  Eager = {}
  Hopeless = {}
  MaxRetries <- MCMaxRetries
CHECK_DEADLOCK FALSE
INVARIANT SubmitNeverPanics
