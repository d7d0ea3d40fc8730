SPECIFICATION StartedSpec
CONSTANTS
  Tasks = {t1, t2, t3}
  Closers = {c1, c2}
  MinWorkers = 1
  MaxWorkers = 1
  QueueSize = 1
  RejectPolicy = "block"
  NoTask = NoTask
  Eager = {t1}
  Hopeless = {}
  MaxRetries <- MCMaxRetries
CHECK_DEADLOCK FALSE
INVARIANTS NoTaskTwice NoTaskLost ShutdownDrains
PROPERTIES ResultStable RefinesExecutor WorkSettles
