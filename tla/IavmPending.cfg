SPECIFICATION SuiteSpec
CONSTANTS
  Tasks = {f, g}
  HangingTasks = {f}
  TaskTimeout = {f}
  AwaitTimeout = {f}
  MaxAwaits = 2
  N = 3
  Timeouts = {timeout}
  Intervals = {interval}
  Jobs = {job}
  Loops = {loop}
  Managers = {"off", "bare", "open"}
  MaxTicks = 1
  MaxTimers = 2
  Workers = 2
  QueueSize = 1
  MaxRetries = 1
  Projects <- MCProjects
  Builtins <- MCBuiltins
  a = a
  b = b
  stuck = stuck
  write = write
  Programs <- MCPrograms
  Handles = {a, b}
  Hanging = {stuck}
  RetryCount = 1
  None = None
  Clients = {c1, c2}
  MaxCalls = 2
  MaxCaps = 2
  Literals <- TheLiterals
  ArgumentLists <- TheArguments
  MaxCopies = 2
  MaxArrays = 4
  MaxLength = 6
CHECK_DEADLOCK FALSE
INVARIANT PendingSuspends
