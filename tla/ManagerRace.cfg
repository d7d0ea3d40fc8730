SPECIFICATION Spec
CONSTANTS
  Registering = {}
  Initializing = {}
  Ensuring = {e}
  Starting = {}
  Submitting = {}
  Spawning = {}
  Closing = {x}
  Callers <- MCCallers
  Call <- MCCall
  Types = {default, io}
  DefaultPool = default
  IOPool = io
  Options = {default}
  BadTypes = {}
  MaxRetries = 1
  None = None
CHECK_DEADLOCK FALSE
INVARIANT ShutdownIsFinal
