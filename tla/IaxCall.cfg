SPECIFICATION SuiteSpec
CONSTANTS
  Registering = {r}
  Initializing = {i}
  Ensuring = {}
  Starting = {}
  Submitting = {s}
  Spawning = {a}
  Closing = {x, y}
  Callers <- MCCallers
  Call <- MCCall
  Types = {default, io}
  DefaultPool = default
  IOPool = io
  Options = {default, io}
  BadTypes = {io}
  MaxRetries = 1
  None = None
  LastClosing = {x}
  LastConfigurer = c1
  Calling1 = k1
  Calling2 = k2
  Receiver = receiver
  Publisher = publisher
  Subscriber1 = s1
  Subscriber2 = s2
  Request = request
  BusCallers = {k1, k2}
  BusReceivers = {receiver}
  BusPublishers = {publisher}
  BusSubscribers = {s1, s2}
  BusTopics <- MCTopics
  MaxEvents = 2
  BusScenes <- MCScenes
  WriteQueue = 1
  Events = {e1, e2}
  Loaders = {loader}
  Configurers = {c1, c2}
  Paths = {dataPath, otherPath}
  DataPath = dataPath
  PathOf <- MCPathOf
  BatchSize = 2
  MaxOpens = 2
  Letters = {a, b}
  Star = star
  MaxPattern = 4
  MaxTopic = 4
  HubReaders = {receiver, s1}
  HubIdle = {s1}
  HubSends = {1, 2}
  HubCloses = {1, 2}
  ChannelSize = 1
  Window = 1
  SendCalls = {1, 2, 3}
  RecvCalls = {11, 12}
  Welcome = 20
  NoOne = 0
  Capacity = 1
CHECK_DEADLOCK FALSE
INVARIANT CallFailsWithConnection
