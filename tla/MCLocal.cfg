\* Two request threads, one task, every kind of request in any order, fair scheduling.
SPECIFICATION FairSpec
CONSTANTS
  Handlers = {h1, h2}
  Ids = {a}
  Instances = {i1}
  Codes = {"137"}
  GuardCode = "137"
  WatcherFails = FALSE
  NoInstance = NoInstance
  NoCaller = NoCaller
  NoId = NoId
  Requests = {"create", "start", "kill", "delete", "wait", "state", "stats", "connect", "shutdown"}
  SerialClient = FALSE
INVARIANTS ExitFollowsStart StoppedIsDead
PROPERTIES  RequestsAnswered ExitPublished
\* Clients may stop sending requests, or sit in a wait for ever.
CHECK_DEADLOCK FALSE
