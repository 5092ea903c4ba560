\* A client that sends one request at a time, as the tests of the service do.
SPECIFICATION Spec
CONSTANTS
  Handlers = {h1}
  Ids = {a}
  Instances = {i1}
  Codes = {"137"}
  GuardCode = "137"
  WatcherFails = FALSE
  NoInstance = NoInstance
  NoCaller = NoCaller
  NoId = NoId
  Requests = {"create", "start", "wait", "state"}
  SerialClient = TRUE
INVARIANT StoppedAfterWait
\* Clients may stop sending requests, or sit in a wait for ever.
CHECK_DEADLOCK FALSE
