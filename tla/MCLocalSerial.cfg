\* Clients that do not overlap life cycle requests of a container; a container is created again under the same id after its deletion.
SPECIFICATION Spec
CONSTANTS
  Handlers = {h1, h2}
  Ids = {a}
  Instances = {i1, i2}
  Codes = {"137"}
  GuardCode = "137"
  WatcherFails = FALSE
  NoInstance = NoInstance
  NoCaller = NoCaller
  NoId = NoId
  Requests = {"create", "start", "kill", "delete", "wait", "shutdown"}
  SerialClient = TRUE
SYMMETRY Symmetry
INVARIANTS RunningIsRegistered DeletedForGood ShutdownLosesNothing
\* Clients may stop sending requests, or sit in a wait for ever.
CHECK_DEADLOCK FALSE
