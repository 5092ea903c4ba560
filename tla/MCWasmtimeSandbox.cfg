\* Every kind of binary, two connections and two signals; and the other instances.
SPECIFICATION AllSpec
CONSTANTS
  c1 = c1 c2 = c2
  Conns = {c1, c2}
  Holding = {}
  Env <- SmallBacklog
  DefaultBacklog = 100
  MaxFiles = 2
  MaxRequests = 2
  Binaries <- AllBinaries
  Exits = {0, 3}
  MaxSignals = 2
  None = None
  Error = Error
INVARIANTS SandboxTypeOK Drained  ExitExplained
PROPERTIES FairEnds FairServed
CHECK_DEADLOCK FALSE
