\* Three request threads that call the methods of a task for ever; and two tasks under fair scheduling.
SPECIFICATION BothSpec
CONSTANTS
  i1 = i1 i2 = i2 c1 = c1 c2 = c2
  Instances = {i1}
  Callers = {c1, c2, c3}
  Codes = {"0", "137"}
  GuardCode = "137"
  WatcherFails = FALSE
  NoInstance = NoInstance
  NoCaller = NoCaller
INVARIANTS LockedTransitionsSucceed DeleteOnlyWhenStopped WaitLeavesExited
PROPERTIES NoResurrection FairCallsReturn
\* Every thread may sit in a wait on a task that nobody is left to start.
CHECK_DEADLOCK FALSE
