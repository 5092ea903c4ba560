\* The exit code of an instance: one watcher, three waiting threads.
SPECIFICATION FairSpec
CONSTANTS
  Setters = {watcher}
  Waiters = {w1, w2, w3}
  Values = {"status", "137"}
  Program <- WatcherProgram
  None = None
INVARIANT UnwrapSafe
PROPERTY KeepsPromise
