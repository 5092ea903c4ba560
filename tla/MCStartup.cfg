\* How a container comes up: the shim, the hooks and the executor.
SPECIFICATION AllSpec
CONSTANTS
  c1 = c1 c2 = c2 c3 = c3 c4 = c4 g1 = g1
  Procs = {1, 2, 3, 4}
  Containers = {c1, c2, c3, c4}
  Groups = {g1}
  Annotation <- OnePod
  Envs <- SomeEnvs
  Broken = {c4}
  None = None
INVARIANTS PartTypeOK OneShimPerGroup CleanStart HooksCorrect RunsWhatItChecked
PROPERTY StartupEnds
CHECK_DEADLOCK FALSE
