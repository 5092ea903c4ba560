\* The programs around the shims, each in its settings.
SPECIFICATION AllSpec
CONSTANTS
  t1 = t1 t2 = t2 p1 = p1 p2 = p2 p3 = p3 c1 = c1 c2 = c2
  OtherType = OtherType
  Tasks <- TwoTasks Clis <- StressLines Procs <- Leftover Kids <- Chain
  SetupFails = TRUE RpcFails = TRUE Timeout = TRUE
CHECK_DEADLOCK FALSE
INVARIANTS TypeOK   HarnessCorrect
PROPERTY ToolsEnd
