\* The hooks succeed, and the reaper runs.
SPECIFICATION Spec
CONSTANTS
  MaxHooks = 2
  Codes = {0}
  Behaviours = {"ignores", "reads", "reads_to_end"}
  Reaper = TRUE
  CallsFail = FALSE
  None = None
INVARIANT SuccessfulHooksPass
CHECK_DEADLOCK FALSE
