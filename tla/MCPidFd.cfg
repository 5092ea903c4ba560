\* Guests against the reaper: with nothing that fails, and with a late reaper and failing calls.
SPECIFICATION BothSpec
CONSTANTS
  g1 = g1 g2 = g2
  Guests = {g1, g2, g3}
  Statuses <- ThreeOrTerm
  GuardCode = 137
  ReaperLags = FALSE
  CallsFail = FALSE
  None = None
INVARIANT StatusReported
PROPERTY LateDeathReported
CHECK_DEADLOCK FALSE
