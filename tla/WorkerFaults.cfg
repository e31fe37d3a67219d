CONSTANTS
  j1 = j1
  j2 = j2
  ai = ai
  cae = cae
  Jobs = {j1, j2}
  Apps = {ai, cae}
  AppOf <- CaeApp
  Cae = cae
  Faults = {"startup", "slow", "crash", "late error"}
  MaxLines = 1
  MaxCancels = 1
  Control = Control
  None = None
SYMMETRY JobsAlike
SPECIFICATION Spec
INVARIANTS TimerMatchesJob NoForgottenJob
CHECK_DEADLOCK FALSE
