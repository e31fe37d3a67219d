CONSTANTS
  j1 = j1
  j2 = j2
  ai = ai
  cae = cae
  Jobs = {j1, j2}
  Apps = {ai, cae}
  AppOf <- TwoApps
  Cae = cae
  Faults = {"slow", "reset", "loss"}
  MaxLines = 0
  MaxCancels = 1
  Control = Control
  None = None
SPECIFICATION FairSpec
INVARIANTS NoForgottenProcess
PROPERTIES CancelEnds ResetEnds
CHECK_DEADLOCK FALSE
