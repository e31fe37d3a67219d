CONSTANTS
  j1 = j1
  j2 = j2
  ai = ai
  cae = cae
  Jobs = {j1, j2}
  Apps = {ai, cae}
  AppOf <- OneApp
  Cae = cae
  Faults = {"reset"}
  MaxLines = 1
  MaxCancels = 0
  Control = Control
  None = None
SPECIFICATION Spec
INVARIANT EventMatchesJob
CHECK_DEADLOCK FALSE
