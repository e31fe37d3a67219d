SPECIFICATION SimSpec
CONSTANTS
  Kernels = {"dc", "heat"}
  MaxSimRuns = 2
INVARIANT RefusalIsExplained
CHECK_DEADLOCK FALSE
