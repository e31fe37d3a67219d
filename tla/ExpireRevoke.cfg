SPECIFICATION Spec
CONSTANTS
  None = None
  l1 = l1
  l2 = l2
  MaxJobs = 2
  Launchers <- OneLauncher
  Compatible <- AllCompatible
  MaxProgress = 1
  KillRequests <- FirstJob
  ResetRequests <- NoneAtAll
  RevokedKeys <- OneLauncher
  ExpiringJobs <- AllJobs
INVARIANTS
  GoneLauncherHasNoJob
  LostLauncherIsClean
PROPERTIES
  ImplementsLifecycle
