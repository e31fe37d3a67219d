SPECIFICATION Spec
CONSTANTS
  None = None
  l1 = l1
  l2 = l2
  MaxJobs = 2
  Launchers <- OneLauncher
  Compatible <- AllCompatible
  MaxProgress = 0
  KillRequests <- FirstJob
  ResetRequests <- OneLauncher
  RevokedKeys <- NoneAtAll
  ExpiringJobs <- NoneAtAll
INVARIANTS
  RegistryKnowsActiveJob
  CancelFollowsStart
PROPERTIES
  NoJobWhileResetting
  NoStartAfterReset
