SPECIFICATION FairSpec
CONSTANTS
  None = None
  l1 = l1
  l2 = l2
  MaxJobs = 1
  Launchers <- OneLauncher
  Compatible <- AllCompatible
  MaxProgress = 0
  KillRequests <- AllJobs
  ResetRequests <- OneLauncher
  RevokedKeys <- NoneAtAll
  ExpiringJobs <- NoneAtAll
PROPERTIES
  KillReachesLauncher
  OrphanedJobEnds
  EndedJobFreesLauncher
