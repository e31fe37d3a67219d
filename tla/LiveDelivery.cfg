SPECIFICATION FairSpec
CONSTANTS
  None = None
  l1 = l1
  l2 = l2
  MaxJobs = 2
  Launchers <- OneLauncher
  Compatible <- AllCompatible
  MaxProgress = 0
  KillRequests <- FirstJob
  ResetRequests <- NoneAtAll
  RevokedKeys <- NoneAtAll
  ExpiringJobs <- FirstJob
PROPERTIES
  AssignedJobIsDelivered
  QueuedJobIsServed
