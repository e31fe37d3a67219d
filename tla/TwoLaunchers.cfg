SPECIFICATION Spec
CONSTANTS
  None = None
  l1 = l1
  l2 = l2
  MaxJobs = 2
  Launchers <- MCLaunchers
  Compatible <- AllCompatible
  MaxProgress = 0
  KillRequests <- NoneAtAll
  ResetRequests <- NoneAtAll
  RevokedKeys <- NoneAtAll
  ExpiringJobs <- NoneAtAll
SYMMETRY Symmetric
INVARIANTS
  OneActiveJobPerLauncher
  RegisteredLauncherKeepsRow
