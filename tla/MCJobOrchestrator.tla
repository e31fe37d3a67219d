------------------------- MODULE MCJobOrchestrator -------------------------
(* Small instances of JobOrchestrator for TLC. *)
EXTENDS JobOrchestrator, TLC

CONSTANTS l1, l2

MCLaunchers == {l1, l2}
OneLauncher == {l1}
AllCompatible == Jobs \X Launchers
NoneAtAll == {}
FirstJob == {1}
AllJobs == Jobs
JustL1 == {l1}
Symmetric == Permutations(MCLaunchers)
=============================================================================
