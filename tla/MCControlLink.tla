---------------------------- MODULE MCControlLink ----------------------------
EXTENDS ControlLink, TLC
CONSTANTS j1, j2, ai, cae

\* Two jobs of one app may be exchanged.
JobsAlike == Permutations(Jobs)

OneApp == [job \in Jobs |-> ai]
CaeApp == [job \in Jobs |-> cae]
TwoApps == [job \in Jobs |-> IF job = j1 THEN cae ELSE ai]
=============================================================================
