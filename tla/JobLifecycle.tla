---------------------------- MODULE JobLifecycle ----------------------------
(***************************************************************************)
(* What the server promises about jobs, without saying how: the life of a  *)
(* job record and the exclusive use of a launcher connection.  The         *)
(* detailed module JobOrchestrator implements it.                          *)
(***************************************************************************)
CONSTANTS Jobs,        \* job records
          Launchers,   \* launcher connections (one launcher row each)
          None         \* no launcher

VARIABLES state,       \* state column of each job
          launcher,    \* launcher_id column of each job
          lost         \* launchers whose row is marked disconnected

vars == <<state, launcher, lost>>

Active   == {"assigned", "answer_ready", "running"}
Terminal == {"succeeded", "failed", "cancelled", "killed"}

\* The active jobs that were given to launcher l.
RunsOn(l) == {j \in Jobs : state[j] \in Active /\ launcher[j] = l}

Init == /\ state = [j \in Jobs |-> "absent"]
        /\ launcher = [j \in Jobs |-> None]
        /\ lost = {}

Create(j) == /\ state[j] = "absent"
             /\ state' = [state EXCEPT ![j] = "queued"]
             /\ UNCHANGED <<launcher, lost>>

\* A queued job goes to a connected launcher that runs nothing.
Assign(j, l) == /\ state[j] = "queued"
                /\ l \notin lost
                /\ RunsOn(l) = {}
                /\ state' = [state EXCEPT ![j] = "assigned"]
                /\ launcher' = [launcher EXCEPT ![j] = l]
                /\ UNCHANGED lost

Advance(j) == /\ \/ /\ state[j] = "assigned"
                    /\ state' = [state EXCEPT ![j] = "answer_ready"]
                 \/ /\ state[j] = "answer_ready"
                    /\ state' = [state EXCEPT ![j] = "running"]
              /\ UNCHANGED <<launcher, lost>>

Succeed(j) == /\ state[j] = "running"
              /\ state' = [state EXCEPT ![j] = "succeeded"]
              /\ UNCHANGED <<launcher, lost>>

Cancel(j) == /\ state[j] \in Active
             /\ state' = [state EXCEPT ![j] = "cancelled"]
             /\ UNCHANGED <<launcher, lost>>

Withdraw(j) == /\ state[j] = "queued"
               /\ state' = [state EXCEPT ![j] = "killed"]
               /\ UNCHANGED <<launcher, lost>>

\* Jobs F fail and launchers L are lost in one transaction: a launcher is
\* never lost without its active jobs.
Fail(F, L) == /\ \A j \in F : state[j] \in Active \cup {"queued"}
              /\ \A l \in L : RunsOn(l) \subseteq F
              /\ state' = [j \in Jobs |-> IF j \in F THEN "failed" ELSE state[j]]
              /\ lost' = lost \cup L
              /\ UNCHANGED launcher

Next == \/ \E j \in Jobs : \/ Create(j)
                           \/ Advance(j)
                           \/ Succeed(j)
                           \/ Cancel(j)
                           \/ Withdraw(j)
                           \/ \E l \in Launchers : Assign(j, l)
        \/ \E F \in SUBSET Jobs, L \in SUBSET Launchers : Fail(F, L)

Spec == Init /\ [][Next]_vars
=============================================================================
