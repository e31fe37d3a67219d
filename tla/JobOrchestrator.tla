-------------------------- MODULE JobOrchestrator --------------------------
(***************************************************************************)
(* The server: the jobs and launchers tables (JobService, LauncherService),*)
(* the in-memory registry (RuntimeRegistry), the dispatcher loop, and the  *)
(* HTTP and WebSocket tasks of JobOrchestrator.  One action is the code a  *)
(* task runs between two awaits that another task can get between.  A      *)
(* database transaction is atomic.  Registry methods never suspend: their  *)
(* lock protects no await.  A section that holds _assignment_lock around a *)
(* single transaction is one action; only the dispatcher holds the lock    *)
(* over several.                                                           *)
(*                                                                         *)
(* The launcher at the other end of a control socket is arbitrary here: it *)
(* may send any message at any time, or vanish.                            *)
(***************************************************************************)
EXTENDS Naturals

CONSTANTS MaxJobs,         \* bound on the jobs clients create
          Launchers,       \* launcher connections; each connect gets a new row
          None,            \* no job, no launcher
          Compatible,      \* <<job, launcher>>: same user, slave app offered
          MaxProgress,     \* JOB_PROGRESS_MAX_ITEMS
          KillRequests,    \* jobs that a client or the website asks to kill
          ResetRequests,   \* launchers that the website asks to reset
          RevokedKeys,     \* launchers whose access key gets revoked
          ExpiringJobs     \* jobs that outlive a deadline of expire_stale_jobs

Jobs == 1..MaxJobs         \* in the order of created_at

ASSUME BoundsAssumption == MaxJobs \in Nat /\ MaxProgress \in Nat
ASSUME NoneAssumption == None \notin Jobs /\ None \notin Launchers
ASSUME InputsAssumption == /\ KillRequests \subseteq Jobs
                           /\ ResetRequests \subseteq Launchers
                           /\ RevokedKeys \subseteq Launchers
                           /\ ExpiringJobs \subseteq Jobs

VARIABLES
  \* the database
  jobState,         \* jobs.state, "absent" before the row exists
  jobLauncher,      \* jobs.launcher_id
  cancelRequested,  \* jobs.cancel_requested_at is set
  progress,         \* length of jobs.progress
  rowStatus,        \* launchers.status
  rowGone,          \* launchers.disconnected_at is set
  \* RuntimeRegistry.launchers
  registered,       \* its keys
  current,          \* current_job_id
  resetting,        \* resetting
  \* the control socket of each launcher and the task that reads it
  ws,               \* the connection
  hstep,            \* where its handler is
  hkind,            \* the message (kind, or heartbeat status) it handles
  hjob,             \* and the job it names
  \* _dispatch_loop
  dstep,            \* where it is; it owns _assignment_lock in LockSteps
  dIdle,            \* idle_launcher_ids snapshot
  dInvalid,         \* launchers with an inactive key
  dExpired,         \* expired jobs whose launcher is still to be told
  dJob, dLauncher,  \* the assignment or expired job in hand
  \* _deliver_job_start tasks: the job whose job.start owns the send lock
  delivery, dlstep,
  \* kill_job tasks, one per job, and reset_launcher_worker, one per launcher
  kstep,
  rstep, rjob,
  \* every job.start and job.cancel put on a control socket
  sent

tables == <<jobState, jobLauncher, cancelRequested, progress, rowStatus, rowGone>>
jobRows == <<jobState, jobLauncher, cancelRequested, progress>>
registry == <<registered, current, resetting>>
handler == <<hstep, hkind, hjob>>
dispatcher == <<dstep, dIdle, dInvalid, dExpired, dJob, dLauncher>>
deliveries == <<delivery, dlstep>>
resets == <<rstep, rjob>>
vars == <<tables, registry, ws, handler, dispatcher, deliveries, kstep, resets, sent>>

Active == {"assigned", "answer_ready", "running"}
Terminal == {"succeeded", "failed", "cancelled", "killed"}
JobStates == {"absent", "queued"} \cup Active \cup Terminal
FinalEvents == {"result", "error", "cancelled"}
EventKinds == {"answer", "running", "progress"} \cup FinalEvents
LockSteps == {"claim", "mark", "lock"}
Messages == [type : {"start", "cancel"}, job : Jobs]

-----------------------------------------------------------------------------
(* Shared conditions *)

RunsOn(l) == {j \in Jobs : jobState[j] \in Active /\ jobLauncher[j] = l}

\* A kill or reset that did not take _assignment_lock.
NoAssignmentLock == TRUE
AssignmentLockFree == dstep \notin LockSteps

\* A launcher without its send lock.
NoSendLock(l) == TRUE
\* asyncio.Lock of launcher l.  disconnect_launcher drops it, so that of an
\* unregistered launcher holds nobody up; every send to it fails anyway.
SendLockFree(l) ==
  l \in registered =>
    /\ delivery[l] = None
    /\ \A j \in Jobs : ~(kstep[j] = "sending" /\ jobLauncher[j] = l)
    /\ rstep[l] # "sending"
    /\ ~(dstep = "notifySend" /\ dLauncher = l)

\* idle_launcher_ids without its "not resetting".
IdleIgnoresReset == {l \in registered : current[l] = None}
\* idle_launcher_ids that trusts the launchers row alone.
IdleIgnoresJob == {l \in registered : ~resetting[l]}
IdleLaunchers == {l \in registered : current[l] = None /\ ~resetting[l]}

\* claim by runtime state alone, with a busy or lost row.
BugClaimable(j, l) == jobState[j] = "queued" /\ <<j, l>> \in Compatible
Claimable(j, l) == /\ jobState[j] = "queued"
                   /\ <<j, l>> \in Compatible
                   /\ ~rowGone[l]
                   /\ rowStatus[l] = "ready"

\* The launchers whose row is set to ready, unless disconnected_at is set.
ReleasedRows(L) ==
  [l \in Launchers |-> IF l \in L /\ ~rowGone[l] THEN "ready" ELSE rowStatus[l]]

\* disconnect_launcher, RuntimeRegistry.remove_launcher: the LauncherRuntime
\* is dropped and the socket closed for the launchers L.
Unregister(L) ==
  /\ registered' = registered \ L
  /\ current' = [l \in Launchers |-> IF l \in L THEN None ELSE current[l]]
  /\ resetting' = [l \in Launchers |-> IF l \in L THEN FALSE ELSE resetting[l]]
CloseSockets(L) ==
  ws' = [l \in Launchers |-> IF l \in L /\ ws[l] = "open" THEN "closed" ELSE ws[l]]
DisconnectLaunchers(L) == Unregister(L) /\ CloseSockets(L \cap registered)

\* disconnect that forgets the jobs.
BugDisconnectRows(L) ==
  /\ rowStatus' = [l \in Launchers |-> IF l \in L THEN "disconnected" ELSE rowStatus[l]]
  /\ rowGone' = [l \in Launchers |-> l \in L \/ rowGone[l]]
  /\ UNCHANGED jobRows
\* disconnect_launchers_and_fail_jobs.
DisconnectRows(L) ==
  /\ rowStatus' = [l \in Launchers |-> IF l \in L THEN "disconnected" ELSE rowStatus[l]]
  /\ rowGone' = [l \in Launchers |-> l \in L \/ rowGone[l]]
  /\ jobState' = [j \in Jobs |->
       IF jobState[j] \in Active /\ jobLauncher[j] \in L THEN "failed" ELSE jobState[j]]
  /\ UNCHANGED <<jobLauncher, cancelRequested, progress>>

\* fail_assigned_job: only a job that is still active on launcher l ends.
FailAssigned(j, l, s) ==
  IF j \in RunsOn(l)
  THEN /\ jobState' = [jobState EXCEPT ![j] = s]
       /\ rowStatus' = ReleasedRows({l})
  ELSE UNCHANGED <<jobState, rowStatus>>

Send(m) == sent' = sent \cup {m}
Start(j) == [type |-> "start", job |-> j]
CancelMessage(j) == [type |-> "cancel", job |-> j]
-----------------------------------------------------------------------------
Init ==
  /\ jobState = [j \in Jobs |-> "absent"]
  /\ jobLauncher = [j \in Jobs |-> None]
  /\ cancelRequested = [j \in Jobs |-> FALSE]
  /\ progress = [j \in Jobs |-> 0]
  /\ rowStatus = [l \in Launchers |-> "absent"]
  /\ rowGone = [l \in Launchers |-> FALSE]
  /\ registered = {}
  /\ current = [l \in Launchers |-> None]
  /\ resetting = [l \in Launchers |-> FALSE]
  /\ ws = [l \in Launchers |-> "absent"]
  /\ hstep = [l \in Launchers |-> "receive"]
  /\ hkind = [l \in Launchers |-> "none"]
  /\ hjob = [l \in Launchers |-> None]
  /\ dstep = "wait" /\ dIdle = {} /\ dInvalid = {} /\ dExpired = {}
  /\ dJob = None /\ dLauncher = None
  /\ delivery = [l \in Launchers |-> None]
  /\ dlstep = [l \in Launchers |-> "none"]
  /\ kstep = [j \in Jobs |-> "none"]
  /\ rstep = [l \in Launchers |-> "none"]
  /\ rjob = [l \in Launchers |-> None]
  /\ sent = {}
-----------------------------------------------------------------------------
(* HTTP: POST /v1/jobs *)

CreateJob(j) ==
  /\ jobState[j] = "absent"
  /\ \A i \in Jobs : i < j => jobState[i] # "absent"
  /\ jobState' = [jobState EXCEPT ![j] = "queued"]
  /\ UNCHANGED <<jobLauncher, cancelRequested, progress, rowStatus, rowGone,
                 registry, ws, handler, dispatcher, deliveries, kstep, resets, sent>>
-----------------------------------------------------------------------------
(* The control WebSocket of a launcher *)

\* create_connected_launcher commits the row.
Connect(l) ==
  /\ ws[l] = "absent"
  /\ ws' = [ws EXCEPT ![l] = "connecting"]
  /\ rowStatus' = [rowStatus EXCEPT ![l] = "ready"]
  /\ UNCHANGED <<jobRows, rowGone, registry, handler, dispatcher, deliveries,
                 kstep, resets, sent>>

\* register_launcher, launcher.accepted, and the receive loop starts.
Register(l) ==
  /\ ws[l] = "connecting"
  /\ ws' = [ws EXCEPT ![l] = "open"]
  /\ registered' = registered \cup {l}
  /\ UNCHANGED <<tables, current, resetting, handler, dispatcher, deliveries,
                 kstep, resets, sent>>

\* The peer goes away, sends an invalid message, or its key is found inactive
\* on a heartbeat: the receive loop ends.
LoseConnection(l) ==
  /\ ws[l] = "open" /\ hstep[l] = "receive"
  /\ ws' = [ws EXCEPT ![l] = "closed"]
  /\ UNCHANGED <<tables, registry, handler, dispatcher, deliveries, kstep, resets, sent>>

\* A heartbeat that has to be persisted (status change or 30 s): between the
\* decision and the write the handler awaits.
ReceiveHeartbeat(l, status) ==
  /\ ws[l] = "open" /\ hstep[l] = "receive" /\ l \in registered
  /\ hstep' = [hstep EXCEPT ![l] = "heartbeat"]
  /\ hkind' = [hkind EXCEPT ![l] = status]
  /\ UNCHANGED <<tables, registry, ws, hjob, dispatcher, deliveries, kstep, resets, sent>>

\* LauncherService.mark_heartbeat does not look at disconnected_at.  It assigns
\* to the row object its session has kept since the connect (expire_on_commit
\* is off): when that object already has the status, however old, the UPDATE
\* leaves the column alone.
WriteHeartbeat(l) ==
  /\ hstep[l] = "heartbeat"
  /\ \/ rowStatus' = [rowStatus EXCEPT ![l] = hkind[l]]
     \/ UNCHANGED rowStatus
  /\ hstep' = [hstep EXCEPT ![l] = "receive"]
  /\ hkind' = [hkind EXCEPT ![l] = "none"]
  /\ UNCHANGED <<jobRows, rowGone, registry, ws, hjob, dispatcher, deliveries,
                 kstep, resets, sent>>

\* launcher_matches_job
MatchesJob(l, j) == l \in registered /\ current[l] = j

\* A job event: refused at once, or checked and on its way to the table.
ReceiveJobEvent(l, kind, j) ==
  /\ ws[l] = "open" /\ hstep[l] = "receive"
  /\ IF MatchesJob(l, j)
     THEN /\ hstep' = [hstep EXCEPT ![l] = "update"]
          /\ hkind' = [hkind EXCEPT ![l] = kind]
          /\ hjob' = [hjob EXCEPT ![l] = j]
          /\ UNCHANGED ws
     ELSE /\ ws' = [ws EXCEPT ![l] = "closed"]
          /\ UNCHANGED handler
  /\ UNCHANGED <<tables, registry, dispatcher, deliveries, kstep, resets, sent>>

\* An event applied whatever the state of the job.
BugEventApplies(kind, j, l) == jobLauncher[j] = l
\* The conditional UPDATE of _update_launcher_job finds the row.
EventApplies(kind, j, l) ==
  /\ jobLauncher[j] = l
  /\ \/ kind = "answer" /\ jobState[j] = "assigned"
     \/ kind = "running" /\ jobState[j] = "answer_ready"
     \/ kind = "progress" /\ jobState[j] = "running" /\ progress[j] < MaxProgress
     \/ kind = "result" /\ jobState[j] = "running"
     \/ kind \in {"error", "cancelled"} /\ jobState[j] \in Active

StateAfter(kind) ==
  [answer |-> "answer_ready", running |-> "running", progress |-> "running",
   result |-> "succeeded", error |-> "failed", cancelled |-> "cancelled"][kind]

\* The UPDATE commits; a final event also releases the launcher's row.  A row
\* that is not found is a policy violation.
CommitJobEvent(l) ==
  /\ hstep[l] = "update"
  /\ LET j == hjob[l]  kind == hkind[l]  final == kind \in FinalEvents
     IN IF EventApplies(kind, j, l)
        THEN /\ jobState' = [jobState EXCEPT ![j] = StateAfter(kind)]
             /\ progress' = [progress EXCEPT ![j] = IF kind = "progress" THEN @ + 1 ELSE @]
             /\ rowStatus' = IF final THEN ReleasedRows({l}) ELSE rowStatus
             /\ hstep' = [hstep EXCEPT ![l] = IF final THEN "publish" ELSE "receive"]
             /\ hkind' = [hkind EXCEPT ![l] = IF final THEN @ ELSE "none"]
             /\ hjob' = [hjob EXCEPT ![l] = IF final THEN @ ELSE None]
             /\ UNCHANGED ws
        ELSE /\ hstep' = [hstep EXCEPT ![l] = "receive"]
             /\ hkind' = [hkind EXCEPT ![l] = "none"]
             /\ hjob' = [hjob EXCEPT ![l] = None]
             /\ CloseSockets({l})
             /\ UNCHANGED <<jobState, progress, rowStatus>>
  /\ UNCHANGED <<jobLauncher, cancelRequested, rowGone, registry, dispatcher,
                 deliveries, kstep, resets, sent>>

\* After the commit of a final event: mark_launcher_job(None).
PublishJobEvent(l) ==
  /\ hstep[l] = "publish"
  /\ current' = [current EXCEPT ![l] = None]
  /\ hstep' = [hstep EXCEPT ![l] = "receive"]
  /\ hkind' = [hkind EXCEPT ![l] = "none"]
  /\ hjob' = [hjob EXCEPT ![l] = None]
  /\ UNCHANGED <<tables, registered, resetting, ws, dispatcher, deliveries, kstep, resets, sent>>

\* worker.reset.done accepted although the launcher still holds a job.
BugResetDoneExpected(l) == l \in registered /\ resetting[l]
ResetDoneExpected(l) == l \in registered /\ resetting[l] /\ current[l] = None

ReceiveResetDone(l) ==
  /\ ws[l] = "open" /\ hstep[l] = "receive"
  /\ IF ResetDoneExpected(l)
     THEN /\ resetting' = [resetting EXCEPT ![l] = FALSE]
          /\ current' = [current EXCEPT ![l] = None]
          /\ UNCHANGED ws
     ELSE /\ ws' = [ws EXCEPT ![l] = "closed"]
          /\ UNCHANGED <<current, resetting>>
  /\ UNCHANGED <<tables, registered, handler, dispatcher, deliveries, kstep, resets, sent>>

\* The handler's finally: launcher_disconnected, before and after its await.
BeginCleanup(l) ==
  /\ ws[l] = "closed" /\ hstep[l] = "receive"
  /\ Unregister({l})
  /\ hstep' = [hstep EXCEPT ![l] = "cleanup"]
  /\ UNCHANGED <<tables, ws, hkind, hjob, dispatcher, deliveries, kstep, resets, sent>>
FinishCleanup(l) ==
  /\ hstep[l] = "cleanup"
  /\ DisconnectRows({l})
  /\ hstep' = [hstep EXCEPT ![l] = "receive"]
  /\ ws' = [ws EXCEPT ![l] = "done"]
  /\ UNCHANGED <<registry, hkind, hjob, dispatcher, deliveries, kstep, resets, sent>>

\* close_launchers_for_access_key: an access key is revoked.
RevokeAccessKey ==
  /\ RevokedKeys \cap registered # {}
  /\ DisconnectLaunchers(RevokedKeys)
  /\ UNCHANGED <<tables, handler, dispatcher, deliveries, kstep, resets, sent>>

\* Reconciliation that does not ask the registry.
BugReconcile(L) ==
  /\ L # {}
  /\ \A l \in L : ws[l] \notin {"absent", "connecting"} /\ ~rowGone[l]
  /\ DisconnectRows(L)
  /\ UNCHANGED <<registry, ws, handler, dispatcher, deliveries, kstep, resets, sent>>
\* POST /launchers/reconcile-disconnected.  Rows younger than
\* RECONCILE_MINIMUM_AGE, hence those still connecting, are left alone.  The
\* code awaits between its look at the registry and its UPDATE; whom it found
\* missing stays missing (JobOrchestratorProofs!MissingStaysMissing).
Reconcile(L) ==
  /\ L # {} /\ L \cap registered = {}
  /\ \A l \in L : /\ ws[l] \notin {"absent", "connecting"}
                  /\ rowStatus[l] \in {"ready", "busy"} \/ ~rowGone[l]
  /\ DisconnectRows(L)
  /\ UNCHANGED <<registry, ws, handler, dispatcher, deliveries, kstep, resets, sent>>
-----------------------------------------------------------------------------
(* kill_job, from POST /v1/jobs/{id}/kill or the website *)

\* request_kill under _assignment_lock.
RequestKill(j) ==
  /\ j \in KillRequests
  /\ kstep[j] = "none" /\ AssignmentLockFree
  /\ jobState[j] \in Active \cup {"queued"}
  /\ cancelRequested' = [cancelRequested EXCEPT ![j] = TRUE]
  /\ IF jobState[j] = "queued"
     THEN jobState' = [jobState EXCEPT ![j] = "killed"] /\ UNCHANGED kstep
     ELSE kstep' = [kstep EXCEPT ![j] = "await"] /\ UNCHANGED jobState
  /\ UNCHANGED <<jobLauncher, progress, rowStatus, rowGone, registry, ws, handler,
                 dispatcher, deliveries, resets, sent>>

KillTakesSendLock(j) ==
  /\ kstep[j] = "await" /\ SendLockFree(jobLauncher[j])
  /\ kstep' = [kstep EXCEPT ![j] = "sending"]
  /\ UNCHANGED <<tables, registry, ws, handler, dispatcher, deliveries, resets, sent>>

KillSends(j) ==
  /\ kstep[j] = "sending" /\ jobLauncher[j] \in registered
  /\ Send(CancelMessage(j))
  /\ kstep' = [kstep EXCEPT ![j] = "none"]
  /\ UNCHANGED <<tables, registry, ws, handler, dispatcher, deliveries, resets>>

\* A kill that gives up when the send fails.
BugKillSendFails(j) ==
  /\ kstep[j] = "sending"
  /\ kstep' = [kstep EXCEPT ![j] = "none"]
  /\ UNCHANGED <<tables, registry, ws, handler, dispatcher, deliveries, resets, sent>>
\* The launcher is gone, or the send fails or times out.
KillSendFails(j) ==
  /\ kstep[j] = "sending"
  /\ kstep' = [kstep EXCEPT ![j] = "fail"]
  /\ UNCHANGED <<tables, registry, ws, handler, dispatcher, deliveries, resets, sent>>

\* A failed kill that ends the job and keeps the launcher.
BugKillFailsJob(j) ==
  /\ kstep[j] = "fail"
  /\ FailAssigned(j, jobLauncher[j], "cancelled")
  /\ kstep' = [kstep EXCEPT ![j] = "none"]
  /\ UNCHANGED <<jobLauncher, cancelRequested, progress, rowGone, registry, ws, handler,
                 dispatcher, deliveries, resets, sent>>
\* fail_assigned_job; only if it ended the job the launcher is disconnected.
KillFailsJob(j) ==
  /\ kstep[j] = "fail"
  /\ FailAssigned(j, jobLauncher[j], "cancelled")
  /\ kstep' = [kstep EXCEPT ![j] = IF jobState[j] \in Active THEN "disconnect" ELSE "none"]
  /\ UNCHANGED <<jobLauncher, cancelRequested, progress, rowGone, registry, ws, handler,
                 dispatcher, deliveries, resets, sent>>
KillDisconnects(j) ==
  /\ kstep[j] = "disconnect"
  /\ DisconnectLaunchers({jobLauncher[j]})
  /\ kstep' = [kstep EXCEPT ![j] = "none"]
  /\ UNCHANGED <<tables, handler, dispatcher, deliveries, resets, sent>>
-----------------------------------------------------------------------------
(* reset_launcher_worker, from the website *)

\* mark_launcher_resetting under _assignment_lock.
RequestReset(l) ==
  /\ l \in ResetRequests /\ rstep[l] = "none"
  /\ AssignmentLockFree
  /\ l \in registered /\ ~resetting[l]
  /\ resetting' = [resetting EXCEPT ![l] = TRUE]
  /\ rjob' = [rjob EXCEPT ![l] = current[l]]
  /\ rstep' = [rstep EXCEPT ![l] = IF current[l] = None THEN "await" ELSE "kill"]
  /\ UNCHANGED <<tables, registered, current, ws, handler, dispatcher, deliveries, kstep, sent>>

\* kill_job(send_cancel=False).
ResetKillsJob(l) ==
  /\ rstep[l] = "kill" /\ AssignmentLockFree
  /\ cancelRequested' = [cancelRequested EXCEPT ![rjob[l]] = @ \/ jobState[rjob[l]] \in Active]
  /\ rstep' = [rstep EXCEPT ![l] = "await"]
  /\ UNCHANGED <<jobState, jobLauncher, progress, rowStatus, rowGone, registry, ws, handler,
                 dispatcher, deliveries, kstep, rjob, sent>>

ResetTakesSendLock(l) ==
  /\ rstep[l] = "await" /\ SendLockFree(l)
  /\ rstep' = [rstep EXCEPT ![l] = "sending"]
  /\ UNCHANGED <<tables, registry, ws, handler, dispatcher, deliveries, kstep, rjob, sent>>

\* worker.reset is on the socket.
ResetSends(l) ==
  /\ rstep[l] = "sending" /\ l \in registered
  /\ rstep' = [rstep EXCEPT ![l] = "none"]
  /\ rjob' = [rjob EXCEPT ![l] = None]
  /\ UNCHANGED <<tables, registry, ws, handler, dispatcher, deliveries, kstep, sent>>

ResetSendFails(l) ==
  /\ rstep[l] = "sending"
  /\ rstep' = [rstep EXCEPT ![l] = IF rjob[l] = None THEN "disconnect" ELSE "fail"]
  /\ UNCHANGED <<tables, registry, ws, handler, dispatcher, deliveries, kstep, rjob, sent>>
ResetFailsJob(l) ==
  /\ rstep[l] = "fail"
  /\ FailAssigned(rjob[l], l, "cancelled")
  /\ rstep' = [rstep EXCEPT ![l] = "disconnect"]
  /\ UNCHANGED <<jobLauncher, cancelRequested, progress, rowGone, registry, ws, handler,
                 dispatcher, deliveries, kstep, rjob, sent>>
ResetDisconnects(l) ==
  /\ rstep[l] = "disconnect"
  /\ DisconnectLaunchers({l})
  /\ rstep' = [rstep EXCEPT ![l] = "none"]
  /\ rjob' = [rjob EXCEPT ![l] = None]
  /\ UNCHANGED <<tables, handler, dispatcher, deliveries, kstep, sent>>
-----------------------------------------------------------------------------
(* _dispatch_loop: revalidate, expire, dispatch, then wait for the deliveries *)

dIdleSame == UNCHANGED <<dIdle, dInvalid, dExpired, dJob, dLauncher>>

\* A round that ends when no access key is due for a look-up.
BugRevalidate(L) ==
  /\ dstep = "wait"
  /\ L # {} /\ L \subseteq registered \cap RevokedKeys
  /\ dInvalid' = L
  /\ dstep' = "drop"
  /\ UNCHANGED <<tables, registry, ws, handler, dIdle, dExpired, dJob, dLauncher,
                 deliveries, kstep, resets, sent>>
\* Wake-up or 30 s poll; the keys of the registered launchers are looked up.
\* mark_access_keys_revalidated only spaces these look-ups.
Revalidate(L) ==
  /\ dstep = "wait"
  /\ L \subseteq registered \cap RevokedKeys
  /\ dInvalid' = L
  /\ dstep' = IF L = {} THEN "expire" ELSE "drop"
  /\ UNCHANGED <<tables, registry, ws, handler, dIdle, dExpired, dJob, dLauncher,
                 deliveries, kstep, resets, sent>>

DropInvalid(l) ==
  /\ dstep = "drop" /\ l \in dInvalid \cap registered
  /\ DisconnectLaunchers({l})
  /\ UNCHANGED <<tables, handler, dispatcher, deliveries, kstep, resets, sent>>

FailInvalid ==
  /\ dstep = "drop" /\ dInvalid \cap registered = {}
  /\ DisconnectRows(dInvalid)
  /\ dInvalid' = {}
  /\ dstep' = "expire"
  /\ UNCHANGED <<registry, ws, handler, dIdle, dExpired, dJob, dLauncher,
                 deliveries, kstep, resets, sent>>

\* expire_stale_jobs: the clock may have passed a deadline of any live job.
ExpireJobs(E) ==
  /\ dstep = "expire"
  /\ E \subseteq {j \in ExpiringJobs : jobState[j] \in Active \cup {"queued"}}
  /\ jobState' = [j \in Jobs |-> IF j \in E THEN "failed" ELSE jobState[j]]
  /\ rowStatus' = ReleasedRows({jobLauncher[j] : j \in E})
  /\ dExpired' = {j \in E : jobLauncher[j] # None}
  /\ dstep' = IF \E j \in E : jobLauncher[j] # None THEN "notify" ELSE "snapshot"
  /\ UNCHANGED <<jobLauncher, cancelRequested, progress, rowGone, registry, ws, handler,
                 dIdle, dInvalid, dJob, dLauncher, deliveries, kstep, resets, sent>>

\* For each expired job with a launcher: send job.cancel under the send lock,
\* ignore a failure, and disconnect the launcher.
NotifyExpired(j) ==
  /\ dstep = "notify" /\ j \in dExpired
  /\ SendLockFree(jobLauncher[j])
  /\ dExpired' = dExpired \ {j}
  /\ dJob' = j /\ dLauncher' = jobLauncher[j]
  /\ dstep' = "notifySend"
  /\ UNCHANGED <<tables, registry, ws, handler, dIdle, dInvalid, deliveries,
                 kstep, resets, sent>>

SendExpired ==
  /\ dstep = "notifySend"
  /\ \/ dLauncher \in registered /\ Send(CancelMessage(dJob))
     \/ UNCHANGED sent
  /\ dstep' = "notifyDrop"
  /\ dIdleSame
  /\ UNCHANGED <<tables, registry, ws, handler, deliveries, kstep, resets>>

DropExpired ==
  /\ dstep = "notifyDrop"
  /\ DisconnectLaunchers({dLauncher})
  /\ dstep' = IF dExpired = {} THEN "snapshot" ELSE "notify"
  /\ dJob' = None /\ dLauncher' = None
  /\ UNCHANGED <<tables, handler, dIdle, dInvalid, dExpired, deliveries, kstep, resets, sent>>

\* dispatch_available_jobs takes _assignment_lock and reads the idle launchers.
Snapshot ==
  /\ dstep = "snapshot"
  /\ dIdle' = IdleLaunchers
  /\ dstep' = IF IdleLaunchers = {} THEN "drain" ELSE "claim"
  /\ UNCHANGED <<tables, registry, ws, handler, dInvalid, dExpired, dJob, dLauncher,
                 deliveries, kstep, resets, sent>>

\* SKIP LOCKED: a launcher row that its handler is writing may be passed over.
Unlocked(skip) == dIdle \ skip
Skippable == {l \in Launchers : hstep[l] \in {"heartbeat", "update", "cleanup"}}

\* claim_next_compatible_job: the oldest queued job that some idle launcher
\* with a ready row can take.
Claim(j, l, skip) ==
  /\ dstep = "claim" /\ skip \subseteq Skippable
  /\ l \in Unlocked(skip) /\ Claimable(j, l)
  /\ \A i \in Jobs, m \in Unlocked(skip) : i < j => ~Claimable(i, m)
  /\ jobState' = [jobState EXCEPT ![j] = "assigned"]
  /\ jobLauncher' = [jobLauncher EXCEPT ![j] = l]
  /\ rowStatus' = [rowStatus EXCEPT ![l] = "busy"]
  /\ dJob' = j /\ dLauncher' = l /\ dIdle' = {}
  /\ dstep' = "mark"
  /\ UNCHANGED <<cancelRequested, progress, rowGone, registry, ws, handler, dInvalid,
                 dExpired, deliveries, kstep, resets, sent>>
ClaimNothing(skip) ==
  /\ dstep = "claim" /\ skip \subseteq Skippable
  /\ \A j \in Jobs, l \in Unlocked(skip) : ~Claimable(j, l)
  /\ dIdle' = {}
  /\ dstep' = "drain"
  /\ UNCHANGED <<tables, registry, ws, handler, dInvalid, dExpired, dJob, dLauncher,
                 deliveries, kstep, resets, sent>>

\* mark_launcher_job: nothing if the launcher went away meanwhile.
MarkAssigned ==
  /\ dstep = "mark"
  /\ current' = [current EXCEPT ![dLauncher] = IF dLauncher \in registered THEN dJob ELSE @]
  /\ dstep' = "lock"
  /\ dIdleSame
  /\ UNCHANGED <<tables, registered, resetting, ws, handler, deliveries, kstep, resets, sent>>

\* The send lock goes to the delivery task, then _assignment_lock is released.
SpawnDelivery ==
  /\ dstep = "lock"
  /\ SendLockFree(dLauncher) /\ delivery[dLauncher] = None
  /\ delivery' = [delivery EXCEPT ![dLauncher] = dJob]
  /\ dlstep' = [dlstep EXCEPT ![dLauncher] = "sending"]
  /\ dJob' = None /\ dLauncher' = None
  /\ dstep' = "snapshot"
  /\ UNCHANGED <<tables, registry, ws, handler, dIdle, dInvalid, dExpired, kstep, resets, sent>>

\* The TaskGroup waits for every delivery.
Drain ==
  /\ dstep = "drain"
  /\ \A l \in Launchers : delivery[l] = None
  /\ dstep' = "wait"
  /\ dIdleSame
  /\ UNCHANGED <<tables, registry, ws, handler, deliveries, kstep, resets, sent>>

\* _deliver_job_start.
DeliverStart(l) ==
  /\ dlstep[l] = "sending" /\ l \in registered
  /\ Send(Start(delivery[l]))
  /\ delivery' = [delivery EXCEPT ![l] = None]
  /\ dlstep' = [dlstep EXCEPT ![l] = "none"]
  /\ UNCHANGED <<tables, registry, ws, handler, dispatcher, kstep, resets>>
\* A failed delivery that is only logged.
BugDeliveryFails(l) ==
  /\ dlstep[l] = "sending"
  /\ delivery' = [delivery EXCEPT ![l] = None]
  /\ dlstep' = [dlstep EXCEPT ![l] = "none"]
  /\ UNCHANGED <<tables, registry, ws, handler, dispatcher, kstep, resets, sent>>
DeliveryFails(l) ==
  /\ dlstep[l] = "sending"
  /\ DisconnectLaunchers({l})
  /\ dlstep' = [dlstep EXCEPT ![l] = "persist"]
  /\ UNCHANGED <<tables, handler, dispatcher, delivery, kstep, resets, sent>>
PersistDeliveryFailure(l) ==
  /\ dlstep[l] = "persist"
  /\ FailAssigned(delivery[l], l, "failed")
  /\ delivery' = [delivery EXCEPT ![l] = None]
  /\ dlstep' = [dlstep EXCEPT ![l] = "none"]
  /\ UNCHANGED <<jobLauncher, cancelRequested, progress, rowGone, registry, ws, handler,
                 dispatcher, kstep, resets, sent>>
-----------------------------------------------------------------------------
(* The server process stops and starts again: every task and the registry are *)
(* lost; recover_after_server_restart runs before anything is served.         *)
RestartServer ==
  /\ rowStatus' = [l \in Launchers |->
       IF rowStatus[l] # "absent" /\ ~rowGone[l] THEN "disconnected" ELSE rowStatus[l]]
  /\ rowGone' = [l \in Launchers |-> rowStatus[l] # "absent" \/ rowGone[l]]
  /\ jobState' = [j \in Jobs |-> IF jobState[j] \in Active THEN "failed" ELSE jobState[j]]
  /\ UNCHANGED <<jobLauncher, cancelRequested, progress>>
  /\ registered' = {}
  /\ current' = [l \in Launchers |-> None]
  /\ resetting' = [l \in Launchers |-> FALSE]
  /\ ws' = [l \in Launchers |-> IF ws[l] = "absent" THEN "absent" ELSE "done"]
  /\ hstep' = [l \in Launchers |-> "receive"]
  /\ hkind' = [l \in Launchers |-> "none"]
  /\ hjob' = [l \in Launchers |-> None]
  /\ dstep' = "wait" /\ dIdle' = {} /\ dInvalid' = {} /\ dExpired' = {}
  /\ dJob' = None /\ dLauncher' = None
  /\ delivery' = [l \in Launchers |-> None]
  /\ dlstep' = [l \in Launchers |-> "none"]
  /\ kstep' = [j \in Jobs |-> "none"]
  /\ rstep' = [l \in Launchers |-> "none"]
  /\ rjob' = [l \in Launchers |-> None]
  /\ UNCHANGED sent
-----------------------------------------------------------------------------
Socket(l) ==
  \/ Connect(l) \/ Register(l) \/ LoseConnection(l)
  \/ \E s \in {"ready", "busy"} : ReceiveHeartbeat(l, s)
  \/ WriteHeartbeat(l)
  \/ \E kind \in EventKinds, j \in Jobs : ReceiveJobEvent(l, kind, j)
  \/ CommitJobEvent(l) \/ PublishJobEvent(l) \/ ReceiveResetDone(l)
  \/ BeginCleanup(l) \/ FinishCleanup(l)

Kill(j) == \/ RequestKill(j) \/ KillTakesSendLock(j) \/ KillSends(j)
           \/ KillSendFails(j) \/ KillFailsJob(j) \/ KillDisconnects(j)

ResetTask(l) == \/ RequestReset(l) \/ ResetKillsJob(l) \/ ResetTakesSendLock(l)
                \/ ResetSends(l) \/ ResetSendFails(l) \/ ResetFailsJob(l)
                \/ ResetDisconnects(l)

Delivery(l) == DeliverStart(l) \/ DeliveryFails(l) \/ PersistDeliveryFailure(l)

Dispatch ==
  \/ \E L \in SUBSET Launchers : Revalidate(L)
  \/ \E l \in Launchers : DropInvalid(l)
  \/ FailInvalid
  \/ \E E \in SUBSET Jobs : ExpireJobs(E)
  \/ \E j \in Jobs : NotifyExpired(j)
  \/ SendExpired \/ DropExpired \/ Snapshot
  \/ \E j \in Jobs, l \in Launchers, skip \in SUBSET Launchers : Claim(j, l, skip)
  \/ \E skip \in SUBSET Launchers : ClaimNothing(skip)
  \/ MarkAssigned \/ SpawnDelivery \/ Drain

Next ==
  \/ \E j \in Jobs : CreateJob(j) \/ Kill(j)
  \/ \E l \in Launchers : Socket(l) \/ ResetTask(l) \/ Delivery(l)
  \/ RevokeAccessKey
  \/ \E L \in SUBSET Launchers : Reconcile(L)
  \/ Dispatch
  \/ RestartServer

Spec == Init /\ [][Next]_vars
-----------------------------------------------------------------------------
(* Correctness *)

TablesType ==
  /\ jobState \in [Jobs -> JobStates]
  /\ jobLauncher \in [Jobs -> Launchers \cup {None}]
  /\ cancelRequested \in [Jobs -> BOOLEAN]
  /\ progress \in [Jobs -> 0..MaxProgress]
  /\ rowStatus \in [Launchers -> {"absent", "ready", "busy", "disconnected"}]
  /\ rowGone \in [Launchers -> BOOLEAN]
RegistryType ==
  /\ registered \subseteq Launchers
  /\ current \in [Launchers -> Jobs \cup {None}]
  /\ resetting \in [Launchers -> BOOLEAN]
SocketType ==
  /\ ws \in [Launchers -> {"absent", "connecting", "open", "closed", "done"}]
  /\ hstep \in [Launchers -> {"receive", "heartbeat", "update", "publish", "cleanup"}]
  /\ hkind \in [Launchers -> EventKinds \cup {"none", "ready", "busy"}]
  /\ hjob \in [Launchers -> Jobs \cup {None}]
DispatcherType ==
  /\ dstep \in {"wait", "drop", "expire", "notify", "notifySend", "notifyDrop",
                "snapshot", "drain"} \cup LockSteps
  /\ dIdle \subseteq Launchers /\ dInvalid \subseteq Launchers /\ dExpired \subseteq Jobs
  /\ dJob \in Jobs \cup {None} /\ dLauncher \in Launchers \cup {None}
DeliveriesType ==
  /\ delivery \in [Launchers -> Jobs \cup {None}]
  /\ dlstep \in [Launchers -> {"none", "sending", "persist"}]
KillsType == kstep \in [Jobs -> {"none", "await", "sending", "fail", "disconnect"}]
ResetsType ==
  /\ rstep \in [Launchers -> {"none", "kill", "await", "sending", "fail", "disconnect"}]
  /\ rjob \in [Launchers -> Jobs \cup {None}]
SentType == sent \subseteq Messages

\* Every variable has its type.
TypeOK ==
  /\ TablesType /\ RegistryType /\ SocketType /\ DispatcherType
  /\ DeliveriesType /\ KillsType /\ ResetsType /\ SentType

\* A launcher is never given a second job while its first is active in the
\* table, whatever the dispatcher, kills, resets, expiries and disconnects do.
OneActiveJobPerLauncher ==
  \A i, j \in Jobs :
    jobState[i] \in Active /\ jobState[j] \in Active /\ jobLauncher[i] = jobLauncher[j]
      => i = j

\* The registry never forgets a job the table holds active on a registered
\* launcher: idle_launcher_ids cannot offer a busy launcher, and a final
\* event or a kill finds the job it is about.
RegistryKnowsActiveJob ==
  \A j \in Jobs :
    jobState[j] \in Active /\ jobLauncher[j] \in registered
      => \/ current[jobLauncher[j]] = j
         \/ dstep = "mark" /\ dJob = j

\* job.cancel never overtakes job.start on the control socket
\* (_assignment_lock, then the send lock handed to the delivery task).
CancelFollowsStart == \A j \in Jobs : CancelMessage(j) \in sent => Start(j) \in sent

\* Once the handler of a lost launcher has cleaned up, no active job is left on
\* it and nothing (late heartbeat, release, expiry) made its row usable again.
\* Its status is not claimed: a heartbeat that was being written when the key
\* was revoked leaves "ready" on a row that a restart then finds disconnected.
LostLauncherIsClean ==
  \A l \in Launchers :
    ws[l] = "done" => rowGone[l] /\ RunsOn(l) = {} /\ l \notin registered

\* A row is marked disconnected only in the transaction that fails its active
\* jobs, so an active job never points to a launcher that is gone.
GoneLauncherHasNoJob == \A l \in Launchers : rowGone[l] => RunsOn(l) = {}

FinalStep ==
  \A j \in Jobs : /\ jobState[j] \in Terminal => jobState'[j] = jobState[j]
                  /\ jobLauncher[j] # None => jobLauncher'[j] = jobLauncher[j]
\* A finished job stays as it finished, and the launcher of a job is written
\* once: no late event, kill, expiry or restart rewrites either.
FinalStateIsFinal == [][FinalStep]_vars

ResettingStep ==
  \A l \in registered \cap registered' :
    resetting[l] /\ resetting'[l] => current'[l] \in {current[l], None}
\* Between the website's reset and worker.reset.done a connected launcher is
\* assigned no job.
NoJobWhileResetting == [][ResettingStep]_vars

StartStep ==
  \A j \in Jobs : Start(j) \in sent' /\ Start(j) \notin sent =>
    (resetting[jobLauncher[j]] => rstep[jobLauncher[j]] # "none")
\* job.start and worker.reset keep their order on the socket: a job.start is
\* sent to a resetting launcher only before its worker.reset.
NoStartAfterReset == [][StartStep]_vars

\* No sweep (reconciliation, key revalidation, cleanup) marks the row of a
\* registered launcher disconnected: it would get no job until it reconnects.
RegisteredLauncherKeepsRow == \A l \in registered : ~rowGone[l]

Lifecycle == INSTANCE JobLifecycle
  WITH state <- jobState, launcher <- jobLauncher, lost <- {l \in Launchers : rowGone[l]}

\* The tables behave as JobLifecycle promises.
ImplementsLifecycle == Lifecycle!Spec
-----------------------------------------------------------------------------
(* Progress.  Every task that has begun goes on: asyncio runs it, its sends   *)
(* time out after LAUNCHER_SEND_TIMEOUT_SECONDS, the dispatcher polls every   *)
(* 30 s, and asyncio.Lock serves its waiters in order, hence strong fairness  *)
(* for the tasks that wait for a lock.  A claim is not for ever passed over   *)
(* by SKIP LOCKED: a row lock lasts one short transaction.  No fairness for   *)
(* clients, launchers, the website, the clock or a crash.                     *)

HandlerStep(l) == \/ Register(l) \/ WriteHeartbeat(l) \/ CommitJobEvent(l)
                  \/ PublishJobEvent(l) \/ BeginCleanup(l) \/ FinishCleanup(l)
KillStep(j) == \/ KillTakesSendLock(j) \/ KillSends(j) \/ KillSendFails(j)
               \/ KillFailsJob(j) \/ KillDisconnects(j)
ResetStep(l) == \/ ResetKillsJob(l) \/ ResetTakesSendLock(l) \/ ResetSends(l)
                \/ ResetSendFails(l) \/ ResetFailsJob(l) \/ ResetDisconnects(l)

Fairness == /\ \A l \in Launchers : /\ WF_vars(HandlerStep(l))
                                    /\ WF_vars(Delivery(l))
                                    /\ SF_vars(ResetStep(l))
            /\ \A j \in Jobs : SF_vars(KillStep(j))
            /\ SF_vars(Dispatch)
            /\ SF_vars(\E j \in Jobs, l \in Launchers : Claim(j, l, {}))

FairSpec == Spec /\ Fairness

\* A job the dispatcher assigned is started or ended: no lock is left held.
AssignedJobIsDelivered ==
  \A j \in Jobs : jobState[j] = "assigned" ~> Start(j) \in sent \/ jobState[j] \in Terminal

\* An active job whose launcher is no longer registered ends, even when the
\* launcher vanished while the job was being claimed, killed or delivered.
OrphanedJobEnds ==
  \A j \in Jobs : jobState[j] \in Active /\ jobLauncher[j] \notin registered
                  ~> jobState[j] \notin Active

\* A kill of an active job reaches the launcher, or the job ends.
KillReachesLauncher ==
  \A j \in Jobs : kstep[j] = "await" ~> CancelMessage(j) \in sent \/ jobState[j] \in Terminal

\* A launcher is not left holding a job that has ended: whoever ended it also
\* clears current_job_id or disconnects the launcher.
EndedJobFreesLauncher ==
  \A l \in Launchers, j \in Jobs :
    l \in registered /\ current[l] = j /\ jobState[j] \in Terminal
      ~> l \notin registered \/ current[l] # j

\* A queued job and an idle launcher with a ready row that can run it do not
\* wait for each other for ever, whatever the round before got stuck on.
QueuedJobIsServed ==
  \A j \in Jobs, l \in Launchers : []<>~(Claimable(j, l) /\ l \in IdleLaunchers)
=============================================================================
