------------------------ MODULE JobOrchestratorProofs ------------------------
(* Proofs about JobOrchestrator, for all values of its constants: its types and *)
(* the frame lemmas (which steps may change which variables); what the jobs    *)
(* and launchers tables keep, how they agree with the registry, what no step  *)
(* does, and that the tables implement JobLifecycle.                          *)
EXTENDS JobOrchestrator, TLAPS

-----------------------------------------------------------------------------
(* Frames and types *)


\* Which steps write the tables.
LEMMA TablesFrame ==
  ASSUME [Next]_vars
  PROVE  \/ UNCHANGED tables
         \/ \E j \in Jobs : CreateJob(j) \/ RequestKill(j) \/ KillFailsJob(j)
         \/ \E l \in Launchers :
              \/ Connect(l) \/ WriteHeartbeat(l) \/ CommitJobEvent(l)
              \/ FinishCleanup(l) \/ ResetKillsJob(l) \/ ResetFailsJob(l)
              \/ PersistDeliveryFailure(l)
         \/ \E L \in SUBSET Launchers : Reconcile(L)
         \/ FailInvalid
         \/ RestartServer
         \/ \E E \in SUBSET Jobs : ExpireJobs(E)
         \/ \E j \in Jobs, l \in Launchers, skip \in SUBSET Launchers :
              \/ Claim(j, l, skip)
<1>1. CASE \E l \in Launchers : Socket(l)
  BY <1>1 DEF BeginCleanup, LoseConnection, PublishJobEvent, ReceiveHeartbeat,
    ReceiveJobEvent, ReceiveResetDone, Register, Socket, tables
<1>2. CASE \E j \in Jobs : CreateJob(j) \/ Kill(j)
  BY <1>2 DEF Kill, KillDisconnects, KillSendFails, KillSends, KillTakesSendLock, tables
<1>3. CASE \E l \in Launchers : ResetTask(l) \/ Delivery(l)
  BY <1>3 DEF DeliverStart, Delivery, DeliveryFails, RequestReset, ResetDisconnects,
    ResetSendFails, ResetSends, ResetTakesSendLock, ResetTask, tables
<1>4. CASE Dispatch
  BY <1>4 DEF ClaimNothing, Dispatch, Drain, DropExpired, DropInvalid, MarkAssigned,
    NotifyExpired, Revalidate, SendExpired, Snapshot, SpawnDelivery, tables
<1>5. CASE \/ RevokeAccessKey \/ RestartServer \/ UNCHANGED vars
           \/ \E L \in SUBSET Launchers : Reconcile(L)
  BY <1>5 DEF RevokeAccessKey, tables, vars
<1> QED
  BY <1>1, <1>2, <1>3, <1>4, <1>5 DEF Next

\* Which steps write the registry.
LEMMA RegistryFrame ==
  ASSUME [Next]_vars
  PROVE  \/ UNCHANGED registry
         \/ \E l \in Launchers :
              \/ Register(l) \/ PublishJobEvent(l) \/ ReceiveResetDone(l)
              \/ BeginCleanup(l) \/ RequestReset(l) \/ ResetDisconnects(l)
              \/ DeliveryFails(l) \/ DropInvalid(l)
         \/ RevokeAccessKey
         \/ DropExpired
         \/ MarkAssigned
         \/ RestartServer
         \/ \E j \in Jobs : KillDisconnects(j)
<1>1. CASE \E l \in Launchers : Socket(l)
  BY <1>1 DEF CommitJobEvent, Connect, FinishCleanup, LoseConnection, ReceiveHeartbeat,
    ReceiveJobEvent, Socket, WriteHeartbeat, registry
<1>2. CASE \E j \in Jobs : CreateJob(j) \/ Kill(j)
  BY <1>2 DEF CreateJob, Kill, KillFailsJob, KillSendFails, KillSends,
    KillTakesSendLock, RequestKill, registry
<1>3. CASE \E l \in Launchers : ResetTask(l) \/ Delivery(l)
  BY <1>3 DEF DeliverStart, Delivery, PersistDeliveryFailure, ResetFailsJob,
    ResetKillsJob, ResetSendFails, ResetSends, ResetTakesSendLock, ResetTask, registry
<1>4. CASE Dispatch
  BY <1>4 DEF Claim, ClaimNothing, Dispatch, Drain, ExpireJobs, FailInvalid,
    NotifyExpired, Revalidate, SendExpired, Snapshot, SpawnDelivery, registry
<1>5. CASE \/ RevokeAccessKey \/ RestartServer \/ UNCHANGED vars
           \/ \E L \in SUBSET Launchers : Reconcile(L)
  BY <1>5 DEF Reconcile, registry, vars
<1> QED
  BY <1>1, <1>2, <1>3, <1>4, <1>5 DEF Next

\* Which steps move a control socket or its handler.
LEMMA SocketFrame ==
  ASSUME [Next]_vars
  PROVE  \/ UNCHANGED <<ws, hstep, hkind, hjob>>
         \/ \E l \in Launchers :
              \/ Connect(l) \/ Register(l) \/ LoseConnection(l) \/ WriteHeartbeat(l)
              \/ CommitJobEvent(l) \/ PublishJobEvent(l) \/ ReceiveResetDone(l)
              \/ BeginCleanup(l) \/ FinishCleanup(l) \/ ResetDisconnects(l)
              \/ DeliveryFails(l) \/ DropInvalid(l)
         \/ \E l \in Launchers, s \in {"ready", "busy"} : ReceiveHeartbeat(l, s)
         \/ \E l \in Launchers, kind \in EventKinds, j \in Jobs :
              \/ ReceiveJobEvent(l, kind, j)
         \/ RevokeAccessKey
         \/ DropExpired
         \/ RestartServer
         \/ \E j \in Jobs : KillDisconnects(j)
<1>1. CASE \E l \in Launchers : Socket(l)
  BY <1>1 DEF Socket
<1>2. CASE \E j \in Jobs : CreateJob(j) \/ Kill(j)
  BY <1>2 DEF CreateJob, Kill, KillFailsJob, KillSendFails, KillSends,
    KillTakesSendLock, RequestKill, handler
<1>3. CASE \E l \in Launchers : ResetTask(l) \/ Delivery(l)
  BY <1>3 DEF DeliverStart, Delivery, PersistDeliveryFailure, RequestReset,
    ResetFailsJob, ResetKillsJob, ResetSendFails, ResetSends, ResetTakesSendLock,
    ResetTask, handler
<1>4. CASE Dispatch
  BY <1>4 DEF Claim, ClaimNothing, Dispatch, Drain, ExpireJobs, FailInvalid,
    MarkAssigned, NotifyExpired, Revalidate, SendExpired, Snapshot, SpawnDelivery,
    handler
<1>5. CASE \/ RevokeAccessKey \/ RestartServer \/ UNCHANGED vars
           \/ \E L \in SUBSET Launchers : Reconcile(L)
  BY <1>5 DEF Reconcile, handler, vars
<1> QED
  BY <1>1, <1>2, <1>3, <1>4, <1>5 DEF Next

\* Which steps move the dispatcher.
LEMMA DispatcherFrame ==
  ASSUME [Next]_vars
  PROVE  \/ UNCHANGED dispatcher
         \/ \E L \in SUBSET Launchers : Revalidate(L)
         \/ FailInvalid
         \/ SendExpired
         \/ DropExpired
         \/ Snapshot
         \/ MarkAssigned
         \/ SpawnDelivery
         \/ Drain
         \/ RestartServer
         \/ \E E \in SUBSET Jobs : ExpireJobs(E)
         \/ \E j \in Jobs : NotifyExpired(j)
         \/ \E j \in Jobs, l \in Launchers, skip \in SUBSET Launchers :
              \/ Claim(j, l, skip)
         \/ \E skip \in SUBSET Launchers : ClaimNothing(skip)
<1>1. CASE \E l \in Launchers : Socket(l)
  BY <1>1 DEF BeginCleanup, CommitJobEvent, Connect, FinishCleanup, LoseConnection,
    PublishJobEvent, ReceiveHeartbeat, ReceiveJobEvent, ReceiveResetDone, Register,
    Socket, WriteHeartbeat, dispatcher
<1>2. CASE \E j \in Jobs : CreateJob(j) \/ Kill(j)
  BY <1>2 DEF CreateJob, Kill, KillDisconnects, KillFailsJob, KillSendFails, KillSends,
    KillTakesSendLock, RequestKill, dispatcher
<1>3. CASE \E l \in Launchers : ResetTask(l) \/ Delivery(l)
  BY <1>3 DEF DeliverStart, Delivery, DeliveryFails, PersistDeliveryFailure,
    RequestReset, ResetDisconnects, ResetFailsJob, ResetKillsJob, ResetSendFails,
    ResetSends, ResetTakesSendLock, ResetTask, dispatcher
<1>4. CASE Dispatch
  BY <1>4 DEF Dispatch, DropInvalid, dispatcher
<1>5. CASE \/ RevokeAccessKey \/ RestartServer \/ UNCHANGED vars
           \/ \E L \in SUBSET Launchers : Reconcile(L)
  BY <1>5 DEF Reconcile, RevokeAccessKey, dispatcher, vars
<1> QED
  BY <1>1, <1>2, <1>3, <1>4, <1>5 DEF Next

\* Which steps move a delivery.
LEMMA DeliveriesFrame ==
  ASSUME [Next]_vars
  PROVE  \/ UNCHANGED deliveries
         \/ \E l \in Launchers :
              \/ DeliverStart(l) \/ DeliveryFails(l) \/ PersistDeliveryFailure(l)
         \/ SpawnDelivery
         \/ RestartServer
<1>1. CASE \E l \in Launchers : Socket(l)
  BY <1>1 DEF BeginCleanup, CommitJobEvent, Connect, FinishCleanup, LoseConnection,
    PublishJobEvent, ReceiveHeartbeat, ReceiveJobEvent, ReceiveResetDone, Register,
    Socket, WriteHeartbeat, deliveries
<1>2. CASE \E j \in Jobs : CreateJob(j) \/ Kill(j)
  BY <1>2 DEF CreateJob, Kill, KillDisconnects, KillFailsJob, KillSendFails, KillSends,
    KillTakesSendLock, RequestKill, deliveries
<1>3. CASE \E l \in Launchers : ResetTask(l) \/ Delivery(l)
  BY <1>3 DEF Delivery, RequestReset, ResetDisconnects, ResetFailsJob, ResetKillsJob,
    ResetSendFails, ResetSends, ResetTakesSendLock, ResetTask, deliveries
<1>4. CASE Dispatch
  BY <1>4 DEF Claim, ClaimNothing, Dispatch, Drain, DropExpired, DropInvalid,
    ExpireJobs, FailInvalid, MarkAssigned, NotifyExpired, Revalidate, SendExpired,
    Snapshot, deliveries
<1>5. CASE \/ RevokeAccessKey \/ RestartServer \/ UNCHANGED vars
           \/ \E L \in SUBSET Launchers : Reconcile(L)
  BY <1>5 DEF Reconcile, RevokeAccessKey, deliveries, vars
<1> QED
  BY <1>1, <1>2, <1>3, <1>4, <1>5 DEF Next

\* Which steps move a kill.
LEMMA KillsFrame ==
  ASSUME [Next]_vars
  PROVE  \/ UNCHANGED kstep
         \/ \E j \in Jobs :
              \/ RequestKill(j) \/ KillTakesSendLock(j) \/ KillSends(j)
              \/ KillSendFails(j) \/ KillFailsJob(j) \/ KillDisconnects(j)
         \/ RestartServer
<1>1. CASE \E l \in Launchers : Socket(l)
  BY <1>1 DEF BeginCleanup, CommitJobEvent, Connect, FinishCleanup, LoseConnection,
    PublishJobEvent, ReceiveHeartbeat, ReceiveJobEvent, ReceiveResetDone, Register,
    Socket, WriteHeartbeat
<1>2. CASE \E j \in Jobs : CreateJob(j) \/ Kill(j)
  BY <1>2 DEF CreateJob, Kill
<1>3. CASE \E l \in Launchers : ResetTask(l) \/ Delivery(l)
  BY <1>3 DEF DeliverStart, Delivery, DeliveryFails, PersistDeliveryFailure,
    RequestReset, ResetDisconnects, ResetFailsJob, ResetKillsJob, ResetSendFails,
    ResetSends, ResetTakesSendLock, ResetTask
<1>4. CASE Dispatch
  BY <1>4 DEF Claim, ClaimNothing, Dispatch, Drain, DropExpired, DropInvalid,
    ExpireJobs, FailInvalid, MarkAssigned, NotifyExpired, Revalidate, SendExpired,
    Snapshot, SpawnDelivery
<1>5. CASE \/ RevokeAccessKey \/ RestartServer \/ UNCHANGED vars
           \/ \E L \in SUBSET Launchers : Reconcile(L)
  BY <1>5 DEF Reconcile, RevokeAccessKey, vars
<1> QED
  BY <1>1, <1>2, <1>3, <1>4, <1>5 DEF Next

\* Which steps move a reset.
LEMMA ResetsFrame ==
  ASSUME [Next]_vars
  PROVE  \/ UNCHANGED resets
         \/ \E l \in Launchers :
              \/ RequestReset(l) \/ ResetKillsJob(l) \/ ResetTakesSendLock(l)
              \/ ResetSends(l) \/ ResetSendFails(l) \/ ResetFailsJob(l)
              \/ ResetDisconnects(l)
         \/ RestartServer
<1>1. CASE \E l \in Launchers : Socket(l)
  BY <1>1 DEF BeginCleanup, CommitJobEvent, Connect, FinishCleanup, LoseConnection,
    PublishJobEvent, ReceiveHeartbeat, ReceiveJobEvent, ReceiveResetDone, Register,
    Socket, WriteHeartbeat, resets
<1>2. CASE \E j \in Jobs : CreateJob(j) \/ Kill(j)
  BY <1>2 DEF CreateJob, Kill, KillDisconnects, KillFailsJob, KillSendFails, KillSends,
    KillTakesSendLock, RequestKill, resets
<1>3. CASE \E l \in Launchers : ResetTask(l) \/ Delivery(l)
  BY <1>3 DEF DeliverStart, Delivery, DeliveryFails, PersistDeliveryFailure, ResetTask,
    resets
<1>4. CASE Dispatch
  BY <1>4 DEF Claim, ClaimNothing, Dispatch, Drain, DropExpired, DropInvalid,
    ExpireJobs, FailInvalid, MarkAssigned, NotifyExpired, Revalidate, SendExpired,
    Snapshot, SpawnDelivery, resets
<1>5. CASE \/ RevokeAccessKey \/ RestartServer \/ UNCHANGED vars
           \/ \E L \in SUBSET Launchers : Reconcile(L)
  BY <1>5 DEF Reconcile, RevokeAccessKey, resets, vars
<1> QED
  BY <1>1, <1>2, <1>3, <1>4, <1>5 DEF Next

\* Which steps send job.start or job.cancel.
LEMMA SentFrame ==
  ASSUME [Next]_vars
  PROVE  \/ UNCHANGED sent
         \/ \E j \in Jobs : KillSends(j)
         \/ \E l \in Launchers : DeliverStart(l)
         \/ SendExpired
<1>1. CASE \E l \in Launchers : Socket(l)
  BY <1>1 DEF BeginCleanup, CommitJobEvent, Connect, FinishCleanup, LoseConnection,
    PublishJobEvent, ReceiveHeartbeat, ReceiveJobEvent, ReceiveResetDone, Register,
    Socket, WriteHeartbeat
<1>2. CASE \E j \in Jobs : CreateJob(j) \/ Kill(j)
  BY <1>2 DEF CreateJob, Kill, KillDisconnects, KillFailsJob, KillSendFails,
    KillTakesSendLock, RequestKill
<1>3. CASE \E l \in Launchers : ResetTask(l) \/ Delivery(l)
  BY <1>3 DEF Delivery, DeliveryFails, PersistDeliveryFailure, RequestReset,
    ResetDisconnects, ResetFailsJob, ResetKillsJob, ResetSendFails, ResetSends,
    ResetTakesSendLock, ResetTask
<1>4. CASE Dispatch
  BY <1>4 DEF Claim, ClaimNothing, Dispatch, Drain, DropExpired, DropInvalid,
    ExpireJobs, FailInvalid, MarkAssigned, NotifyExpired, Revalidate, Snapshot,
    SpawnDelivery
<1>5. CASE \/ RevokeAccessKey \/ RestartServer \/ UNCHANGED vars
           \/ \E L \in SUBSET Launchers : Reconcile(L)
  BY <1>5 DEF Reconcile, RestartServer, RevokeAccessKey, vars
<1> QED
  BY <1>1, <1>2, <1>3, <1>4, <1>5 DEF Next

\* The rest of what has to be known of the variables to prove TypeOK: what a
\* handler, a delivery and the dispatcher hold at the steps that use it.
HandlerHasMessage ==
  \A l \in Launchers :
    /\ hstep[l] = "heartbeat" => hkind[l] \in {"ready", "busy"}
    /\ hstep[l] \in {"update", "publish"} => hjob[l] \in Jobs
DeliveryHasJob ==
  \A l \in Launchers : dlstep[l] # "none" => delivery[l] \in Jobs
DispatcherHasJob ==
  /\ dstep = "notifySend" => dJob \in Jobs
  /\ dstep \in {"mark", "lock"} => dJob \in Jobs /\ dLauncher \in Launchers

TypeInv == TypeOK /\ HandlerHasMessage /\ DeliveryHasJob /\ DispatcherHasJob

\* A job event leads to a state of the table, one the event was applied in.
LEMMA EventState ==
  ASSUME NEW kind, NEW j \in Jobs, NEW l, EventApplies(kind, j, l)
  PROVE  /\ kind \in EventKinds /\ jobState[j] \in Active
         /\ StateAfter(kind) \in JobStates \ {"absent", "queued"}
         /\ kind \notin FinalEvents => StateAfter(kind) \in Active
         /\ kind \in FinalEvents => StateAfter(kind) \in Terminal
  BY DEF EventApplies, StateAfter, EventKinds, FinalEvents, Active, Terminal, JobStates

\* Every step keeps the types of the tables.
LEMMA TablesTypeStep ==
  ASSUME TypeInv, [Next]_vars
  PROVE  TablesType'
<1> USE DEF Jobs
<1>1. ASSUME NEW j \in Jobs, CreateJob(j) PROVE TablesType'
  BY <1>1 DEF Active, CreateJob, JobStates, TablesType, Terminal, TypeInv, TypeOK,
    tables
<1>2. ASSUME NEW l \in Launchers, Connect(l) PROVE TablesType'
  BY <1>2 DEF Active, Connect, JobStates, TablesType, Terminal, TypeInv, TypeOK,
    jobRows, tables
<1>3. ASSUME NEW l \in Launchers, WriteHeartbeat(l) PROVE TablesType'
  BY <1>3 DEF Active, HandlerHasMessage, JobStates, SocketType, TablesType, Terminal,
    TypeInv, TypeOK, WriteHeartbeat, jobRows, tables
<1>4. ASSUME NEW l \in Launchers, CommitJobEvent(l) PROVE TablesType'
  <2>1. CASE EventApplies(hkind[l], hjob[l], l)
    <3>1. hjob[l] \in Jobs
      BY <1>4 DEF CommitJobEvent, TypeInv, HandlerHasMessage
    <3>2. StateAfter(hkind[l]) \in JobStates
      BY <2>1, <3>1, EventState
    <3>3. jobState' \in [Jobs -> JobStates]
      BY <1>4, <2>1, <3>2 DEF CommitJobEvent, TypeInv, TypeOK, TablesType
    <3>4. progress' \in [Jobs -> 0..MaxProgress]
      BY <1>4, <2>1, <3>1, BoundsAssumption
        DEF CommitJobEvent, EventApplies, TypeInv, TypeOK, TablesType
    <3> QED
      BY <1>4, <2>1, <3>3, <3>4
        DEF CommitJobEvent, ReleasedRows, TypeInv, TypeOK, TablesType
  <2>2. CASE ~EventApplies(hkind[l], hjob[l], l)
    BY <1>4, <2>2 DEF CommitJobEvent, TypeInv, TypeOK, TablesType
  <2> QED
    BY <2>1, <2>2
<1>5. ASSUME NEW l \in Launchers, FinishCleanup(l) PROVE TablesType'
  BY <1>5 DEF Active, DisconnectRows, FinishCleanup, JobStates, TablesType, Terminal,
    TypeInv, TypeOK, jobRows, tables
<1>6. ASSUME NEW L \in SUBSET Launchers, Reconcile(L) PROVE TablesType'
  BY <1>6 DEF Active, DisconnectRows, JobStates, Reconcile, TablesType, Terminal,
    TypeInv, TypeOK, jobRows, tables
<1>7. ASSUME NEW j \in Jobs, RequestKill(j) PROVE TablesType'
  BY <1>7 DEF Active, JobStates, RequestKill, TablesType, Terminal, TypeInv, TypeOK,
    tables
<1>8. ASSUME NEW j \in Jobs, KillFailsJob(j) PROVE TablesType'
  BY <1>8 DEF Active, FailAssigned, JobStates, KillFailsJob, ReleasedRows, RunsOn,
    TablesType, Terminal, TypeInv, TypeOK, tables
<1>9. ASSUME NEW l \in Launchers, ResetKillsJob(l) PROVE TablesType'
  BY <1>9 DEF Active, JobStates, ResetKillsJob, ResetsType, TablesType, Terminal,
    TypeInv, TypeOK, tables
<1>10. ASSUME NEW l \in Launchers, ResetFailsJob(l) PROVE TablesType'
  BY <1>10 DEF Active, FailAssigned, JobStates, ReleasedRows, ResetFailsJob, RunsOn,
    TablesType, Terminal, TypeInv, TypeOK, tables
<1>11. ASSUME NEW l \in Launchers, PersistDeliveryFailure(l) PROVE TablesType'
  BY <1>11 DEF Active, FailAssigned, JobStates, PersistDeliveryFailure, ReleasedRows,
    RunsOn, TablesType, Terminal, TypeInv, TypeOK, tables
<1>12. ASSUME FailInvalid PROVE TablesType'
  BY <1>12 DEF Active, DisconnectRows, FailInvalid, JobStates, TablesType, Terminal,
    TypeInv, TypeOK, jobRows, tables
<1>13. ASSUME NEW E \in SUBSET Jobs, ExpireJobs(E) PROVE TablesType'
  BY <1>13 DEF Active, ExpireJobs, JobStates, ReleasedRows, TablesType, Terminal,
    TypeInv, TypeOK, tables
<1>14. ASSUME NEW j \in Jobs, NEW l \in Launchers, NEW skip \in SUBSET Launchers,
              Claim(j, l, skip)
       PROVE  TablesType'
  BY <1>14 DEF Active, Claim, JobStates, TablesType, Terminal, TypeInv, TypeOK, tables
<1>15. ASSUME RestartServer PROVE TablesType'
  BY <1>15 DEF Active, JobStates, RestartServer, TablesType, Terminal, TypeInv, TypeOK,
    tables
<1>16. CASE UNCHANGED tables
  BY <1>16 DEF Active, JobStates, TablesType, Terminal, TypeInv, TypeOK, tables
<1> QED
  BY <1>1, <1>2, <1>3, <1>4, <1>5, <1>6, <1>7, <1>8, <1>9, <1>10, <1>11, <1>12, <1>13,
    <1>14, <1>15, <1>16, TablesFrame

\* Every step keeps the types of the registry.
LEMMA RegistryTypeStep ==
  ASSUME TypeInv, [Next]_vars
  PROVE  RegistryType'
<1>1. ASSUME NEW l \in Launchers, Register(l) PROVE RegistryType'
  BY <1>1 DEF Register, RegistryType, TypeInv, TypeOK, registry
<1>2. ASSUME NEW l \in Launchers, PublishJobEvent(l) PROVE RegistryType'
  BY <1>2 DEF PublishJobEvent, RegistryType, TypeInv, TypeOK, registry
<1>3. ASSUME NEW l \in Launchers, ReceiveResetDone(l) PROVE RegistryType'
  BY <1>3 DEF ReceiveResetDone, RegistryType, TypeInv, TypeOK, registry
<1>4. ASSUME NEW l \in Launchers, BeginCleanup(l) PROVE RegistryType'
  BY <1>4 DEF BeginCleanup, RegistryType, TypeInv, TypeOK, Unregister, registry
<1>5. ASSUME RevokeAccessKey PROVE RegistryType'
  BY <1>5 DEF CloseSockets, DisconnectLaunchers, RegistryType, RevokeAccessKey, TypeInv,
    TypeOK, Unregister, registry
<1>6. ASSUME NEW j \in Jobs, KillDisconnects(j) PROVE RegistryType'
  BY <1>6 DEF CloseSockets, DisconnectLaunchers, KillDisconnects, RegistryType,
    TablesType, TypeInv, TypeOK, Unregister, registry
<1>7. ASSUME NEW l \in Launchers, RequestReset(l) PROVE RegistryType'
  BY <1>7 DEF RegistryType, RequestReset, TypeInv, TypeOK, registry
<1>8. ASSUME NEW l \in Launchers, ResetDisconnects(l) PROVE RegistryType'
  BY <1>8 DEF CloseSockets, DisconnectLaunchers, RegistryType, ResetDisconnects,
    TypeInv, TypeOK, Unregister, registry
<1>9. ASSUME NEW l \in Launchers, DeliveryFails(l) PROVE RegistryType'
  BY <1>9 DEF CloseSockets, DeliveryFails, DisconnectLaunchers, RegistryType, TypeInv,
    TypeOK, Unregister, registry
<1>10. ASSUME NEW l \in Launchers, DropInvalid(l) PROVE RegistryType'
  BY <1>10 DEF CloseSockets, DisconnectLaunchers, DropInvalid, RegistryType, TypeInv,
    TypeOK, Unregister, registry
<1>11. ASSUME DropExpired PROVE RegistryType'
  BY <1>11 DEF CloseSockets, DisconnectLaunchers, DispatcherType, DropExpired,
    RegistryType, TypeInv, TypeOK, Unregister, registry
<1>12. ASSUME MarkAssigned PROVE RegistryType'
  BY <1>12 DEF DispatcherType, MarkAssigned, RegistryType, TypeInv, TypeOK, registry
<1>13. ASSUME RestartServer PROVE RegistryType'
  BY <1>13 DEF RegistryType, RestartServer, TypeInv, TypeOK, registry
<1>14. CASE UNCHANGED registry
  BY <1>14 DEF RegistryType, TypeInv, TypeOK, registry
<1> QED
  BY <1>1, <1>2, <1>3, <1>4, <1>5, <1>6, <1>7, <1>8, <1>9, <1>10, <1>11, <1>12, <1>13,
    <1>14, RegistryFrame

\* Every step keeps the types of the sockets.
LEMMA SocketTypeStep ==
  ASSUME TypeInv, [Next]_vars
  PROVE  SocketType'
<1>1. ASSUME NEW l \in Launchers, Connect(l) PROVE SocketType'
  BY <1>1 DEF Connect, EventKinds, FinalEvents, SocketType, TypeInv, TypeOK, handler
<1>2. ASSUME NEW l \in Launchers, Register(l) PROVE SocketType'
  BY <1>2 DEF EventKinds, FinalEvents, Register, SocketType, TypeInv, TypeOK, handler
<1>3. ASSUME NEW l \in Launchers, LoseConnection(l) PROVE SocketType'
  BY <1>3 DEF EventKinds, FinalEvents, LoseConnection, SocketType, TypeInv, TypeOK,
    handler
<1>4. ASSUME NEW l \in Launchers, NEW s \in {"ready", "busy"},
             ReceiveHeartbeat(l, s)
      PROVE  SocketType'
  BY <1>4 DEF EventKinds, FinalEvents, ReceiveHeartbeat, SocketType, TypeInv, TypeOK
<1>5. ASSUME NEW l \in Launchers, WriteHeartbeat(l) PROVE SocketType'
  BY <1>5 DEF EventKinds, FinalEvents, SocketType, TypeInv, TypeOK, WriteHeartbeat
<1>6. ASSUME NEW l \in Launchers, NEW kind \in EventKinds, NEW j \in Jobs,
             ReceiveJobEvent(l, kind, j)
      PROVE  SocketType'
  BY <1>6 DEF EventKinds, FinalEvents, ReceiveJobEvent, SocketType, TypeInv, TypeOK,
    handler
<1>7. ASSUME NEW l \in Launchers, CommitJobEvent(l) PROVE SocketType'
  BY <1>7 DEF CloseSockets, CommitJobEvent, EventKinds, FinalEvents, ReleasedRows,
    SocketType, StateAfter, TypeInv, TypeOK
<1>8. ASSUME NEW l \in Launchers, PublishJobEvent(l) PROVE SocketType'
  BY <1>8 DEF EventKinds, FinalEvents, PublishJobEvent, SocketType, TypeInv, TypeOK
<1>9. ASSUME NEW l \in Launchers, ReceiveResetDone(l) PROVE SocketType'
  BY <1>9 DEF EventKinds, FinalEvents, ReceiveResetDone, SocketType, TypeInv, TypeOK,
    handler
<1>10. ASSUME NEW l \in Launchers, BeginCleanup(l) PROVE SocketType'
  BY <1>10 DEF BeginCleanup, EventKinds, FinalEvents, SocketType, TypeInv, TypeOK
<1>11. ASSUME NEW l \in Launchers, FinishCleanup(l) PROVE SocketType'
  BY <1>11 DEF DisconnectRows, EventKinds, FinalEvents, FinishCleanup, SocketType,
    TypeInv, TypeOK
<1>12. ASSUME RevokeAccessKey PROVE SocketType'
  BY <1>12 DEF CloseSockets, DisconnectLaunchers, EventKinds, FinalEvents,
    RevokeAccessKey, SocketType, TypeInv, TypeOK, Unregister, handler
<1>13. ASSUME NEW j \in Jobs, KillDisconnects(j) PROVE SocketType'
  BY <1>13 DEF CloseSockets, DisconnectLaunchers, EventKinds, FinalEvents,
    KillDisconnects, SocketType, TypeInv, TypeOK, Unregister, handler
<1>14. ASSUME NEW l \in Launchers, ResetDisconnects(l) PROVE SocketType'
  BY <1>14 DEF CloseSockets, DisconnectLaunchers, EventKinds, FinalEvents,
    ResetDisconnects, SocketType, TypeInv, TypeOK, Unregister, handler
<1>15. ASSUME NEW l \in Launchers, DeliveryFails(l) PROVE SocketType'
  BY <1>15 DEF CloseSockets, DeliveryFails, DisconnectLaunchers, EventKinds,
    FinalEvents, SocketType, TypeInv, TypeOK, Unregister, handler
<1>16. ASSUME NEW l \in Launchers, DropInvalid(l) PROVE SocketType'
  BY <1>16 DEF CloseSockets, DisconnectLaunchers, DropInvalid, EventKinds, FinalEvents,
    SocketType, TypeInv, TypeOK, Unregister, handler
<1>17. ASSUME DropExpired PROVE SocketType'
  BY <1>17 DEF CloseSockets, DisconnectLaunchers, DropExpired, EventKinds, FinalEvents,
    SocketType, TypeInv, TypeOK, Unregister, handler
<1>18. ASSUME RestartServer PROVE SocketType'
  BY <1>18 DEF EventKinds, FinalEvents, RestartServer, SocketType, TypeInv, TypeOK
<1>19. CASE UNCHANGED <<ws, hstep, hkind, hjob>>
  BY <1>19 DEF EventKinds, FinalEvents, SocketType, TypeInv, TypeOK
<1> QED
  BY <1>1, <1>2, <1>3, <1>4, <1>5, <1>6, <1>7, <1>8, <1>9, <1>10, <1>11, <1>12, <1>13,
    <1>14, <1>15, <1>16, <1>17, <1>18, <1>19, SocketFrame

\* Every step keeps the types of the dispatcher.
LEMMA DispatcherTypeStep ==
  ASSUME TypeInv, [Next]_vars
  PROVE  DispatcherType'
<1>1. ASSUME NEW L \in SUBSET Launchers, Revalidate(L) PROVE DispatcherType'
  BY <1>1 DEF DispatcherType, LockSteps, Revalidate, TypeInv, TypeOK
<1>2. ASSUME FailInvalid PROVE DispatcherType'
  BY <1>2 DEF DisconnectRows, DispatcherType, FailInvalid, LockSteps, TypeInv, TypeOK
<1>3. ASSUME NEW E \in SUBSET Jobs, ExpireJobs(E) PROVE DispatcherType'
  BY <1>3 DEF DispatcherType, ExpireJobs, LockSteps, ReleasedRows, TypeInv, TypeOK
<1>4. ASSUME NEW j \in Jobs, NotifyExpired(j) PROVE DispatcherType'
  BY <1>4 DEF DispatcherType, LockSteps, NotifyExpired, TablesType, TypeInv, TypeOK
<1>5. ASSUME SendExpired PROVE DispatcherType'
  BY <1>5 DEF CancelMessage, DispatcherType, LockSteps, SendExpired, TypeInv, TypeOK,
    dIdleSame
<1>6. ASSUME DropExpired PROVE DispatcherType'
  BY <1>6 DEF DispatcherType, DropExpired, LockSteps, TypeInv, TypeOK
<1>7. ASSUME Snapshot PROVE DispatcherType'
  BY <1>7 DEF DispatcherType, IdleLaunchers, LockSteps, RegistryType, Snapshot, TypeInv,
    TypeOK
<1>8. ASSUME NEW j \in Jobs, NEW l \in Launchers, NEW skip \in SUBSET Launchers,
             Claim(j, l, skip)
      PROVE  DispatcherType'
  BY <1>8 DEF Claim, DispatcherType, LockSteps, TypeInv, TypeOK
<1>9. ASSUME NEW skip \in SUBSET Launchers, ClaimNothing(skip) PROVE DispatcherType'
  BY <1>9 DEF ClaimNothing, DispatcherType, LockSteps, TypeInv, TypeOK
<1>10. ASSUME MarkAssigned PROVE DispatcherType'
  BY <1>10 DEF DispatcherType, LockSteps, MarkAssigned, TypeInv, TypeOK, dIdleSame
<1>11. ASSUME SpawnDelivery PROVE DispatcherType'
  BY <1>11 DEF DispatcherType, LockSteps, SpawnDelivery, TypeInv, TypeOK
<1>12. ASSUME Drain PROVE DispatcherType'
  BY <1>12 DEF DispatcherType, Drain, LockSteps, TypeInv, TypeOK, dIdleSame
<1>13. ASSUME RestartServer PROVE DispatcherType'
  BY <1>13 DEF DispatcherType, LockSteps, RestartServer, TypeInv, TypeOK
<1>14. CASE UNCHANGED dispatcher
  BY <1>14 DEF DispatcherType, LockSteps, TypeInv, TypeOK, dispatcher
<1> QED
  BY <1>1, <1>2, <1>3, <1>4, <1>5, <1>6, <1>7, <1>8, <1>9, <1>10, <1>11, <1>12, <1>13,
    <1>14, DispatcherFrame

\* Every step keeps the types of the deliveries.
LEMMA DeliveriesTypeStep ==
  ASSUME TypeInv, [Next]_vars
  PROVE  DeliveriesType'
<1>1. ASSUME NEW l \in Launchers, DeliverStart(l) PROVE DeliveriesType'
  BY <1>1 DEF DeliverStart, DeliveriesType, Start, TypeInv, TypeOK
<1>2. ASSUME NEW l \in Launchers, DeliveryFails(l) PROVE DeliveriesType'
  BY <1>2 DEF DeliveriesType, DeliveryFails, TypeInv, TypeOK
<1>3. ASSUME NEW l \in Launchers, PersistDeliveryFailure(l) PROVE DeliveriesType'
  BY <1>3 DEF DeliveriesType, FailAssigned, PersistDeliveryFailure, ReleasedRows,
    RunsOn, TypeInv, TypeOK
<1>4. ASSUME SpawnDelivery PROVE DeliveriesType'
  BY <1>4 DEF DeliveriesType, DispatcherType, SpawnDelivery, TypeInv, TypeOK
<1>5. ASSUME RestartServer PROVE DeliveriesType'
  BY <1>5 DEF DeliveriesType, RestartServer, TypeInv, TypeOK
<1>6. CASE UNCHANGED deliveries
  BY <1>6 DEF DeliveriesType, TypeInv, TypeOK, deliveries
<1> QED
  BY <1>1, <1>2, <1>3, <1>4, <1>5, <1>6, DeliveriesFrame

\* Every step keeps the type of the kills.
LEMMA KillsTypeStep ==
  ASSUME TypeInv, [Next]_vars
  PROVE  KillsType'
<1>1. ASSUME NEW j \in Jobs, RequestKill(j) PROVE KillsType'
  BY <1>1 DEF KillsType, RequestKill, TypeInv, TypeOK
<1>2. ASSUME NEW j \in Jobs, KillTakesSendLock(j) PROVE KillsType'
  BY <1>2 DEF KillTakesSendLock, KillsType, TypeInv, TypeOK
<1>3. ASSUME NEW j \in Jobs, KillSends(j) PROVE KillsType'
  BY <1>3 DEF CancelMessage, KillSends, KillsType, TypeInv, TypeOK
<1>4. ASSUME NEW j \in Jobs, KillSendFails(j) PROVE KillsType'
  BY <1>4 DEF KillSendFails, KillsType, TypeInv, TypeOK
<1>5. ASSUME NEW j \in Jobs, KillFailsJob(j) PROVE KillsType'
  BY <1>5 DEF FailAssigned, KillFailsJob, KillsType, ReleasedRows, RunsOn, TypeInv,
    TypeOK
<1>6. ASSUME NEW j \in Jobs, KillDisconnects(j) PROVE KillsType'
  BY <1>6 DEF KillDisconnects, KillsType, TypeInv, TypeOK
<1>7. ASSUME RestartServer PROVE KillsType'
  BY <1>7 DEF KillsType, RestartServer, TypeInv, TypeOK
<1>8. CASE UNCHANGED kstep
  BY <1>8 DEF KillsType, TypeInv, TypeOK
<1> QED
  BY <1>1, <1>2, <1>3, <1>4, <1>5, <1>6, <1>7, <1>8, KillsFrame

\* Every step keeps the types of the resets.
LEMMA ResetsTypeStep ==
  ASSUME TypeInv, [Next]_vars
  PROVE  ResetsType'
<1>1. ASSUME NEW l \in Launchers, RequestReset(l) PROVE ResetsType'
  BY <1>1 DEF RegistryType, RequestReset, ResetsType, TypeInv, TypeOK
<1>2. ASSUME NEW l \in Launchers, ResetKillsJob(l) PROVE ResetsType'
  BY <1>2 DEF ResetKillsJob, ResetsType, TypeInv, TypeOK
<1>3. ASSUME NEW l \in Launchers, ResetTakesSendLock(l) PROVE ResetsType'
  BY <1>3 DEF ResetTakesSendLock, ResetsType, TypeInv, TypeOK
<1>4. ASSUME NEW l \in Launchers, ResetSends(l) PROVE ResetsType'
  BY <1>4 DEF ResetSends, ResetsType, TypeInv, TypeOK
<1>5. ASSUME NEW l \in Launchers, ResetSendFails(l) PROVE ResetsType'
  BY <1>5 DEF ResetSendFails, ResetsType, TypeInv, TypeOK
<1>6. ASSUME NEW l \in Launchers, ResetFailsJob(l) PROVE ResetsType'
  BY <1>6 DEF FailAssigned, ReleasedRows, ResetFailsJob, ResetsType, RunsOn, TypeInv,
    TypeOK
<1>7. ASSUME NEW l \in Launchers, ResetDisconnects(l) PROVE ResetsType'
  BY <1>7 DEF ResetDisconnects, ResetsType, TypeInv, TypeOK
<1>8. ASSUME RestartServer PROVE ResetsType'
  BY <1>8 DEF ResetsType, RestartServer, TypeInv, TypeOK
<1>9. CASE UNCHANGED resets
  BY <1>9 DEF ResetsType, TypeInv, TypeOK, resets
<1> QED
  BY <1>1, <1>2, <1>3, <1>4, <1>5, <1>6, <1>7, <1>8, <1>9, ResetsFrame

\* Every step keeps the type of the messages sent.
LEMMA SentTypeStep ==
  ASSUME TypeInv, [Next]_vars
  PROVE  SentType'
<1>1. ASSUME NEW j \in Jobs, KillSends(j) PROVE SentType'
  BY <1>1 DEF CancelMessage, KillSends, Messages, Send, SentType, TypeInv, TypeOK
<1>2. ASSUME NEW l \in Launchers, DeliverStart(l) PROVE SentType'
  BY <1>2 DEF DeliverStart, DeliveryHasJob, Messages, Send, SentType, Start, TypeInv,
    TypeOK
<1>3. ASSUME SendExpired PROVE SentType'
  BY <1>3 DEF CancelMessage, DispatcherHasJob, Messages, Send, SendExpired, SentType,
    TypeInv, TypeOK
<1>4. CASE UNCHANGED sent
  BY <1>4 DEF Messages, SentType, TypeInv, TypeOK
<1> QED
  BY <1>1, <1>2, <1>3, <1>4, SentFrame

\* A handler goes on with the message it received.
LEMMA HandlerHasMessageStep ==
  ASSUME TypeInv, [Next]_vars
  PROVE  HandlerHasMessage'
<1>1. ASSUME NEW l \in Launchers, Connect(l) PROVE HandlerHasMessage'
  BY <1>1 DEF Connect, HandlerHasMessage, SocketType, TypeInv, TypeOK, handler
<1>2. ASSUME NEW l \in Launchers, Register(l) PROVE HandlerHasMessage'
  BY <1>2 DEF HandlerHasMessage, Register, SocketType, TypeInv, TypeOK, handler
<1>3. ASSUME NEW l \in Launchers, LoseConnection(l) PROVE HandlerHasMessage'
  BY <1>3 DEF HandlerHasMessage, LoseConnection, SocketType, TypeInv, TypeOK, handler
<1>4. ASSUME NEW l \in Launchers, NEW s \in {"ready", "busy"},
             ReceiveHeartbeat(l, s)
      PROVE  HandlerHasMessage'
  BY <1>4 DEF HandlerHasMessage, ReceiveHeartbeat, SocketType, TypeInv, TypeOK
<1>5. ASSUME NEW l \in Launchers, WriteHeartbeat(l) PROVE HandlerHasMessage'
  BY <1>5 DEF HandlerHasMessage, SocketType, TypeInv, TypeOK, WriteHeartbeat
<1>6. ASSUME NEW l \in Launchers, NEW kind \in EventKinds, NEW j \in Jobs,
             ReceiveJobEvent(l, kind, j)
      PROVE  HandlerHasMessage'
  BY <1>6 DEF HandlerHasMessage, ReceiveJobEvent, SocketType, TypeInv, TypeOK, handler
<1>7. ASSUME NEW l \in Launchers, CommitJobEvent(l) PROVE HandlerHasMessage'
  BY <1>7 DEF CloseSockets, CommitJobEvent, HandlerHasMessage, ReleasedRows, SocketType,
    StateAfter, TypeInv, TypeOK
<1>8. ASSUME NEW l \in Launchers, PublishJobEvent(l) PROVE HandlerHasMessage'
  BY <1>8 DEF HandlerHasMessage, PublishJobEvent, SocketType, TypeInv, TypeOK
<1>9. ASSUME NEW l \in Launchers, ReceiveResetDone(l) PROVE HandlerHasMessage'
  BY <1>9 DEF HandlerHasMessage, ReceiveResetDone, SocketType, TypeInv, TypeOK, handler
<1>10. ASSUME NEW l \in Launchers, BeginCleanup(l) PROVE HandlerHasMessage'
  BY <1>10 DEF BeginCleanup, HandlerHasMessage, SocketType, TypeInv, TypeOK
<1>11. ASSUME NEW l \in Launchers, FinishCleanup(l) PROVE HandlerHasMessage'
  BY <1>11 DEF DisconnectRows, FinishCleanup, HandlerHasMessage, SocketType, TypeInv,
    TypeOK
<1>12. ASSUME RevokeAccessKey PROVE HandlerHasMessage'
  BY <1>12 DEF CloseSockets, DisconnectLaunchers, HandlerHasMessage, RevokeAccessKey,
    SocketType, TypeInv, TypeOK, Unregister, handler
<1>13. ASSUME NEW j \in Jobs, KillDisconnects(j) PROVE HandlerHasMessage'
  BY <1>13 DEF CloseSockets, DisconnectLaunchers, HandlerHasMessage, KillDisconnects,
    SocketType, TypeInv, TypeOK, Unregister, handler
<1>14. ASSUME NEW l \in Launchers, ResetDisconnects(l) PROVE HandlerHasMessage'
  BY <1>14 DEF CloseSockets, DisconnectLaunchers, HandlerHasMessage, ResetDisconnects,
    SocketType, TypeInv, TypeOK, Unregister, handler
<1>15. ASSUME NEW l \in Launchers, DeliveryFails(l) PROVE HandlerHasMessage'
  BY <1>15 DEF CloseSockets, DeliveryFails, DisconnectLaunchers, HandlerHasMessage,
    SocketType, TypeInv, TypeOK, Unregister, handler
<1>16. ASSUME NEW l \in Launchers, DropInvalid(l) PROVE HandlerHasMessage'
  BY <1>16 DEF CloseSockets, DisconnectLaunchers, DropInvalid, HandlerHasMessage,
    SocketType, TypeInv, TypeOK, Unregister, handler
<1>17. ASSUME DropExpired PROVE HandlerHasMessage'
  BY <1>17 DEF CloseSockets, DisconnectLaunchers, DropExpired, HandlerHasMessage,
    SocketType, TypeInv, TypeOK, Unregister, handler
<1>18. ASSUME RestartServer PROVE HandlerHasMessage'
  BY <1>18 DEF HandlerHasMessage, RestartServer, SocketType, TypeInv, TypeOK
<1>19. CASE UNCHANGED <<ws, hstep, hkind, hjob>>
  BY <1>19 DEF HandlerHasMessage, SocketType, TypeInv, TypeOK
<1> QED
  BY <1>1, <1>2, <1>3, <1>4, <1>5, <1>6, <1>7, <1>8, <1>9, <1>10, <1>11, <1>12, <1>13,
    <1>14, <1>15, <1>16, <1>17, <1>18, <1>19, SocketFrame

\* A delivery holds a job until it ends.
LEMMA DeliveryHasJobStep ==
  ASSUME TypeInv, [Next]_vars
  PROVE  DeliveryHasJob'
<1>1. ASSUME NEW l \in Launchers, DeliverStart(l) PROVE DeliveryHasJob'
  BY <1>1 DEF DeliverStart, DeliveriesType, DeliveryHasJob, Start, TypeInv, TypeOK
<1>2. ASSUME NEW l \in Launchers, DeliveryFails(l) PROVE DeliveryHasJob'
  BY <1>2 DEF DeliveriesType, DeliveryFails, DeliveryHasJob, TypeInv, TypeOK
<1>3. ASSUME NEW l \in Launchers, PersistDeliveryFailure(l) PROVE DeliveryHasJob'
  BY <1>3 DEF DeliveriesType, DeliveryHasJob, FailAssigned, PersistDeliveryFailure,
    ReleasedRows, RunsOn, TypeInv, TypeOK
<1>4. ASSUME SpawnDelivery PROVE DeliveryHasJob'
  BY <1>4 DEF DeliveriesType, DeliveryHasJob, DispatcherHasJob, SpawnDelivery, TypeInv,
    TypeOK
<1>5. ASSUME RestartServer PROVE DeliveryHasJob'
  BY <1>5 DEF DeliveriesType, DeliveryHasJob, RestartServer, TypeInv, TypeOK
<1>6. CASE UNCHANGED deliveries
  BY <1>6 DEF DeliveriesType, DeliveryHasJob, TypeInv, TypeOK, deliveries
<1> QED
  BY <1>1, <1>2, <1>3, <1>4, <1>5, <1>6, DeliveriesFrame

\* The dispatcher holds a job from claim to delivery, and while it tells a launcher.
LEMMA DispatcherHasJobStep ==
  ASSUME TypeInv, [Next]_vars
  PROVE  DispatcherHasJob'
<1>1. ASSUME NEW L \in SUBSET Launchers, Revalidate(L) PROVE DispatcherHasJob'
  BY <1>1 DEF DispatcherHasJob, Revalidate, TypeInv, TypeOK, dispatcher
<1>2. ASSUME FailInvalid PROVE DispatcherHasJob'
  BY <1>2 DEF DisconnectRows, DispatcherHasJob, FailInvalid, TypeInv, TypeOK, dispatcher
<1>3. ASSUME NEW E \in SUBSET Jobs, ExpireJobs(E) PROVE DispatcherHasJob'
  BY <1>3 DEF DispatcherHasJob, ExpireJobs, ReleasedRows, TypeInv, TypeOK, dispatcher
<1>4. ASSUME NEW j \in Jobs, NotifyExpired(j) PROVE DispatcherHasJob'
  BY <1>4 DEF DispatcherHasJob, NotifyExpired, TypeInv, TypeOK, dispatcher
<1>5. ASSUME SendExpired PROVE DispatcherHasJob'
  BY <1>5 DEF CancelMessage, DispatcherHasJob, SendExpired, TypeInv, TypeOK, dIdleSame,
    dispatcher
<1>6. ASSUME DropExpired PROVE DispatcherHasJob'
  BY <1>6 DEF DispatcherHasJob, DropExpired, TypeInv, TypeOK, dispatcher
<1>7. ASSUME Snapshot PROVE DispatcherHasJob'
  BY <1>7 DEF DispatcherHasJob, Snapshot, TypeInv, TypeOK, dispatcher
<1>8. ASSUME NEW j \in Jobs, NEW l \in Launchers, NEW skip \in SUBSET Launchers,
             Claim(j, l, skip)
      PROVE  DispatcherHasJob'
  BY <1>8 DEF Claim, DispatcherHasJob, TypeInv, TypeOK, dispatcher
<1>9. ASSUME NEW skip \in SUBSET Launchers, ClaimNothing(skip) PROVE DispatcherHasJob'
  BY <1>9 DEF ClaimNothing, DispatcherHasJob, TypeInv, TypeOK, dispatcher
<1>10. ASSUME MarkAssigned PROVE DispatcherHasJob'
  BY <1>10 DEF DispatcherHasJob, MarkAssigned, TypeInv, TypeOK, dIdleSame, dispatcher
<1>11. ASSUME SpawnDelivery PROVE DispatcherHasJob'
  BY <1>11 DEF DispatcherHasJob, SpawnDelivery, TypeInv, TypeOK, dispatcher
<1>12. ASSUME Drain PROVE DispatcherHasJob'
  BY <1>12 DEF DispatcherHasJob, Drain, TypeInv, TypeOK, dIdleSame, dispatcher
<1>13. ASSUME RestartServer PROVE DispatcherHasJob'
  BY <1>13 DEF DispatcherHasJob, RestartServer, TypeInv, TypeOK, dispatcher
<1>14. CASE UNCHANGED dispatcher
  BY <1>14 DEF DispatcherHasJob, TypeInv, TypeOK, dispatcher
<1> QED
  BY <1>1, <1>2, <1>3, <1>4, <1>5, <1>6, <1>7, <1>8, <1>9, <1>10, <1>11, <1>12, <1>13,
    <1>14, DispatcherFrame

\* TypeInv is an inductive invariant.
LEMMA InitType == Init => TypeInv
  BY BoundsAssumption DEF Init, TypeInv, TypeOK, TablesType, RegistryType, SocketType,
    DispatcherType, DeliveriesType, KillsType, ResetsType, SentType, HandlerHasMessage,
    DeliveryHasJob, DispatcherHasJob, JobStates
LEMMA StepType == TypeInv /\ [Next]_vars => TypeInv'
  BY TablesTypeStep, RegistryTypeStep, SocketTypeStep, DispatcherTypeStep,
    DeliveriesTypeStep, KillsTypeStep, ResetsTypeStep, SentTypeStep,
    HandlerHasMessageStep, DeliveryHasJobStep, DispatcherHasJobStep DEF TypeInv, TypeOK
LEMMA TypeInvariant == Spec => []TypeInv
  BY InitType, StepType, PTL DEF Spec

\* In every reachable state of the server, for any number of jobs and launchers
\* and any of the requests, the tables, the registry and the tasks have their types.
THEOREM TypeCorrect == Spec => []TypeOK
<1>1. TypeInv => TypeOK
  BY DEF TypeInv
<1> QED
  BY <1>1, TypeInvariant, PTL

-----------------------------------------------------------------------------
(* The tables *)

\* launcher_id is written by the claim, and the claim takes queued jobs only.
UnassignedHasNoLauncher ==
  \A j \in Jobs : jobState[j] \in {"absent", "queued"} => jobLauncher[j] = None
\* A job is active only after a claim.
ActiveHasLauncher ==
  \A j \in Jobs : jobState[j] \in Active => jobLauncher[j] \in Launchers
TableInv == UnassignedHasNoLauncher /\ ActiveHasLauncher /\ GoneLauncherHasNoJob

\* Which steps move a job or mark a launcher disconnected.
LEMMA JobsFrame ==
  ASSUME [Next]_vars
  PROVE  \/ UNCHANGED <<jobState, jobLauncher, rowGone>>
         \/ \E j \in Jobs : CreateJob(j) \/ RequestKill(j) \/ KillFailsJob(j)
         \/ \E l \in Launchers :
              \/ CommitJobEvent(l) \/ FinishCleanup(l) \/ ResetFailsJob(l)
              \/ PersistDeliveryFailure(l)
         \/ \E L \in SUBSET Launchers : Reconcile(L)
         \/ FailInvalid
         \/ RestartServer
         \/ \E E \in SUBSET Jobs : ExpireJobs(E)
         \/ \E j \in Jobs, l \in Launchers, skip \in SUBSET Launchers :
              \/ Claim(j, l, skip)
<1>1. CASE \E l \in Launchers : Socket(l)
  BY <1>1 DEF BeginCleanup, Connect, LoseConnection, PublishJobEvent, ReceiveHeartbeat,
    ReceiveJobEvent, ReceiveResetDone, Register, Socket, WriteHeartbeat, jobRows, tables
<1>2. CASE \E j \in Jobs : CreateJob(j) \/ Kill(j)
  BY <1>2 DEF Kill, KillDisconnects, KillSendFails, KillSends, KillTakesSendLock, tables
<1>3. CASE \E l \in Launchers : ResetTask(l) \/ Delivery(l)
  BY <1>3 DEF DeliverStart, Delivery, DeliveryFails, RequestReset, ResetDisconnects,
    ResetKillsJob, ResetSendFails, ResetSends, ResetTakesSendLock, ResetTask, tables
<1>4. CASE Dispatch
  BY <1>4 DEF ClaimNothing, Dispatch, Drain, DropExpired, DropInvalid, MarkAssigned,
    NotifyExpired, Revalidate, SendExpired, Snapshot, SpawnDelivery, tables
<1>5. CASE \/ RevokeAccessKey \/ RestartServer \/ UNCHANGED vars
           \/ \E L \in SUBSET Launchers : Reconcile(L)
  BY <1>5 DEF RevokeAccessKey, tables, vars
<1> QED
  BY <1>1, <1>2, <1>3, <1>4, <1>5 DEF Next

\* Every step keeps what the tables promise.
LEMMA TableInvStep ==
  ASSUME TypeInv, TableInv, [Next]_vars
  PROVE  TableInv'
<1> USE NoneAssumption
<1>1. ASSUME NEW j \in Jobs, CreateJob(j) PROVE TableInv'
  BY <1>1 DEF Active, ActiveHasLauncher, CreateJob, GoneLauncherHasNoJob, RunsOn,
    TableInv, TablesType, TypeInv, TypeOK, UnassignedHasNoLauncher
<1>2. ASSUME NEW l \in Launchers, CommitJobEvent(l) PROVE TableInv'
  <2>1. CASE EventApplies(hkind[l], hjob[l], l)
    <3>1. hjob[l] \in Jobs
      BY <1>2 DEF CommitJobEvent, TypeInv, HandlerHasMessage
    <3>2. /\ jobState[hjob[l]] \in Active /\ jobLauncher[hjob[l]] = l
          /\ StateAfter(hkind[l]) \notin {"absent", "queued"}
      BY <2>1, <3>1, EventState DEF EventApplies
    <3> QED
      BY <1>2, <2>1, <3>1, <3>2 DEF CommitJobEvent, TypeInv, TypeOK, TablesType, TableInv,
        UnassignedHasNoLauncher, ActiveHasLauncher, GoneLauncherHasNoJob, RunsOn
  <2>2. CASE ~EventApplies(hkind[l], hjob[l], l)
    BY <1>2, <2>2 DEF CommitJobEvent, TableInv, UnassignedHasNoLauncher, ActiveHasLauncher,
      GoneLauncherHasNoJob, RunsOn
  <2> QED
    BY <2>1, <2>2
<1>3. ASSUME NEW l \in Launchers, FinishCleanup(l) PROVE TableInv'
  BY <1>3 DEF Active, ActiveHasLauncher, DisconnectRows, FinishCleanup,
    GoneLauncherHasNoJob, RunsOn, TableInv, TablesType, TypeInv, TypeOK,
    UnassignedHasNoLauncher, jobRows
<1>4. ASSUME NEW L \in SUBSET Launchers, Reconcile(L) PROVE TableInv'
  BY <1>4 DEF Active, ActiveHasLauncher, DisconnectRows, GoneLauncherHasNoJob,
    Reconcile, RunsOn, TableInv, TablesType, TypeInv, TypeOK, UnassignedHasNoLauncher,
    jobRows
<1>5. ASSUME NEW j \in Jobs, RequestKill(j) PROVE TableInv'
  BY <1>5 DEF Active, ActiveHasLauncher, GoneLauncherHasNoJob, RequestKill, RunsOn,
    TableInv, TablesType, TypeInv, TypeOK, UnassignedHasNoLauncher
<1>6. ASSUME NEW j \in Jobs, KillFailsJob(j) PROVE TableInv'
  BY <1>6 DEF Active, ActiveHasLauncher, FailAssigned, GoneLauncherHasNoJob,
    KillFailsJob, ReleasedRows, RunsOn, TableInv, TablesType, TypeInv, TypeOK,
    UnassignedHasNoLauncher
<1>7. ASSUME NEW l \in Launchers, ResetFailsJob(l) PROVE TableInv'
  BY <1>7 DEF Active, ActiveHasLauncher, FailAssigned, GoneLauncherHasNoJob,
    ReleasedRows, ResetFailsJob, RunsOn, TableInv, TablesType, TypeInv, TypeOK,
    UnassignedHasNoLauncher
<1>8. ASSUME NEW l \in Launchers, PersistDeliveryFailure(l) PROVE TableInv'
  BY <1>8 DEF Active, ActiveHasLauncher, FailAssigned, GoneLauncherHasNoJob,
    PersistDeliveryFailure, ReleasedRows, RunsOn, TableInv, TablesType, TypeInv, TypeOK,
    UnassignedHasNoLauncher
<1>9. ASSUME FailInvalid PROVE TableInv'
  BY <1>9 DEF Active, ActiveHasLauncher, DisconnectRows, FailInvalid,
    GoneLauncherHasNoJob, RunsOn, TableInv, TablesType, TypeInv, TypeOK,
    UnassignedHasNoLauncher, jobRows
<1>10. ASSUME NEW E \in SUBSET Jobs, ExpireJobs(E) PROVE TableInv'
  BY <1>10 DEF Active, ActiveHasLauncher, ExpireJobs, GoneLauncherHasNoJob,
    ReleasedRows, RunsOn, TableInv, TablesType, TypeInv, TypeOK, UnassignedHasNoLauncher
<1>11. ASSUME NEW j \in Jobs, NEW l \in Launchers, NEW skip \in SUBSET Launchers,
              Claim(j, l, skip)
       PROVE  TableInv'
  BY <1>11 DEF Active, ActiveHasLauncher, Claim, Claimable, GoneLauncherHasNoJob,
    RunsOn, TableInv, TablesType, TypeInv, TypeOK, UnassignedHasNoLauncher
<1>12. ASSUME RestartServer PROVE TableInv'
  BY <1>12 DEF Active, ActiveHasLauncher, GoneLauncherHasNoJob, RestartServer, RunsOn,
    TableInv, TablesType, TypeInv, TypeOK, UnassignedHasNoLauncher
<1>13. CASE UNCHANGED <<jobState, jobLauncher, rowGone>>
  BY <1>13 DEF Active, ActiveHasLauncher, GoneLauncherHasNoJob, RunsOn, TableInv,
    TablesType, TypeInv, TypeOK, UnassignedHasNoLauncher
<1> QED
  BY <1>1, <1>2, <1>3, <1>4, <1>5, <1>6, <1>7, <1>8, <1>9, <1>10, <1>11, <1>12, <1>13,
    JobsFrame

-----------------------------------------------------------------------------
(* The connections *)

\* create_connected_launcher writes the row before the socket is registered.
RowIffConnected == \A l \in Launchers : rowStatus[l] = "absent" <=> ws[l] = "absent"
\* Nothing refers to a launcher before it is registered.
NewLauncherIsUnused ==
  \A l \in Launchers : ws[l] \in {"absent", "connecting"} =>
    /\ ~rowGone[l] /\ l \notin dIdle \cup dInvalid
    /\ \A j \in Jobs : jobLauncher[j] # l
\* The registry holds launchers whose handler has not cleaned up, with a live row.
RegisteredIsConnected ==
  \A l \in registered : ws[l] \in {"open", "closed"} /\ ~rowGone[l]
\* A handler in the middle of a message has its socket; in its cleanup the
\* registry has already forgotten the launcher.
HandlerHasSocket ==
  \A l \in Launchers :
    /\ hstep[l] # "receive" => ws[l] \in {"open", "closed"}
    /\ hstep[l] = "cleanup" => ws[l] = "closed" /\ l \notin registered
\* A handler ends after its row is marked disconnected.
DoneIsGone == \A l \in Launchers : ws[l] = "done" => rowGone[l]
ConnInv ==
  /\ RowIffConnected /\ NewLauncherIsUnused /\ RegisteredIsConnected
  /\ HandlerHasSocket /\ DoneIsGone

\* Which steps touch a connection, its row or its use.
LEMMA ConnectionFrame ==
  ASSUME [Next]_vars
  PROVE  \/ UNCHANGED <<ws, hstep, registered, rowGone, rowStatus, jobLauncher, dIdle, dInvalid>>
         \/ \E l \in Launchers :
              \/ Connect(l) \/ Register(l) \/ LoseConnection(l) \/ WriteHeartbeat(l)
              \/ CommitJobEvent(l) \/ PublishJobEvent(l) \/ ReceiveResetDone(l)
              \/ BeginCleanup(l) \/ FinishCleanup(l) \/ ResetFailsJob(l)
              \/ ResetDisconnects(l) \/ DeliveryFails(l) \/ PersistDeliveryFailure(l)
              \/ DropInvalid(l)
         \/ \E l \in Launchers, s \in {"ready", "busy"} : ReceiveHeartbeat(l, s)
         \/ \E l \in Launchers, kind \in EventKinds, j \in Jobs :
              \/ ReceiveJobEvent(l, kind, j)
         \/ RevokeAccessKey
         \/ FailInvalid
         \/ DropExpired
         \/ Snapshot
         \/ RestartServer
         \/ \E L \in SUBSET Launchers : Reconcile(L) \/ Revalidate(L)
         \/ \E j \in Jobs : KillFailsJob(j) \/ KillDisconnects(j)
         \/ \E E \in SUBSET Jobs : ExpireJobs(E)
         \/ \E j \in Jobs, l \in Launchers, skip \in SUBSET Launchers :
              \/ Claim(j, l, skip)
         \/ \E skip \in SUBSET Launchers : ClaimNothing(skip)
<1>1. CASE \E l \in Launchers : Socket(l)
  BY <1>1 DEF Socket
<1>2. CASE \E j \in Jobs : CreateJob(j) \/ Kill(j)
  BY <1>2 DEF CreateJob, Kill, KillSendFails, KillSends, KillTakesSendLock, RequestKill,
    dispatcher, handler, registry, tables
<1>3. CASE \E l \in Launchers : ResetTask(l) \/ Delivery(l)
  BY <1>3 DEF DeliverStart, Delivery, RequestReset, ResetKillsJob, ResetSendFails,
    ResetSends, ResetTakesSendLock, ResetTask, dispatcher, handler, registry, tables
<1>4. CASE Dispatch
  BY <1>4 DEF Dispatch, Drain, MarkAssigned, NotifyExpired, SendExpired, SpawnDelivery,
    dIdleSame, handler, registry, tables
<1>5. CASE \/ RevokeAccessKey \/ RestartServer \/ UNCHANGED vars
           \/ \E L \in SUBSET Launchers : Reconcile(L)
  BY <1>5 DEF dispatcher, handler, registry, tables, vars
<1> QED
  BY <1>1, <1>2, <1>3, <1>4, <1>5 DEF Next

\* Every step keeps the connections consistent.
LEMMA ConnInvStep ==
  ASSUME TypeInv, TableInv, ConnInv, [Next]_vars
  PROVE  ConnInv'
<1>1. ASSUME NEW l \in Launchers, Connect(l) PROVE ConnInv'
  BY <1>1 DEF ConnInv, Connect, DoneIsGone, HandlerHasSocket, NewLauncherIsUnused,
    RegisteredIsConnected, RegistryType, RowIffConnected, SocketType, TablesType,
    TypeInv, TypeOK, dispatcher, handler, jobRows, registry
<1>2. ASSUME NEW l \in Launchers, Register(l) PROVE ConnInv'
  BY <1>2 DEF ConnInv, DoneIsGone, HandlerHasSocket, NewLauncherIsUnused, Register,
    RegisteredIsConnected, RegistryType, RowIffConnected, SocketType, TablesType,
    TypeInv, TypeOK, dispatcher, handler, tables
<1>3. ASSUME NEW l \in Launchers, LoseConnection(l) PROVE ConnInv'
  BY <1>3 DEF ConnInv, DoneIsGone, HandlerHasSocket, LoseConnection,
    NewLauncherIsUnused, RegisteredIsConnected, RegistryType, RowIffConnected,
    SocketType, TablesType, TypeInv, TypeOK, dispatcher, handler, registry, tables
<1>4. ASSUME NEW l \in Launchers, NEW s \in {"ready", "busy"},
             ReceiveHeartbeat(l, s)
      PROVE  ConnInv'
  BY <1>4 DEF ConnInv, DoneIsGone, HandlerHasSocket, NewLauncherIsUnused,
    ReceiveHeartbeat, RegisteredIsConnected, RegistryType, RowIffConnected, SocketType,
    TablesType, TypeInv, TypeOK, dispatcher, registry, tables
<1>5. ASSUME NEW l \in Launchers, WriteHeartbeat(l) PROVE ConnInv'
  BY <1>5 DEF ConnInv, DoneIsGone, HandlerHasMessage, HandlerHasSocket,
    NewLauncherIsUnused, RegisteredIsConnected, RegistryType, RowIffConnected,
    SocketType, TablesType, TypeInv, TypeOK, WriteHeartbeat, dispatcher, jobRows,
    registry
<1>6. ASSUME NEW l \in Launchers, NEW kind \in EventKinds, NEW j \in Jobs,
             ReceiveJobEvent(l, kind, j)
      PROVE  ConnInv'
  BY <1>6 DEF ConnInv, DoneIsGone, HandlerHasSocket, NewLauncherIsUnused,
    ReceiveJobEvent, RegisteredIsConnected, RegistryType, RowIffConnected, SocketType,
    TablesType, TypeInv, TypeOK, dispatcher, handler, registry, tables
<1>7. ASSUME NEW l \in Launchers, CommitJobEvent(l) PROVE ConnInv'
  BY <1>7 DEF CloseSockets, CommitJobEvent, ConnInv, DoneIsGone, HandlerHasMessage,
    HandlerHasSocket, NewLauncherIsUnused, RegisteredIsConnected, RegistryType,
    ReleasedRows, RowIffConnected, SocketType, StateAfter, TablesType, TypeInv, TypeOK,
    dispatcher, registry
<1>8. ASSUME NEW l \in Launchers, PublishJobEvent(l) PROVE ConnInv'
  BY <1>8 DEF ConnInv, DoneIsGone, HandlerHasSocket, NewLauncherIsUnused,
    PublishJobEvent, RegisteredIsConnected, RegistryType, RowIffConnected, SocketType,
    TablesType, TypeInv, TypeOK, dispatcher, tables
<1>9. ASSUME NEW l \in Launchers, ReceiveResetDone(l) PROVE ConnInv'
  BY <1>9 DEF ConnInv, DoneIsGone, HandlerHasSocket, NewLauncherIsUnused,
    ReceiveResetDone, RegisteredIsConnected, RegistryType, RowIffConnected, SocketType,
    TablesType, TypeInv, TypeOK, dispatcher, handler, tables
<1>10. ASSUME NEW l \in Launchers, BeginCleanup(l) PROVE ConnInv'
  BY <1>10 DEF BeginCleanup, ConnInv, DoneIsGone, HandlerHasSocket, NewLauncherIsUnused,
    RegisteredIsConnected, RegistryType, RowIffConnected, SocketType, TablesType,
    TypeInv, TypeOK, Unregister, dispatcher, tables
<1>11. ASSUME NEW l \in Launchers, FinishCleanup(l) PROVE ConnInv'
  <2>1. ws[l] = "closed" /\ l \notin registered
    BY <1>11 DEF FinishCleanup, ConnInv, HandlerHasSocket
  <2>2. /\ \A m \in Launchers : ws'[m] = IF m = l THEN "done" ELSE ws[m]
        /\ \A m \in Launchers : hstep'[m] = IF m = l THEN "receive" ELSE hstep[m]
        /\ \A m \in Launchers : rowGone'[m] <=> m = l \/ rowGone[m]
        /\ \A m \in Launchers :
             rowStatus'[m] = IF m = l THEN "disconnected" ELSE rowStatus[m]
        /\ UNCHANGED <<registered, jobLauncher, dIdle, dInvalid>>
    BY <1>11 DEF FinishCleanup, DisconnectRows, registry, dispatcher, TypeInv, TypeOK,
      TablesType, SocketType
  <2>3. RowIffConnected' /\ HandlerHasSocket' /\ DoneIsGone'
    BY <2>1, <2>2 DEF ConnInv, RowIffConnected, HandlerHasSocket, DoneIsGone
  <2>4. NewLauncherIsUnused' /\ RegisteredIsConnected'
    BY <2>1, <2>2 DEF TypeInv, TypeOK, RegistryType, ConnInv, NewLauncherIsUnused,
      RegisteredIsConnected
  <2> QED
    BY <2>3, <2>4 DEF ConnInv
<1>12. ASSUME RevokeAccessKey PROVE ConnInv'
  BY <1>12 DEF CloseSockets, ConnInv, DisconnectLaunchers, DoneIsGone, HandlerHasSocket,
    NewLauncherIsUnused, RegisteredIsConnected, RegistryType, RevokeAccessKey,
    RowIffConnected, SocketType, TablesType, TypeInv, TypeOK, Unregister, dispatcher,
    handler, tables
<1>13. ASSUME NEW L \in SUBSET Launchers, Reconcile(L) PROVE ConnInv'
  BY <1>13 DEF ConnInv, DisconnectRows, DoneIsGone, HandlerHasSocket,
    NewLauncherIsUnused, Reconcile, RegisteredIsConnected, RegistryType,
    RowIffConnected, SocketType, TablesType, TypeInv, TypeOK, dispatcher, handler,
    jobRows, registry
<1>14. ASSUME NEW j \in Jobs, KillFailsJob(j) PROVE ConnInv'
  BY <1>14 DEF ConnInv, DoneIsGone, FailAssigned, HandlerHasSocket, KillFailsJob,
    NewLauncherIsUnused, RegisteredIsConnected, RegistryType, ReleasedRows,
    RowIffConnected, RunsOn, SocketType, TablesType, TypeInv, TypeOK, dispatcher,
    handler, registry
<1>15. ASSUME NEW j \in Jobs, KillDisconnects(j) PROVE ConnInv'
  BY <1>15 DEF CloseSockets, ConnInv, DisconnectLaunchers, DoneIsGone, HandlerHasSocket,
    KillDisconnects, NewLauncherIsUnused, RegisteredIsConnected, RegistryType,
    RowIffConnected, SocketType, TablesType, TypeInv, TypeOK, Unregister, dispatcher,
    handler, tables
<1>16. ASSUME NEW l \in Launchers, ResetFailsJob(l) PROVE ConnInv'
  BY <1>16 DEF ConnInv, DoneIsGone, FailAssigned, HandlerHasSocket, NewLauncherIsUnused,
    RegisteredIsConnected, RegistryType, ReleasedRows, ResetFailsJob, RowIffConnected,
    RunsOn, SocketType, TablesType, TypeInv, TypeOK, dispatcher, handler, registry
<1>17. ASSUME NEW l \in Launchers, ResetDisconnects(l) PROVE ConnInv'
  BY <1>17 DEF CloseSockets, ConnInv, DisconnectLaunchers, DoneIsGone, HandlerHasSocket,
    NewLauncherIsUnused, RegisteredIsConnected, RegistryType, ResetDisconnects,
    RowIffConnected, SocketType, TablesType, TypeInv, TypeOK, Unregister, dispatcher,
    handler, tables
<1>18. ASSUME NEW l \in Launchers, DeliveryFails(l) PROVE ConnInv'
  BY <1>18 DEF CloseSockets, ConnInv, DeliveryFails, DisconnectLaunchers, DoneIsGone,
    HandlerHasSocket, NewLauncherIsUnused, RegisteredIsConnected, RegistryType,
    RowIffConnected, SocketType, TablesType, TypeInv, TypeOK, Unregister, dispatcher,
    handler, tables
<1>19. ASSUME NEW l \in Launchers, PersistDeliveryFailure(l) PROVE ConnInv'
  BY <1>19 DEF ConnInv, DoneIsGone, FailAssigned, HandlerHasSocket, NewLauncherIsUnused,
    PersistDeliveryFailure, RegisteredIsConnected, RegistryType, ReleasedRows,
    RowIffConnected, RunsOn, SocketType, TablesType, TypeInv, TypeOK, dispatcher,
    handler, registry
<1>20. ASSUME NEW L \in SUBSET Launchers, Revalidate(L) PROVE ConnInv'
  BY <1>20 DEF ConnInv, DoneIsGone, HandlerHasSocket, NewLauncherIsUnused,
    RegisteredIsConnected, RegistryType, Revalidate, RowIffConnected, SocketType,
    TablesType, TypeInv, TypeOK, handler, registry, tables
<1>21. ASSUME NEW l \in Launchers, DropInvalid(l) PROVE ConnInv'
  BY <1>21 DEF CloseSockets, ConnInv, DisconnectLaunchers, DoneIsGone, DropInvalid,
    HandlerHasSocket, NewLauncherIsUnused, RegisteredIsConnected, RegistryType,
    RowIffConnected, SocketType, TablesType, TypeInv, TypeOK, Unregister, dispatcher,
    handler, tables
<1>22. ASSUME FailInvalid PROVE ConnInv'
  BY <1>22 DEF ConnInv, DisconnectRows, DoneIsGone, FailInvalid, HandlerHasSocket,
    NewLauncherIsUnused, RegisteredIsConnected, RegistryType, RowIffConnected,
    SocketType, TablesType, TypeInv, TypeOK, handler, jobRows, registry
<1>23. ASSUME NEW E \in SUBSET Jobs, ExpireJobs(E) PROVE ConnInv'
  BY <1>23 DEF ConnInv, DoneIsGone, ExpireJobs, HandlerHasSocket, NewLauncherIsUnused,
    RegisteredIsConnected, RegistryType, ReleasedRows, RowIffConnected, SocketType,
    TablesType, TypeInv, TypeOK, handler, registry
<1>24. ASSUME DropExpired PROVE ConnInv'
  BY <1>24 DEF CloseSockets, ConnInv, DisconnectLaunchers, DoneIsGone, DropExpired,
    HandlerHasSocket, NewLauncherIsUnused, RegisteredIsConnected, RegistryType,
    RowIffConnected, SocketType, TablesType, TypeInv, TypeOK, Unregister, handler,
    tables
<1>25. ASSUME Snapshot PROVE ConnInv'
  BY <1>25 DEF ConnInv, DoneIsGone, HandlerHasSocket, IdleLaunchers,
    NewLauncherIsUnused, RegisteredIsConnected, RegistryType, RowIffConnected, Snapshot,
    SocketType, TablesType, TypeInv, TypeOK, handler, registry, tables
<1>26. ASSUME NEW j \in Jobs, NEW l \in Launchers, NEW skip \in SUBSET Launchers,
              Claim(j, l, skip)
       PROVE  ConnInv'
  BY <1>26 DEF Claim, ConnInv, DoneIsGone, HandlerHasSocket, NewLauncherIsUnused,
    RegisteredIsConnected, RegistryType, RowIffConnected, SocketType, TablesType,
    TypeInv, TypeOK, Unlocked, handler, registry
<1>27. ASSUME NEW skip \in SUBSET Launchers, ClaimNothing(skip) PROVE ConnInv'
  BY <1>27 DEF ClaimNothing, ConnInv, DoneIsGone, HandlerHasSocket, NewLauncherIsUnused,
    RegisteredIsConnected, RegistryType, RowIffConnected, SocketType, TablesType,
    TypeInv, TypeOK, handler, registry, tables
<1>28. ASSUME RestartServer PROVE ConnInv'
  BY <1>28 DEF ConnInv, DoneIsGone, HandlerHasSocket, NewLauncherIsUnused,
    RegisteredIsConnected, RegistryType, RestartServer, RowIffConnected, SocketType,
    TablesType, TypeInv, TypeOK
<1>29. CASE UNCHANGED <<ws, hstep, registered, rowGone, rowStatus, jobLauncher, dIdle, dInvalid>>
  BY <1>29 DEF ConnInv, DoneIsGone, HandlerHasSocket, NewLauncherIsUnused,
    RegisteredIsConnected, RegistryType, RowIffConnected, SocketType, TablesType,
    TypeInv, TypeOK
<1> QED
  BY <1>1, <1>2, <1>3, <1>4, <1>5, <1>6, <1>7, <1>8, <1>9, <1>10, <1>11, <1>12, <1>13,
    <1>14, <1>15, <1>16, <1>17, <1>18, <1>19, <1>20, <1>21, <1>22, <1>23, <1>24, <1>25,
    <1>26, <1>27, <1>28, <1>29, ConnectionFrame

-----------------------------------------------------------------------------
(* The registry and the dispatcher *)

\* The LauncherRuntime goes with its current_job_id.
UnregisteredIsIdle == \A l \in Launchers : l \notin registered => current[l] = None
\* Between the snapshot and the claim the idle launchers stay idle.
ClaimCandidatesAreFree ==
  /\ dstep # "claim" => dIdle = {}
  /\ \A l \in dIdle : current[l] = None /\ RunsOn(l) = {}
\* From the claim to the delivery the dispatcher holds the job and its launcher,
\* whose current_job_id is still to be written at "mark".
AssignmentInHand ==
  /\ dstep \in {"mark", "lock"} => jobLauncher[dJob] = dLauncher
  /\ dstep = "mark" => current[dLauncher] = None
\* A handler applies and publishes the event of the current job.
HandlerKnowsJob ==
  \A l \in Launchers :
    /\ l \in registered /\ hstep[l] \in {"update", "publish"} => current[l] = hjob[l]
    /\ hstep[l] = "publish" => jobState[hjob[l]] \in Terminal
RegInv ==
  /\ UnregisteredIsIdle /\ ClaimCandidatesAreFree /\ AssignmentInHand /\ HandlerKnowsJob
  /\ RegistryKnowsActiveJob /\ OneActiveJobPerLauncher

\* A step by which jobs may only end, launchers only be unregistered, handlers
\* only drop the job they have in hand or find it ended, and nothing is claimed.
Releases ==
  /\ UNCHANGED <<jobLauncher, dIdle>>
  /\ \A j \in Jobs :
       /\ jobState'[j] \in Active => jobState[j] \in Active
       /\ jobState[j] \in Terminal => jobState'[j] \in Terminal
  /\ registered' \subseteq registered
  /\ \A l \in Launchers : current'[l] = IF l \in registered' THEN current[l] ELSE None
  /\ \A l \in Launchers :
       \/ hstep'[l] = hstep[l] /\ hjob'[l] = hjob[l]
       \/ hstep'[l] \notin {"update", "publish"}
       \/ hstep[l] = "update" /\ hjob'[l] = hjob[l] /\ jobState'[hjob[l]] \in Terminal
  /\ \/ UNCHANGED <<dstep, dJob, dLauncher>>
     \/ dstep \notin LockSteps /\ dstep' \notin LockSteps

\* Such a step disturbs no agreement.
LEMMA ReleaseStep ==
  ASSUME TypeInv, TypeInv', RegInv, Releases
  PROVE  RegInv'
<1> USE NoneAssumption DEF RegInv, Releases
<1>1. UnregisteredIsIdle'
  BY DEF UnregisteredIsIdle
<1>2. \A l \in Launchers : RunsOn(l)' \subseteq RunsOn(l)
  BY DEF RunsOn
<1>3. ClaimCandidatesAreFree'
  BY <1>2 DEF ClaimCandidatesAreFree, TypeInv, TypeOK, DispatcherType, LockSteps
<1>4. AssignmentInHand'
  BY DEF AssignmentInHand, TypeInv, DispatcherHasJob, LockSteps
<1>5. HandlerKnowsJob'
  BY DEF HandlerKnowsJob, TypeInv, HandlerHasMessage
<1>6. RegistryKnowsActiveJob'
  BY DEF RegistryKnowsActiveJob, TypeInv, TypeOK, RegistryType, LockSteps
<1>7. OneActiveJobPerLauncher'
  BY DEF OneActiveJobPerLauncher
<1> QED
  BY <1>1, <1>3, <1>4, <1>5, <1>6, <1>7

\* Which steps touch an assignment or what the registry and the handlers know of it.
LEMMA AssignmentFrame ==
  ASSUME [Next]_vars
  PROVE  \/ UNCHANGED <<jobState, jobLauncher, registered, current, hstep, hjob, dstep, dIdle, dJob, dLauncher>>
         \/ \E j \in Jobs :
              \/ CreateJob(j) \/ RequestKill(j) \/ KillFailsJob(j) \/ KillDisconnects(j)
              \/ NotifyExpired(j)
         \/ \E l \in Launchers :
              \/ Register(l) \/ WriteHeartbeat(l) \/ CommitJobEvent(l)
              \/ PublishJobEvent(l) \/ ReceiveResetDone(l) \/ BeginCleanup(l)
              \/ FinishCleanup(l) \/ ResetFailsJob(l) \/ ResetDisconnects(l)
              \/ DeliveryFails(l) \/ PersistDeliveryFailure(l) \/ DropInvalid(l)
         \/ \E l \in Launchers, s \in {"ready", "busy"} : ReceiveHeartbeat(l, s)
         \/ \E l \in Launchers, kind \in EventKinds, j \in Jobs :
              \/ ReceiveJobEvent(l, kind, j)
         \/ RevokeAccessKey
         \/ FailInvalid
         \/ SendExpired
         \/ DropExpired
         \/ Snapshot
         \/ MarkAssigned
         \/ SpawnDelivery
         \/ Drain
         \/ RestartServer
         \/ \E L \in SUBSET Launchers : Reconcile(L) \/ Revalidate(L)
         \/ \E E \in SUBSET Jobs : ExpireJobs(E)
         \/ \E j \in Jobs, l \in Launchers, skip \in SUBSET Launchers :
              \/ Claim(j, l, skip)
         \/ \E skip \in SUBSET Launchers : ClaimNothing(skip)
<1>1. CASE \E l \in Launchers : Socket(l)
  BY <1>1 DEF Connect, LoseConnection, Socket, dispatcher, handler, jobRows, registry,
    tables
<1>2. CASE \E j \in Jobs : CreateJob(j) \/ Kill(j)
  BY <1>2 DEF Kill, KillSendFails, KillSends, KillTakesSendLock, dispatcher, handler,
    registry, tables
<1>3. CASE \E l \in Launchers : ResetTask(l) \/ Delivery(l)
  BY <1>3 DEF DeliverStart, Delivery, RequestReset, ResetKillsJob, ResetSendFails,
    ResetSends, ResetTakesSendLock, ResetTask, dispatcher, handler, registry, tables
<1>4. CASE Dispatch
  BY <1>4 DEF Dispatch
<1>5. CASE \/ RevokeAccessKey \/ RestartServer \/ UNCHANGED vars
           \/ \E L \in SUBSET Launchers : Reconcile(L)
  BY <1>5 DEF dispatcher, handler, registry, tables, vars
<1> QED
  BY <1>1, <1>2, <1>3, <1>4, <1>5 DEF Next

\* Every step keeps tables, registry and dispatcher in agreement.
LEMMA RegInvStep ==
  ASSUME TypeInv, TypeInv', TableInv, ConnInv, RegInv, [Next]_vars
  PROVE  RegInv'
<1> USE NoneAssumption
<1>1. ASSUME NEW j \in Jobs, CreateJob(j) PROVE RegInv'
  BY <1>1 DEF Active, AssignmentInHand, ClaimCandidatesAreFree, CreateJob,
    DispatcherType, HandlerKnowsJob, LockSteps, OneActiveJobPerLauncher, RegInv,
    RegistryKnowsActiveJob, RegistryType, RunsOn, SocketType, TablesType, Terminal,
    TypeInv, TypeOK, UnregisteredIsIdle, dispatcher, handler, registry
<1>2. ASSUME NEW l \in Launchers, Register(l) PROVE RegInv'
  BY <1>2 DEF Active, AssignmentInHand, ClaimCandidatesAreFree, ConnInv, DispatcherType,
    HandlerHasSocket, HandlerKnowsJob, LockSteps, NewLauncherIsUnused,
    OneActiveJobPerLauncher, RegInv, Register, RegistryKnowsActiveJob, RegistryType,
    RunsOn, SocketType, TablesType, Terminal, TypeInv, TypeOK, UnregisteredIsIdle,
    dispatcher, handler, tables
<1>3. ASSUME NEW l \in Launchers, NEW s \in {"ready", "busy"},
             ReceiveHeartbeat(l, s)
      PROVE  RegInv'
  BY <1>3 DEF Active, AssignmentInHand, ClaimCandidatesAreFree, DispatcherType,
    HandlerKnowsJob, LockSteps, OneActiveJobPerLauncher, ReceiveHeartbeat, RegInv,
    RegistryKnowsActiveJob, RegistryType, RunsOn, SocketType, TablesType, Terminal,
    TypeInv, TypeOK, UnregisteredIsIdle, dispatcher, registry, tables
<1>4. ASSUME NEW l \in Launchers, WriteHeartbeat(l) PROVE RegInv'
  BY <1>4 DEF Active, AssignmentInHand, ClaimCandidatesAreFree, DispatcherType,
    HandlerKnowsJob, LockSteps, OneActiveJobPerLauncher, RegInv, RegistryKnowsActiveJob,
    RegistryType, RunsOn, SocketType, TablesType, Terminal, TypeInv, TypeOK,
    UnregisteredIsIdle, WriteHeartbeat, dispatcher, jobRows, registry
<1>5. ASSUME NEW l \in Launchers, NEW kind \in EventKinds, NEW j \in Jobs,
             ReceiveJobEvent(l, kind, j)
      PROVE  RegInv'
  BY <1>5 DEF Active, AssignmentInHand, ClaimCandidatesAreFree, DispatcherType,
    HandlerKnowsJob, LockSteps, MatchesJob, OneActiveJobPerLauncher, ReceiveJobEvent,
    RegInv, RegistryKnowsActiveJob, RegistryType, RunsOn, SocketType, TablesType,
    Terminal, TypeInv, TypeOK, UnregisteredIsIdle, dispatcher, handler, registry, tables
<1>6. ASSUME NEW l \in Launchers, CommitJobEvent(l) PROVE RegInv'
  <2>1. hjob[l] \in Jobs
    BY <1>6 DEF CommitJobEvent, TypeInv, HandlerHasMessage
  <2>2. CASE EventApplies(hkind[l], hjob[l], l)
    <3>1. /\ jobState[hjob[l]] \in Active
          /\ hkind[l] \in FinalEvents => StateAfter(hkind[l]) \in Terminal
      BY <2>1, <2>2, EventState
    <3>2. Releases
      BY <1>6, <2>1, <2>2, <3>1 DEF CommitJobEvent, Releases, Active, Terminal, TypeInv,
        TypeOK, TablesType, RegistryType, SocketType, RegInv, UnregisteredIsIdle, registry,
        dispatcher
    <3> QED
      BY <3>2, ReleaseStep
  <2>3. CASE ~EventApplies(hkind[l], hjob[l], l)
    <3>1. Releases
      BY <1>6, <2>1, <2>3 DEF CommitJobEvent, Releases, TypeInv, TypeOK, TablesType,
        RegistryType, SocketType, RegInv, UnregisteredIsIdle, registry, dispatcher
    <3> QED
      BY <3>1, ReleaseStep
  <2> QED
    BY <2>2, <2>3
<1>7. ASSUME NEW l \in Launchers, PublishJobEvent(l) PROVE RegInv'
  BY <1>7 DEF Active, AssignmentInHand, ClaimCandidatesAreFree, DispatcherType,
    HandlerKnowsJob, LockSteps, OneActiveJobPerLauncher, PublishJobEvent, RegInv,
    RegistryKnowsActiveJob, RegistryType, RunsOn, SocketType, TablesType, Terminal,
    TypeInv, TypeOK, UnregisteredIsIdle, dispatcher, tables
<1>8. ASSUME NEW l \in Launchers, ReceiveResetDone(l) PROVE RegInv'
  <2>1. Releases
    BY <1>8 DEF Active, DispatcherType, LockSteps, ReceiveResetDone, RegInv, RegistryType,
      Releases, ResetDoneExpected, SocketType, TablesType, Terminal, TypeInv, TypeOK,
      UnregisteredIsIdle, dispatcher, handler, tables
  <2> QED
    BY <2>1, ReleaseStep
<1>9. ASSUME NEW l \in Launchers, BeginCleanup(l) PROVE RegInv'
  <2>1. Releases
    BY <1>9 DEF Active, BeginCleanup, DispatcherType, LockSteps, RegInv, RegistryType,
      Releases, SocketType, TablesType, Terminal, TypeInv, TypeOK, Unregister,
      UnregisteredIsIdle, dispatcher, tables
  <2> QED
    BY <2>1, ReleaseStep
<1>10. ASSUME NEW l \in Launchers, FinishCleanup(l) PROVE RegInv'
  <2>1. Releases
    BY <1>10 DEF Active, DisconnectRows, DispatcherType, FinishCleanup, LockSteps, RegInv,
      RegistryType, Releases, SocketType, TablesType, Terminal, TypeInv, TypeOK,
      UnregisteredIsIdle, dispatcher, jobRows, registry
  <2> QED
    BY <2>1, ReleaseStep
<1>11. ASSUME RevokeAccessKey PROVE RegInv'
  <2>1. Releases
    BY <1>11 DEF Active, CloseSockets, DisconnectLaunchers, DispatcherType, LockSteps,
      RegInv, RegistryType, Releases, RevokeAccessKey, SocketType, TablesType, Terminal,
      TypeInv, TypeOK, Unregister, UnregisteredIsIdle, dispatcher, handler, tables
  <2> QED
    BY <2>1, ReleaseStep
<1>12. ASSUME NEW L \in SUBSET Launchers, Reconcile(L) PROVE RegInv'
  <2>1. Releases
    BY <1>12 DEF Active, DisconnectRows, DispatcherType, LockSteps, Reconcile, RegInv,
      RegistryType, Releases, SocketType, TablesType, Terminal, TypeInv, TypeOK,
      UnregisteredIsIdle, dispatcher, handler, jobRows, registry
  <2> QED
    BY <2>1, ReleaseStep
<1>13. ASSUME NEW j \in Jobs, RequestKill(j) PROVE RegInv'
  <2>1. Releases
    BY <1>13 DEF Active, DispatcherType, LockSteps, RegInv, RegistryType, Releases,
      RequestKill, SocketType, TablesType, Terminal, TypeInv, TypeOK,
      UnregisteredIsIdle, dispatcher, handler, registry
  <2> QED
    BY <2>1, ReleaseStep
<1>14. ASSUME NEW j \in Jobs, KillFailsJob(j) PROVE RegInv'
  <2>1. Releases
    BY <1>14 DEF Active, DispatcherType, FailAssigned, KillFailsJob, LockSteps, RegInv,
      RegistryType, ReleasedRows, Releases, RunsOn, SocketType, TablesType, Terminal,
      TypeInv, TypeOK, UnregisteredIsIdle, dispatcher, handler, registry
  <2> QED
    BY <2>1, ReleaseStep
<1>15. ASSUME NEW j \in Jobs, KillDisconnects(j) PROVE RegInv'
  <2>1. Releases
    BY <1>15 DEF Active, CloseSockets, DisconnectLaunchers, DispatcherType,
      KillDisconnects, LockSteps, RegInv, RegistryType, Releases, SocketType,
      TablesType, Terminal, TypeInv, TypeOK, Unregister, UnregisteredIsIdle, dispatcher,
      handler, tables
  <2> QED
    BY <2>1, ReleaseStep
<1>16. ASSUME NEW l \in Launchers, ResetFailsJob(l) PROVE RegInv'
  <2>1. Releases
    BY <1>16 DEF Active, DispatcherType, FailAssigned, LockSteps, RegInv, RegistryType,
      ReleasedRows, Releases, ResetFailsJob, RunsOn, SocketType, TablesType, Terminal,
      TypeInv, TypeOK, UnregisteredIsIdle, dispatcher, handler, registry
  <2> QED
    BY <2>1, ReleaseStep
<1>17. ASSUME NEW l \in Launchers, ResetDisconnects(l) PROVE RegInv'
  <2>1. Releases
    BY <1>17 DEF Active, CloseSockets, DisconnectLaunchers, DispatcherType, LockSteps,
      RegInv, RegistryType, Releases, ResetDisconnects, SocketType, TablesType,
      Terminal, TypeInv, TypeOK, Unregister, UnregisteredIsIdle, dispatcher, handler,
      tables
  <2> QED
    BY <2>1, ReleaseStep
<1>18. ASSUME NEW l \in Launchers, DeliveryFails(l) PROVE RegInv'
  <2>1. Releases
    BY <1>18 DEF Active, CloseSockets, DeliveryFails, DisconnectLaunchers, DispatcherType,
      LockSteps, RegInv, RegistryType, Releases, SocketType, TablesType, Terminal,
      TypeInv, TypeOK, Unregister, UnregisteredIsIdle, dispatcher, handler, tables
  <2> QED
    BY <2>1, ReleaseStep
<1>19. ASSUME NEW l \in Launchers, PersistDeliveryFailure(l) PROVE RegInv'
  <2>1. Releases
    BY <1>19 DEF Active, DispatcherType, FailAssigned, LockSteps, PersistDeliveryFailure,
      RegInv, RegistryType, ReleasedRows, Releases, RunsOn, SocketType, TablesType,
      Terminal, TypeInv, TypeOK, UnregisteredIsIdle, dispatcher, handler, registry
  <2> QED
    BY <2>1, ReleaseStep
<1>20. ASSUME NEW L \in SUBSET Launchers, Revalidate(L) PROVE RegInv'
  BY <1>20 DEF Active, AssignmentInHand, ClaimCandidatesAreFree, DispatcherType,
    HandlerKnowsJob, LockSteps, OneActiveJobPerLauncher, RegInv, RegistryKnowsActiveJob,
    RegistryType, Revalidate, RunsOn, SocketType, TablesType, Terminal, TypeInv, TypeOK,
    UnregisteredIsIdle, handler, registry, tables
<1>21. ASSUME NEW l \in Launchers, DropInvalid(l) PROVE RegInv'
  <2>1. Releases
    BY <1>21 DEF Active, CloseSockets, DisconnectLaunchers, DispatcherType, DropInvalid,
      LockSteps, RegInv, RegistryType, Releases, SocketType, TablesType, Terminal,
      TypeInv, TypeOK, Unregister, UnregisteredIsIdle, dispatcher, handler, tables
  <2> QED
    BY <2>1, ReleaseStep
<1>22. ASSUME FailInvalid PROVE RegInv'
  <2>1. Releases
    BY <1>22 DEF Active, DisconnectRows, DispatcherType, FailInvalid, LockSteps, RegInv,
      RegistryType, Releases, SocketType, TablesType, Terminal, TypeInv, TypeOK,
      UnregisteredIsIdle, handler, jobRows, registry
  <2> QED
    BY <2>1, ReleaseStep
<1>23. ASSUME NEW E \in SUBSET Jobs, ExpireJobs(E) PROVE RegInv'
  <2>1. Releases
    BY <1>23 DEF Active, DispatcherType, ExpireJobs, LockSteps, RegInv, RegistryType,
      ReleasedRows, Releases, SocketType, TablesType, Terminal, TypeInv, TypeOK,
      UnregisteredIsIdle, handler, registry
  <2> QED
    BY <2>1, ReleaseStep
<1>24. ASSUME NEW j \in Jobs, NotifyExpired(j) PROVE RegInv'
  BY <1>24 DEF Active, AssignmentInHand, ClaimCandidatesAreFree, DispatcherType,
    HandlerKnowsJob, LockSteps, NotifyExpired, OneActiveJobPerLauncher, RegInv,
    RegistryKnowsActiveJob, RegistryType, RunsOn, SocketType, TablesType, Terminal,
    TypeInv, TypeOK, UnregisteredIsIdle, handler, registry, tables
<1>25. ASSUME SendExpired PROVE RegInv'
  BY <1>25 DEF Active, AssignmentInHand, CancelMessage, ClaimCandidatesAreFree,
    DispatcherType, HandlerKnowsJob, LockSteps, OneActiveJobPerLauncher, RegInv,
    RegistryKnowsActiveJob, RegistryType, RunsOn, SendExpired, SocketType, TablesType,
    Terminal, TypeInv, TypeOK, UnregisteredIsIdle, dIdleSame, handler, registry, tables
<1>26. ASSUME DropExpired PROVE RegInv'
  <2>1. Releases
    BY <1>26 DEF Active, CloseSockets, DisconnectLaunchers, DispatcherType, DropExpired,
      LockSteps, RegInv, RegistryType, Releases, SocketType, TablesType, Terminal,
      TypeInv, TypeOK, Unregister, UnregisteredIsIdle, handler, tables
  <2> QED
    BY <2>1, ReleaseStep
<1>27. ASSUME Snapshot PROVE RegInv'
  BY <1>27 DEF Active, AssignmentInHand, ClaimCandidatesAreFree, DispatcherType,
    HandlerKnowsJob, IdleLaunchers, LockSteps, OneActiveJobPerLauncher, RegInv,
    RegistryKnowsActiveJob, RegistryType, RunsOn, Snapshot, SocketType, TablesType,
    Terminal, TypeInv, TypeOK, UnregisteredIsIdle, handler, registry, tables
<1>28. ASSUME NEW j \in Jobs, NEW l \in Launchers, NEW skip \in SUBSET Launchers,
              Claim(j, l, skip)
       PROVE  RegInv'
  BY <1>28 DEF Active, AssignmentInHand, Claim, ClaimCandidatesAreFree, Claimable,
    DispatcherType, HandlerKnowsJob, LockSteps, OneActiveJobPerLauncher, RegInv,
    RegistryKnowsActiveJob, RegistryType, RunsOn, SocketType, TableInv, TablesType,
    Terminal, TypeInv, TypeOK, UnassignedHasNoLauncher, Unlocked, UnregisteredIsIdle,
    handler, registry
<1>29. ASSUME NEW skip \in SUBSET Launchers, ClaimNothing(skip) PROVE RegInv'
  BY <1>29 DEF Active, AssignmentInHand, ClaimCandidatesAreFree, ClaimNothing,
    DispatcherType, HandlerKnowsJob, LockSteps, OneActiveJobPerLauncher, RegInv,
    RegistryKnowsActiveJob, RegistryType, RunsOn, SocketType, TablesType, Terminal,
    TypeInv, TypeOK, UnregisteredIsIdle, handler, registry, tables
<1>30. ASSUME MarkAssigned PROVE RegInv'
  <2> USE DEF RegInv
  <2>1. /\ dstep = "mark" /\ dstep' = "lock" /\ dJob \in Jobs /\ dLauncher \in Launchers
        /\ jobLauncher[dJob] = dLauncher /\ current[dLauncher] = None
    BY <1>30 DEF MarkAssigned, TypeInv, DispatcherHasJob, AssignmentInHand
  <2>2. /\ UNCHANGED <<jobState, jobLauncher, registered, hstep, hjob, dIdle, dJob, dLauncher>>
        /\ \A l \in Launchers :
             current'[l] = IF l = dLauncher /\ l \in registered THEN dJob ELSE current[l]
    BY <1>30 DEF MarkAssigned, TypeInv, TypeOK, RegistryType, tables, handler, dIdleSame
  <2>3. UnregisteredIsIdle' /\ ClaimCandidatesAreFree' /\ AssignmentInHand'
    BY <2>1, <2>2 DEF UnregisteredIsIdle, ClaimCandidatesAreFree, AssignmentInHand
  <2>4. HandlerKnowsJob'
    BY <2>1, <2>2 DEF HandlerKnowsJob, TypeInv, HandlerHasMessage
  <2>5. RegistryKnowsActiveJob' /\ OneActiveJobPerLauncher'
    BY <2>1, <2>2 DEF RegistryKnowsActiveJob, OneActiveJobPerLauncher, TypeInv, TypeOK,
      RegistryType
  <2> QED
    BY <2>3, <2>4, <2>5
<1>31. ASSUME SpawnDelivery PROVE RegInv'
  BY <1>31 DEF Active, AssignmentInHand, ClaimCandidatesAreFree, DispatcherType,
    HandlerKnowsJob, LockSteps, OneActiveJobPerLauncher, RegInv, RegistryKnowsActiveJob,
    RegistryType, RunsOn, SocketType, SpawnDelivery, TablesType, Terminal, TypeInv,
    TypeOK, UnregisteredIsIdle, handler, registry, tables
<1>32. ASSUME Drain PROVE RegInv'
  BY <1>32 DEF Active, AssignmentInHand, ClaimCandidatesAreFree, DispatcherType, Drain,
    HandlerKnowsJob, LockSteps, OneActiveJobPerLauncher, RegInv, RegistryKnowsActiveJob,
    RegistryType, RunsOn, SocketType, TablesType, Terminal, TypeInv, TypeOK,
    UnregisteredIsIdle, dIdleSame, handler, registry, tables
<1>33. ASSUME RestartServer PROVE RegInv'
  BY <1>33 DEF Active, AssignmentInHand, ClaimCandidatesAreFree, DispatcherType,
    HandlerKnowsJob, LockSteps, OneActiveJobPerLauncher, RegInv, RegistryKnowsActiveJob,
    RegistryType, RestartServer, RunsOn, SocketType, TablesType, Terminal, TypeInv,
    TypeOK, UnregisteredIsIdle
<1>34. CASE UNCHANGED <<jobState, jobLauncher, registered, current, hstep, hjob, dstep, dIdle, dJob, dLauncher>>
  BY <1>34 DEF Active, AssignmentInHand, ClaimCandidatesAreFree, DispatcherType,
    HandlerKnowsJob, LockSteps, OneActiveJobPerLauncher, RegInv, RegistryKnowsActiveJob,
    RegistryType, RunsOn, SocketType, TablesType, Terminal, TypeInv, TypeOK,
    UnregisteredIsIdle
<1> QED
  BY <1>1, <1>2, <1>3, <1>4, <1>5, <1>6, <1>7, <1>8, <1>9, <1>10, <1>11, <1>12, <1>13,
    <1>14, <1>15, <1>16, <1>17, <1>18, <1>19, <1>20, <1>21, <1>22, <1>23, <1>24, <1>25,
    <1>26, <1>27, <1>28, <1>29, <1>30, <1>31, <1>32, <1>33, <1>34, AssignmentFrame

-----------------------------------------------------------------------------
(* The send locks: job.start before job.cancel, no job.start after worker.reset *)

\* The dispatcher has claimed j and not yet handed it to a delivery.
Assigning(j) == dstep \in {"mark", "lock"} /\ dJob = j
\* A kill under way is of a job that was claimed, and not of one being assigned
\* (request_kill waits for _assignment_lock).
KillHasLauncher ==
  \A j \in Jobs : kstep[j] # "none" => jobLauncher[j] \in Launchers /\ ~Assigning(j)
\* An expired job to be notified has a launcher.
ExpiredHasLauncher ==
  /\ \A j \in dExpired : jobLauncher[j] \in Launchers
  /\ dstep \in {"notifySend", "notifyDrop"} =>
       dJob \in Jobs /\ dLauncher \in Launchers /\ jobLauncher[dJob] = dLauncher
\* A delivery owns a job of its launcher; after a failed send the launcher is gone.
DeliveryOfAssignedJob ==
  \A l \in Launchers, j \in Jobs :
    delivery[l] = j => /\ jobLauncher[j] = l
                       /\ ~Assigning(j)
                       /\ dlstep[l] # "none"
                       /\ dlstep[l] = "persist" => l \notin registered
\* A job of a registered launcher was started, or its start is still owed by the
\* dispatcher or by the delivery that owns the send lock.
StartSentOrOwed ==
  \A j \in Jobs : jobLauncher[j] \in registered =>
    Start(j) \in sent \/ Assigning(j) \/ delivery[jobLauncher[j]] = j
\* Whoever sends job.cancel owns the send lock, so no delivery does.
SendersExcludeDelivery ==
  /\ \A j \in Jobs :
       kstep[j] = "sending" /\ jobLauncher[j] \in registered => delivery[jobLauncher[j]] = None
  /\ dstep = "notifySend" /\ dLauncher \in registered => delivery[dLauncher] = None
SendInv == KillHasLauncher /\ ExpiredHasLauncher /\ DeliveryOfAssignedJob /\ StartSentOrOwed
           /\ SendersExcludeDelivery /\ CancelFollowsStart

\* Which steps touch a send, or what decides whether it may go.
LEMMA SendFrame ==
  ASSUME [Next]_vars
  PROVE  \/ UNCHANGED <<jobLauncher, registered, dstep, dExpired, dJob, dLauncher, delivery, dlstep, kstep, sent>>
         \/ \E l \in Launchers :
              \/ Register(l) \/ BeginCleanup(l) \/ ResetDisconnects(l)
              \/ DeliverStart(l) \/ DeliveryFails(l) \/ PersistDeliveryFailure(l)
              \/ DropInvalid(l)
         \/ RevokeAccessKey
         \/ FailInvalid
         \/ SendExpired
         \/ DropExpired
         \/ Snapshot
         \/ MarkAssigned
         \/ SpawnDelivery
         \/ Drain
         \/ RestartServer
         \/ \E j \in Jobs :
              \/ RequestKill(j) \/ KillTakesSendLock(j) \/ KillSends(j)
              \/ KillSendFails(j) \/ KillFailsJob(j) \/ KillDisconnects(j)
              \/ NotifyExpired(j)
         \/ \E L \in SUBSET Launchers : Revalidate(L)
         \/ \E E \in SUBSET Jobs : ExpireJobs(E)
         \/ \E j \in Jobs, l \in Launchers, skip \in SUBSET Launchers :
              \/ Claim(j, l, skip)
         \/ \E skip \in SUBSET Launchers : ClaimNothing(skip)
<1>1. CASE \E l \in Launchers : Socket(l)
  BY <1>1 DEF CommitJobEvent, Connect, DisconnectRows, FinishCleanup, LoseConnection,
    PublishJobEvent, ReceiveHeartbeat, ReceiveJobEvent, ReceiveResetDone, Socket,
    WriteHeartbeat, deliveries, dispatcher, jobRows, registry, tables
<1>2. CASE \E j \in Jobs : CreateJob(j) \/ Kill(j)
  BY <1>2 DEF CreateJob, Kill, deliveries, dispatcher, registry
<1>3. CASE \E l \in Launchers : ResetTask(l) \/ Delivery(l)
  BY <1>3 DEF Delivery, RequestReset, ResetFailsJob, ResetKillsJob, ResetSendFails,
    ResetSends, ResetTakesSendLock, ResetTask, deliveries, dispatcher, registry, tables
<1>4. CASE Dispatch
  BY <1>4 DEF Dispatch
<1>5. CASE \/ RevokeAccessKey \/ RestartServer \/ UNCHANGED vars
           \/ \E L \in SUBSET Launchers : Reconcile(L)
  BY <1>5 DEF DisconnectRows, Reconcile, deliveries, dispatcher, jobRows, registry,
    tables, vars
<1> QED
  BY <1>1, <1>2, <1>3, <1>4, <1>5 DEF Next

\* Every step keeps job.start ahead of job.cancel.
LEMMA SendInvStep ==
  ASSUME TypeInv, TypeInv', TableInv, ConnInv, RegInv, SendInv, [Next]_vars
  PROVE  SendInv'
<1> USE NoneAssumption
<1>1. ASSUME NEW l \in Launchers, Register(l) PROVE SendInv'
  BY <1>1 DEF Assigning, CancelFollowsStart, ConnInv, DeliveriesType,
    DeliveryOfAssignedJob, DispatcherType, ExpiredHasLauncher, KillHasLauncher,
    KillsType, LockSteps, NewLauncherIsUnused, Register, RegistryType, SendInv,
    SendersExcludeDelivery, StartSentOrOwed, TablesType, TypeInv, TypeOK, deliveries,
    dispatcher, tables
<1>2. ASSUME NEW l \in Launchers, BeginCleanup(l) PROVE SendInv'
  BY <1>2 DEF Assigning, BeginCleanup, CancelFollowsStart, DeliveriesType,
    DeliveryOfAssignedJob, DispatcherType, ExpiredHasLauncher, KillHasLauncher,
    KillsType, LockSteps, RegistryType, SendInv, SendersExcludeDelivery,
    StartSentOrOwed, TablesType, TypeInv, TypeOK, Unregister, deliveries, dispatcher,
    tables
<1>3. ASSUME RevokeAccessKey PROVE SendInv'
  BY <1>3 DEF Assigning, CancelFollowsStart, CloseSockets, DeliveriesType,
    DeliveryOfAssignedJob, DisconnectLaunchers, DispatcherType, ExpiredHasLauncher,
    KillHasLauncher, KillsType, LockSteps, RegistryType, RevokeAccessKey, SendInv,
    SendersExcludeDelivery, StartSentOrOwed, TablesType, TypeInv, TypeOK, Unregister,
    deliveries, dispatcher, tables
<1>4. ASSUME NEW j \in Jobs, RequestKill(j) PROVE SendInv'
  BY <1>4 DEF ActiveHasLauncher, Assigning, AssignmentLockFree, CancelFollowsStart,
    DeliveriesType, DeliveryOfAssignedJob, DispatcherType, ExpiredHasLauncher,
    KillHasLauncher, KillsType, LockSteps, RegistryType, RequestKill, SendInv,
    SendersExcludeDelivery, StartSentOrOwed, TableInv, TablesType, TypeInv, TypeOK,
    deliveries, dispatcher, registry
<1>5. ASSUME NEW j \in Jobs, KillTakesSendLock(j) PROVE SendInv'
  BY <1>5 DEF Assigning, CancelFollowsStart, DeliveriesType, DeliveryOfAssignedJob,
    DispatcherType, ExpiredHasLauncher, KillHasLauncher, KillTakesSendLock, KillsType,
    LockSteps, RegistryType, SendInv, SendLockFree, SendersExcludeDelivery,
    StartSentOrOwed, TablesType, TypeInv, TypeOK, deliveries, dispatcher, registry,
    tables
<1>6. ASSUME NEW j \in Jobs, KillSends(j) PROVE SendInv'
  BY <1>6 DEF Assigning, CancelFollowsStart, CancelMessage, DeliveriesType,
    DeliveryOfAssignedJob, DispatcherType, ExpiredHasLauncher, KillHasLauncher,
    KillSends, KillsType, LockSteps, RegistryType, Send, SendInv,
    SendersExcludeDelivery, StartSentOrOwed, TablesType, TypeInv, TypeOK, deliveries,
    dispatcher, registry, tables
<1>7. ASSUME NEW j \in Jobs, KillSendFails(j) PROVE SendInv'
  BY <1>7 DEF Assigning, CancelFollowsStart, DeliveriesType, DeliveryOfAssignedJob,
    DispatcherType, ExpiredHasLauncher, KillHasLauncher, KillSendFails, KillsType,
    LockSteps, RegistryType, SendInv, SendersExcludeDelivery, StartSentOrOwed,
    TablesType, TypeInv, TypeOK, deliveries, dispatcher, registry, tables
<1>8. ASSUME NEW j \in Jobs, KillFailsJob(j) PROVE SendInv'
  BY <1>8 DEF Assigning, CancelFollowsStart, DeliveriesType, DeliveryOfAssignedJob,
    DispatcherType, ExpiredHasLauncher, FailAssigned, KillFailsJob, KillHasLauncher,
    KillsType, LockSteps, RegistryType, ReleasedRows, RunsOn, SendInv,
    SendersExcludeDelivery, StartSentOrOwed, TablesType, TypeInv, TypeOK, deliveries,
    dispatcher, registry
<1>9. ASSUME NEW j \in Jobs, KillDisconnects(j) PROVE SendInv'
  BY <1>9 DEF Assigning, CancelFollowsStart, CloseSockets, DeliveriesType,
    DeliveryOfAssignedJob, DisconnectLaunchers, DispatcherType, ExpiredHasLauncher,
    KillDisconnects, KillHasLauncher, KillsType, LockSteps, RegistryType, SendInv,
    SendersExcludeDelivery, StartSentOrOwed, TablesType, TypeInv, TypeOK, Unregister,
    deliveries, dispatcher, tables
<1>10. ASSUME NEW l \in Launchers, ResetDisconnects(l) PROVE SendInv'
  BY <1>10 DEF Assigning, CancelFollowsStart, CloseSockets, DeliveriesType,
    DeliveryOfAssignedJob, DisconnectLaunchers, DispatcherType, ExpiredHasLauncher,
    KillHasLauncher, KillsType, LockSteps, RegistryType, ResetDisconnects, SendInv,
    SendersExcludeDelivery, StartSentOrOwed, TablesType, TypeInv, TypeOK, Unregister,
    deliveries, dispatcher, tables
<1>11. ASSUME NEW l \in Launchers, DeliverStart(l) PROVE SendInv'
  BY <1>11 DEF Assigning, CancelFollowsStart, CancelMessage, DeliverStart,
    DeliveriesType, DeliveryHasJob, DeliveryOfAssignedJob, DispatcherType,
    ExpiredHasLauncher, KillHasLauncher, KillsType, LockSteps, RegistryType, Send,
    SendInv, SendersExcludeDelivery, Start, StartSentOrOwed, TablesType, TypeInv,
    TypeOK, dispatcher, registry, tables
<1>12. ASSUME NEW l \in Launchers, DeliveryFails(l) PROVE SendInv'
  BY <1>12 DEF Assigning, CancelFollowsStart, CloseSockets, DeliveriesType,
    DeliveryFails, DeliveryOfAssignedJob, DisconnectLaunchers, DispatcherType,
    ExpiredHasLauncher, KillHasLauncher, KillsType, LockSteps, RegistryType, SendInv,
    SendersExcludeDelivery, StartSentOrOwed, TablesType, TypeInv, TypeOK, Unregister,
    dispatcher, tables
<1>13. ASSUME NEW l \in Launchers, PersistDeliveryFailure(l) PROVE SendInv'
  BY <1>13 DEF Assigning, CancelFollowsStart, DeliveriesType, DeliveryOfAssignedJob,
    DispatcherType, ExpiredHasLauncher, FailAssigned, KillHasLauncher, KillsType,
    LockSteps, PersistDeliveryFailure, RegistryType, ReleasedRows, RunsOn, SendInv,
    SendersExcludeDelivery, StartSentOrOwed, TablesType, TypeInv, TypeOK, dispatcher,
    registry
<1>14. ASSUME NEW L \in SUBSET Launchers, Revalidate(L) PROVE SendInv'
  BY <1>14 DEF Assigning, CancelFollowsStart, DeliveriesType, DeliveryOfAssignedJob,
    DispatcherType, ExpiredHasLauncher, KillHasLauncher, KillsType, LockSteps,
    RegistryType, Revalidate, SendInv, SendersExcludeDelivery, StartSentOrOwed,
    TablesType, TypeInv, TypeOK, deliveries, registry, tables
<1>15. ASSUME NEW l \in Launchers, DropInvalid(l) PROVE SendInv'
  BY <1>15 DEF Assigning, CancelFollowsStart, CloseSockets, DeliveriesType,
    DeliveryOfAssignedJob, DisconnectLaunchers, DispatcherType, DropInvalid,
    ExpiredHasLauncher, KillHasLauncher, KillsType, LockSteps, RegistryType, SendInv,
    SendersExcludeDelivery, StartSentOrOwed, TablesType, TypeInv, TypeOK, Unregister,
    deliveries, dispatcher, tables
<1>16. ASSUME FailInvalid PROVE SendInv'
  BY <1>16 DEF Assigning, CancelFollowsStart, DeliveriesType, DeliveryOfAssignedJob,
    DisconnectRows, DispatcherType, ExpiredHasLauncher, FailInvalid, KillHasLauncher,
    KillsType, LockSteps, RegistryType, SendInv, SendersExcludeDelivery,
    StartSentOrOwed, TablesType, TypeInv, TypeOK, deliveries, jobRows, registry
<1>17. ASSUME NEW E \in SUBSET Jobs, ExpireJobs(E) PROVE SendInv'
  BY <1>17 DEF Assigning, CancelFollowsStart, DeliveriesType, DeliveryOfAssignedJob,
    DispatcherType, ExpireJobs, ExpiredHasLauncher, KillHasLauncher, KillsType,
    LockSteps, RegistryType, ReleasedRows, SendInv, SendersExcludeDelivery,
    StartSentOrOwed, TablesType, TypeInv, TypeOK, deliveries, registry
<1>18. ASSUME NEW j \in Jobs, NotifyExpired(j) PROVE SendInv'
  BY <1>18 DEF Assigning, CancelFollowsStart, DeliveriesType, DeliveryOfAssignedJob,
    DispatcherType, ExpiredHasLauncher, KillHasLauncher, KillsType, LockSteps,
    NotifyExpired, RegistryType, SendInv, SendLockFree, SendersExcludeDelivery,
    StartSentOrOwed, TablesType, TypeInv, TypeOK, deliveries, registry, tables
<1>19. ASSUME SendExpired PROVE SendInv'
  BY <1>19 DEF Assigning, CancelFollowsStart, CancelMessage, DeliveriesType,
    DeliveryOfAssignedJob, DispatcherType, ExpiredHasLauncher, KillHasLauncher,
    KillsType, LockSteps, RegistryType, Send, SendExpired, SendInv,
    SendersExcludeDelivery, StartSentOrOwed, TablesType, TypeInv, TypeOK, dIdleSame,
    deliveries, registry, tables
<1>20. ASSUME DropExpired PROVE SendInv'
  BY <1>20 DEF Assigning, CancelFollowsStart, CloseSockets, DeliveriesType,
    DeliveryOfAssignedJob, DisconnectLaunchers, DispatcherType, DropExpired,
    ExpiredHasLauncher, KillHasLauncher, KillsType, LockSteps, RegistryType, SendInv,
    SendersExcludeDelivery, StartSentOrOwed, TablesType, TypeInv, TypeOK, Unregister,
    deliveries, tables
<1>21. ASSUME Snapshot PROVE SendInv'
  BY <1>21 DEF Assigning, CancelFollowsStart, DeliveriesType, DeliveryOfAssignedJob,
    DispatcherType, ExpiredHasLauncher, KillHasLauncher, KillsType, LockSteps,
    RegistryType, SendInv, SendersExcludeDelivery, Snapshot, StartSentOrOwed,
    TablesType, TypeInv, TypeOK, deliveries, registry, tables
<1>22. ASSUME NEW j \in Jobs, NEW l \in Launchers, NEW skip \in SUBSET Launchers,
              Claim(j, l, skip)
       PROVE  SendInv'
  <2> USE DEF SendInv
  <2>1. /\ dstep = "claim" /\ dstep' = "mark" /\ dJob' = j /\ dLauncher' = l
        /\ \A i \in Jobs : jobLauncher'[i] = IF i = j THEN l ELSE jobLauncher[i]
        /\ UNCHANGED <<registered, dExpired, delivery, dlstep, kstep, sent>>
    BY <1>22 DEF Claim, TypeInv, TypeOK, TablesType, registry, deliveries
  <2>2. jobLauncher[j] = None
    BY <1>22 DEF Claim, Claimable, TableInv, UnassignedHasNoLauncher
  <2>3. \A m \in Launchers : delivery[m] # j
    BY <2>2 DEF DeliveryOfAssignedJob
  <2>4. KillHasLauncher' /\ ExpiredHasLauncher'
    BY <2>1, <2>2 DEF KillHasLauncher, ExpiredHasLauncher, Assigning, TypeInv, TypeOK,
      DispatcherType
  <2>5. DeliveryOfAssignedJob' /\ StartSentOrOwed'
    BY <2>1, <2>3 DEF DeliveryOfAssignedJob, StartSentOrOwed, Assigning
  <2>6. SendersExcludeDelivery' /\ CancelFollowsStart'
    BY <2>1, <2>2 DEF SendersExcludeDelivery, CancelFollowsStart, KillHasLauncher
  <2> QED
    BY <2>4, <2>5, <2>6
<1>23. ASSUME NEW skip \in SUBSET Launchers, ClaimNothing(skip) PROVE SendInv'
  BY <1>23 DEF Assigning, CancelFollowsStart, ClaimNothing, DeliveriesType,
    DeliveryOfAssignedJob, DispatcherType, ExpiredHasLauncher, KillHasLauncher,
    KillsType, LockSteps, RegistryType, SendInv, SendersExcludeDelivery,
    StartSentOrOwed, TablesType, TypeInv, TypeOK, deliveries, registry, tables
<1>24. ASSUME MarkAssigned PROVE SendInv'
  BY <1>24 DEF Assigning, CancelFollowsStart, DeliveriesType, DeliveryOfAssignedJob,
    DispatcherType, ExpiredHasLauncher, KillHasLauncher, KillsType, LockSteps,
    MarkAssigned, RegistryType, SendInv, SendersExcludeDelivery, StartSentOrOwed,
    TablesType, TypeInv, TypeOK, dIdleSame, deliveries, tables
<1>25. ASSUME SpawnDelivery PROVE SendInv'
  BY <1>25 DEF Assigning, AssignmentInHand, CancelFollowsStart, DeliveriesType,
    DeliveryOfAssignedJob, DispatcherHasJob, DispatcherType, ExpiredHasLauncher,
    KillHasLauncher, KillsType, LockSteps, RegInv, RegistryType, SendInv, SendLockFree,
    SendersExcludeDelivery, SpawnDelivery, StartSentOrOwed, TablesType, TypeInv, TypeOK,
    registry, tables
<1>26. ASSUME Drain PROVE SendInv'
  BY <1>26 DEF Assigning, CancelFollowsStart, DeliveriesType, DeliveryOfAssignedJob,
    DispatcherType, Drain, ExpiredHasLauncher, KillHasLauncher, KillsType, LockSteps,
    RegistryType, SendInv, SendersExcludeDelivery, StartSentOrOwed, TablesType, TypeInv,
    TypeOK, dIdleSame, deliveries, registry, tables
<1>27. ASSUME RestartServer PROVE SendInv'
  BY <1>27 DEF Assigning, CancelFollowsStart, DeliveriesType, DeliveryOfAssignedJob,
    DispatcherType, ExpiredHasLauncher, KillHasLauncher, KillsType, LockSteps,
    RegistryType, RestartServer, SendInv, SendersExcludeDelivery, StartSentOrOwed,
    TablesType, TypeInv, TypeOK
<1>28. CASE UNCHANGED <<jobLauncher, registered, dstep, dExpired, dJob, dLauncher, delivery, dlstep, kstep, sent>>
  BY <1>28 DEF Assigning, CancelFollowsStart, DeliveriesType, DeliveryOfAssignedJob,
    DispatcherType, ExpiredHasLauncher, KillHasLauncher, KillsType, LockSteps,
    RegistryType, SendInv, SendersExcludeDelivery, StartSentOrOwed, TablesType, TypeInv,
    TypeOK
<1> QED
  BY <1>1, <1>2, <1>3, <1>4, <1>5, <1>6, <1>7, <1>8, <1>9, <1>10, <1>11, <1>12, <1>13,
    <1>14, <1>15, <1>16, <1>17, <1>18, <1>19, <1>20, <1>21, <1>22, <1>23, <1>24, <1>25,
    <1>26, <1>27, <1>28, SendFrame

\* _assignment_lock keeps a reset from starting between snapshot and delivery.
CandidatesAreNotResetting ==
  /\ \A l \in dIdle : ~resetting[l]
  /\ dstep \in {"mark", "lock"} => ~resetting[dLauncher]
\* worker.reset and what follows it exclude a delivery.
ResetExcludesDelivery ==
  \A l \in registered :
    /\ rstep[l] = "sending" => delivery[l] = None
    /\ resetting[l] /\ rstep[l] = "none" => delivery[l] = None
ResetInv == CandidatesAreNotResetting /\ ResetExcludesDelivery

\* A step by which launchers may only be unregistered and resets only end.
EndsResets ==
  /\ registered' \subseteq registered
  /\ \A l \in Launchers : resetting'[l] => resetting[l]
  /\ \A l \in registered' : rstep'[l] = rstep[l]
  /\ UNCHANGED <<delivery, dIdle>>
  /\ dstep' \in {"mark", "lock"} => UNCHANGED <<dstep, dLauncher>>
LEMMA EndsResetsStep ==
  ASSUME TypeInv, ResetInv, EndsResets PROVE ResetInv'
  BY DEF EndsResets, ResetInv, CandidatesAreNotResetting, ResetExcludesDelivery, TypeInv,
    TypeOK, RegistryType, DispatcherType, DispatcherHasJob

\* Which steps touch a reset, or what it has to wait for.
LEMMA ResetFrame ==
  ASSUME [Next]_vars
  PROVE  \/ UNCHANGED <<registered, resetting, dstep, dIdle, dLauncher, delivery, rstep>>
         \/ \E l \in Launchers :
              \/ Register(l) \/ ReceiveResetDone(l) \/ BeginCleanup(l)
              \/ RequestReset(l) \/ ResetKillsJob(l) \/ ResetTakesSendLock(l)
              \/ ResetSends(l) \/ ResetSendFails(l) \/ ResetFailsJob(l)
              \/ ResetDisconnects(l) \/ DeliverStart(l) \/ DeliveryFails(l)
              \/ PersistDeliveryFailure(l) \/ DropInvalid(l)
         \/ RevokeAccessKey
         \/ FailInvalid
         \/ SendExpired
         \/ DropExpired
         \/ Snapshot
         \/ MarkAssigned
         \/ SpawnDelivery
         \/ Drain
         \/ RestartServer
         \/ \E j \in Jobs : KillDisconnects(j) \/ NotifyExpired(j)
         \/ \E L \in SUBSET Launchers : Revalidate(L)
         \/ \E E \in SUBSET Jobs : ExpireJobs(E)
         \/ \E j \in Jobs, l \in Launchers, skip \in SUBSET Launchers :
              \/ Claim(j, l, skip)
         \/ \E skip \in SUBSET Launchers : ClaimNothing(skip)
<1>1. CASE \E l \in Launchers : Socket(l)
  BY <1>1 DEF CommitJobEvent, Connect, FinishCleanup, LoseConnection, PublishJobEvent,
    ReceiveHeartbeat, ReceiveJobEvent, Socket, WriteHeartbeat, deliveries, dispatcher,
    registry, resets
<1>2. CASE \E j \in Jobs : CreateJob(j) \/ Kill(j)
  BY <1>2 DEF CreateJob, Kill, KillFailsJob, KillSendFails, KillSends,
    KillTakesSendLock, RequestKill, deliveries, dispatcher, registry, resets
<1>3. CASE \E l \in Launchers : ResetTask(l) \/ Delivery(l)
  BY <1>3 DEF Delivery, ResetTask
<1>4. CASE Dispatch
  BY <1>4 DEF Dispatch
<1>5. CASE \/ RevokeAccessKey \/ RestartServer \/ UNCHANGED vars
           \/ \E L \in SUBSET Launchers : Reconcile(L)
  BY <1>5 DEF Reconcile, deliveries, dispatcher, registry, resets, vars
<1> QED
  BY <1>1, <1>2, <1>3, <1>4, <1>5 DEF Next

\* Every step keeps assignments and job.start away from a resetting launcher.
LEMMA ResetInvStep ==
  ASSUME TypeInv, TypeInv', TableInv, ConnInv, RegInv, SendInv, ResetInv, [Next]_vars
  PROVE  ResetInv'
<1> USE NoneAssumption
<1>1. ASSUME NEW l \in Launchers, Register(l) PROVE ResetInv'
  BY <1>1 DEF CandidatesAreNotResetting, ConnInv, DeliveriesType, DeliveryOfAssignedJob,
    DispatcherType, LockSteps, NewLauncherIsUnused, Register, RegistryType,
    ResetExcludesDelivery, ResetInv, ResetsType, SendInv, TypeInv, TypeOK, deliveries,
    dispatcher, resets
<1>2. ASSUME NEW l \in Launchers, ReceiveResetDone(l) PROVE ResetInv'
  <2>1. EndsResets
    BY <1>2 DEF EndsResets, ReceiveResetDone, RegistryType, ResetsType, TypeInv, TypeOK,
      deliveries, dispatcher, resets
  <2> QED
    BY <2>1, EndsResetsStep
<1>3. ASSUME NEW l \in Launchers, BeginCleanup(l) PROVE ResetInv'
  <2>1. EndsResets
    BY <1>3 DEF BeginCleanup, EndsResets, RegistryType, ResetsType, TypeInv, TypeOK,
      Unregister, deliveries, dispatcher, resets
  <2> QED
    BY <2>1, EndsResetsStep
<1>4. ASSUME RevokeAccessKey PROVE ResetInv'
  <2>1. EndsResets
    BY <1>4 DEF CloseSockets, DisconnectLaunchers, EndsResets, RegistryType, ResetsType,
      RevokeAccessKey, TypeInv, TypeOK, Unregister, deliveries, dispatcher, resets
  <2> QED
    BY <2>1, EndsResetsStep
<1>5. ASSUME NEW j \in Jobs, KillDisconnects(j) PROVE ResetInv'
  <2>1. EndsResets
    BY <1>5 DEF CloseSockets, DisconnectLaunchers, EndsResets, KillDisconnects,
      RegistryType, ResetsType, TypeInv, TypeOK, Unregister, deliveries, dispatcher,
      resets
  <2> QED
    BY <2>1, EndsResetsStep
<1>6. ASSUME NEW l \in Launchers, RequestReset(l) PROVE ResetInv'
  BY <1>6 DEF AssignmentLockFree, CandidatesAreNotResetting, ClaimCandidatesAreFree,
    DeliveriesType, DispatcherType, LockSteps, RegInv, RegistryType, RequestReset,
    ResetExcludesDelivery, ResetInv, ResetsType, TypeInv, TypeOK, deliveries, dispatcher
<1>7. ASSUME NEW l \in Launchers, ResetKillsJob(l) PROVE ResetInv'
  BY <1>7 DEF CandidatesAreNotResetting, DeliveriesType, DispatcherType, LockSteps,
    RegistryType, ResetExcludesDelivery, ResetInv, ResetKillsJob, ResetsType, TypeInv,
    TypeOK, deliveries, dispatcher, registry
<1>8. ASSUME NEW l \in Launchers, ResetTakesSendLock(l) PROVE ResetInv'
  BY <1>8 DEF CandidatesAreNotResetting, DeliveriesType, DispatcherType, LockSteps,
    RegistryType, ResetExcludesDelivery, ResetInv, ResetTakesSendLock, ResetsType,
    SendLockFree, TypeInv, TypeOK, deliveries, dispatcher, registry
<1>9. ASSUME NEW l \in Launchers, ResetSends(l) PROVE ResetInv'
  BY <1>9 DEF CandidatesAreNotResetting, DeliveriesType, DispatcherType, LockSteps,
    RegistryType, ResetExcludesDelivery, ResetInv, ResetSends, ResetsType, TypeInv,
    TypeOK, deliveries, dispatcher, registry
<1>10. ASSUME NEW l \in Launchers, ResetSendFails(l) PROVE ResetInv'
  BY <1>10 DEF CandidatesAreNotResetting, DeliveriesType, DispatcherType, LockSteps,
    RegistryType, ResetExcludesDelivery, ResetInv, ResetSendFails, ResetsType, TypeInv,
    TypeOK, deliveries, dispatcher, registry
<1>11. ASSUME NEW l \in Launchers, ResetFailsJob(l) PROVE ResetInv'
  BY <1>11 DEF CandidatesAreNotResetting, DeliveriesType, DispatcherType, FailAssigned,
    LockSteps, RegistryType, ReleasedRows, ResetExcludesDelivery, ResetFailsJob,
    ResetInv, ResetsType, RunsOn, TypeInv, TypeOK, deliveries, dispatcher, registry
<1>12. ASSUME NEW l \in Launchers, ResetDisconnects(l) PROVE ResetInv'
  <2>1. EndsResets
    BY <1>12 DEF CloseSockets, DisconnectLaunchers, EndsResets, RegistryType,
      ResetDisconnects, ResetsType, TypeInv, TypeOK, Unregister, deliveries, dispatcher
  <2> QED
    BY <2>1, EndsResetsStep
<1>13. ASSUME NEW l \in Launchers, DeliverStart(l) PROVE ResetInv'
  BY <1>13 DEF CandidatesAreNotResetting, DeliverStart, DeliveriesType, DispatcherType,
    LockSteps, RegistryType, ResetExcludesDelivery, ResetInv, ResetsType, Start,
    TypeInv, TypeOK, dispatcher, registry, resets
<1>14. ASSUME NEW l \in Launchers, DeliveryFails(l) PROVE ResetInv'
  <2>1. EndsResets
    BY <1>14 DEF CloseSockets, DeliveryFails, DisconnectLaunchers, EndsResets,
      RegistryType, ResetsType, TypeInv, TypeOK, Unregister, dispatcher, resets
  <2> QED
    BY <2>1, EndsResetsStep
<1>15. ASSUME NEW l \in Launchers, PersistDeliveryFailure(l) PROVE ResetInv'
  BY <1>15 DEF CandidatesAreNotResetting, DeliveriesType, DispatcherType, FailAssigned,
    LockSteps, PersistDeliveryFailure, RegistryType, ReleasedRows,
    ResetExcludesDelivery, ResetInv, ResetsType, RunsOn, TypeInv, TypeOK, dispatcher,
    registry, resets
<1>16. ASSUME NEW L \in SUBSET Launchers, Revalidate(L) PROVE ResetInv'
  BY <1>16 DEF CandidatesAreNotResetting, DeliveriesType, DispatcherType, LockSteps,
    RegistryType, ResetExcludesDelivery, ResetInv, ResetsType, Revalidate, TypeInv,
    TypeOK, deliveries, registry, resets
<1>17. ASSUME NEW l \in Launchers, DropInvalid(l) PROVE ResetInv'
  <2>1. EndsResets
    BY <1>17 DEF CloseSockets, DisconnectLaunchers, DropInvalid, EndsResets, RegistryType,
      ResetsType, TypeInv, TypeOK, Unregister, deliveries, dispatcher, resets
  <2> QED
    BY <2>1, EndsResetsStep
<1>18. ASSUME FailInvalid PROVE ResetInv'
  BY <1>18 DEF CandidatesAreNotResetting, DeliveriesType, DisconnectRows,
    DispatcherType, FailInvalid, LockSteps, RegistryType, ResetExcludesDelivery,
    ResetInv, ResetsType, TypeInv, TypeOK, deliveries, registry, resets
<1>19. ASSUME NEW E \in SUBSET Jobs, ExpireJobs(E) PROVE ResetInv'
  BY <1>19 DEF CandidatesAreNotResetting, DeliveriesType, DispatcherType, ExpireJobs,
    LockSteps, RegistryType, ReleasedRows, ResetExcludesDelivery, ResetInv, ResetsType,
    TypeInv, TypeOK, deliveries, registry, resets
<1>20. ASSUME NEW j \in Jobs, NotifyExpired(j) PROVE ResetInv'
  BY <1>20 DEF CandidatesAreNotResetting, DeliveriesType, DispatcherType, LockSteps,
    NotifyExpired, RegistryType, ResetExcludesDelivery, ResetInv, ResetsType, TypeInv,
    TypeOK, deliveries, registry, resets
<1>21. ASSUME SendExpired PROVE ResetInv'
  BY <1>21 DEF CancelMessage, CandidatesAreNotResetting, DeliveriesType, DispatcherType,
    LockSteps, RegistryType, ResetExcludesDelivery, ResetInv, ResetsType, SendExpired,
    TypeInv, TypeOK, dIdleSame, deliveries, registry, resets
<1>22. ASSUME DropExpired PROVE ResetInv'
  <2>1. EndsResets
    BY <1>22 DEF CloseSockets, DisconnectLaunchers, DropExpired, EndsResets, RegistryType,
      ResetsType, TypeInv, TypeOK, Unregister, deliveries, resets
  <2> QED
    BY <2>1, EndsResetsStep
<1>23. ASSUME Snapshot PROVE ResetInv'
  BY <1>23 DEF CandidatesAreNotResetting, DeliveriesType, DispatcherType, IdleLaunchers,
    LockSteps, RegistryType, ResetExcludesDelivery, ResetInv, ResetsType, Snapshot,
    TypeInv, TypeOK, deliveries, registry, resets
<1>24. ASSUME NEW j \in Jobs, NEW l \in Launchers, NEW skip \in SUBSET Launchers,
              Claim(j, l, skip)
       PROVE  ResetInv'
  BY <1>24 DEF CandidatesAreNotResetting, Claim, ClaimCandidatesAreFree, DeliveriesType,
    DispatcherType, LockSteps, RegInv, RegistryType, ResetExcludesDelivery, ResetInv,
    ResetsType, TypeInv, TypeOK, Unlocked, deliveries, registry, resets
<1>25. ASSUME NEW skip \in SUBSET Launchers, ClaimNothing(skip) PROVE ResetInv'
  BY <1>25 DEF CandidatesAreNotResetting, ClaimNothing, DeliveriesType, DispatcherType,
    LockSteps, RegistryType, ResetExcludesDelivery, ResetInv, ResetsType, TypeInv,
    TypeOK, deliveries, registry, resets
<1>26. ASSUME MarkAssigned PROVE ResetInv'
  BY <1>26 DEF CandidatesAreNotResetting, DeliveriesType, DispatcherType, LockSteps,
    MarkAssigned, RegistryType, ResetExcludesDelivery, ResetInv, ResetsType, TypeInv,
    TypeOK, dIdleSame, deliveries, resets
<1>27. ASSUME SpawnDelivery PROVE ResetInv'
  BY <1>27 DEF CandidatesAreNotResetting, DeliveriesType, DispatcherHasJob,
    DispatcherType, LockSteps, RegistryType, ResetExcludesDelivery, ResetInv,
    ResetsType, SendLockFree, SpawnDelivery, TypeInv, TypeOK, registry, resets
<1>28. ASSUME Drain PROVE ResetInv'
  BY <1>28 DEF CandidatesAreNotResetting, DeliveriesType, DispatcherType, Drain,
    LockSteps, RegistryType, ResetExcludesDelivery, ResetInv, ResetsType, TypeInv,
    TypeOK, dIdleSame, deliveries, registry, resets
<1>29. ASSUME RestartServer PROVE ResetInv'
  BY <1>29 DEF CandidatesAreNotResetting, DeliveriesType, DispatcherType, LockSteps,
    RegistryType, ResetExcludesDelivery, ResetInv, ResetsType, RestartServer, TypeInv,
    TypeOK
<1>30. CASE UNCHANGED <<registered, resetting, dstep, dIdle, dLauncher, delivery, rstep>>
  BY <1>30 DEF CandidatesAreNotResetting, DeliveriesType, DispatcherType, LockSteps,
    RegistryType, ResetExcludesDelivery, ResetInv, ResetsType, TypeInv, TypeOK
<1> QED
  BY <1>1, <1>2, <1>3, <1>4, <1>5, <1>6, <1>7, <1>8, <1>9, <1>10, <1>11, <1>12, <1>13,
    <1>14, <1>15, <1>16, <1>17, <1>18, <1>19, <1>20, <1>21, <1>22, <1>23, <1>24, <1>25,
    <1>26, <1>27, <1>28, <1>29, <1>30, ResetFrame

-----------------------------------------------------------------------------
(* The theorems *)

SafetyInv == TypeInv /\ TableInv /\ ConnInv /\ RegInv /\ SendInv /\ ResetInv

\* SafetyInv is an inductive invariant.
LEMMA SafetyInvariant == Spec => []SafetyInv
<1>1. Init => SafetyInv
  <2> SUFFICES ASSUME Init PROVE SafetyInv
    OBVIOUS
  <2> USE DEF Init
  <2>1. TypeInv
    BY InitType
  <2>2. TableInv
    BY DEF TableInv, UnassignedHasNoLauncher, ActiveHasLauncher, GoneLauncherHasNoJob,
      RunsOn, Active
  <2>3. ConnInv
    BY NoneAssumption DEF ConnInv, RowIffConnected, NewLauncherIsUnused,
      RegisteredIsConnected, HandlerHasSocket, DoneIsGone
  <2>4. RegInv
    BY DEF RegInv, UnregisteredIsIdle, ClaimCandidatesAreFree, AssignmentInHand,
      HandlerKnowsJob, RegistryKnowsActiveJob, OneActiveJobPerLauncher, Active
  <2>5. SendInv
    BY NoneAssumption DEF SendInv, KillHasLauncher, ExpiredHasLauncher, Assigning,
      DeliveryOfAssignedJob, StartSentOrOwed, SendersExcludeDelivery, CancelFollowsStart
  <2>6. ResetInv
    BY DEF ResetInv, CandidatesAreNotResetting, ResetExcludesDelivery
  <2> QED
    BY <2>1, <2>2, <2>3, <2>4, <2>5, <2>6 DEF SafetyInv
<1>2. SafetyInv /\ [Next]_vars => SafetyInv'
  BY StepType, TableInvStep, ConnInvStep, RegInvStep, SendInvStep, ResetInvStep
    DEF SafetyInv
<1> QED
  BY <1>1, <1>2, PTL DEF Spec

\* No launcher is given a second job while its first is active in the table.
THEOREM OneActiveJob == Spec => []OneActiveJobPerLauncher
<1>1. SafetyInv => OneActiveJobPerLauncher
  BY DEF SafetyInv, RegInv
<1> QED
  BY <1>1, SafetyInvariant, PTL

\* current_job_id names the active job of every registered launcher, but for
\* the job whose assignment the dispatcher has just committed.
THEOREM RegistryAgreesWithTable == Spec => []RegistryKnowsActiveJob
<1>1. SafetyInv => RegistryKnowsActiveJob
  BY DEF SafetyInv, RegInv
<1> QED
  BY <1>1, SafetyInvariant, PTL

\* job.cancel never overtakes job.start on a control socket.
THEOREM StartBeforeCancel == Spec => []CancelFollowsStart
<1>1. SafetyInv => CancelFollowsStart
  BY DEF SafetyInv, SendInv
<1> QED
  BY <1>1, SafetyInvariant, PTL

\* A row marked disconnected has no active job, before and after restarts.
THEOREM GoneLauncherIsEmpty == Spec => []GoneLauncherHasNoJob
<1>1. SafetyInv => GoneLauncherHasNoJob
  BY DEF SafetyInv, TableInv
<1> QED
  BY <1>1, SafetyInvariant, PTL

\* A launcher whose handler has cleaned up is out of every table.
THEOREM LostLauncherStaysClean == Spec => []LostLauncherIsClean
<1>1. SafetyInv => LostLauncherIsClean
  BY DEF SafetyInv, TableInv, GoneLauncherHasNoJob, ConnInv, DoneIsGone,
    RegisteredIsConnected, LostLauncherIsClean
<1> QED
  BY <1>1, SafetyInvariant, PTL

\* No sweep marks the row of a registered launcher disconnected.
THEOREM SweepsSpareRegistered == Spec => []RegisteredLauncherKeepsRow
<1>1. SafetyInv => RegisteredLauncherKeepsRow
  BY DEF SafetyInv, ConnInv, RegisteredIsConnected, RegisteredLauncherKeepsRow
<1> QED
  BY <1>1, SafetyInvariant, PTL
-----------------------------------------------------------------------------
(* Action properties *)

\* No step rewrites the end of a job or its launcher.
LEMMA FinalStepHolds ==
  ASSUME TypeInv, TableInv, [Next]_vars
  PROVE  FinalStep
<1>1. ASSUME NEW j \in Jobs, CreateJob(j) PROVE FinalStep
  BY <1>1 DEF Active, CreateJob, FinalStep, TablesType, Terminal, TypeInv, TypeOK
<1>2. ASSUME NEW l \in Launchers, CommitJobEvent(l) PROVE FinalStep
  <2>1. hjob[l] \in Jobs
    BY <1>2 DEF CommitJobEvent, TypeInv, HandlerHasMessage
  <2>2. CASE EventApplies(hkind[l], hjob[l], l)
    <3>1. jobState[hjob[l]] \in Active
      BY <2>1, <2>2, EventState
    <3> QED
      BY <1>2, <2>1, <2>2, <3>1 DEF CommitJobEvent, FinalStep, Active, Terminal, TypeInv,
        TypeOK, TablesType
  <2>3. CASE ~EventApplies(hkind[l], hjob[l], l)
    BY <1>2, <2>3 DEF CommitJobEvent, FinalStep
  <2> QED
    BY <2>2, <2>3
<1>3. ASSUME NEW l \in Launchers, FinishCleanup(l) PROVE FinalStep
  BY <1>3 DEF Active, DisconnectRows, FinalStep, FinishCleanup, TablesType, Terminal,
    TypeInv, TypeOK, jobRows
<1>4. ASSUME NEW L \in SUBSET Launchers, Reconcile(L) PROVE FinalStep
  BY <1>4 DEF Active, DisconnectRows, FinalStep, Reconcile, TablesType, Terminal,
    TypeInv, TypeOK, jobRows
<1>5. ASSUME NEW j \in Jobs, RequestKill(j) PROVE FinalStep
  BY <1>5 DEF Active, FinalStep, RequestKill, TablesType, Terminal, TypeInv, TypeOK
<1>6. ASSUME NEW j \in Jobs, KillFailsJob(j) PROVE FinalStep
  BY <1>6 DEF Active, FailAssigned, FinalStep, KillFailsJob, ReleasedRows, RunsOn,
    TablesType, Terminal, TypeInv, TypeOK
<1>7. ASSUME NEW l \in Launchers, ResetFailsJob(l) PROVE FinalStep
  BY <1>7 DEF Active, FailAssigned, FinalStep, ReleasedRows, ResetFailsJob, RunsOn,
    TablesType, Terminal, TypeInv, TypeOK
<1>8. ASSUME NEW l \in Launchers, PersistDeliveryFailure(l) PROVE FinalStep
  BY <1>8 DEF Active, FailAssigned, FinalStep, PersistDeliveryFailure, ReleasedRows,
    RunsOn, TablesType, Terminal, TypeInv, TypeOK
<1>9. ASSUME FailInvalid PROVE FinalStep
  BY <1>9 DEF Active, DisconnectRows, FailInvalid, FinalStep, TablesType, Terminal,
    TypeInv, TypeOK, jobRows
<1>10. ASSUME NEW E \in SUBSET Jobs, ExpireJobs(E) PROVE FinalStep
  BY <1>10 DEF Active, ExpireJobs, FinalStep, ReleasedRows, TablesType, Terminal,
    TypeInv, TypeOK
<1>11. ASSUME NEW j \in Jobs, NEW l \in Launchers, NEW skip \in SUBSET Launchers,
              Claim(j, l, skip)
       PROVE  FinalStep
  BY <1>11 DEF Active, Claim, Claimable, FinalStep, TableInv, TablesType, Terminal,
    TypeInv, TypeOK, UnassignedHasNoLauncher
<1>12. ASSUME RestartServer PROVE FinalStep
  BY <1>12 DEF Active, FinalStep, RestartServer, TablesType, Terminal, TypeInv, TypeOK
<1>13. CASE UNCHANGED <<jobState, jobLauncher, rowGone>>
  BY <1>13 DEF Active, FinalStep, TablesType, Terminal, TypeInv, TypeOK
<1> QED
  BY <1>1, <1>2, <1>3, <1>4, <1>5, <1>6, <1>7, <1>8, <1>9, <1>10, <1>11, <1>12, <1>13,
    JobsFrame

\* No step gives a resetting launcher a job.
LEMMA ResettingStepHolds ==
  ASSUME TypeInv, RegInv, ResetInv, [Next]_vars
  PROVE  ResettingStep
<1>1. ASSUME NEW l \in Launchers, Register(l) PROVE ResettingStep
  BY <1>1 DEF Register, RegistryType, ResettingStep, TypeInv, TypeOK
<1>2. ASSUME NEW l \in Launchers, PublishJobEvent(l) PROVE ResettingStep
  BY <1>2 DEF PublishJobEvent, RegistryType, ResettingStep, TypeInv, TypeOK
<1>3. ASSUME NEW l \in Launchers, ReceiveResetDone(l) PROVE ResettingStep
  BY <1>3 DEF ReceiveResetDone, RegistryType, ResettingStep, TypeInv, TypeOK
<1>4. ASSUME NEW l \in Launchers, BeginCleanup(l) PROVE ResettingStep
  BY <1>4 DEF BeginCleanup, RegistryType, ResettingStep, TypeInv, TypeOK, Unregister
<1>5. ASSUME RevokeAccessKey PROVE ResettingStep
  BY <1>5 DEF CloseSockets, DisconnectLaunchers, RegistryType, ResettingStep,
    RevokeAccessKey, TypeInv, TypeOK, Unregister
<1>6. ASSUME NEW j \in Jobs, KillDisconnects(j) PROVE ResettingStep
  BY <1>6 DEF CloseSockets, DisconnectLaunchers, KillDisconnects, RegistryType,
    ResettingStep, TypeInv, TypeOK, Unregister
<1>7. ASSUME NEW l \in Launchers, RequestReset(l) PROVE ResettingStep
  BY <1>7 DEF RegistryType, RequestReset, ResettingStep, TypeInv, TypeOK
<1>8. ASSUME NEW l \in Launchers, ResetDisconnects(l) PROVE ResettingStep
  BY <1>8 DEF CloseSockets, DisconnectLaunchers, RegistryType, ResetDisconnects,
    ResettingStep, TypeInv, TypeOK, Unregister
<1>9. ASSUME NEW l \in Launchers, DeliveryFails(l) PROVE ResettingStep
  BY <1>9 DEF CloseSockets, DeliveryFails, DisconnectLaunchers, RegistryType,
    ResettingStep, TypeInv, TypeOK, Unregister
<1>10. ASSUME NEW l \in Launchers, DropInvalid(l) PROVE ResettingStep
  BY <1>10 DEF CloseSockets, DisconnectLaunchers, DropInvalid, RegistryType,
    ResettingStep, TypeInv, TypeOK, Unregister
<1>11. ASSUME DropExpired PROVE ResettingStep
  BY <1>11 DEF CloseSockets, DisconnectLaunchers, DropExpired, RegistryType,
    ResettingStep, TypeInv, TypeOK, Unregister
<1>12. ASSUME MarkAssigned PROVE ResettingStep
  BY <1>12 DEF CandidatesAreNotResetting, DispatcherHasJob, MarkAssigned, RegistryType,
    ResetInv, ResettingStep, TypeInv, TypeOK
<1>13. ASSUME RestartServer PROVE ResettingStep
  BY <1>13 DEF RegistryType, ResettingStep, RestartServer, TypeInv, TypeOK
<1>14. CASE UNCHANGED registry
  BY <1>14 DEF RegistryType, ResettingStep, TypeInv, TypeOK, registry
<1> QED
  BY <1>1, <1>2, <1>3, <1>4, <1>5, <1>6, <1>7, <1>8, <1>9, <1>10, <1>11, <1>12, <1>13,
    <1>14, RegistryFrame

\* No step sends job.start after worker.reset.
LEMMA StartStepHolds ==
  ASSUME TypeInv, SendInv, ResetInv, [Next]_vars
  PROVE  StartStep
<1>1. ASSUME NEW j \in Jobs, KillSends(j) PROVE StartStep
  BY <1>1 DEF CancelMessage, KillSends, Send, Start, StartStep
<1>2. ASSUME NEW l \in Launchers, DeliverStart(l) PROVE StartStep
  <2>1. /\ l \in registered /\ delivery[l] \in Jobs
        /\ sent' = sent \cup {Start(delivery[l])}
    BY <1>2 DEF DeliverStart, Send, TypeInv, DeliveryHasJob
  <2>2. jobLauncher[delivery[l]] = l
    BY <2>1 DEF SendInv, DeliveryOfAssignedJob
  <2>3. resetting[l] => rstep[l] # "none"
    BY <2>1, NoneAssumption DEF ResetInv, ResetExcludesDelivery
  <2>4. \A j \in Jobs : Start(j) = Start(delivery[l]) => j = delivery[l]
    BY DEF Start
  <2> QED
    BY <2>1, <2>2, <2>3, <2>4 DEF StartStep
<1>3. ASSUME SendExpired PROVE StartStep
  BY <1>3 DEF CancelMessage, Send, SendExpired, Start, StartStep
<1>4. CASE UNCHANGED sent
  BY <1>4 DEF Start, StartStep
<1> QED
  BY <1>1, <1>2, <1>3, <1>4, SentFrame

\* A launcher that is not registered, nor about to be, never is again.
Missing(l) == l \notin registered /\ ws[l] \notin {"absent", "connecting"}
MissingStep == \A l \in Launchers : Missing(l) => Missing(l)'

\* Only Register adds to the registry, and no socket goes back to connecting.
LEMMA MissingStepHolds ==
  ASSUME TypeInv, [Next]_vars
  PROVE  MissingStep
<1> USE DEF Missing, MissingStep, TypeInv, TypeOK, SocketType
<1>1. registered' \subseteq registered \/ \E l \in Launchers : Register(l)
  BY RegistryFrame DEF BeginCleanup, CloseSockets, DeliveryFails, DisconnectLaunchers,
    DropExpired, DropInvalid, KillDisconnects, MarkAssigned, PublishJobEvent,
    ReceiveResetDone, RequestReset, ResetDisconnects, RestartServer, RevokeAccessKey,
    Unregister, registry
<1> DEFINE Left(l) == ws[l] \notin {"absent", "connecting"}
<1>2. (\A l \in Launchers : Left(l) => Left(l)') \/ \E l \in Launchers : Connect(l)
  <2>1. ASSUME NEW L, CloseSockets(L) PROVE \A l \in Launchers : Left(l) => Left(l)'
    BY <2>1 DEF CloseSockets
  <2>2. ASSUME NEW L, DisconnectLaunchers(L) PROVE \A l \in Launchers : Left(l) => Left(l)'
    BY <2>1, <2>2 DEF DisconnectLaunchers
  <2>3. CASE \/ UNCHANGED ws \/ RevokeAccessKey \/ DropExpired
             \/ \E j \in Jobs : KillDisconnects(j)
             \/ \E l \in Launchers : ResetDisconnects(l) \/ DeliveryFails(l) \/ DropInvalid(l)
    BY <2>2, <2>3 DEF DeliveryFails, DropExpired, DropInvalid, KillDisconnects,
      ResetDisconnects, RevokeAccessKey
  <2>4. CASE RestartServer
    BY <2>4 DEF RestartServer
  <2>5. ASSUME NEW l \in Launchers, CommitJobEvent(l)
        PROVE  \A k \in Launchers : Left(k) => Left(k)'
    BY <2>1, <2>5 DEF CommitJobEvent
  <2>6. ASSUME NEW l \in Launchers,
               \/ Register(l) \/ LoseConnection(l) \/ WriteHeartbeat(l) \/ PublishJobEvent(l)
               \/ ReceiveResetDone(l) \/ BeginCleanup(l) \/ FinishCleanup(l)
        PROVE  \A k \in Launchers : Left(k) => Left(k)'
    BY <2>6 DEF BeginCleanup, FinishCleanup, LoseConnection, PublishJobEvent,
      ReceiveResetDone, Register, WriteHeartbeat
  <2>7. CASE \/ \E l \in Launchers, s \in {"ready", "busy"} : ReceiveHeartbeat(l, s)
             \/ \E l \in Launchers, kind \in EventKinds, j \in Jobs : ReceiveJobEvent(l, kind, j)
    BY <2>7 DEF ReceiveHeartbeat, ReceiveJobEvent
  <2> QED
    BY <2>3, <2>4, <2>5, <2>6, <2>7, SocketFrame
<1>3. ASSUME NEW l \in Launchers, Register(l) PROVE MissingStep
  BY <1>3 DEF Register
<1>4. ASSUME NEW l \in Launchers, Connect(l) PROVE MissingStep
  BY <1>4 DEF Connect, registry
<1> QED
  BY <1>1, <1>2, <1>3, <1>4

\* The end of a job and its launcher are written once.
THEOREM EndsAreFinal == Spec => FinalStateIsFinal
<1>1. SafetyInv /\ [Next]_vars => [FinalStep]_vars
  BY FinalStepHolds DEF SafetyInv
<1> QED
  BY <1>1, SafetyInvariant, PTL DEF Spec, FinalStateIsFinal

\* A resetting launcher is assigned no job.
THEOREM ResettingGetsNoJob == Spec => NoJobWhileResetting
<1>1. SafetyInv /\ [Next]_vars => [ResettingStep]_vars
  BY ResettingStepHolds DEF SafetyInv
<1> QED
  BY <1>1, SafetyInvariant, PTL DEF Spec, NoJobWhileResetting

\* After worker.reset no job.start is sent until the launcher reports the reset.
THEOREM ResetFollowsStart == Spec => NoStartAfterReset
<1>1. SafetyInv /\ [Next]_vars => [StartStep]_vars
  BY StartStepHolds DEF SafetyInv
<1> QED
  BY <1>1, SafetyInvariant, PTL DEF Spec, NoStartAfterReset

\* Whom reconcile_disconnected_launchers finds missing from the registry is
\* still missing when its UPDATE commits, whatever the tasks that run in
\* between do: Reconcile may take the two for one step.
THEOREM MissingStaysMissing == Spec => [][MissingStep]_vars
<1>1. TypeInv /\ [Next]_vars => [MissingStep]_vars
  BY MissingStepHolds
<1> QED
  BY <1>1, TypeInvariant, PTL DEF Spec

-----------------------------------------------------------------------------
(* Refinement *)

LostRows == {l \in Launchers : rowGone[l]}

\* disconnect_launchers_and_fail_jobs is the abstract Fail of the launchers'
\* active jobs.
LEMMA DisconnectFails ==
  ASSUME TypeInv, NEW L \in SUBSET Launchers, DisconnectRows(L)
  PROVE  Lifecycle!Fail({j \in Jobs : jobState[j] \in Active /\ jobLauncher[j] \in L}, L)
<1> DEFINE F == {j \in Jobs : jobState[j] \in Active /\ jobLauncher[j] \in L}
<1>1. \A j \in F : jobState[j] \in Lifecycle!Active \cup {"queued"}
  BY DEF Active, Lifecycle!Active
<1>2. \A l \in L : Lifecycle!RunsOn(l) \subseteq F
  BY DEF Active, Lifecycle!Active, Lifecycle!RunsOn
<1>3. jobState' = [j \in Jobs |-> IF j \in F THEN "failed" ELSE jobState[j]]
  BY DEF DisconnectRows
<1>4. LostRows' = LostRows \cup L
  BY DEF DisconnectRows, LostRows, TypeInv, TypeOK, TablesType
<1>5. UNCHANGED jobLauncher
  BY DEF DisconnectRows
<1> HIDE DEF F
<1>6. Lifecycle!Fail(F, L)
  BY <1>1, <1>2, <1>3, <1>4, <1>5 DEF Lifecycle!Fail, LostRows
<1> QED
  BY <1>6 DEF F

\* fail_assigned_job ends one active job.
LEMMA FailAssignedFails ==
  ASSUME TypeInv, NEW j, NEW l, FailAssigned(j, l, "failed"), UNCHANGED <<jobLauncher, rowGone>>
  PROVE  Lifecycle!Fail({j}, {}) \/ UNCHANGED Lifecycle!vars
<1>1. CASE j \in RunsOn(l)
  <2>1. jobState' = [i \in Jobs |-> IF i \in {j} THEN "failed" ELSE jobState[i]]
    BY <1>1 DEF FailAssigned, RunsOn, TypeInv, TypeOK, TablesType
  <2>2. jobState[j] \in Lifecycle!Active
    BY <1>1 DEF RunsOn, Active, Lifecycle!Active
  <2> QED
    BY <2>1, <2>2 DEF Lifecycle!Fail
<1>2. CASE j \notin RunsOn(l)
  BY <1>2 DEF FailAssigned, Lifecycle!vars
<1> QED
  BY <1>1, <1>2

LEMMA FailAssignedCancels ==
  ASSUME TypeInv, NEW j, NEW l, FailAssigned(j, l, "cancelled"), UNCHANGED <<jobLauncher, rowGone>>
  PROVE  (j \in Jobs /\ Lifecycle!Cancel(j)) \/ UNCHANGED Lifecycle!vars
<1>1. CASE j \in RunsOn(l)
  BY <1>1 DEF FailAssigned, RunsOn, Lifecycle!Cancel, Active, Lifecycle!Active
<1>2. CASE j \notin RunsOn(l)
  BY <1>2 DEF FailAssigned, Lifecycle!vars
<1> QED
  BY <1>1, <1>2

\* Every step maps to a step of JobLifecycle or changes nothing it sees.
LEMMA LifecycleStep ==
  ASSUME TypeInv, TableInv, RegInv, [Next]_vars
  PROVE  [Lifecycle!Next]_(Lifecycle!vars)
<1> USE DEF Lifecycle!Next, Lifecycle!vars
<1>1. ASSUME NEW j \in Jobs, CreateJob(j) PROVE [Lifecycle!Next]_(Lifecycle!vars)
  BY <1>1 DEF CreateJob, Lifecycle!Create, TablesType, TypeInv, TypeOK
<1>2. ASSUME NEW l \in Launchers, CommitJobEvent(l) PROVE [Lifecycle!Next]_(Lifecycle!vars)
  <2>1. PICK j \in Jobs : j = hjob[l]
    BY <1>2 DEF CommitJobEvent, TypeInv, HandlerHasMessage
  <2>2. CASE EventApplies(hkind[l], j, l)
    <3>1. /\ jobState' = [jobState EXCEPT ![j] = StateAfter(hkind[l])]
          /\ UNCHANGED <<jobLauncher, rowGone>>
      BY <1>2, <2>1, <2>2 DEF CommitJobEvent
    <3>2. CASE hkind[l] = "answer"
      <4>1. jobState[j] = "assigned" /\ StateAfter(hkind[l]) = "answer_ready"
        BY <2>2, <3>2 DEF EventApplies, StateAfter
      <4>2. Lifecycle!Advance(j)
        BY <3>1, <4>1 DEF Lifecycle!Advance
      <4> QED
        BY <4>2
    <3>3. CASE hkind[l] = "running"
      <4>1. jobState[j] = "answer_ready" /\ StateAfter(hkind[l]) = "running"
        BY <2>2, <3>3 DEF EventApplies, StateAfter
      <4>2. Lifecycle!Advance(j)
        BY <3>1, <4>1 DEF Lifecycle!Advance
      <4> QED
        BY <4>2
    <3>4. CASE hkind[l] = "progress"
      BY <2>2, <3>1, <3>4 DEF EventApplies, StateAfter, TypeInv, TypeOK, TablesType
    <3>5. CASE hkind[l] = "result"
      <4>1. Lifecycle!Succeed(j)
        BY <2>2, <3>1, <3>5 DEF EventApplies, StateAfter, Lifecycle!Succeed
      <4> QED
        BY <4>1
    <3>6. CASE hkind[l] = "error"
      <4>1. jobState[j] \in Active /\ StateAfter(hkind[l]) = "failed"
        BY <2>2, <3>6 DEF EventApplies, StateAfter
      <4>2. jobState' = [i \in Jobs |-> IF i \in {j} THEN "failed" ELSE jobState[i]]
        BY <3>1, <4>1 DEF TypeInv, TypeOK, TablesType
      <4>3. Lifecycle!Fail({j}, {})
        BY <3>1, <4>1, <4>2 DEF Lifecycle!Fail, Active, Lifecycle!Active
      <4> QED
        BY <4>3
    <3>7. CASE hkind[l] = "cancelled"
      <4>1. Lifecycle!Cancel(j)
        BY <2>2, <3>1, <3>7 DEF EventApplies, StateAfter, Lifecycle!Cancel, Active,
          Lifecycle!Active
      <4> QED
        BY <4>1
    <3> QED
      BY <2>2, <3>2, <3>3, <3>4, <3>5, <3>6, <3>7 DEF EventApplies
  <2>3. CASE ~EventApplies(hkind[l], j, l)
    BY <1>2, <2>1, <2>3 DEF CommitJobEvent
  <2> QED
    BY <2>2, <2>3
<1>3. ASSUME NEW l \in Launchers, FinishCleanup(l) PROVE [Lifecycle!Next]_(Lifecycle!vars)
  BY <1>3, DisconnectFails DEF FinishCleanup
<1>4. ASSUME NEW L \in SUBSET Launchers, Reconcile(L) PROVE [Lifecycle!Next]_(Lifecycle!vars)
  BY <1>4, DisconnectFails DEF Reconcile
<1>5. ASSUME NEW j \in Jobs, RequestKill(j) PROVE [Lifecycle!Next]_(Lifecycle!vars)
  BY <1>5 DEF Lifecycle!Withdraw, RequestKill, TablesType, TypeInv, TypeOK
<1>6. ASSUME NEW j \in Jobs, KillFailsJob(j) PROVE [Lifecycle!Next]_(Lifecycle!vars)
  BY <1>6, FailAssignedCancels DEF KillFailsJob
<1>7. ASSUME NEW l \in Launchers, ResetFailsJob(l) PROVE [Lifecycle!Next]_(Lifecycle!vars)
  BY <1>7, FailAssignedCancels DEF ResetFailsJob
<1>8. ASSUME NEW l \in Launchers, PersistDeliveryFailure(l) PROVE [Lifecycle!Next]_(Lifecycle!vars)
  BY <1>8, FailAssignedFails DEF PersistDeliveryFailure, TypeInv, DeliveryHasJob
<1>9. ASSUME FailInvalid PROVE [Lifecycle!Next]_(Lifecycle!vars)
  BY <1>9, DisconnectFails DEF FailInvalid, TypeInv, TypeOK, DispatcherType
<1>10. ASSUME NEW E \in SUBSET Jobs, ExpireJobs(E) PROVE [Lifecycle!Next]_(Lifecycle!vars)
  <2>1. \A i \in E : jobState[i] \in Lifecycle!Active \cup {"queued"}
    BY <1>10 DEF ExpireJobs, Active, Lifecycle!Active
  <2>2. Lifecycle!Fail(E, {})
    BY <1>10, <2>1 DEF ExpireJobs, Lifecycle!Fail
  <2> QED
    BY <2>2
<1>11. ASSUME NEW j \in Jobs, NEW l \in Launchers, NEW skip \in SUBSET Launchers,
              Claim(j, l, skip)
       PROVE  [Lifecycle!Next]_(Lifecycle!vars)
  BY <1>11 DEF Active, Claim, ClaimCandidatesAreFree, Claimable, Lifecycle!Active,
    Lifecycle!Assign, Lifecycle!RunsOn, RegInv, RunsOn, TablesType, TypeInv, TypeOK,
    Unlocked
<1>12. ASSUME RestartServer PROVE [Lifecycle!Next]_(Lifecycle!vars)
  <2>1. PICK F \in SUBSET Jobs : F = {i \in Jobs : jobState[i] \in Active}
    OBVIOUS
  <2>2. PICK L \in SUBSET Launchers : L = {l \in Launchers : rowStatus[l] # "absent"}
    OBVIOUS
  <2>3. \A i \in F : jobState[i] \in Lifecycle!Active \cup {"queued"}
    BY <2>1 DEF Active, Lifecycle!Active
  <2>4. \A l \in L : Lifecycle!RunsOn(l) \subseteq F
    BY <2>1 DEF Active, Lifecycle!Active, Lifecycle!RunsOn
  <2>5. /\ jobState' = [i \in Jobs |-> IF i \in F THEN "failed" ELSE jobState[i]]
        /\ UNCHANGED jobLauncher
    BY <1>12, <2>1 DEF RestartServer
  <2>6. LostRows' = LostRows \cup L
    BY <1>12, <2>2 DEF RestartServer, LostRows, TypeInv, TypeOK, TablesType
  <2>7. Lifecycle!Fail(F, L)
    BY <2>3, <2>4, <2>5, <2>6 DEF Lifecycle!Fail, LostRows
  <2> QED
    BY <2>7
<1>13. CASE UNCHANGED <<jobState, jobLauncher, rowGone>>
  BY <1>13 DEF TablesType, TypeInv, TypeOK
<1> QED
  BY <1>1, <1>2, <1>3, <1>4, <1>5, <1>6, <1>7, <1>8, <1>9, <1>10, <1>11, <1>12, <1>13,
    JobsFrame

\* The jobs and launchers tables of the server, whatever its tasks, launchers,
\* clients and restarts do, go through the life JobLifecycle describes.
THEOREM TablesImplementLifecycle == Spec => ImplementsLifecycle
<1>1. Init => Lifecycle!Init
  BY DEF Init, Lifecycle!Init
<1>2. SafetyInv /\ [Next]_vars => [Lifecycle!Next]_(Lifecycle!vars)
  BY LifecycleStep DEF SafetyInv
<1> QED
  BY <1>1, <1>2, SafetyInvariant, PTL DEF Spec, ImplementsLifecycle, Lifecycle!Spec
====
