--------------------------- MODULE ControlLinkJobs ---------------------------
(* Jobs and timers of a control connection, for any jobs, apps, faults and   *)
(* bounds: what the launcher does with the job the server has assigned.      *)
EXTENDS ControlLinkProofs

IsPending(job) == InQueue(inbox, Message("job.start", job))

\* The jobs whose start the launcher has read, and those it has done with
\* starting: only these can be known to a worker.
Started == {job \in Jobs : cancels[job] # None /\ ~IsPending(job)}
Given == Started \ {control.job}

Kinds == {"event", "final", "worker.reset.done", "job.start", "job.cancel", "stop",
          "cae.run.cleaned", "worker.ready", "error"}
Named(S) == [type : Kinds, job : S \cup {None}]

\* What is sent to the server names jobs of S, and what workers read and write
\* names jobs of G.
NamesIn(S, G) ==
  /\ outbox \in Seq(Named(S))
  /\ manager.job \in S \cup {None} /\ control.job \in S \cup {None}
  /\ manager.timer \in G \cup {None} /\ manager.forwarded \in G \cup {None}
  /\ \A t \in Tasks : reset[t] # None => reset[t].job \in S \cup {None}
  /\ stdin \in [Processes -> Seq(Named(G))] /\ stdout \in [Processes -> Seq(Named(G))]
  /\ \A p \in Processes : /\ slave[p].job \in G \cup {None}
                          /\ slave[p].run \in G \cup {None}
OnlyStarted == NamesIn(Started, Given)

\* The server has at most one start on its way, of the job it has assigned.
OneStart ==
  /\ \A i, k \in 1..Len(inbox) :
       inbox[i].type = "job.start" /\ inbox[k].type = "job.start" => i = k
  /\ conn = "open" => \A job \in Jobs : IsPending(job) => job = current

\* A start is sent for an assigned job.
AssignedFirst == \A job \in Jobs : IsPending(job) => cancels[job] # None

\* A start that is being handled is of the job in hand, unless that is over.
InHand == control.job # None => manager.job \in {None, control.job}

\* The control reader is in a reset only where it waits for one.
OwnReset == control.pc \in {"idle", "spawn", "ready", "stopped"} => reset[Control] = None
-----------------------------------------------------------------------------
(* What the server will find in its inbox *)

Calm == conn = "open" /\ ~Stray
IsOver(job) == job # current \/ InQueue(outbox, Final(job))
\* An event that follows the end of the job: the server will refuse it.
Twice ==
  \E i, k \in 1..Len(outbox) :
    i < k /\ outbox[i] = Final(current) /\ outbox[k].type # "worker.reset.done"
\* The assigned job is not over.
Live == Calm /\ current # None /\ ~IsOver(current)

\* An escalated cancel of a job that is over for the server.
Ending(t) == reset[t] # None /\ reset[t].job = None
\* A reset that will report the end of the job.
WillReport(job) == \E t \in Tasks : reset[t] # None /\ reset[t].job = job

\* While an escalated cancel of a job that is over stops its worker, no other
\* job is in hand.
OneEnding ==
  /\ \A t, u \in Jobs : Calm /\ Ending(t) /\ Ending(u) => t = u
  /\ Calm /\ (\E t \in Jobs : Ending(t)) =>
       /\ manager.worker = None /\ manager.timer = None /\ control.job = None
       /\ Twice \/ (manager.job # None /\ IsOver(manager.job))

\* Where the assigned job is, until it is over.
InOnePlace ==
  Live =>
    /\ IsPending(current) \/ current \in {control.job, manager.job} \/ WillReport(current)
    /\ manager.forwarded # current
    /\ control.job = current => manager.job = current
    /\ WillReport(current) => manager.job = None /\ control.job = None

JobInv ==
  /\ TypeOK /\ OnlyStarted /\ OneStart /\ AssignedFirst
  /\ InHand /\ OwnReset
  /\ OneEnding /\ InOnePlace /\ TimerMatchesJob
-----------------------------------------------------------------------------
(* Messages that name jobs of a set *)

LEMMA NamedMessages ==
  ASSUME NEW S
  PROVE  /\ <<>> \in Seq(Named(S)) /\ <<ResetDone>> \in Seq(Named(S))
         /\ Message("stop", None) \in Named(S)
         /\ <<Message("worker.ready", None)>> \in Seq(Named(S))
         /\ <<Message("error", None)>> \in Seq(Named(S))
         /\ \A job \in S :
              /\ Message("job.start", job) \in Named(S)
              /\ Message("job.cancel", job) \in Named(S)
              /\ <<Message("event", job)>> \in Seq(Named(S))
              /\ <<Cleaned(job)>> \in Seq(Named(S))
              /\ <<Final(job)>> \in Seq(Named(S))
              /\ <<Final(job), Message("error", None)>> \in Seq(Named(S))
<1>1. /\ ResetDone \in Named(S) /\ Message("stop", None) \in Named(S)
      /\ Message("worker.ready", None) \in Named(S) /\ Message("error", None) \in Named(S)
  BY DEF Named, Kinds, Message, ResetDone
<1>2. \A job \in S : /\ Message("job.start", job) \in Named(S)
                     /\ Message("job.cancel", job) \in Named(S)
                     /\ Message("event", job) \in Named(S)
                     /\ Cleaned(job) \in Named(S) /\ Final(job) \in Named(S)
  BY DEF Named, Kinds, Message, Cleaned, Final
<1> QED
  BY <1>1, <1>2, ShortQueues

LEMMA NamedAcks ==
  ASSUME NEW S, NEW job \in S \cup {None}, NEW notify
  PROVE  Acks(job, notify) \in Seq(Named(S))
<1>1. (IF job = None THEN <<>> ELSE <<Final(job)>>) \in Seq(Named(S))
  BY NamedMessages
<1>2. (IF notify THEN <<ResetDone>> ELSE <<>>) \in Seq(Named(S))
  BY NamedMessages
<1> QED
  BY <1>1, <1>2, QueueTypes DEF Acks

LEMMA NamedSend ==
  ASSUME NEW S, outbox \in Seq(Named(S)), NEW m \in Seq(Named(S)), Send(m)
  PROVE  outbox' \in Seq(Named(S))
BY QueueTypes DEF Send

LEMMA NamedWrite ==
  ASSUME NEW G, stdin \in [Processes -> Seq(Named(G))], NEW p \in Processes,
         NEW line \in Named(G), Write(p, line)
  PROVE  stdin' \in [Processes -> Seq(Named(G))]
BY QueueTypes DEF Write

LEMMA NamedEmit ==
  ASSUME NEW G, stdout \in [Processes -> Seq(Named(G))], NEW p \in Processes,
         NEW lines \in Seq(Named(G)), Emit(p, lines)
  PROVE  stdout' \in [Processes -> Seq(Named(G))]
BY QueueTypes DEF Emit

LEMMA NamedConsume ==
  ASSUME NEW G, stdout \in [Processes -> Seq(Named(G))], NEW p \in Processes,
         stdout[p] # <<>>, Consume(p)
  PROVE  /\ stdout' \in [Processes -> Seq(Named(G))]
         /\ Head(stdout[p]).job \in G \cup {None}
<1>1. Head(stdout[p]) \in Named(G) /\ Tail(stdout[p]) \in Seq(Named(G))
  BY QueueTypes
<1> QED
  BY <1>1 DEF Consume, Named

\* More names may be used later.
LEMMA MoreNames ==
  ASSUME NEW S, NEW G, NEW U, NEW V, S \subseteq U, G \subseteq V, NamesIn(S, G)
  PROVE  NamesIn(U, V)
<1>1. Named(S) \subseteq Named(U) /\ Named(G) \subseteq Named(V)
  BY DEF Named
<1>2. Seq(Named(S)) \subseteq Seq(Named(U)) /\ Seq(Named(G)) \subseteq Seq(Named(V))
  BY <1>1
<1>3. /\ stdin \in [Processes -> Seq(Named(V))]
      /\ stdout \in [Processes -> Seq(Named(V))]
  BY <1>2 DEF NamesIn
<1>4. outbox \in Seq(Named(U))
  BY <1>2 DEF NamesIn
<1> QED
  BY <1>3, <1>4 DEF NamesIn

\* All but the control reader.
BesideControl(S, G) ==
  /\ outbox' \in Seq(Named(S)) /\ manager'.job \in S \cup {None}
  /\ manager'.timer \in G \cup {None} /\ manager'.forwarded \in G \cup {None}
  /\ \A t \in Tasks : reset'[t] # None => reset'[t].job \in S \cup {None}
  /\ stdin' \in [Processes -> Seq(Named(G))] /\ stdout' \in [Processes -> Seq(Named(G))]
  /\ \A p \in Processes : /\ slave'[p].job \in G \cup {None}
                          /\ slave'[p].run \in G \cup {None}

LEMMA NamesTogether ==
  ASSUME NEW S, NEW G, BesideControl(S, G), control'.job \in S \cup {None}
  PROVE  NamesIn(S, G)'
BY DEF BesideControl, NamesIn

\* What becomes of the manager in a reset.
LEMMA ResetManager ==
  ASSUME NEW t, NEW m \in ManagerType, NEW cancelJob \in BOOLEAN, NEW notify,
         BeginReset(t, m, cancelJob, notify)
  PROVE  /\ manager'.job = IF cancelJob THEN None ELSE m.job
         /\ manager'.timer = None /\ manager'.forwarded = None /\ manager'.worker = None
BY DEF BeginReset, ManagerType

LEMMA BeginResetNames ==
  ASSUME TypeOK, NEW S, NEW G, NamesIn(S, G), NEW t \in Tasks,
         NEW m \in ManagerType, m.job \in S \cup {None},
         NEW cancelJob \in BOOLEAN, NEW notify, BeginReset(t, m, cancelJob, notify)
  PROVE  BesideControl(S, G)
<1> DEFINE job == IF cancelJob THEN m.job ELSE None
<1>1. job \in S \cup {None} /\ m.worker \in Processes \cup {None}
  BY ManagerTypes
<1>2. /\ manager'.job \in S \cup {None}
      /\ manager'.timer = None /\ manager'.forwarded = None
  BY ResetManager
<1>3. UNCHANGED <<conn, stdout, slave>>
  BY DEF BeginReset
<1>4. CASE m.worker = None
  <2>1. Send(Acks(job, notify)) /\ UNCHANGED <<reset, proc, stdin>>
    BY <1>4 DEF BeginReset
  <2>2. outbox' \in Seq(Named(S))
    BY <2>1, <1>1, NamedAcks, NamedSend DEF NamesIn
  <2> QED
    BY <1>2, <1>3, <2>1, <2>2 DEF NamesIn, BesideControl
<1>5. CASE m.worker # None
  <2>1. m.worker \in Processes
    BY <1>1, <1>5
  <2>2. /\ reset' = [reset EXCEPT ![t] =
                       [proc |-> m.worker, job |-> job, notify |-> notify]]
        /\ outbox' = outbox
        /\ stdin' = stdin \/ Write(m.worker, Message("stop", None))
    BY <1>5 DEF BeginReset
  <2>3. \A u \in Tasks : reset'[u] # None => reset'[u].job \in S \cup {None}
    BY <1>1, <2>2 DEF NamesIn, TypeOK, Tasks
  <2>4. stdin' \in [Processes -> Seq(Named(G))]
    BY <2>1, <2>2, NamedWrite, NamedMessages DEF NamesIn
  <2> QED
    BY <1>2, <1>3, <2>2, <2>3, <2>4 DEF NamesIn, BesideControl
<1> QED
  BY <1>4, <1>5

LEMMA EndResetNames ==
  ASSUME TypeOK, NEW S, NEW G, NamesIn(S, G), NEW t \in Tasks,
         NEW more \in Seq(Named(S)), EndReset(t, more),
         manager'.job \in {manager.job, None}, manager'.timer = manager.timer,
         manager'.forwarded = manager.forwarded
  PROVE  BesideControl(S, G)
<1>1. reset[t].proc \in Processes /\ reset[t].job \in S \cup {None}
  BY DEF EndReset, TypeOK, Tasks, ResetType, NamesIn
<1>2. outbox' \in Seq(Named(S))
  <2>1. Acks(reset[t].job, reset[t].notify) \o more \in Seq(Named(S))
    BY <1>1, NamedAcks, QueueTypes
  <2> QED
    BY <2>1, NamedSend DEF EndReset, NamesIn
<1>3. stdout' \in [Processes -> Seq(Named(G))]
  BY <1>1, NamedMessages DEF EndReset, NamesIn
<1>4. \A u \in Tasks : reset'[u] # None => reset'[u].job \in S \cup {None}
  BY DEF EndReset, NamesIn, TypeOK, Tasks
<1> QED
  BY <1>2, <1>3, <1>4 DEF EndReset, NamesIn, BesideControl

\* A start that fails reports the job.
LEMMA StartFailsFields ==
  ASSUME NEW m \in ManagerType, StartFails(m)
  PROVE  /\ manager'.job = None /\ manager'.timer = m.timer
         /\ manager'.forwarded = m.forwarded /\ manager'.worker = m.worker
         /\ control'.job = None /\ control'.pc = "idle"
BY DEF StartFails, GoTo, ManagerType

LEMMA GiveJobFields ==
  ASSUME NEW m \in ManagerType, NEW job \in Jobs, GiveJob(m, job)
  PROVE  /\ control'.job = None /\ control'.pc = "idle"
         /\ manager'.timer = m.timer /\ manager'.forwarded = m.forwarded
         /\ manager'.worker = m.worker
         /\ \/ manager'.job = m.job /\ outbox' = outbox
            \/ manager'.job = None /\ Send(<<Final(job)>>)
         /\ UNCHANGED <<conn, reset, proc, stdout, slave>>
<1>1. UNCHANGED <<conn, reset, proc, stdout, slave>>
  BY DEF GiveJob
<1>2. CASE StartFails(m) /\ Send(<<Final(job)>>)
  BY <1>1, <1>2, StartFailsFields
<1>3. CASE manager' = [m EXCEPT !.status = "busy"] /\ GoTo("idle", None) /\ UNCHANGED outbox
  BY <1>1, <1>3 DEF GoTo, ManagerType
<1> QED
  BY <1>2, <1>3 DEF GiveJob

LEMMA GiveJobNames ==
  ASSUME TypeOK, NEW S, NEW G, NamesIn(S, G), NEW m \in ManagerType,
         m.job \in S \cup {None}, m.timer \in G \cup {None},
         m.forwarded \in G \cup {None}, m.worker # None,
         NEW job \in Jobs, job \in G, G \subseteq S, GiveJob(m, job)
  PROVE  NamesIn(S, G)'
<1>1. m.worker \in Processes
  BY ManagerTypes
<1>2. outbox' \in Seq(Named(S))
  BY GiveJobFields, NamedSend, NamedMessages DEF NamesIn
<1>3. stdin' \in [Processes -> Seq(Named(G))]
  BY <1>1, NamedWrite, NamedMessages DEF GiveJob, NamesIn
<1> QED
  BY <1>2, <1>3, GiveJobFields DEF NamesIn

LEMMA TakenFields ==
  ASSUME TypeOK, NEW job
  PROVE  /\ Taken(job).job = job /\ Taken(job).timer = manager.timer
         /\ Taken(job).forwarded = None /\ Taken(job).worker = manager.worker
BY DEF TypeOK, ManagerType, Taken

\* Handling a job.start: its job may now be named.
LEMMA StartNames ==
  ASSUME TypeOK, NEW S, NEW G, NamesIn(S, G), G \subseteq S, UNCHANGED server,
         Head(inbox).job \in S, StartOnWorker => Head(inbox).job \in G,
         \/ RejectStart \/ StartOnWorker \/ SwitchWorker
         \/ StartWithoutEnvironment \/ StartWithoutWorker
  PROVE  NamesIn(S, G)'
<1> DEFINE job == Head(inbox).job
<1>1. /\ job \in Jobs /\ Taken(job) \in ManagerType
      /\ control.job = None /\ manager.worker \in Processes \cup {None}
  BY ReceiveType, TakenType, ManagerTypes
     DEF RejectStart, StartOnWorker, SwitchWorker, StartWithoutEnvironment,
         StartWithoutWorker, TypeOK
<1>2. /\ Taken(job).job = job /\ Taken(job).timer = manager.timer
      /\ Taken(job).forwarded = None /\ Taken(job).worker = manager.worker
  BY TakenFields
<1>3. <<Final(job)>> \in Seq(Named(S))
  BY NamedMessages
<1>4. CASE RejectStart
  BY <1>3, <1>4, NamedSend DEF RejectStart, NamesIn, launcher, process
<1>5. CASE StartOnWorker
  <2>1. GiveJob(Taken(job), job) /\ manager.worker # None
    BY <1>5 DEF StartOnWorker
  <2> QED
    BY <1>1, <1>2, <1>5, <2>1, GiveJobNames DEF NamesIn
<1>6. CASE SwitchWorker
  <2>1. BeginReset(Control, Taken(job), FALSE, FALSE) /\ control'.job = job
    BY <1>6 DEF SwitchWorker, GoTo
  <2> QED
    BY <1>1, <1>2, <2>1, BeginResetNames, NamesTogether DEF Tasks
<1>7. CASE StartWithoutEnvironment
  <2>1. manager'.job = None /\ manager'.timer = manager.timer /\ manager'.forwarded = None
    BY <1>7 DEF StartWithoutEnvironment, Taken, TypeOK, ManagerType
  <2> QED
    BY <1>3, <1>7, <2>1, NamedSend DEF StartWithoutEnvironment, NamesIn, process
<1>8. CASE StartWithoutWorker
  <2>1. control'.job = job /\ manager' = Taken(job)
    BY <1>8 DEF StartWithoutWorker, GoTo
  <2> QED
    BY <1>2, <1>8, <2>1 DEF StartWithoutWorker, NamesIn, process
<1> QED
  BY <1>4, <1>5, <1>6, <1>7, <1>8

\* The rest of a start: a worker is told the job last.
LEMMA StartingNames ==
  ASSUME TypeOK, NEW S, NEW G, NamesIn(S, G), G \subseteq S, UNCHANGED server,
         WorkerIsReady => control.job \in G,
         \/ SwitchedWithoutEnvironment \/ Switched \/ CannotSpawn \/ Spawn
         \/ WorkerIsReady \/ WorkerIsGone \/ ReadyTimeout \/ TimedOut
  PROVE  NamesIn(S, G)'
<1>1. control.job \in Jobs /\ control.job \in S /\ manager \in ManagerType
  BY ControlJob, NamesAssumption
     DEF SwitchedWithoutEnvironment, Switched, CannotSpawn, Spawn,
         WorkerIsReady, WorkerIsGone, ReadyTimeout, TimedOut, TypeOK, NamesIn
<1>2. <<Final(control.job)>> \in Seq(Named(S)) /\ <<>> \in Seq(Named(S)) /\ Control \in Tasks
  BY <1>1, NamedMessages DEF Tasks
<1>3. CASE SwitchedWithoutEnvironment
  <2>1. EndReset(Control, <<Final(control.job)>>) /\ StartFails(manager)
    BY <1>3 DEF SwitchedWithoutEnvironment
  <2> QED
    BY <1>1, <1>2, <2>1, EndResetNames, StartFailsFields, NamesTogether
<1>4. CASE Switched
  <2>1. EndReset(Control, <<>>) /\ control'.job = control.job /\ UNCHANGED manager
    BY <1>4 DEF Switched, GoTo
  <2> QED
    BY <1>1, <1>2, <2>1, EndResetNames, NamesTogether
<1>5. CASE CannotSpawn
  <2>1. StartFails(manager) /\ Send(<<Final(control.job)>>) /\ UNCHANGED <<reset, process>>
    BY <1>5 DEF CannotSpawn
  <2> QED
    BY <1>1, <1>2, <2>1, StartFailsFields, NamedSend DEF NamesIn, process
<1>6. CASE Spawn
  <2>1. /\ manager'.job = manager.job /\ manager'.timer = manager.timer
        /\ manager'.forwarded = manager.forwarded /\ control'.job = control.job
    BY <1>1, <1>6 DEF Spawn, GoTo, ManagerType
  <2>2. \A p \in Processes : slave'[p].job = slave[p].job /\ slave'[p].run = slave[p].run
    BY <1>6 DEF Spawn, TypeOK, SlaveType
  <2> QED
    BY <1>6, <2>1, <2>2 DEF Spawn, NamesIn, link
<1>7. CASE WorkerIsReady
  <2> DEFINE m == [manager EXCEPT !.status = "idle"]
  <2>1. /\ m \in ManagerType /\ m.job = manager.job /\ m.timer = manager.timer
        /\ m.forwarded = manager.forwarded
    BY <1>1, ManagerTypes DEF ManagerType
  <2>2. CASE m.worker # None /\ GiveJob(m, control.job)
    BY <1>1, <1>7, <2>1, <2>2, GiveJobNames DEF NamesIn
  <2>3. CASE /\ StartFails(m) /\ Send(<<Final(control.job)>>)
             /\ UNCHANGED <<conn, reset, process>>
    BY <1>2, <2>1, <2>3, StartFailsFields, NamedSend DEF NamesIn, process
  <2> QED
    BY <1>7, <2>2, <2>3 DEF WorkerIsReady
<1>8. CASE WorkerIsGone
  <2> DEFINE m == [manager EXCEPT !.timer = None, !.cleaned = None, !.forwarded = None]
  <2>1. m \in ManagerType /\ m.timer = None /\ m.forwarded = None
    <3>1. m \in ManagerType
      BY <1>1, ManagerTypes
    <3> QED
      BY <1>1, <3>1 DEF ManagerType
  <2>2. StartFails(m) /\ Send(<<Final(control.job)>>) /\ UNCHANGED <<reset, process>>
    BY <1>8 DEF WorkerIsGone
  <2> QED
    BY <1>2, <2>1, <2>2, StartFailsFields, NamedSend DEF NamesIn, process
<1>9. CASE ReadyTimeout
  <2>1. BeginReset(Control, manager, FALSE, FALSE) /\ control'.job = control.job
    BY <1>9 DEF ReadyTimeout, GoTo
  <2>2. manager.job \in S \cup {None}
    BY DEF NamesIn
  <2> QED
    BY <1>1, <1>2, <2>1, <2>2, BeginResetNames, NamesTogether
<1>10. CASE TimedOut
  <2>1. EndReset(Control, <<Final(control.job)>>) /\ StartFails(manager)
    BY <1>10 DEF TimedOut
  <2> QED
    BY <1>1, <1>2, <2>1, EndResetNames, StartFailsFields, NamesTogether
<1> QED
  BY <1>3, <1>4, <1>5, <1>6, <1>7, <1>8, <1>9, <1>10

\* Commands that do not start a job, and the end of the connection.
LEMMA CommandNames ==
  ASSUME TypeOK, NEW S, NEW G, NamesIn(S, G), UNCHANGED server,
         CancelOnWorker => manager.job \in G,
         \/ IgnoreCancel \/ CancelWithoutWorker \/ CancelOnWorker \/ CancelBreaksPipe
         \/ ReceiveReset \/ CommandDone \/ StopAll \/ Stopped
  PROVE  NamesIn(S, G)'
<1>1. /\ manager \in ManagerType /\ manager.job \in S \cup {None} /\ Control \in Tasks
      /\ <<>> \in Seq(Named(S))
  BY NamedMessages DEF TypeOK, NamesIn, Tasks
<1>2. CASE IgnoreCancel
  BY <1>2 DEF IgnoreCancel, NamesIn, launcher, process
<1>3. CASE CancelWithoutWorker
  <2>1. manager.job \in Jobs
    BY <1>3, ReceiveType DEF CancelWithoutWorker
  <2>2. manager'.job = None /\ manager'.timer = None
        /\ manager'.forwarded \in {manager.forwarded, None}
    BY <1>1, <1>3 DEF CancelWithoutWorker, Confirmed, ManagerType
  <2>3. <<Final(manager.job)>> \in Seq(Named(S))
    BY <1>1, <2>1, NamesAssumption, NamedMessages
  <2> QED
    BY <1>3, <2>2, <2>3, NamedSend DEF CancelWithoutWorker, NamesIn, process
<1>4. CASE CancelOnWorker
  <2>1. /\ manager'.job = manager.job /\ manager'.timer = manager.job
        /\ manager'.forwarded \in {manager.forwarded, None}
    BY <1>1, <1>4 DEF CancelOnWorker, Confirmed, ManagerType
  <2>2. manager.worker \in Processes
    BY <1>1, <1>4, ManagerTypes DEF CancelOnWorker, CanAskWorker
  <2>3. stdin' \in [Processes -> Seq(Named(G))]
    BY <1>4, <2>2, NamedWrite, NamedMessages DEF CancelOnWorker, NamesIn
  <2> QED
    BY <1>4, <2>1, <2>3 DEF CancelOnWorker, NamesIn
<1>5. CASE CancelBreaksPipe \/ ReceiveReset \/ StopAll
  <2>1. \A pc : GoTo(pc, None) => control'.job = None
    BY DEF GoTo
  <2>2. BeginReset(Control, manager, TRUE, TRUE) /\ control'.job = None
    BY <1>5, <2>1 DEF CancelBreaksPipe, ReceiveReset, StopAll
  <2> QED
    BY <1>1, <2>2, BeginResetNames, NamesTogether
<1>6. CASE CommandDone \/ Stopped
  <2>1. EndReset(Control, <<>>) /\ control'.job = None /\ UNCHANGED manager
    BY <1>6 DEF CommandDone, Stopped, GoTo
  <2> QED
    BY <1>1, <2>1, EndResetNames, NamesTogether
<1> QED
  BY <1>2, <1>3, <1>4, <1>5, <1>6

\* escalate_cancel, and the end of a process that does not exit.
LEMMA EscalationNames ==
  ASSUME TypeOK, NEW S, NEW G, NamesIn(S, G), UNCHANGED server,
         \/ Escalate
         \/ \E job \in Jobs : Escalated(job)
         \/ \E t \in Tasks : Terminate(t)
  PROVE  NamesIn(S, G)'
<1>1. /\ manager \in ManagerType /\ manager.job \in S \cup {None}
      /\ <<>> \in Seq(Named(S))
  BY NamedMessages DEF TypeOK, NamesIn
<1>2. CASE Escalate
  <2>1. manager.timer \in Tasks /\ control' = control
    BY <1>1, <1>2, ManagerTypes DEF Escalate, Tasks
  <2>2. CASE BeginReset(manager.timer, manager, manager.forwarded # manager.job, TRUE)
    <3>1. (manager.forwarded # manager.job) \in BOOLEAN
      OBVIOUS
    <3>2. BesideControl(S, G)
      BY <1>1, <2>1, <2>2, <3>1, BeginResetNames
    <3> QED
      BY <2>1, <3>2, NamesTogether DEF NamesIn
  <2>3. CASE /\ manager' = [manager EXCEPT !.timer = None]
             /\ UNCHANGED <<conn, outbox, reset, process>>
    <3>1. /\ manager'.job = manager.job /\ manager'.timer = None
          /\ manager'.forwarded = manager.forwarded
      BY <1>1, <2>3 DEF ManagerType
    <3> QED
      BY <2>1, <2>3, <3>1 DEF NamesIn, process
  <2> QED
    BY <1>2, <2>2, <2>3 DEF Escalate
<1>3. ASSUME NEW job \in Jobs, Escalated(job)
      PROVE  NamesIn(S, G)'
  <2>1. EndReset(job, <<>>) /\ control' = control /\ job \in Tasks
    BY <1>3 DEF Escalated, Tasks
  <2>2. /\ manager'.job \in {manager.job, None} /\ manager'.timer = manager.timer
        /\ manager'.forwarded = manager.forwarded
    BY <1>1, <1>3 DEF Escalated, ManagerType
  <2>3. BesideControl(S, G)
    BY <1>1, <2>1, <2>2, EndResetNames
  <2> QED
    BY <2>1, <2>3, NamesTogether DEF NamesIn
<1>4. ASSUME NEW t \in Tasks, Terminate(t)
      PROVE  NamesIn(S, G)'
  <2>1. \A p \in Processes : /\ slave'[p].job \in {slave[p].job, None}
                             /\ slave'[p].run \in {slave[p].run, None}
    BY <1>4 DEF Terminate, TypeOK, SlaveType, Dead
  <2> QED
    BY <1>4, <2>1 DEF Terminate, NamesIn, link, launcher
<1> QED
  BY <1>2, <1>3, <1>4

\* A line from a worker, or the end of its stdout.
LEMMA ReaderNames ==
  ASSUME TypeOK, NEW S, NEW G, NamesIn(S, G), G \subseteq S, S \subseteq Jobs,
         UNCHANGED server, NEW p \in Processes, StdoutReader(p)
  PROVE  NamesIn(S, G)'
<1> DEFINE line == Head(stdout[p])
<1>1. /\ manager \in ManagerType /\ manager.job \in S \cup {None}
      /\ control' = control /\ slave' = slave /\ reset' = reset /\ stdin' = stdin
  BY DEF TypeOK, NamesIn, StdoutReader, ReadReady, ReadCleaned, ForwardEvent, ForwardFinal,
         ReadError, EndReader, link, launcher
<1>2. \A job \in S : <<Final(job)>> \in Seq(Named(S)) /\ <<Message("event", job)>> \in Seq(Named(S))
  BY NamedMessages
<1>3. /\ Released(manager).job = None /\ Released(manager).timer = None
      /\ Released(manager).forwarded = None
  BY <1>1 DEF Released, ManagerType
<1>4. CASE ReadReady(p)
  BY <1>1, <1>4, NamedConsume DEF ReadReady, Line, NamesIn, link, launcher
<1>5. CASE ReadCleaned(p)
  <2>1. /\ manager'.job \in {manager.job, None} /\ manager'.timer \in {manager.timer, None}
        /\ manager'.forwarded \in {manager.forwarded, None}
    BY <1>1, <1>3, <1>5 DEF ReadCleaned, ManagerType
  <2> QED
    BY <1>1, <1>5, <2>1, NamedConsume DEF ReadCleaned, Line, NamesIn, link
<1>6. CASE ForwardEvent(p)
  <2>1. stdout[p] # <<>> /\ line.type = "event" /\ line \in StdoutLines
    BY <1>6, ConsumeType DEF ForwardEvent, Line
  <2>2. line.job \in G /\ line \in Named(S)
    <3>1. line.job \in Jobs
      BY <2>1 DEF StdoutLines
    <3>2. line.job \in G
      BY <1>6, <2>1, <3>1, NamedConsume, NamesAssumption DEF ForwardEvent, NamesIn
    <3> QED
      BY <2>1, <3>1, <3>2 DEF StdoutLines, Named, Kinds
  <2>3. outbox' \in Seq(Named(S))
    BY <1>6, <2>2, NamedSend, ShortQueues DEF ForwardEvent, NamesIn
  <2> QED
    BY <1>1, <1>6, <2>1, <2>3, NamedConsume DEF ForwardEvent, NamesIn, launcher
<1>7. CASE ForwardFinal(p)
  <2>1. stdout[p] # <<>> /\ line.type = "final" /\ line \in StdoutLines
    BY <1>7, ConsumeType DEF ForwardFinal, Line
  <2>2. line.job \in G /\ line \in Named(S)
    <3>1. line.job \in Jobs
      BY <2>1 DEF StdoutLines
    <3>2. line.job \in G
      BY <1>7, <2>1, <3>1, NamedConsume, NamesAssumption DEF ForwardFinal, NamesIn
    <3> QED
      BY <2>1, <3>1, <3>2 DEF StdoutLines, Named, Kinds
  <2>3. outbox' \in Seq(Named(S))
    BY <1>7, <2>2, NamedSend, ShortQueues DEF ForwardFinal, NamesIn
  <2>4. /\ manager'.job \in {manager.job, None}
        /\ manager'.timer \in {manager.timer, line.job, None}
        /\ manager'.forwarded \in {line.job, None}
    BY <1>1, <1>3, <1>7 DEF ForwardFinal, ManagerType
  <2> QED
    BY <1>1, <1>7, <2>1, <2>2, <2>3, <2>4, NamedConsume DEF ForwardFinal, NamesIn
<1>8. CASE ReadError(p)
  <2>1. stdout' \in [Processes -> Seq(Named(G))]
    BY <1>8, NamedConsume DEF ReadError, Line, NamesIn
  <2>2. CASE manager.job = None
    BY <1>1, <1>8, <2>1, <2>2 DEF ReadError, NamesIn
  <2>3. CASE manager.job # None
    <3>1. outbox' \in Seq(Named(S))
      BY <1>1, <1>2, <1>8, <2>3, NamedSend DEF ReadError, NamesIn
    <3> QED
      BY <1>1, <1>3, <1>8, <2>1, <2>3, <3>1 DEF ReadError, NamesIn
  <2> QED
    BY <2>2, <2>3
<1>9. CASE EndReader(p)
  <2>1. stdout' = stdout
    BY <1>9 DEF EndReader
  <2>2. CASE manager.worker = p /\ ~proc[p].stopping
    <3>1. ExitReport \in Seq(Named(S))
      <4>1. CASE manager.job \in {None, manager.forwarded}
        BY <4>1, NamedMessages DEF ExitReport
      <4>2. CASE manager.job \notin {None, manager.forwarded}
        BY <1>1, <1>2, <4>2 DEF ExitReport
      <4> QED
        BY <4>1, <4>2
    <3>2. outbox' \in Seq(Named(S))
      BY <1>9, <2>2, <3>1, NamedSend DEF EndReader, NamesIn
    <3>3. manager'.job = None /\ manager'.timer = None /\ manager'.forwarded = None
      BY <1>1, <1>9, <2>2 DEF EndReader, Released, ManagerType
    <3> QED
      BY <1>1, <2>1, <3>2, <3>3 DEF NamesIn
  <2>3. CASE ~(manager.worker = p /\ ~proc[p].stopping)
    BY <1>1, <1>9, <2>1, <2>3 DEF EndReader, NamesIn
  <2> QED
    BY <2>2, <2>3
<1> QED
  BY <1>4, <1>5, <1>6, <1>7, <1>8, <1>9 DEF StdoutReader

\* A step of a worker process.
LEMMA WorkerNames ==
  ASSUME TypeOK, NEW S, NEW G, NamesIn(S, G), UNCHANGED server,
         NEW p \in Processes, WorkerStep(p)
  PROVE  NamesIn(S, G)'
<1>1. /\ UNCHANGED <<outbox, manager, control, reset>>
      /\ slave[p].job \in G \cup {None} /\ slave[p].run \in G \cup {None}
  BY DEF WorkerStep, Reap, WorkerReady, InitFails, Crash, ReadStdin, JobEvent,
         JobEnds, JobCloses, StartRun, StartRunFails, CloseRun, Inside, link, launcher, NamesIn
<1>2. stdin' \in [Processes -> Seq(Named(G))]
  <2>1. CASE ReadStdin(p)
    BY <2>1, QueueTypes DEF ReadStdin, NamesIn
  <2>2. CASE stdin' = stdin
    BY <2>2 DEF NamesIn
  <2> QED
    BY <2>1, <2>2 DEF WorkerStep, Reap, WorkerReady, InitFails, Crash, JobEvent,
                      JobEnds, JobCloses, StartRun, StartRunFails, CloseRun
<1>3. ReadStdin(p) => Head(stdin[p]).job \in G \cup {None}
  <2> SUFFICES ASSUME ReadStdin(p) PROVE Head(stdin[p]).job \in G \cup {None}
    OBVIOUS
  <2>1. Head(stdin[p]) \in Named(G)
    BY QueueTypes DEF ReadStdin, NamesIn
  <2> QED
    BY <2>1 DEF Named
<1>4. stdout' \in [Processes -> Seq(Named(G))]
  <2>1. ASSUME NEW lines \in Seq(Named(G)), Emit(p, lines)
        PROVE  stdout' \in [Processes -> Seq(Named(G))]
    BY <2>1, NamedEmit DEF NamesIn
  <2>2. stdout' = stdout => stdout' \in [Processes -> Seq(Named(G))]
    BY DEF NamesIn
  <2>3. ASSUME NEW closing, NEW late \in Late(p, closing)
        PROVE  late \in Seq(Named(G)) /\ Acks(slave[p].job, FALSE) \o late \in Seq(Named(G))
    <3>1. Acks(slave[p].job, FALSE) \in Seq(Named(G))
      BY <1>1, NamedAcks
    <3>2. late \in Seq(Named(G))
      BY <2>3, NamedMessages DEF Late
    <3> QED
      BY <3>1, <3>2, QueueTypes
  <2>4. CASE ReadStdin(p)
    <3> DEFINE line == Head(stdin[p])
    <3>1. CASE line.type = "stop"
      BY <2>1, <2>3, <2>4, <3>1 DEF ReadStdin
    <3>2. CASE line.type # "stop"
      <4>1. line \in StdinLines
        BY <2>4, QueueTypes DEF ReadStdin, TypeOK
      <4>2. line.job \in G
        BY <1>3, <2>4, <3>2, <4>1, NamesAssumption DEF StdinLines, Message
      <4>3. <<Final(line.job)>> \in Seq(Named(G))
        BY <4>2, NamedMessages
      <4> QED
        BY <2>1, <2>2, <2>3, <2>4, <3>2, <4>3 DEF ReadStdin
    <3> QED
      BY <3>1, <3>2
  <2>5. CASE WorkerReady(p) \/ InitFails(p)
    BY <2>1, <2>5, NamedMessages DEF WorkerReady, InitFails
  <2>6. CASE JobEvent(p) \/ JobEnds(p) \/ JobCloses(p)
    BY <1>1, <2>1, <2>3, <2>6, NamedMessages DEF JobEvent, JobEnds, JobCloses
  <2>7. CASE StartRun(p)
    <3>1. (IF slave[p].run = None THEN <<>> ELSE <<Cleaned(slave[p].run)>>) \in Seq(Named(G))
      BY <1>1, NamedMessages
    <3> QED
      BY <2>1, <2>7, <3>1 DEF StartRun
  <2>8. CASE StartRunFails(p) \/ CloseRun(p)
    BY <1>1, <2>1, <2>8, NamedMessages DEF StartRunFails, CanStartRun, CloseRun
  <2>9. CASE Reap(p) \/ Crash(p)
    BY <2>2, <2>9 DEF Reap, Crash
  <2> QED
    BY <2>4, <2>5, <2>6, <2>7, <2>8, <2>9 DEF WorkerStep
<1>5. \A q \in Processes : /\ slave'[q].job \in G \cup {None}
                           /\ slave'[q].run \in G \cup {None}
  <2>1. slave' = slave => \A q \in Processes : /\ slave'[q].job \in G \cup {None}
                                               /\ slave'[q].run \in G \cup {None}
    BY DEF NamesIn
  <2>2. ASSUME NEW r, r.job \in G \cup {None}, r.run \in G \cup {None},
               slave' = [slave EXCEPT ![p] = r]
        PROVE  \A q \in Processes : /\ slave'[q].job \in G \cup {None}
                                    /\ slave'[q].run \in G \cup {None}
    BY <2>2 DEF NamesIn, TypeOK
  <2>3. Dead.job = None /\ Dead.run = None
    BY DEF Dead
  <2>4. ASSUME NEW job \in G \cup {None}, slave' = [slave EXCEPT ![p].job = job]
        PROVE  \A q \in Processes : /\ slave'[q].job \in G \cup {None}
                                    /\ slave'[q].run \in G \cup {None}
    BY <2>4 DEF NamesIn, TypeOK, SlaveType
  <2>5. ASSUME NEW run \in G \cup {None}, slave' = [slave EXCEPT ![p].run = run]
        PROVE  \A q \in Processes : /\ slave'[q].job \in G \cup {None}
                                    /\ slave'[q].run \in G \cup {None}
    BY <2>5 DEF NamesIn, TypeOK, SlaveType
  <2>6. ASSUME NEW closing \in Jobs \cup {None},
                slave' = [slave EXCEPT ![p].job = None, ![p].closing = closing]
         PROVE  \A q \in Processes : /\ slave'[q].job \in G \cup {None}
                                     /\ slave'[q].run \in G \cup {None}
    <3>1. None \in Jobs \cup {None}
      OBVIOUS
    <3>2. \A q \in Processes : /\ slave'[q].run = slave[q].run
                              /\ slave'[q].job \in {slave[q].job, None}
      BY <2>6, <3>1, SlaveJobs, Zenon
    <3> QED
      BY <3>2, Zenon DEF NamesIn
  <2>7. CASE ReadStdin(p)
    <3> DEFINE line == Head(stdin[p])
    <3>1. CASE slave' = slave
      BY <2>1, <3>1
    <3>2. CASE slave' = [slave EXCEPT ![p].job = line.job]
      BY <1>3, <2>4, <2>7, <3>2
    <3>3. CASE slave' = [slave EXCEPT ![p].job = None, ![p].closing = None]
      BY <2>6, <3>3
    <3>4. CASE slave' = [slave EXCEPT ![p] = Dead]
      BY <2>2, <2>3, <3>4
    <3> QED
      BY <2>7, <3>1, <3>2, <3>3, <3>4 DEF ReadStdin
  <2>8. CASE Reap(p) \/ InitFails(p) \/ Crash(p) \/ JobEvent(p)
    BY <2>1, <2>2, <2>3, <2>8 DEF Reap, InitFails, Crash, JobEvent
  <2>9. CASE JobEnds(p) \/ JobCloses(p)
    <3>1. slave[p].job \in Jobs \cup {None}
      BY SlaveTypes DEF TypeOK
    <3>2. CASE JobEnds(p)
      BY <2>6, <3>1, <3>2 DEF JobEnds
    <3>3. CASE JobCloses(p)
      BY <3>3 DEF JobCloses, NamesIn, TypeOK, SlaveType
    <3> QED
      BY <2>9, <3>2, <3>3
  <2>10. CASE StartRun(p) \/ StartRunFails(p) \/ CloseRun(p)
    BY <1>1, <2>1, <2>5, <2>10 DEF StartRun, StartRunFails, CloseRun
  <2>11. CASE WorkerReady(p)
    BY <2>11 DEF WorkerReady, NamesIn, TypeOK, SlaveType
  <2> QED
    BY <2>7, <2>8, <2>9, <2>10, <2>11 DEF WorkerStep
<1> QED
  BY <1>1, <1>2, <1>4, <1>5 DEF NamesIn

\* A step of the server, but for the assignment of a job.
LEMMA ServerNames ==
  ASSUME TypeOK, NEW S, NEW G, NamesIn(S, G), Server \/ Lose
  PROVE  NamesIn(S, G)'
<1>1. UNCHANGED <<launcher, process>>
  BY DEF Server, AssignJob, CancelJob, ResetWorker, Deliver, HandleMessage, Lose
<1>2. outbox' \in Seq(Named(S))
  <2>1. outbox' = outbox \/ outbox' = <<>> \/ (outbox # <<>> /\ outbox' = Tail(outbox))
    <3>1. HandleMessage => outbox' = <<>> \/ (outbox # <<>> /\ outbox' = Tail(outbox))
      BY DEF HandleMessage
    <3>2. Lose => outbox' = <<>>
      BY DEF Lose
    <3>3. Server => HandleMessage \/ outbox' = outbox
      BY DEF Server, AssignJob, CancelJob, ResetWorker, Deliver
    <3> QED
      BY <3>1, <3>2, <3>3
  <2> QED
    BY <2>1, QueueTypes, NamedMessages DEF NamesIn
<1> QED
  BY <1>1, <1>2 DEF launcher, process, NamesIn
-----------------------------------------------------------------------------
(* The inbox *)

LEMMA StartMessages ==
  ASSUME TypeOK, NEW i \in 1..Len(inbox), inbox[i].type = "job.start"
  PROVE  inbox[i] = Message("job.start", inbox[i].job) /\ inbox[i].job \in Jobs
BY DEF TypeOK, ServerMessages, Message

LEMMA TailIsRest ==
  ASSUME NEW S, NEW q \in Seq(S), q # <<>>
  PROVE  /\ Len(Tail(q)) = Len(q) - 1 /\ Len(q) \in Nat /\ Len(q) > 0
         /\ Tail(q) \in Seq(S) /\ Head(q) = q[1]
         /\ \A i \in 1..Len(Tail(q)) : i + 1 \in 1..Len(q) /\ Tail(q)[i] = q[i + 1]
OBVIOUS

\* Reading a message: a start that is read is on its way no more.
LEMMA ReadOne ==
  ASSUME TypeOK, OneStart, inbox # <<>>, inbox' = Tail(inbox)
  PROVE  /\ \A job \in Jobs :
              /\ IsPending(job)' => IsPending(job)
              /\ IsPending(job) => IsPending(job)' \/ Head(inbox) = Message("job.start", job)
              /\ Head(inbox) = Message("job.start", job) =>
                   IsPending(job) /\ \A other \in Jobs : ~IsPending(other)'
         /\ \A i, k \in 1..Len(inbox') :
              inbox'[i].type = "job.start" /\ inbox'[k].type = "job.start" => i = k
<1>1. inbox \in Seq(ServerMessages)
  BY DEF TypeOK
<1>2. /\ Len(inbox') = Len(inbox) - 1 /\ Len(inbox) \in Nat /\ Len(inbox) > 0
      /\ Head(inbox) = inbox[1]
      /\ \A i \in 1..Len(inbox') : i + 1 \in 1..Len(inbox) /\ inbox'[i] = inbox[i + 1]
  BY <1>1, TailIsRest
<1>3. \A i, k \in 1..Len(inbox') :
        inbox'[i].type = "job.start" /\ inbox'[k].type = "job.start" => i = k
  <2> SUFFICES ASSUME NEW i \in 1..Len(inbox'), NEW k \in 1..Len(inbox'),
                      inbox'[i].type = "job.start", inbox'[k].type = "job.start"
               PROVE  i = k
    OBVIOUS
  <2>1. i + 1 = k + 1
    BY <1>2 DEF OneStart
  <2> QED
    BY <1>2, <2>1
<1>4. ASSUME NEW job \in Jobs
      PROVE  /\ IsPending(job)' => IsPending(job)
             /\ IsPending(job) => IsPending(job)' \/ Head(inbox) = Message("job.start", job)
  <2>1. IsPending(job)' => IsPending(job)
    BY <1>2 DEF IsPending, InQueue
  <2>2. ASSUME NEW i \in 1..Len(inbox), inbox[i] = Message("job.start", job), i # 1
        PROVE  IsPending(job)'
    <3>1. i - 1 \in 1..Len(inbox') /\ inbox'[i - 1] = inbox[i]
      BY <1>2, <2>2
    <3> QED
      BY <2>2, <3>1 DEF IsPending, InQueue
  <2> QED
    BY <1>2, <2>1, <2>2 DEF IsPending, InQueue
<1>5. ASSUME NEW job \in Jobs, NEW other \in Jobs, Head(inbox) = Message("job.start", job),
             IsPending(other)'
      PROVE  FALSE
  <2>1. PICK i \in 1..Len(inbox') : inbox'[i] = Message("job.start", other)
    BY <1>5 DEF IsPending, InQueue
  <2>2. /\ i + 1 \in 1..Len(inbox) /\ inbox[i + 1].type = "job.start"
        /\ 1 \in 1..Len(inbox) /\ inbox[1].type = "job.start"
    BY <1>2, <1>5, <2>1 DEF Message
  <2>3. i + 1 = 1
    BY <2>2 DEF OneStart
  <2> QED
    BY <1>2, <2>3
<1>6. ASSUME NEW job \in Jobs, Head(inbox) = Message("job.start", job)
      PROVE  IsPending(job)
  BY <1>2, <1>6 DEF IsPending, InQueue
<1> QED
  BY <1>3, <1>4, <1>5, <1>6

\* Sending one.
LEMMA DeliverOne ==
  ASSUME TypeOK, OneStart, NEW message \in ServerMessages, inbox' = Append(inbox, message)
  PROVE  /\ \A job \in Jobs :
              IsPending(job)' <=> IsPending(job) \/ message = Message("job.start", job)
         /\ \/ message.type # "job.start"
            \/ \A job \in Jobs : ~IsPending(job)
            => \A i, k \in 1..Len(inbox') :
                 inbox'[i].type = "job.start" /\ inbox'[k].type = "job.start" => i = k
<1>1. /\ inbox \in Seq(ServerMessages) /\ Len(inbox) \in Nat
      /\ Len(inbox') = Len(inbox) + 1 /\ inbox'[Len(inbox) + 1] = message
      /\ \A i \in 1..Len(inbox) : inbox'[i] = inbox[i]
  BY DEF TypeOK
<1>2. ASSUME NEW job \in Jobs
      PROVE  IsPending(job)' <=> IsPending(job) \/ message = Message("job.start", job)
  <2>1. \A i \in 1..Len(inbox') : i = Len(inbox) + 1 \/ i \in 1..Len(inbox)
    BY <1>1
  <2>2. 1..Len(inbox) \subseteq 1..Len(inbox') /\ Len(inbox) + 1 \in 1..Len(inbox')
    BY <1>1
  <2> QED
    BY <1>1, <2>1, <2>2 DEF IsPending, InQueue
<1>3. ASSUME \/ message.type # "job.start"
             \/ \A job \in Jobs : ~IsPending(job),
             NEW i \in 1..Len(inbox'), NEW k \in 1..Len(inbox'),
             inbox'[i].type = "job.start", inbox'[k].type = "job.start"
      PROVE  i = k
  <2>1. CASE message.type # "job.start"
    <3>1. i \in 1..Len(inbox) /\ k \in 1..Len(inbox)
      BY <1>1, <1>3, <2>1
    <3> QED
      BY <1>1, <1>3, <3>1 DEF OneStart
  <2>2. CASE \A job \in Jobs : ~IsPending(job)
    <3>1. \A n \in 1..Len(inbox) : inbox[n].type # "job.start"
      BY <2>2, StartMessages DEF IsPending, InQueue
    <3> QED
      BY <1>1, <1>3, <3>1
  <2> QED
    BY <1>3, <2>1, <2>2
<1> QED
  BY <1>2, <1>3

\* Who touches the inbox.
LEMMA InboxSteps ==
  ASSUME [Next]_vars
  PROVE  \/ inbox' = inbox /\ cancels' = cancels /\ (current' = current \/ HandleMessage)
         \/ /\ inbox # <<>> /\ inbox' = Tail(inbox)
            /\ ControlReader /\ UNCHANGED <<cancels, current>>
         \/ \E job \in Jobs : AssignJob(job) \/ CancelJob(job)
         \/ ResetWorker
<1>1. CASE ControlReader /\ UNCHANGED server
  BY <1>1 DEF ControlReader, RejectStart, StartOnWorker, SwitchWorker,
       StartWithoutEnvironment, StartWithoutWorker, SwitchedWithoutEnvironment, Switched,
       CannotSpawn, Spawn, WorkerIsReady, WorkerIsGone, ReadyTimeout, TimedOut, IgnoreCancel,
       CancelWithoutWorker, CancelOnWorker, CancelBreaksPipe, ReceiveReset, CommandDone,
       StopAll, Stopped, EndReset, Receive, server, link
<1>2. CASE Server \/ Lose
  BY <1>2 DEF Server, HandleMessage, Lose, server
<1>3. CASE \/ Escalate /\ UNCHANGED server
           \/ \E job \in Jobs : Escalated(job) /\ UNCHANGED server
           \/ \E t \in Jobs \cup {Control} : Terminate(t) /\ UNCHANGED server
  BY <1>3 DEF Escalate, Escalated, EndReset, Terminate, link, server
<1>4. CASE \E p \in Processes : StdoutReader(p) /\ UNCHANGED server
  BY <1>4 DEF StdoutReader, ReadReady, ReadCleaned, ForwardEvent, ForwardFinal,
              ReadError, EndReader, link, server
<1>5. CASE \E p \in Processes : WorkerStep(p) /\ UNCHANGED server
  BY <1>5 DEF WorkerStep, Reap, WorkerReady, InitFails, Crash, ReadStdin, JobEvent,
              JobEnds, JobCloses, StartRun, StartRunFails, CloseRun, Inside, link, server
<1>6. CASE UNCHANGED vars
  BY <1>6 DEF vars, link, server
<1> QED
  BY <1>1, <1>2, <1>3, <1>4, <1>5, <1>6, StepCases

\* A connection that has ended stays so, and only the server ends it or handles
\* what is sent on it.
LEMMA ConnSteps ==
  ASSUME TypeOK, [Next]_vars
  PROVE  /\ conn' = "open" => conn = "open"
         /\ Server \/ Lose \/ (conn' = conn /\ current' = current /\ cancels' = cancels)
<1>1. CASE ControlReader /\ UNCHANGED server
  <2>1. \A more : EndReset(Control, more) => conn' = conn
    BY DEF EndReset
  <2>2. \A m, b, c : BeginReset(Control, m, b, c) => conn' = conn
    BY DEF BeginReset
  <2>3. \A m, job : GiveJob(m, job) => conn' = conn
    BY DEF GiveJob
  <2>4. \/ RejectStart \/ StartOnWorker \/ SwitchWorker
        \/ StartWithoutEnvironment \/ StartWithoutWorker
        => conn' = conn
    BY <2>2, <2>3 DEF RejectStart, StartOnWorker, SwitchWorker, StartWithoutEnvironment,
                      StartWithoutWorker
  <2>5. \/ SwitchedWithoutEnvironment \/ Switched \/ CannotSpawn \/ Spawn
        \/ WorkerIsReady \/ WorkerIsGone \/ ReadyTimeout \/ TimedOut
        => conn' = conn
    BY <2>2, <2>3 DEF SwitchedWithoutEnvironment, Switched, CannotSpawn, Spawn, WorkerIsReady,
                      WorkerIsGone, ReadyTimeout, TimedOut, EndReset, link
  <2>6. \/ IgnoreCancel \/ CancelWithoutWorker \/ CancelOnWorker \/ CancelBreaksPipe
        \/ ReceiveReset \/ CommandDone \/ StopAll \/ Stopped
        => conn' = conn
    BY <2>2 DEF IgnoreCancel, CancelWithoutWorker, CancelOnWorker, CancelBreaksPipe,
                ReceiveReset, CommandDone, StopAll, Stopped, EndReset
  <2> QED
    BY <1>1, <2>4, <2>5, <2>6 DEF ControlReader, server
<1>2. CASE Server \/ Lose
  BY <1>2 DEF Server, AssignJob, CancelJob, ResetWorker, Deliver, HandleMessage, Lose
<1>3. CASE \/ Escalate /\ UNCHANGED server
           \/ \E job \in Jobs : Escalated(job) /\ UNCHANGED server
           \/ \E t \in Jobs \cup {Control} : Terminate(t) /\ UNCHANGED server
  <2>1. \A t, m, b, c : BeginReset(t, m, b, c) => conn' = conn
    BY DEF BeginReset
  <2> QED
    BY <1>3, <2>1 DEF Escalate, Escalated, EndReset, Terminate, link, server
<1>4. CASE \E p \in Processes : StdoutReader(p) /\ UNCHANGED server
  BY <1>4 DEF StdoutReader, ReadReady, ReadCleaned, ForwardEvent, ForwardFinal,
              ReadError, EndReader, link, server
<1>5. CASE \E p \in Processes : WorkerStep(p) /\ UNCHANGED server
  BY <1>5 DEF WorkerStep, Reap, WorkerReady, InitFails, Crash, ReadStdin, JobEvent,
              JobEnds, JobCloses, StartRun, StartRunFails, CloseRun, Inside, link, server
<1>6. CASE UNCHANGED vars
  BY <1>6 DEF vars, link, server
<1> QED
  BY <1>1, <1>2, <1>3, <1>4, <1>5, <1>6, StepCases

\* An unread start is not handled: what the server has sent to be started is
\* not yet over.
LEMMA PendingIsNotOver ==
  ASSUME TypeOK, OnlyStarted, NEW job \in Jobs, IsPending(job)
  PROVE  \A i \in 1..Len(outbox) : outbox[i].job # job
<1>1. \A i \in 1..Len(outbox) : outbox[i] \in Named(Started)
  BY DEF OnlyStarted, NamesIn
<1>2. \A i \in 1..Len(outbox) : outbox[i].job \in Started \cup {None}
  BY <1>1 DEF Named
<1> QED
  BY <1>2, NamesAssumption DEF Started

LEMMA OneStartKept ==
  ASSUME TypeOK, OnlyStarted, OneStart, [Next]_vars
  PROVE  OneStart'
<1>1. CASE inbox' = inbox /\ cancels' = cancels /\ current' = current
  BY <1>1, ConnSteps DEF OneStart, IsPending, InQueue
<1>2. CASE inbox' = inbox /\ HandleMessage
  <2>1. \A job \in Jobs : IsPending(job)' <=> IsPending(job)
    BY <1>2 DEF IsPending, InQueue
  <2>2. CASE current' = current
    BY <1>2, <2>1, <2>2, ConnSteps DEF OneStart
  <2>3. CASE current' # current
    <3>1. /\ outbox # <<>> /\ Head(outbox).type = "final"
          /\ Expected(Head(outbox)) /\ conn = "open"
      BY <1>2, <2>3 DEF HandleMessage
    <3>2. Head(outbox).job = current
      BY <3>1 DEF Expected
    <3>3. 1 \in 1..Len(outbox) /\ outbox[1] = Head(outbox)
      BY <3>1, TailIsRest DEF TypeOK
    <3>4. \A job \in Jobs : ~IsPending(job)
      BY <3>1, <3>2, <3>3, PendingIsNotOver DEF OneStart
    <3> QED
      BY <1>2, <2>1, <3>4 DEF OneStart
  <2> QED
    BY <2>2, <2>3
<1>3. CASE inbox # <<>> /\ inbox' = Tail(inbox) /\ current' = current
  BY <1>3, ReadOne, ConnSteps DEF OneStart
<1>4. ASSUME NEW job \in Jobs, AssignJob(job)
      PROVE  OneStart'
  <2>1. /\ inbox' = Append(inbox, Message("job.start", job)) /\ conn = "open"
        /\ current = None /\ current' = job
        /\ Message("job.start", job) \in ServerMessages
    BY <1>4, MessageTypes DEF AssignJob, Deliver
  <2>2. \A other \in Jobs : ~IsPending(other)
    BY <2>1, NamesAssumption DEF OneStart
  <2>3. \A other \in Jobs : Message("job.start", job) = Message("job.start", other) => job = other
    BY DEF Message
  <2> QED
    BY <2>1, <2>2, <2>3, DeliverOne DEF OneStart
<1>5. ASSUME NEW message \in ServerMessages, message.type # "job.start",
             inbox' = Append(inbox, message), conn = "open", current' = current
      PROVE  OneStart'
  <2>1. \A job \in Jobs : message # Message("job.start", job)
    BY <1>5 DEF Message
  <2> QED
    BY <1>5, <2>1, DeliverOne DEF OneStart
<1>6. ASSUME NEW job \in Jobs, CancelJob(job)
      PROVE  OneStart'
  <2>1. /\ Message("job.cancel", job) \in ServerMessages
        /\ Message("job.cancel", job).type # "job.start"
    BY MessageTypes DEF Message
  <2> QED
    BY <1>5, <1>6, <2>1 DEF CancelJob, Deliver
<1>7. CASE ResetWorker
  <2>1. /\ Message("worker.reset", None) \in ServerMessages
        /\ Message("worker.reset", None).type # "job.start"
    BY MessageTypes DEF Message
  <2> QED
    BY <1>5, <1>7, <2>1 DEF ResetWorker, Deliver
<1> QED
  BY <1>1, <1>2, <1>3, <1>4, <1>6, <1>7, InboxSteps
-----------------------------------------------------------------------------
(* Names only of started jobs *)

\* The control reader takes a job only with its start.
LEMMA ControlSteps ==
  ASSUME TypeOK, [Next]_vars
  PROVE  \/ control'.job \in {control.job, None}
         \/ /\ control'.job = Head(inbox).job /\ Head(inbox).type = "job.start"
            /\ inbox # <<>> /\ inbox' = Tail(inbox) /\ cancels' = cancels
<1>1. CASE ControlReader /\ UNCHANGED server
  <2>0. /\ \A m, job : GiveJob(m, job) => control'.job = None
        /\ \A m : StartFails(m) => control'.job = None
        /\ \A pc, job : GoTo(pc, job) => control'.job = job
    <3>1. \A pc, job : GoTo(pc, job) => control'.job = job
      BY DEF GoTo
    <3>2. \A m : StartFails(m) => control'.job = None
      BY <3>1 DEF StartFails
    <3> QED
      BY <3>1, <3>2 DEF GiveJob
  <2>1. CASE \/ RejectStart \/ StartOnWorker \/ SwitchWorker
             \/ StartWithoutEnvironment \/ StartWithoutWorker
    <3>1. CASE RejectStart \/ StartWithoutEnvironment
      BY <3>1 DEF RejectStart, StartWithoutEnvironment, launcher
    <3>2. CASE StartOnWorker
      BY <2>0, <3>2 DEF StartOnWorker
    <3>3. CASE SwitchWorker \/ StartWithoutWorker
      <4>1. control'.job = Head(inbox).job /\ Receive("job.start")
        BY <2>0, <3>3 DEF SwitchWorker, StartWithoutWorker
      <4> QED
        BY <1>1, <4>1 DEF Receive, server
    <3> QED
      BY <2>1, <3>1, <3>2, <3>3
  <2>2. CASE \/ SwitchedWithoutEnvironment \/ Switched \/ CannotSpawn \/ Spawn
             \/ WorkerIsReady \/ WorkerIsGone \/ ReadyTimeout \/ TimedOut
    <3>1. CASE Switched \/ Spawn \/ ReadyTimeout
      BY <2>0, <3>1 DEF Switched, Spawn, ReadyTimeout
    <3>2. CASE SwitchedWithoutEnvironment \/ CannotSpawn \/ WorkerIsGone \/ TimedOut
      BY <2>0, <3>2 DEF SwitchedWithoutEnvironment, CannotSpawn, WorkerIsGone, TimedOut
    <3>3. CASE WorkerIsReady
      BY <2>0, <3>3 DEF WorkerIsReady
    <3> QED
      BY <2>2, <3>1, <3>2, <3>3
  <2>3. CASE \/ IgnoreCancel \/ CancelWithoutWorker \/ CancelOnWorker
    BY <2>3 DEF IgnoreCancel, CancelWithoutWorker, CancelOnWorker, launcher
  <2>4. CASE \/ CancelBreaksPipe \/ ReceiveReset \/ CommandDone \/ StopAll \/ Stopped
    <3>1. \A pc : GoTo(pc, None) => control'.job = None
      BY DEF GoTo
    <3> QED
      BY <2>4, <3>1 DEF CancelBreaksPipe, ReceiveReset, CommandDone, StopAll, Stopped
  <2> QED
    BY <1>1, <2>1, <2>2, <2>3, <2>4 DEF ControlReader
<1>2. CASE Server \/ Lose
  BY <1>2 DEF Server, AssignJob, CancelJob, ResetWorker, Deliver, HandleMessage, Lose, launcher
<1>3. CASE \/ Escalate /\ UNCHANGED server
           \/ \E job \in Jobs : Escalated(job) /\ UNCHANGED server
           \/ \E t \in Jobs \cup {Control} : Terminate(t) /\ UNCHANGED server
  BY <1>3 DEF Escalate, Escalated, Terminate, launcher
<1>4. CASE \E p \in Processes : StdoutReader(p) /\ UNCHANGED server
  BY <1>4 DEF StdoutReader, ReadReady, ReadCleaned, ForwardEvent, ForwardFinal,
              ReadError, EndReader, launcher
<1>5. CASE \E p \in Processes : WorkerStep(p) /\ UNCHANGED server
  BY <1>5 DEF WorkerStep, Reap, WorkerReady, InitFails, Crash, ReadStdin, JobEvent,
              JobEnds, JobCloses, StartRun, StartRunFails, CloseRun, Inside, launcher
<1>6. CASE UNCHANGED vars
  BY <1>6 DEF vars, launcher
<1> QED
  BY <1>1, <1>2, <1>3, <1>4, <1>5, <1>6, StepCases

\* A job that has been assigned stays so.
LEMMA AssignedSteps ==
  ASSUME TypeOK, [Next]_vars
  PROVE  \A job \in Jobs : cancels[job] # None => cancels'[job] # None
<1>1. CASE cancels' = cancels
  BY <1>1
<1>2. ASSUME NEW job \in Jobs, AssignJob(job)
      PROVE  \A other \in Jobs : cancels[other] # None => cancels'[other] # None
  BY <1>2 DEF AssignJob, TypeOK
<1>3. ASSUME NEW job \in Jobs, CancelJob(job)
      PROVE  \A other \in Jobs : cancels[other] # None => cancels'[other] # None
  <2>1. cancels[job] \in Nat /\ cancels' = [cancels EXCEPT ![job] = cancels[job] + 1]
    BY <1>3, CancelsAssumption DEF CancelJob
  <2>2. cancels[job] + 1 # None
    BY <2>1, CancelsAssumption
  <2> QED
    BY <2>1, <2>2 DEF TypeOK
<1> QED
  BY <1>1, <1>2, <1>3, InboxSteps DEF ResetWorker

\* A start that is on its way was so before, or its job has just been assigned.
LEMMA NewStarts ==
  ASSUME TypeOK, OneStart, [Next]_vars, NEW job \in Jobs, IsPending(job)'
  PROVE  IsPending(job) \/ AssignJob(job)
<1>1. CASE inbox' = inbox
  BY <1>1 DEF IsPending, InQueue
<1>2. CASE inbox # <<>> /\ inbox' = Tail(inbox)
  BY <1>2, ReadOne
<1>3. ASSUME NEW other \in Jobs, AssignJob(other), other # job
      PROVE  IsPending(job)
  <2>1. /\ inbox' = Append(inbox, Message("job.start", other))
        /\ Message("job.start", other) \in ServerMessages
    BY <1>3, MessageTypes DEF AssignJob, Deliver
  <2>2. Message("job.start", other) # Message("job.start", job)
    BY <1>3 DEF Message
  <2> QED
    BY <2>1, <2>2, DeliverOne
<1>4. ASSUME NEW other \in Jobs, CancelJob(other)
      PROVE  IsPending(job)
  <2>1. /\ inbox' = Append(inbox, Message("job.cancel", other))
        /\ Message("job.cancel", other) \in ServerMessages
        /\ Message("job.cancel", other) # Message("job.start", job)
    BY <1>4, MessageTypes DEF CancelJob, Deliver, Message
  <2> QED
    BY <2>1, DeliverOne
<1>5. CASE ResetWorker
  <2>1. /\ inbox' = Append(inbox, Message("worker.reset", None))
        /\ Message("worker.reset", None) \in ServerMessages
        /\ Message("worker.reset", None) # Message("job.start", job)
    BY <1>5, MessageTypes DEF ResetWorker, Deliver, Message
  <2> QED
    BY <2>1, DeliverOne
<1> QED
  BY <1>1, <1>2, <1>3, <1>4, <1>5, InboxSteps

LEMMA AssignedFirstKept ==
  ASSUME TypeOK, OneStart, AssignedFirst, [Next]_vars
  PROVE  AssignedFirst'
<1>1. ASSUME NEW job \in Jobs, AssignJob(job)
      PROVE  cancels'[job] # None
  BY <1>1, CancelsAssumption DEF AssignJob, TypeOK
<1> QED
  BY <1>1, NewStarts, AssignedSteps DEF AssignedFirst

LEMMA StartedGrows ==
  ASSUME TypeOK, OneStart, [Next]_vars
  PROVE  Started \subseteq Started' /\ Given \subseteq Given'
<1>1. ASSUME NEW job \in Jobs, cancels[job] # None, IsPending(job)'
      PROVE  IsPending(job)
  BY <1>1, NewStarts DEF AssignJob
<1>2. Started \subseteq Started'
  BY <1>1, AssignedSteps DEF Started
<1>3. ASSUME NEW job \in Given
      PROVE  job # control'.job
  <2>1. job \in Jobs /\ job # control.job /\ ~IsPending(job)
    BY DEF Given, Started
  <2>2. CASE control'.job \in {control.job, None}
    BY <2>1, <2>2, NamesAssumption
  <2>3. CASE /\ control'.job = Head(inbox).job /\ Head(inbox).type = "job.start"
             /\ inbox # <<>>
    <3>1. 1 \in 1..Len(inbox) /\ inbox[1] = Head(inbox)
      BY <2>3, TailIsRest DEF TypeOK
    <3>2. inbox[1] = Message("job.start", control'.job)
      BY <2>3, <3>1, StartMessages
    <3> QED
      BY <2>1, <3>1, <3>2 DEF IsPending, InQueue
  <2> QED
    BY <2>2, <2>3, ControlSteps
<1> QED
  BY <1>2, <1>3 DEF Given

\* The job whose start is read is started, and given once the reader has done
\* with it.
LEMMA StartIsRead ==
  ASSUME TypeOK, OneStart, AssignedFirst, [Next]_vars, UNCHANGED server,
         Receive("job.start")
  PROVE  /\ Head(inbox).job \in Started'
         /\ control'.job = None => Head(inbox).job \in Given'
<1>1. inbox # <<>> /\ inbox' = Tail(inbox) /\ Head(inbox).type = "job.start"
  BY DEF Receive
<1>2. 1 \in 1..Len(inbox) /\ inbox[1] = Head(inbox)
  BY <1>1, TailIsRest DEF TypeOK
<1>3. Head(inbox) = Message("job.start", Head(inbox).job) /\ Head(inbox).job \in Jobs
  BY <1>1, <1>2, StartMessages
<1>4. PICK job \in Jobs : job = Head(inbox).job
  BY <1>3
<1>5. IsPending(job) /\ ~IsPending(job)'
  BY <1>1, <1>3, <1>4, ReadOne
<1>6. cancels'[job] # None
  BY <1>5 DEF AssignedFirst, server
<1>7. job \in Started'
  BY <1>5, <1>6 DEF Started
<1> QED
  BY <1>4, <1>7, NamesAssumption DEF Given

LEMMA OnlyStartedKept ==
  ASSUME TypeOK, OnlyStarted, OneStart, AssignedFirst, [Next]_vars
  PROVE  OnlyStarted'
<1>1. \E S, G : S = Started' /\ G = Given'
  OBVIOUS
<1>2. PICK S, G : S = Started' /\ G = Given'
  BY <1>1
<1>3. S \subseteq Jobs /\ G \subseteq S
  BY <1>2 DEF Started, Given
<1>4. NamesIn(S, G)
  <2>1. Started \subseteq S /\ Given \subseteq G
    BY <1>2, StartedGrows
  <2>2. NamesIn(Started, Given)
    BY DEF OnlyStarted
  <2>3. \A A, B : A \subseteq S /\ B \subseteq G /\ NamesIn(A, B) => NamesIn(S, G)
    BY MoreNames
  <2> QED
    BY <2>1, <2>2, <2>3
<1>5. NamesIn(S, G)'
  <2>1. CASE Server \/ Lose
    BY <1>4, <2>1, ServerNames
  <2>2. CASE ControlReader /\ UNCHANGED server
    <3>1. CASE \/ RejectStart \/ StartOnWorker \/ SwitchWorker
               \/ StartWithoutEnvironment \/ StartWithoutWorker
      <4>1. Receive("job.start")
        BY <3>1 DEF RejectStart, StartOnWorker, SwitchWorker, StartWithoutEnvironment,
                    StartWithoutWorker
      <4>2. StartOnWorker => control'.job = None
        <5>1. StartOnWorker => GiveJob(Taken(Head(inbox).job), Head(inbox).job)
          BY DEF StartOnWorker
        <5>2. Taken(Head(inbox).job) \in ManagerType /\ Head(inbox).job \in Jobs
          BY <4>1, ReceiveType, TakenType
        <5> QED
          BY <5>1, <5>2, GiveJobFields
      <4>3. Head(inbox).job \in S /\ (StartOnWorker => Head(inbox).job \in G)
        BY <1>2, <2>2, <4>1, <4>2, StartIsRead
      <4> QED
        BY <1>3, <1>4, <2>2, <3>1, <4>3, StartNames
    <3>2. CASE \/ SwitchedWithoutEnvironment \/ Switched \/ CannotSpawn \/ Spawn
               \/ WorkerIsReady \/ WorkerIsGone \/ ReadyTimeout \/ TimedOut
      <4>1. ASSUME WorkerIsReady
            PROVE  control.job \in G
        <5>1. control.job \in Jobs /\ control.job \in Started
          BY <4>1, ControlJob, NamesAssumption DEF WorkerIsReady, OnlyStarted, NamesIn
        <5>2. control'.job = None
          <6> DEFINE m == [manager EXCEPT !.status = "idle"]
          <6>1. m \in ManagerType
            BY ManagerTypes DEF TypeOK
          <6>2. GiveJob(m, control.job) => control'.job = None
            BY <5>1, <6>1, GiveJobFields
          <6>3. StartFails(m) => control'.job = None
            BY <6>1, StartFailsFields
          <6> QED
            BY <4>1, <6>2, <6>3 DEF WorkerIsReady
        <5>3. control.job \in Started'
          BY <5>1, StartedGrows
        <5> QED
          BY <1>2, <5>1, <5>2, <5>3, NamesAssumption DEF Given
      <4> QED
        BY <1>3, <1>4, <2>2, <3>2, <4>1, StartingNames
    <3>3. CASE \/ IgnoreCancel \/ CancelWithoutWorker \/ CancelOnWorker \/ CancelBreaksPipe
               \/ ReceiveReset \/ CommandDone \/ StopAll \/ Stopped
      <4>1. ASSUME CancelOnWorker
            PROVE  manager.job \in G
        <5>1. manager.job \in Jobs /\ control.job = None /\ manager.job \in Started
          BY <4>1, ReceiveType, NamesAssumption DEF CancelOnWorker, OnlyStarted, NamesIn
        <5> QED
          BY <1>2, <5>1, StartedGrows, NamesAssumption DEF Given
      <4> QED
        BY <1>4, <2>2, <3>3, <4>1, CommandNames
    <3> QED
      BY <2>2, <3>1, <3>2, <3>3 DEF ControlReader
  <2>3. CASE \/ Escalate /\ UNCHANGED server
             \/ \E job \in Jobs : Escalated(job) /\ UNCHANGED server
             \/ \E t \in Jobs \cup {Control} : Terminate(t) /\ UNCHANGED server
    BY <1>4, <2>3, EscalationNames DEF Tasks
  <2>4. ASSUME NEW p \in Processes, StdoutReader(p), UNCHANGED server
        PROVE  NamesIn(S, G)'
    BY <1>3, <1>4, <2>4, ReaderNames
  <2>5. ASSUME NEW p \in Processes, WorkerStep(p), UNCHANGED server
        PROVE  NamesIn(S, G)'
    BY <1>4, <2>5, WorkerNames
  <2>6. CASE UNCHANGED vars
    BY <1>4, <2>6 DEF vars, link, launcher, process, NamesIn
  <2> QED
    BY <2>1, <2>2, <2>3, <2>4, <2>5, <2>6, StepCases
<1> QED
  BY <1>2, <1>5 DEF OnlyStarted, NamesIn, Named
-----------------------------------------------------------------------------
(* The outbox.  The launcher only adds to it.                                *)

Grows ==
  /\ conn' = conn /\ UNCHANGED server
  /\ Len(outbox) <= Len(outbox')
  /\ \A i \in 1..Len(outbox) : outbox'[i] = outbox[i]
Sends(job) ==
  \E k \in 1..Len(outbox') : k > Len(outbox) /\ outbox'[k] = Final(job)

LEMMA SendGrows ==
  ASSUME TypeOK, NEW m \in Seq(LauncherMessages), Send(m), conn' = conn, UNCHANGED server
  PROVE  /\ Grows
         /\ conn = "open" => \A i \in 1..Len(m) : \A job : m[i] = Final(job) => Sends(job)
<1>1. outbox \in Seq(LauncherMessages) /\ Len(outbox) \in Nat /\ Len(m) \in Nat
  BY DEF TypeOK
<1>2. CASE conn = "open"
  <2>1. outbox' = outbox \o m
    BY <1>2 DEF Send
  <2>2. /\ Len(outbox') = Len(outbox) + Len(m)
        /\ \A i \in 1..Len(outbox) : outbox'[i] = outbox[i]
        /\ \A i \in 1..Len(m) : outbox'[Len(outbox) + i] = m[i]
    BY <1>1, <2>1
  <2>3. \A i \in 1..Len(m) : /\ Len(outbox) + i \in 1..Len(outbox')
                             /\ Len(outbox) + i > Len(outbox)
    BY <1>1, <2>2
  <2> QED
    BY <1>1, <2>2, <2>3 DEF Grows, Sends
<1>3. CASE conn # "open"
  BY <1>1, <1>3 DEF Send, Grows
<1> QED
  BY <1>2, <1>3

LEMMA SendFinal ==
  ASSUME TypeOK, NEW job \in Jobs, Send(<<Final(job)>>), conn' = conn, UNCHANGED server
  PROVE  Grows /\ (conn = "open" => Sends(job))
<1>1. <<Final(job)>> \in Seq(LauncherMessages)
  BY MessageTypes, ShortQueues
<1>2. 1 \in 1..Len(<<Final(job)>>) /\ <<Final(job)>>[1] = Final(job)
  OBVIOUS
<1> QED
  BY <1>1, <1>2, SendGrows

LEMMA SameOutbox ==
  ASSUME TypeOK, outbox' = outbox, conn' = conn, UNCHANGED server
  PROVE  Grows
<1>1. Len(outbox) \in Nat
  BY DEF TypeOK
<1> QED
  BY <1>1 DEF Grows

LEMMA SendAcks ==
  ASSUME TypeOK, NEW job \in Jobs \cup {None}, NEW notify \in BOOLEAN,
         NEW more \in Seq(LauncherMessages), Send(Acks(job, notify) \o more),
         conn' = conn, UNCHANGED server
  PROVE  /\ Grows /\ (conn = "open" /\ job # None => Sends(job))
         /\ \A other \in Jobs : conn = "open" /\ more = <<Final(other)>> => Sends(other)
<1>1. Acks(job, notify) \in Seq(LauncherMessages)
  BY AcksType
<1>2. Acks(job, notify) \o more \in Seq(LauncherMessages)
  BY <1>1, QueueTypes
<1>3. Grows
  BY <1>2, SendGrows
<1>4. ASSUME job # None
      PROVE  1 \in 1..Len(Acks(job, notify) \o more) /\ (Acks(job, notify) \o more)[1] = Final(job)
  <2>1. (IF notify THEN <<ResetDone>> ELSE <<>>) \in Seq(LauncherMessages)
    BY MessageTypes, ShortQueues
  <2>2. Final(job) \in LauncherMessages
    BY <1>4, MessageTypes
  <2>3. \A q \in Seq(LauncherMessages) :
          /\ <<Final(job)>> \o q \in Seq(LauncherMessages)
          /\ Len(<<Final(job)>> \o q) >= 1 /\ (<<Final(job)>> \o q)[1] = Final(job)
    BY <2>2
  <2>4. Len(Acks(job, notify)) >= 1 /\ Acks(job, notify)[1] = Final(job)
    BY <1>4, <2>1, <2>3 DEF Acks
  <2> QED
    BY <1>1, <2>4
<1>5. ASSUME NEW other \in Jobs, more = <<Final(other)>>
      PROVE  \E i \in 1..Len(Acks(job, notify) \o more) :
               (Acks(job, notify) \o more)[i] = Final(other)
  <2>1. \A q \in Seq(LauncherMessages) : /\ Len(q) + 1 \in 1..Len(q \o <<Final(other)>>)
                                         /\ (q \o <<Final(other)>>)[Len(q) + 1] = Final(other)
    BY MessageTypes
  <2> QED
    BY <1>1, <1>5, <2>1
<1> QED
  BY <1>2, <1>3, <1>4, <1>5, SendGrows

\* What more messages change for the server.
LEMMA GrowsFacts ==
  ASSUME TypeOK, TypeOK', Grows
  PROVE  /\ Stray => Stray'
         /\ Twice => Twice'
         /\ \A job \in Jobs : IsOver(job) => IsOver(job)'
         /\ Calm' => Calm
         /\ Live' => Live
         /\ \A job \in Jobs : Sends(job) => ~Live'
         /\ \A job \in Jobs : Sends(job) /\ Calm' => job = current
         /\ \A job \in Jobs : Sends(job) /\ Calm' /\ IsOver(job) => Twice'
<1>1. /\ Len(outbox) \in Nat /\ Len(outbox') \in Nat /\ current' = current /\ conn' = conn
      /\ 1..Len(outbox) \subseteq 1..Len(outbox')
  BY DEF TypeOK, Grows, server
<1>2. Stray => Stray'
  BY <1>1 DEF Stray, Grows
<1>3. Twice => Twice'
  BY <1>1 DEF Twice, Grows
<1>4. \A job \in Jobs : IsOver(job) => IsOver(job)'
  BY <1>1 DEF IsOver, InQueue, Grows
<1>5. Calm' => Calm
  BY <1>1, <1>2 DEF Calm
<1>6. Live' => Live
  BY <1>1, <1>4, <1>5, NamesAssumption DEF Live, TypeOK
<1>7. \A job \in Jobs : Sends(job) /\ Calm' => job = current
  BY <1>1 DEF Sends, Calm, Stray, Final, Message
<1>8. \A job \in Jobs : Sends(job) => ~Live'
  BY <1>1, <1>7 DEF Sends, Live, IsOver, InQueue
<1>9. ASSUME NEW job \in Jobs, Sends(job), Calm', IsOver(job)
      PROVE  Twice'
  <2>1. job = current
    BY <1>7, <1>9
  <2>2. PICK i \in 1..Len(outbox) : outbox[i] = Final(current)
    BY <1>9, <2>1 DEF IsOver, InQueue
  <2>3. PICK k \in 1..Len(outbox') : k > Len(outbox) /\ outbox'[k] = Final(job)
    BY <1>9 DEF Sends
  <2>4. i < k /\ outbox'[i] = Final(current') /\ outbox'[k].type # "worker.reset.done"
    BY <1>1, <2>2, <2>3 DEF Grows, Final, Message
  <2> QED
    BY <1>1, <2>2, <2>4 DEF Twice
<1> QED
  BY <1>2, <1>3, <1>4, <1>5, <1>6, <1>7, <1>8, <1>9
-----------------------------------------------------------------------------
(* What a step of the launcher may do, while the connection lives, without   *)
(* losing a job or leaving a timer behind                                    *)

Kept == OneEnding' /\ InOnePlace' /\ TimerMatchesJob'

NoNewEnding == \A t \in Jobs : reset'[t] # None => reset'[t] = reset[t]
NoNewReport == \A t \in Tasks : reset'[t] # None /\ reset'[t].job # None => reset'[t] = reset[t]
ResetsGoOn ==
  \A t \in Tasks : reset[t] # None /\ reset[t].job # None =>
    reset'[t] = reset[t] \/ Sends(reset[t].job)
SameStarts == \A job \in Jobs : IsPending(job)' <=> IsPending(job)

\* When the connection is gone, nothing is promised.
LEMMA ClosedIsKept ==
  ASSUME conn' # "open"
  PROVE  Kept
BY DEF Kept, OneEnding, InOnePlace, TimerMatchesJob, Live, Calm

LEMMA TimerIsCalm ==
  TimerMatchesJob <=> (Calm => manager.timer \in {None, manager.job})
BY DEF TimerMatchesJob, Calm

LEMMA EndingKept ==
  ASSUME JobInv, TypeOK', Grows, NoNewEnding,
         Calm' /\ (\E t \in Jobs : Ending(t)) =>
           /\ manager'.worker = None /\ manager'.timer = None /\ control'.job = None
           /\ manager'.job = manager.job \/ Twice' \/ (manager'.job = None /\ Sends(manager.job))
  PROVE  OneEnding'
<1>1. \A t \in Jobs : Ending(t)' => Ending(t)
  BY DEF NoNewEnding, Ending
<1>2. /\ Calm' => Calm
      /\ Twice => Twice'
      /\ \A job \in Jobs : IsOver(job) => IsOver(job)'
      /\ \A job \in Jobs : Sends(job) /\ Calm' /\ IsOver(job) => Twice'
  BY GrowsFacts DEF JobInv
<1>3. OneEnding /\ manager.job \in Jobs \cup {None}
  BY ManagerTypes DEF JobInv, TypeOK
<1>4. ASSUME Calm', NEW t \in Jobs, Ending(t)'
      PROVE  Twice' \/ (manager'.job # None /\ IsOver(manager.job)' /\ manager'.job = manager.job)
  <2>1. Ending(t) /\ Calm
    BY <1>1, <1>2, <1>4
  <2>2. Twice \/ (manager.job # None /\ IsOver(manager.job))
    BY <1>3, <2>1 DEF OneEnding
  <2>3. CASE Twice
    BY <1>2, <2>3
  <2>4. CASE manager.job # None /\ IsOver(manager.job)
    <3>1. PICK job \in Jobs : job = manager.job
      BY <1>3, <2>4
    <3>2. CASE manager'.job = manager.job
      <4>1. IsOver(job)'
        BY <1>2, <2>4, <3>1
      <4> QED
        BY <2>4, <3>1, <3>2, <4>1 DEF IsOver
    <3>3. CASE Sends(manager.job)
      BY <1>2, <1>4, <2>4, <3>1, <3>3
    <3> QED
      BY <1>4, <2>1, <3>2, <3>3
  <2> QED
    BY <2>2, <2>3, <2>4
<1>5. \A t, u \in Jobs : Calm' /\ Ending(t)' /\ Ending(u)' => t = u
  BY <1>1, <1>2, <1>3 DEF OneEnding
<1>6. ASSUME Calm', NEW t \in Jobs, Ending(t)'
      PROVE  /\ manager'.worker = None /\ manager'.timer = None /\ control'.job = None
             /\ Twice' \/ (manager'.job # None /\ IsOver(manager.job)')
  BY <1>1, <1>4, <1>6
<1> QED
  BY <1>5, <1>6 DEF OneEnding

\* A step that leaves the job in hand and what is known of it.
Quiet ==
  /\ Grows /\ NoNewEnding /\ NoNewReport /\ ResetsGoOn /\ SameStarts
  /\ manager'.job = manager.job /\ control'.job = control.job
  /\ manager'.forwarded \in {manager.forwarded, None}
  /\ manager'.timer \in {manager.timer, None}
  /\ manager'.worker \in {manager.worker, None} \/ control.job # None

LEMMA PlacesKept ==
  ASSUME JobInv, TypeOK', Grows, ResetsGoOn, NoNewReport, Live'
  PROVE  Live /\ current' = current /\ (WillReport(current)' <=> WillReport(current))
<1>1. Live /\ current' = current
  BY GrowsFacts DEF JobInv, Grows, server
<1>2. current \in Jobs /\ ~Sends(current)
  BY <1>1, GrowsFacts DEF JobInv, TypeOK, Live
<1>3. PICK job \in Jobs : job = current
  BY <1>2
<1>4. WillReport(job)' <=> WillReport(job)
  <2>1. ASSUME NEW t \in Tasks, reset[t] # None, reset[t].job = job
        PROVE  WillReport(job)'
    <3>1. reset[t].job # None
      BY <2>1, NamesAssumption
    <3>2. reset'[t] = reset[t]
      BY <1>2, <1>3, <2>1, <3>1 DEF ResetsGoOn
    <3> QED
      BY <2>1, <3>2 DEF WillReport
  <2>2. ASSUME NEW t \in Tasks, reset'[t] # None, reset'[t].job = job
        PROVE  WillReport(job)
    <3>1. reset'[t] = reset[t]
      BY <2>2, NamesAssumption DEF NoNewReport
    <3> QED
      BY <2>2, <3>1 DEF WillReport
  <2> QED
    BY <2>1, <2>2 DEF WillReport
<1> QED
  BY <1>1, <1>3, <1>4 DEF WillReport

LEMMA QuietKeeps ==
  ASSUME JobInv, TypeOK', Quiet
  PROVE  Kept
<1>1. OneEnding'
  <2>1. Calm' => Calm
    BY GrowsFacts DEF JobInv, Quiet
  <2>2. Calm /\ (\E t \in Jobs : Ending(t)) =>
          manager.worker = None /\ manager.timer = None /\ control.job = None
    BY DEF JobInv, OneEnding
  <2> QED
    BY <2>1, <2>2, EndingKept DEF Quiet
<1>2. InOnePlace'
  <2> SUFFICES ASSUME Live' PROVE InOnePlace'
    BY DEF InOnePlace
  <2>1. Live /\ current' = current /\ (WillReport(current)' <=> WillReport(current))
    BY PlacesKept DEF Quiet
  <2>2. PICK job \in Jobs : job = current
    BY <2>1 DEF JobInv, TypeOK, Live
  <2>3. IsPending(job)' <=> IsPending(job)
    BY DEF Quiet, SameStarts
  <2>4. IsPending(current)' <=> IsPending(current)
    BY <2>1, <2>2, <2>3 DEF IsPending
  <2>5. manager'.forwarded # current
    BY <2>1, <2>2, NamesAssumption DEF JobInv, InOnePlace, Quiet
  <2> QED
    BY <2>1, <2>4, <2>5 DEF JobInv, InOnePlace, Quiet
<1>3. TimerMatchesJob'
  <2>1. Calm' => Calm
    BY GrowsFacts DEF JobInv, Quiet
  <2>2. Calm' => manager'.timer \in {None, manager'.job}
    BY <2>1, TimerIsCalm DEF JobInv, Quiet
  <2> QED
    BY <2>2 DEF TimerMatchesJob, Calm
<1> QED
  BY <1>1, <1>2, <1>3 DEF Kept

\* While a start is handled, no timer is armed and no cancel is being escalated.
LEMMA NoTimerYet ==
  ASSUME JobInv, Calm, control.job # None
  PROVE  manager.timer = None /\ \A t \in Jobs : ~Ending(t)
<1>1. manager.timer \in {None, manager.job} /\ manager.job \in {None, control.job}
  BY TimerIsCalm DEF JobInv, InHand
<1>2. manager.timer # control.job
  BY DEF JobInv, OnlyStarted, NamesIn, Given
<1> QED
  BY <1>1, <1>2 DEF JobInv, OneEnding

\* A step that reports the end of a job: it is over for the server.
LEMMA ReportKeeps ==
  ASSUME JobInv, TypeOK', Grows, NoNewEnding, NEW job \in Jobs, Sends(job),
         Calm' => manager'.timer \in {None, manager'.job},
         Calm' /\ (\E t \in Jobs : Ending(t)) =>
           /\ manager'.worker = None /\ manager'.timer = None /\ control'.job = None
           /\ manager'.job = manager.job \/ Twice' \/ (manager'.job = None /\ Sends(manager.job))
  PROVE  Kept
<1>1. OneEnding'
  BY EndingKept
<1>2. ~Live'
  BY GrowsFacts DEF JobInv
<1>3. InOnePlace' /\ TimerMatchesJob'
  BY <1>2 DEF InOnePlace, TimerMatchesJob, Calm
<1> QED
  BY <1>1, <1>3 DEF Kept

\* The start that is read is of the assigned job, and the only one.
LEMMA StartRead ==
  ASSUME JobInv, Receive("job.start")
  PROVE  /\ conn = "open" /\ control.job = None /\ control.pc = "idle" /\ reset[Control] = None
         /\ current \in Jobs /\ Head(inbox).job = current /\ IsPending(current)
         /\ ~InQueue(outbox, Final(current)) /\ current \notin Started /\ ~Twice
<1>1. inbox # <<>> /\ Head(inbox).type = "job.start"
  BY DEF Receive
<1>2. 1 \in 1..Len(inbox) /\ inbox[1] = Head(inbox)
  BY <1>1, TailIsRest DEF JobInv, TypeOK
<1>3. Head(inbox) = Message("job.start", Head(inbox).job) /\ Head(inbox).job \in Jobs
  BY <1>1, <1>2, StartMessages DEF JobInv
<1>4. IsPending(Head(inbox).job)
  BY <1>2, <1>3 DEF IsPending, InQueue
<1>5. /\ conn = "open" /\ control.job = None /\ control.pc = "idle"
  BY ReceiveType DEF JobInv
<1>6. Head(inbox).job = current
  BY <1>3, <1>4, <1>5 DEF JobInv, OneStart
<1>7. \A i \in 1..Len(outbox) : outbox[i].job # current
  BY <1>3, <1>4, <1>6, PendingIsNotOver DEF JobInv
<1>8. ~InQueue(outbox, Final(current)) /\ ~Twice
  BY <1>7 DEF InQueue, Final, Message, Twice
<1> QED
  BY <1>3, <1>4, <1>5, <1>6, <1>8 DEF JobInv, OwnReset, Started

\* With its start unread, the job is nowhere else.
LEMMA StartIsFirst ==
  ASSUME JobInv, Receive("job.start"), manager.job = None
  PROVE  /\ ~WillReport(current)
         /\ Calm => manager.timer = None /\ \A t \in Jobs : ~Ending(t)
<1>1. current \notin Started /\ ~Twice /\ current # None
  BY StartRead, NamesAssumption
<1>2. ~WillReport(current)
  BY <1>1 DEF WillReport, JobInv, OnlyStarted, NamesIn
<1>3. Calm => manager.timer = None
  BY TimerIsCalm DEF JobInv
<1> QED
  BY <1>1, <1>2, <1>3 DEF JobInv, OneEnding

\* A step that takes the job.
LEMMA TakeKeeps ==
  ASSUME JobInv, TypeOK', Grows, NoNewEnding, NoNewReport,
         Receive("job.start"), manager.job = None,
         manager'.job = Head(inbox).job, manager'.timer \in {manager.timer, None},
         manager'.forwarded = None, control'.job \in {None, Head(inbox).job}
  PROVE  Kept
<1>1. /\ Calm' => Calm
      /\ Live' => Live
      /\ current' = current
  BY GrowsFacts DEF JobInv, Grows, server
<1>2. current \in Jobs /\ Head(inbox).job = current
  BY StartRead
<1>3. /\ ~WillReport(current)
      /\ Calm => manager.timer = None /\ \A t \in Jobs : ~Ending(t)
  BY StartIsFirst
<1>4. OneEnding'
  BY <1>1, <1>3, EndingKept
<1>5. ASSUME NEW t \in Tasks, reset'[t] # None, reset'[t].job = current
      PROVE  FALSE
  <2>1. reset'[t] = reset[t]
    BY <1>2, <1>5, NamesAssumption DEF NoNewReport
  <2> QED
    BY <1>3, <1>5, <2>1 DEF WillReport
<1>6. ~WillReport(current)'
  BY <1>1, <1>5 DEF WillReport
<1>7. InOnePlace'
  BY <1>1, <1>2, <1>6, NamesAssumption DEF InOnePlace
<1>8. TimerMatchesJob'
  BY <1>1, <1>3 DEF TimerMatchesJob, Calm
<1> QED
  BY <1>4, <1>7, <1>8 DEF Kept

LEMMA StartKeeps ==
  ASSUME JobInv, TypeOK', UNCHANGED server,
         \/ RejectStart \/ StartOnWorker \/ SwitchWorker
         \/ StartWithoutEnvironment \/ StartWithoutWorker
  PROVE  Kept
<1> DEFINE job == Head(inbox).job
<1>1. Receive("job.start")
  BY DEF RejectStart, StartOnWorker, SwitchWorker, StartWithoutEnvironment, StartWithoutWorker
<1>2. /\ TypeOK /\ job \in Jobs /\ conn = "open" /\ control.job = None
      /\ Taken(job) \in ManagerType /\ reset[Control] = None
  BY <1>1, StartRead, TakenType DEF JobInv
<1>3. /\ Taken(job).job = job /\ Taken(job).timer = manager.timer
      /\ Taken(job).forwarded = None /\ Taken(job).worker = manager.worker
  BY <1>2, TakenFields
<1>4. manager.job = None => (Calm => manager.timer = None /\ \A t \in Jobs : ~Ending(t))
  BY <1>1, StartIsFirst
<1>5. Grows => (Calm' => Calm)
  BY <1>2, GrowsFacts
<1>6. CASE RejectStart
  <2>1. Send(<<Final(job)>>) /\ UNCHANGED <<conn, launcher>>
    BY <1>6 DEF RejectStart
  <2>2. Grows /\ Sends(job)
    BY <1>2, <2>1, SendFinal
  <2>3. NoNewEnding /\ manager' = manager /\ control' = control
    BY <2>1 DEF NoNewEnding, launcher
  <2>4. Calm => manager.timer \in {None, manager.job}
    BY TimerIsCalm DEF JobInv
  <2> QED
    BY <1>2, <1>5, <2>2, <2>3, <2>4, ReportKeeps DEF JobInv, OneEnding
<1>7. CASE StartWithoutEnvironment
  <2>1. /\ Send(<<Final(job)>>) /\ UNCHANGED <<conn, control, reset>> /\ manager.job = None
        /\ manager'.job = None /\ manager'.timer = manager.timer
        /\ manager'.worker = manager.worker
    BY <1>2, <1>7 DEF StartWithoutEnvironment, Taken, TypeOK, ManagerType
  <2>2. Grows /\ Sends(job)
    BY <1>2, <2>1, SendFinal
  <2>3. NoNewEnding
    BY <2>1 DEF NoNewEnding
  <2> QED
    BY <1>2, <1>4, <1>5, <2>1, <2>2, <2>3, ReportKeeps
<1>8. CASE StartOnWorker
  <2>1. GiveJob(Taken(job), job) /\ manager.job = None
    BY <1>8 DEF StartOnWorker
  <2>2. /\ control'.job = None /\ manager'.timer = manager.timer /\ manager'.forwarded = None
        /\ UNCHANGED <<conn, reset>>
        /\ \/ manager'.job = job /\ outbox' = outbox
           \/ manager'.job = None /\ Send(<<Final(job)>>)
    BY <1>2, <1>3, <2>1, GiveJobFields
  <2>3. NoNewEnding /\ NoNewReport
    BY <2>2 DEF NoNewEnding, NoNewReport
  <2>4. CASE manager'.job = job /\ outbox' = outbox
    <3>1. Grows
      BY <1>2, <2>2, <2>4, SameOutbox
    <3> QED
      BY <1>1, <2>1, <2>2, <2>3, <2>4, <3>1, TakeKeeps
  <2>5. CASE manager'.job = None /\ Send(<<Final(job)>>)
    <3>1. Grows /\ Sends(job)
      BY <1>2, <2>2, <2>5, SendFinal
    <3> QED
      BY <1>2, <1>4, <1>5, <2>1, <2>2, <2>3, <2>5, <3>1, ReportKeeps
  <2> QED
    BY <2>2, <2>4, <2>5
<1>9. CASE SwitchWorker
  <2>1. /\ BeginReset(Control, Taken(job), FALSE, FALSE) /\ control'.job = job
        /\ manager.job = None /\ manager.worker # None
    BY <1>9 DEF SwitchWorker, GoTo
  <2>2. /\ manager'.job = job /\ manager'.timer = None /\ manager'.forwarded = None
    BY <1>2, <1>3, <2>1, ResetManager
  <2>3. /\ outbox' = outbox /\ conn' = conn
        /\ reset' = [reset EXCEPT ![Control] =
                       [proc |-> manager.worker, job |-> None, notify |-> FALSE]]
    BY <1>3, <2>1 DEF BeginReset
  <2>4. Grows
    BY <1>2, <2>3, SameOutbox
  <2>5. NoNewEnding /\ NoNewReport
    BY <1>2, <2>3, NamesAssumption DEF NoNewEnding, NoNewReport, TypeOK, Tasks
  <2> QED
    BY <1>1, <2>1, <2>2, <2>4, <2>5, TakeKeeps
<1>10. CASE StartWithoutWorker
  <2>1. /\ manager' = Taken(job) /\ control'.job = job /\ manager.job = None
        /\ UNCHANGED <<conn, outbox, reset>>
    BY <1>10 DEF StartWithoutWorker, GoTo
  <2>2. Grows /\ NoNewEnding /\ NoNewReport
    BY <1>2, <2>1, SameOutbox DEF NoNewEnding, NoNewReport
  <2> QED
    BY <1>1, <1>3, <2>1, <2>2, TakeKeeps
<1> QED
  BY <1>6, <1>7, <1>8, <1>9, <1>10

\* The two ends of reset_worker, while the connection lives.
LEMMA EndResetEffect ==
  ASSUME TypeOK, conn = "open", UNCHANGED server, NEW t \in Tasks,
         NEW more \in Seq(LauncherMessages), EndReset(t, more)
  PROVE  /\ Grows /\ NoNewEnding /\ NoNewReport /\ ResetsGoOn
         /\ inbox' = inbox /\ reset'[t] = None
         /\ \A other \in Jobs : more = <<Final(other)>> => Sends(other)
<1>1. /\ reset[t].job \in Jobs \cup {None} /\ reset[t].notify \in BOOLEAN
      /\ reset' = [reset EXCEPT ![t] = None] /\ conn' = conn /\ inbox' = inbox
      /\ Send(Acks(reset[t].job, reset[t].notify) \o more)
  BY DEF EndReset, TypeOK, ResetType, Tasks
<1>2. /\ Grows /\ (reset[t].job # None => Sends(reset[t].job))
      /\ \A other \in Jobs : more = <<Final(other)>> => Sends(other)
  BY <1>1, SendAcks
<1>3. \A u \in Tasks : reset'[u] = IF u = t THEN None ELSE reset[u]
  BY <1>1 DEF TypeOK, Tasks
<1>4. NoNewEnding /\ NoNewReport /\ ResetsGoOn
  BY <1>2, <1>3 DEF NoNewEnding, NoNewReport, ResetsGoOn, Tasks
<1> QED
  BY <1>1, <1>2, <1>3, <1>4

LEMMA BeginResetEffect ==
  ASSUME TypeOK, conn = "open", UNCHANGED server, NEW t \in Tasks, NEW m \in ManagerType,
         NEW cancelJob \in BOOLEAN, NEW notify \in BOOLEAN, NEW job,
         job = (IF cancelJob THEN m.job ELSE None), BeginReset(t, m, cancelJob, notify)
  PROVE  /\ Grows
         /\ m.worker = None => reset' = reset /\ (job # None => Sends(job))
         /\ m.worker # None =>
              /\ reset'[t] # None /\ reset'[t].job = job
              /\ \A u \in Tasks : u # t => reset'[u] = reset[u]
<1>1. job \in Jobs \cup {None} /\ m.worker \in Processes \cup {None} /\ conn' = conn
  BY ManagerTypes DEF BeginReset
<1>2. CASE m.worker = None
  <2>1. Send(Acks(job, notify)) /\ reset' = reset
    BY <1>2 DEF BeginReset
  <2>2. <<>> \in Seq(LauncherMessages) /\ Acks(job, notify) \in Seq(LauncherMessages)
    BY <1>1, AcksType, ShortQueues
  <2>3. Acks(job, notify) \o <<>> = Acks(job, notify)
    BY <2>2
  <2>4. Send(Acks(job, notify) \o <<>>)
    BY <2>1, <2>3
  <2> QED
    BY <1>1, <1>2, <2>1, <2>2, <2>4, SendAcks
<1>3. CASE m.worker # None
  <2>1. /\ reset' = [reset EXCEPT ![t] = [proc |-> m.worker, job |-> job, notify |-> notify]]
        /\ outbox' = outbox
    BY <1>3 DEF BeginReset
  <2>2. Grows
    BY <1>1, <2>1, SameOutbox
  <2>3. [proc |-> m.worker, job |-> job, notify |-> notify] # None
    BY <1>1, <1>3, ResetAssumption DEF ResetType
  <2> QED
    BY <1>3, <2>1, <2>2, <2>3 DEF TypeOK, Tasks
<1> QED
  BY <1>2, <1>3

\* A start that fails is reported.
LEMMA FailureKeeps ==
  ASSUME JobInv, TypeOK', Grows, NoNewEnding, control.job # None, Sends(control.job),
         manager'.job = None, manager'.timer \in {manager.timer, None}
  PROVE  Kept
<1>1. control.job \in Jobs
  BY DEF JobInv, TypeOK, ControlType
<1>2. Calm' => Calm
  BY GrowsFacts DEF JobInv
<1>3. Calm => manager.timer = None /\ \A t \in Jobs : ~Ending(t)
  BY NoTimerYet
<1> QED
  BY <1>1, <1>2, <1>3, ReportKeeps

LEMMA StartingKeeps ==
  ASSUME JobInv, TypeOK', UNCHANGED server,
         \/ SwitchedWithoutEnvironment \/ Switched \/ CannotSpawn \/ Spawn
         \/ WorkerIsReady \/ WorkerIsGone \/ ReadyTimeout \/ TimedOut
  PROVE  Kept
<1>1. /\ TypeOK /\ control.job \in Jobs /\ control.job # None /\ manager \in ManagerType
      /\ <<>> \in Seq(LauncherMessages) /\ <<Final(control.job)>> \in Seq(LauncherMessages)
      /\ Control \in Tasks /\ Control \notin Jobs
  BY ControlJob, MessageTypes, ShortQueues, NamesAssumption
     DEF SwitchedWithoutEnvironment, Switched, CannotSpawn, Spawn,
         WorkerIsReady, WorkerIsGone, ReadyTimeout, TimedOut, TypeOK, JobInv, Tasks
<1>2. conn' = conn
  <2>1. \A m, job : GiveJob(m, job) => conn' = conn
    BY DEF GiveJob
  <2> QED
    BY <2>1 DEF SwitchedWithoutEnvironment, Switched, CannotSpawn, Spawn, WorkerIsReady,
                WorkerIsGone, ReadyTimeout, TimedOut, EndReset, BeginReset, link
<1>3. CASE conn # "open"
  BY <1>2, <1>3, ClosedIsKept
<1>4. CASE conn = "open"
  <2>1. CASE SwitchedWithoutEnvironment \/ TimedOut
    <3>1. EndReset(Control, <<Final(control.job)>>) /\ StartFails(manager)
      BY <2>1 DEF SwitchedWithoutEnvironment, TimedOut
    <3>2. Grows /\ NoNewEnding /\ Sends(control.job)
      BY <1>1, <1>4, <3>1, EndResetEffect
    <3> QED
      BY <1>1, <3>1, <3>2, StartFailsFields, FailureKeeps
  <2>2. CASE Switched
    <3>1. EndReset(Control, <<>>) /\ control'.job = control.job /\ manager' = manager
      BY <2>2 DEF Switched, GoTo
    <3>2. Grows /\ NoNewEnding /\ NoNewReport /\ ResetsGoOn /\ inbox' = inbox
      BY <1>1, <1>4, <3>1, EndResetEffect
    <3>3. SameStarts
      BY <3>2 DEF SameStarts, IsPending, InQueue
    <3> QED
      BY <3>1, <3>2, <3>3, QuietKeeps DEF Quiet
  <2>3. CASE CannotSpawn \/ WorkerIsGone
    <3>1. PICK m \in ManagerType : /\ m.timer \in {manager.timer, None} /\ StartFails(m)
                                   /\ Send(<<Final(control.job)>>) /\ reset' = reset
      <4>1. [manager EXCEPT !.timer = None, !.cleaned = None, !.forwarded = None] \in ManagerType
        BY <1>1, ManagerTypes
      <4>2. [manager EXCEPT !.timer = None, !.cleaned = None, !.forwarded = None].timer = None
        BY <1>1 DEF ManagerType
      <4> QED
        BY <1>1, <2>3, <4>1, <4>2 DEF CannotSpawn, WorkerIsGone
    <3>2. Grows /\ Sends(control.job)
      BY <1>1, <1>2, <1>4, <3>1, SendFinal
    <3>3. NoNewEnding
      BY <3>1 DEF NoNewEnding
    <3> QED
      BY <1>1, <3>1, <3>2, <3>3, StartFailsFields, FailureKeeps
  <2>4. CASE Spawn
    <3>1. /\ manager'.job = manager.job /\ manager'.timer = manager.timer
          /\ manager'.forwarded = manager.forwarded /\ control'.job = control.job
          /\ UNCHANGED <<outbox, inbox, reset>>
      BY <1>1, <2>4 DEF Spawn, GoTo, ManagerType, link
    <3>2. /\ Grows /\ NoNewEnding /\ NoNewReport /\ ResetsGoOn /\ SameStarts
      BY <1>1, <1>2, <3>1, SameOutbox
         DEF NoNewEnding, NoNewReport, ResetsGoOn, SameStarts, IsPending, InQueue
    <3> QED
      BY <1>1, <3>1, <3>2, QuietKeeps DEF Quiet
  <2>5. CASE WorkerIsReady
    <3> DEFINE m == [manager EXCEPT !.status = "idle"]
    <3>1. /\ m \in ManagerType /\ m.job = manager.job /\ m.timer = manager.timer
          /\ m.forwarded = manager.forwarded /\ m.worker = manager.worker
      BY <1>1, IdleManager
    <3>2. CASE StartFails(m) /\ Send(<<Final(control.job)>>) /\ reset' = reset
      <4>1. Grows /\ Sends(control.job)
        BY <1>1, <1>2, <1>4, <3>2, SendFinal
      <4>2. NoNewEnding
        BY <3>2 DEF NoNewEnding
      <4> QED
        BY <1>1, <3>1, <3>2, <4>1, <4>2, StartFailsFields, FailureKeeps
    <3>3. CASE /\ outbox' = outbox /\ reset' = reset /\ inbox' = inbox
               /\ manager' = [m EXCEPT !.status = "busy"] /\ GoTo("idle", None)
      <4>1. /\ control'.job = None /\ manager'.job = manager.job
            /\ manager'.timer = manager.timer /\ manager'.forwarded = manager.forwarded
        BY <3>1, <3>3 DEF GoTo, ManagerType
      <4>2. /\ Grows /\ NoNewEnding /\ NoNewReport /\ ResetsGoOn
        BY <1>1, <1>2, <3>3, SameOutbox DEF NoNewEnding, NoNewReport, ResetsGoOn
      <4>3. /\ Calm' => Calm
            /\ Live' => Live /\ current' = current /\ (WillReport(current)' <=> WillReport(current))
        BY <1>1, <4>2, GrowsFacts, PlacesKept
      <4>4. Calm => manager.timer = None /\ \A t \in Jobs : ~Ending(t)
        BY <1>1, NoTimerYet
      <4>5. OneEnding'
        BY <4>2, <4>3, <4>4, EndingKept
      <4>6. InOnePlace'
        <5> SUFFICES ASSUME Live' PROVE InOnePlace'
          BY DEF InOnePlace
        <5>1. Live /\ current' = current /\ current # None
          BY <4>3 DEF Live
        <5>2. IsPending(current)' <=> IsPending(current)
          BY <3>3, <5>1 DEF IsPending, InQueue
        <5> QED
          BY <4>1, <4>3, <5>1, <5>2 DEF JobInv, InOnePlace
      <4>7. TimerMatchesJob'
        BY <4>1, <4>3, <4>4 DEF TimerMatchesJob, Calm
      <4> QED
        BY <4>5, <4>6, <4>7 DEF Kept
    <3> QED
      BY <2>5, <3>2, <3>3 DEF WorkerIsReady, GiveJob
  <2>6. CASE ReadyTimeout
    <3>1. /\ BeginReset(Control, manager, FALSE, FALSE) /\ control'.job = control.job
          /\ inbox' = inbox /\ control.pc = "ready"
      BY <2>6 DEF ReadyTimeout, GoTo
    <3>2. /\ manager'.job = manager.job /\ manager'.timer = None /\ manager'.forwarded = None
          /\ manager'.worker = None
      BY <1>1, <3>1, ResetManager
    <3>3. /\ Grows
          /\ manager.worker = None => reset' = reset
          /\ manager.worker # None => /\ reset'[Control].job = None
                                      /\ \A u \in Tasks : u # Control => reset'[u] = reset[u]
      <4>1. \E job : job = None /\ job = (IF FALSE THEN manager.job ELSE None)
        OBVIOUS
      <4>2. PICK job : job = None /\ job = (IF FALSE THEN manager.job ELSE None)
        BY <4>1
      <4>3. FALSE \in BOOLEAN
        OBVIOUS
      <4> QED
        BY <1>1, <1>4, <3>1, <4>2, <4>3, BeginResetEffect
    <3>4. reset[Control] = None
      BY <3>1 DEF JobInv, OwnReset
    <3>5. NoNewEnding /\ NoNewReport /\ ResetsGoOn
      BY <1>1, <3>3, <3>4 DEF NoNewEnding, NoNewReport, ResetsGoOn, Tasks
    <3>6. SameStarts
      BY <3>1 DEF SameStarts, IsPending, InQueue
    <3> QED
      BY <3>1, <3>2, <3>3, <3>5, <3>6, QuietKeeps DEF Quiet
  <2> QED
    BY <2>1, <2>2, <2>3, <2>4, <2>5, <2>6
<1> QED
  BY <1>3, <1>4

\* reset_worker called by the control reader: the job in hand is reported, at
\* once or when its worker has exited.
LEMMA CommandResetKeeps ==
  ASSUME JobInv, TypeOK', UNCHANGED server, conn = "open", SameStarts,
         control.pc = "idle", control'.job = None, BeginReset(Control, manager, TRUE, TRUE)
  PROVE  Kept
<1>1. /\ TypeOK /\ manager \in ManagerType /\ manager.job \in Jobs \cup {None}
      /\ Control \in Tasks /\ Control \notin Jobs
      /\ control.job = None /\ reset[Control] = None
  BY ManagerTypes, ControlTypes, NamesAssumption
     DEF JobInv, TypeOK, OwnReset, Tasks, ControlType
<1>2. /\ manager'.job = None /\ manager'.timer = None
      /\ manager'.forwarded = None /\ manager'.worker = None
  BY <1>1, ResetManager
<1>3. /\ Grows
      /\ manager.worker = None => reset' = reset /\ (manager.job # None => Sends(manager.job))
      /\ manager.worker # None =>
           /\ reset'[Control] # None /\ reset'[Control].job = manager.job
           /\ \A u \in Tasks : u # Control => reset'[u] = reset[u]
  <2>1. \E job : job = manager.job /\ job = (IF TRUE THEN manager.job ELSE None)
    OBVIOUS
  <2>2. PICK job : job = manager.job /\ job = (IF TRUE THEN manager.job ELSE None)
    BY <2>1
  <2>3. TRUE \in BOOLEAN
    OBVIOUS
  <2> QED
    BY <1>1, <2>2, <2>3, BeginResetEffect
<1>4. CASE manager.worker = None
  <2>1. NoNewEnding /\ NoNewReport /\ ResetsGoOn
    BY <1>3, <1>4 DEF NoNewEnding, NoNewReport, ResetsGoOn
  <2>2. CASE manager.job = None
    BY <1>1, <1>2, <1>3, <2>1, <2>2, QuietKeeps DEF Quiet
  <2>3. CASE manager.job # None
    BY <1>1, <1>2, <1>3, <1>4, <2>1, <2>3, ReportKeeps
  <2> QED
    BY <2>2, <2>3
<1>5. CASE manager.worker # None
  <2>1. Calm' => Calm
    BY <1>1, <1>3, GrowsFacts
  <2>2. Calm => \A t \in Jobs : ~Ending(t)
    BY <1>5 DEF JobInv, OneEnding
  <2>3. NoNewEnding
    BY <1>1, <1>3, <1>5 DEF NoNewEnding, Tasks
  <2>4. OneEnding'
    BY <1>3, <2>1, <2>2, <2>3, EndingKept
  <2>5. InOnePlace'
    <3> SUFFICES ASSUME Live' PROVE InOnePlace'
      BY DEF InOnePlace
    <3>1. Live /\ current' = current /\ current \in Jobs
      BY <1>1, <1>3, GrowsFacts DEF Grows, server, Live, TypeOK
    <3>2. PICK job \in Jobs : job = current
      BY <3>1
    <3>3. IsPending(job) \/ job = manager.job \/ WillReport(job)
      BY <1>1, <3>1, <3>2, NamesAssumption DEF JobInv, InOnePlace
    <3>4. WillReport(job) \/ job = manager.job => WillReport(job)'
      BY <1>1, <1>3, <1>5 DEF WillReport
    <3>5. IsPending(job)' \/ WillReport(job)'
      BY <3>3, <3>4 DEF SameStarts
    <3> QED
      BY <1>2, <3>1, <3>2, <3>5, NamesAssumption DEF InOnePlace, IsPending, WillReport
  <2>6. TimerMatchesJob'
    BY <1>2 DEF TimerMatchesJob
  <2> QED
    BY <2>4, <2>5, <2>6 DEF Kept
<1> QED
  BY <1>4, <1>5

LEMMA CommandKeeps ==
  ASSUME JobInv, TypeOK', UNCHANGED server,
         \/ IgnoreCancel \/ CancelWithoutWorker \/ CancelOnWorker \/ CancelBreaksPipe
         \/ ReceiveReset \/ CommandDone \/ StopAll \/ Stopped
  PROVE  Kept
<1>1. TypeOK /\ manager \in ManagerType /\ Control \in Tasks /\ Control \notin Jobs
  BY NamesAssumption DEF JobInv, TypeOK, Tasks
<1>2. CASE StopAll \/ (Stopped /\ conn # "open")
  <2>1. conn' = conn /\ conn # "open"
    BY <1>2 DEF StopAll, Stopped, BeginReset, EndReset
  <2> QED
    BY <2>1, ClosedIsKept
<1>3. CASE CommandDone \/ (Stopped /\ conn = "open")
  <2>1. /\ EndReset(Control, <<>>) /\ manager' = manager
        /\ control.pc \in {"command", "stopping"} /\ control'.job = None
    BY <1>3 DEF CommandDone, Stopped, GoTo
  <2>2. control.job = None
    BY <1>1, <2>1 DEF TypeOK, ControlType
  <2>3. CASE conn = "open"
    <3>1. /\ Grows /\ NoNewEnding /\ NoNewReport /\ ResetsGoOn /\ inbox' = inbox
      BY <1>1, <2>1, <2>3, EndResetEffect, ShortQueues
    <3>2. SameStarts
      BY <3>1 DEF SameStarts, IsPending, InQueue
    <3> QED
      BY <2>1, <2>2, <3>1, <3>2, QuietKeeps DEF Quiet
  <2>4. CASE conn # "open"
    <3>1. conn' = conn
      BY <2>1 DEF EndReset
    <3> QED
      BY <2>4, <3>1, ClosedIsKept
  <2> QED
    BY <2>3, <2>4
<1>4. CASE IgnoreCancel \/ CancelWithoutWorker \/ CancelOnWorker \/ CancelBreaksPipe \/ ReceiveReset
  <2>1. /\ Receive("job.cancel") \/ Receive("worker.reset")
        /\ control.pc = "idle" /\ conn = "open"
        /\ inbox # <<>> /\ inbox' = Tail(inbox) /\ Head(inbox).type # "job.start"
    BY <1>4 DEF IgnoreCancel, CancelWithoutWorker, CancelOnWorker, CancelBreaksPipe,
                ReceiveReset, Receive
  <2>2. SameStarts
    <3>1. \A job \in Jobs : Head(inbox) # Message("job.start", job)
      BY <2>1 DEF Message
    <3> QED
      BY <1>1, <2>1, <3>1, ReadOne DEF JobInv, SameStarts
  <2>3. control.job = None
    BY <1>1, <2>1 DEF TypeOK, ControlType
  <2>4. CASE CancelBreaksPipe \/ ReceiveReset
    <3>1. \A pc : GoTo(pc, None) => control'.job = None
      BY DEF GoTo
    <3>2. BeginReset(Control, manager, TRUE, TRUE) /\ control'.job = None
      BY <2>4, <3>1 DEF CancelBreaksPipe, ReceiveReset
    <3> QED
      BY <2>1, <2>2, <3>2, CommandResetKeeps
  <2>5. CASE IgnoreCancel
    <3>1. UNCHANGED <<conn, outbox, manager, control, reset>>
      BY <2>5 DEF IgnoreCancel, launcher
    <3>2. Grows /\ NoNewEnding /\ NoNewReport /\ ResetsGoOn
      BY <1>1, <3>1, SameOutbox DEF NoNewEnding, NoNewReport, ResetsGoOn
    <3> QED
      BY <2>2, <3>1, <3>2, QuietKeeps DEF Quiet
  <2>6. CASE CancelWithoutWorker
    <3>1. /\ manager.job \in Jobs /\ Send(<<Final(manager.job)>>)
          /\ UNCHANGED <<conn, control, reset>>
          /\ manager'.job = None /\ manager'.timer = None
          /\ manager'.worker = manager.worker
      <4>1. manager.job \in Jobs
        BY <1>1, <2>6, ReceiveType DEF CancelWithoutWorker
      <4>2. Confirmed(manager.job) \in ManagerType /\ Confirmed(manager.job).worker = manager.worker
        <5>1. PICK job \in Jobs : job = manager.job
          BY <4>1
        <5>2. Confirmed(job) \in ManagerType
          BY <1>1, <5>1, ConfirmedType
        <5> QED
          BY <1>1, <5>1, <5>2 DEF Confirmed, ManagerType
      <4> QED
        BY <2>6, <4>1, <4>2 DEF CancelWithoutWorker, ManagerType
    <3>2. Grows /\ Sends(manager.job)
      BY <1>1, <2>1, <3>1, SendFinal
    <3>3. NoNewEnding /\ (Calm' => Calm)
      BY <1>1, <3>1, <3>2, GrowsFacts DEF NoNewEnding
    <3>4. PICK job \in Jobs : job = manager.job
      BY <3>1
    <3> QED
      BY <2>3, <3>1, <3>2, <3>3, <3>4, ReportKeeps DEF JobInv, OneEnding
  <2>7. CASE CancelOnWorker
    <3>1. /\ manager'.job = manager.job /\ manager'.timer = manager.job
          /\ manager'.forwarded \in {manager.forwarded, None}
          /\ manager.worker # None /\ UNCHANGED <<conn, outbox, control, reset>>
      BY <1>1, <2>7 DEF CancelOnWorker, CanAskWorker, Confirmed, ManagerType
    <3>2. /\ Grows /\ NoNewEnding /\ NoNewReport /\ ResetsGoOn
      BY <1>1, <3>1, SameOutbox DEF NoNewEnding, NoNewReport, ResetsGoOn
    <3>3. Calm' => Calm
      BY <1>1, <3>2, GrowsFacts
    <3>4. Calm => \A t \in Jobs : ~Ending(t)
      BY <3>1 DEF JobInv, OneEnding
    <3>5. OneEnding'
      BY <3>2, <3>3, <3>4, EndingKept
    <3>6. InOnePlace'
      <4> SUFFICES ASSUME Live' PROVE InOnePlace'
        BY DEF InOnePlace
      <4>1. Live /\ current' = current /\ (WillReport(current)' <=> WillReport(current))
        BY <3>2, PlacesKept
      <4>2. PICK job \in Jobs : job = current
        BY <1>1, <4>1 DEF TypeOK, Live
      <4>3. IsPending(current)' <=> IsPending(current)
        BY <2>2, <4>1, <4>2 DEF IsPending, SameStarts
      <4> QED
        BY <3>1, <4>1, <4>2, <4>3, NamesAssumption DEF JobInv, InOnePlace
    <3>7. TimerMatchesJob'
      BY <3>1 DEF TimerMatchesJob
    <3> QED
      BY <3>5, <3>6, <3>7 DEF Kept
  <2> QED
    BY <1>4, <2>4, <2>5, <2>6, <2>7
<1> QED
  BY <1>2, <1>3, <1>4

\* escalate_cancel arms its reset: the job in hand is the one it was armed for.
LEMMA EscalateKeeps ==
  ASSUME JobInv, TypeOK', UNCHANGED server, Escalate
  PROVE  Kept
<1>1. /\ TypeOK /\ manager \in ManagerType /\ UNCHANGED <<inbox, control>>
      /\ manager.timer \in Jobs /\ manager.timer \in Tasks
  BY ManagerTypes DEF JobInv, TypeOK, Escalate, Tasks
<1>2. PICK job \in Jobs : job = manager.timer
  BY <1>1
<1>3. conn' = conn
  BY DEF Escalate, BeginReset
<1>4. CASE conn # "open"
  BY <1>3, <1>4, ClosedIsKept
<1>5. SameStarts
  BY <1>1 DEF SameStarts, IsPending, InQueue
<1>6. CASE conn = "open" /\ manager.job # job
  <2>1. /\ manager'.job = manager.job /\ manager'.timer = None
        /\ manager'.forwarded = manager.forwarded /\ manager'.worker = manager.worker
        /\ UNCHANGED <<outbox, reset>>
    BY <1>1, <1>2, <1>6 DEF Escalate, ManagerType
  <2>2. /\ Grows /\ NoNewEnding /\ NoNewReport /\ ResetsGoOn
    BY <1>1, <1>3, <2>1, SameOutbox DEF NoNewEnding, NoNewReport, ResetsGoOn
  <2> QED
    BY <1>1, <1>5, <2>1, <2>2, QuietKeeps DEF Quiet
<1>7. CASE conn = "open" /\ manager.job = job
  <2> DEFINE cancelJob == manager.forwarded # manager.job
             told == IF cancelJob THEN manager.job ELSE None
  <2>1. BeginReset(job, manager, cancelJob, TRUE) /\ cancelJob \in BOOLEAN
    BY <1>2, <1>7 DEF Escalate
  <2>2. /\ manager'.timer = None /\ manager'.forwarded = None /\ manager'.worker = None
        /\ manager'.job = IF cancelJob THEN None ELSE manager.job
    BY <1>1, <2>1, ResetManager
  <2>3. /\ Grows
        /\ manager.worker = None => reset' = reset /\ (told # None => Sends(told))
        /\ manager.worker # None =>
             /\ reset'[job] # None /\ reset'[job].job = told
             /\ \A u \in Tasks : u # job => reset'[u] = reset[u]
    <3>1. told = (IF cancelJob THEN manager.job ELSE None)
      OBVIOUS
    <3>2. PICK j : j = told
      OBVIOUS
    <3>3. /\ Grows
          /\ manager.worker = None => reset' = reset /\ (j # None => Sends(j))
          /\ manager.worker # None => \A u \in Tasks : u # job => reset'[u] = reset[u]
      <4>1. job \in Tasks /\ TRUE \in BOOLEAN /\ FALSE \in BOOLEAN
        BY <1>1, <1>2
      <4>2. CASE cancelJob
        <5>1. BeginReset(job, manager, TRUE, TRUE) /\ j = (IF TRUE THEN manager.job ELSE None)
          BY <2>1, <3>1, <3>2, <4>2
        <5> QED
          BY <1>1, <1>7, <4>1, <5>1, BeginResetEffect
      <4>3. CASE ~cancelJob
        <5>1. BeginReset(job, manager, FALSE, TRUE) /\ j = (IF FALSE THEN manager.job ELSE None)
          BY <2>1, <3>1, <3>2, <4>3
        <5> QED
          BY <1>1, <1>7, <4>1, <5>1, BeginResetEffect
      <4> QED
        BY <4>2, <4>3
    <3>4. ASSUME manager.worker # None
          PROVE  reset'[job] # None /\ reset'[job].job = told
      <4>1. reset' = [reset EXCEPT ![job] =
                        [proc |-> manager.worker, job |-> told, notify |-> TRUE]]
        BY <2>1, <3>4 DEF BeginReset
      <4>2. [proc |-> manager.worker, job |-> told, notify |-> TRUE] \in ResetType
        BY <1>1, <3>4 DEF ManagerType, ResetType
      <4> QED
        BY <1>1, <1>2, <4>1, <4>2, ResetAssumption DEF TypeOK, Tasks
    <3> HIDE DEF told
    <3> QED
      BY <3>2, <3>3, <3>4
  \* The job was given, and no other escalation is under way.
  <2>4. control.job = None
    <3>1. manager.timer # control.job
      BY <1>2, NamesAssumption DEF JobInv, OnlyStarted, NamesIn, Given
    <3> QED
      BY <1>2, <1>7, <3>1, NamesAssumption DEF JobInv, InHand
  <2>5. Calm' => Calm /\ \A t \in Jobs : ~Ending(t)
    BY <1>1, <1>2, <2>3, GrowsFacts, NamesAssumption DEF JobInv, OneEnding
  <2>6. Live' => Live /\ current' = current /\ current \in Jobs
    BY <1>1, <2>3, GrowsFacts DEF Grows, server, Live, TypeOK
  \* A reset that will report the assigned job is not overwritten.
  <2>7. ~cancelJob => (Live => current # job)
    BY <1>7 DEF JobInv, InOnePlace
  <2>8. Live => ~WillReport(current)
    BY <1>2, <1>7, NamesAssumption DEF JobInv, InOnePlace
  <2>9. TimerMatchesJob'
    BY <2>2 DEF TimerMatchesJob
  <2>10. CASE manager.worker = None
    <3>1. NoNewEnding /\ NoNewReport /\ ResetsGoOn
      BY <2>3, <2>10 DEF NoNewEnding, NoNewReport, ResetsGoOn
    <3>2. CASE cancelJob
      <4>1. Sends(job)
        BY <1>7, <2>3, <2>10, <3>2, NamesAssumption
      <4> HIDE DEF cancelJob, told
      <4> QED
        BY <2>2, <2>3, <2>5, <3>1, <4>1, ReportKeeps
    <3>3. CASE ~cancelJob
      BY <1>1, <1>5, <2>2, <2>3, <3>1, <3>3, QuietKeeps DEF Quiet
    <3> QED
      BY <3>2, <3>3
  <2>11. CASE manager.worker # None /\ cancelJob
    <3>1. reset'[job] # None /\ reset'[job].job = job
      BY <1>7, <2>3, <2>11
    <3>2. \A t \in Jobs : Ending(t)' => Ending(t)
      BY <2>3, <2>11, <3>1, NamesAssumption DEF Ending, Tasks
    <3>3. OneEnding'
      BY <2>5, <3>2 DEF OneEnding
    <3>4. InOnePlace'
      <4> SUFFICES ASSUME Live' PROVE InOnePlace'
        BY DEF InOnePlace
      <4>1. PICK other \in Jobs : other = current
        BY <2>6
      <4>2. IsPending(other) \/ other = job
        BY <1>7, <2>4, <2>6, <2>8, <4>1, NamesAssumption DEF JobInv, InOnePlace
      <4>3. IsPending(other)' \/ WillReport(other)'
        BY <1>1, <1>2, <1>5, <3>1, <4>2 DEF SameStarts, WillReport
      <4> QED
        BY <1>1, <2>2, <2>4, <2>6, <2>11, <4>1, <4>3, NamesAssumption
           DEF InOnePlace, IsPending, WillReport
    <3> QED
      BY <2>9, <3>3, <3>4 DEF Kept
  <2>12. CASE manager.worker # None /\ ~cancelJob
    <3>1. reset'[job] # None /\ reset'[job].job = None
      BY <2>3, <2>12
    <3>2. \A t \in Jobs : Ending(t)' => Ending(t) \/ t = job
      BY <2>3, <2>12 DEF Ending, Tasks
    <3>3. Calm' => IsOver(job)'
      <4>1. Calm /\ current # None => IsOver(job)
        BY <2>7, <2>12, NamesAssumption DEF Live, IsOver
      <4>2. current = None => IsOver(job)
        BY NamesAssumption DEF IsOver
      <4> QED
        BY <1>1, <2>3, <2>5, <4>1, <4>2, GrowsFacts
    <3>4. OneEnding'
      <4>1. Calm' => manager'.job # None /\ IsOver(manager.job)' /\ manager'.job = manager.job
        BY <1>7, <2>2, <2>12, <3>3, NamesAssumption DEF IsOver
      <4> QED
        BY <1>1, <2>2, <2>4, <2>5, <3>2, <4>1 DEF OneEnding, IsOver
    <3>5. InOnePlace'
      <4> SUFFICES ASSUME Live' PROVE InOnePlace'
        BY DEF InOnePlace
      <4>1. PICK other \in Jobs : other = current
        BY <2>6
      <4>2. IsPending(other)' /\ other # job
        BY <1>5, <1>7, <2>4, <2>6, <2>7, <2>8, <2>12, <4>1, NamesAssumption
           DEF JobInv, InOnePlace, SameStarts
      <4>3. ASSUME NEW t \in Tasks, reset'[t] # None, reset'[t].job = other
            PROVE  FALSE
        BY <2>3, <2>6, <2>8, <2>12, <3>1, <4>1, <4>3, NamesAssumption DEF WillReport
      <4> QED
        BY <2>2, <2>6, <4>1, <4>2, <4>3, <1>7, <2>4, <1>1, <2>12, NamesAssumption
           DEF InOnePlace, IsPending, WillReport
    <3> QED
      BY <2>9, <3>4, <3>5 DEF Kept
  <2> QED
    BY <2>10, <2>11, <2>12
<1> QED
  BY <1>4, <1>6, <1>7

\* The process of an escalated cancel has exited: the job that is let go of is
\* over for the server.
LEMMA EscalatedKeeps ==
  ASSUME JobInv, TypeOK', UNCHANGED server, NEW job \in Jobs, Escalated(job)
  PROVE  Kept
<1>1. /\ TypeOK /\ manager \in ManagerType /\ job \in Tasks /\ <<>> \in Seq(LauncherMessages)
      /\ EndReset(job, <<>>) /\ control' = control /\ conn' = conn /\ reset[job] # None
  BY ShortQueues DEF JobInv, TypeOK, Tasks, Escalated, EndReset
<1>2. CASE conn # "open"
  BY <1>1, <1>2, ClosedIsKept
<1>3. CASE conn = "open"
  <2>1. /\ Grows /\ NoNewEnding /\ NoNewReport /\ ResetsGoOn /\ inbox' = inbox
        /\ reset'[job] = None
    BY <1>1, <1>3, EndResetEffect
  <2>2. SameStarts
    BY <2>1 DEF SameStarts, IsPending, InQueue
  <2>3. CASE reset[job].job # None
    <3>1. manager' = manager
      BY <2>3 DEF Escalated
    <3> QED
      BY <1>1, <2>1, <2>2, <3>1, QuietKeeps DEF Quiet
  <2>4. CASE reset[job].job = None
    <3>1. /\ manager'.job = None /\ manager'.timer = manager.timer
          /\ manager'.forwarded = manager.forwarded
      BY <1>1, <1>3, <2>4 DEF Escalated, ManagerType
    <3>2. Ending(job)
      BY <1>1, <2>4 DEF Ending
    <3>3. Calm' => Calm
      BY <1>1, <2>1, GrowsFacts
    <3>4. OneEnding'
      <4>1. \A t \in Jobs : Ending(t)' => Ending(t) /\ t # job
        BY <2>1 DEF NoNewEnding, Ending
      <4>2. Calm' => \A t \in Jobs : ~Ending(t)'
        BY <3>2, <3>3, <4>1 DEF JobInv, OneEnding
      <4> QED
        BY <4>2 DEF OneEnding
    <3>5. InOnePlace'
      <4> SUFFICES ASSUME Live' PROVE InOnePlace'
        BY DEF InOnePlace
      <4>1. Live /\ current' = current /\ (WillReport(current)' <=> WillReport(current))
        BY <2>1, PlacesKept
      <4>2. PICK other \in Jobs : other = current
        BY <1>1, <4>1 DEF TypeOK, Live
      <4>3. control.job = None /\ manager.job # current
        BY <3>2, <4>1 DEF JobInv, OneEnding, Live, Twice, IsOver, InQueue
      <4>4. IsPending(current)' <=> IsPending(current)
        BY <2>2, <4>1, <4>2 DEF IsPending, SameStarts
      <4> QED
        BY <1>1, <3>1, <4>1, <4>2, <4>3, <4>4, NamesAssumption DEF JobInv, InOnePlace
    <3>6. TimerMatchesJob'
      BY <3>1, <3>2, <3>3 DEF JobInv, OneEnding, TimerMatchesJob, Calm
    <3> QED
      BY <3>4, <3>5, <3>6 DEF Kept
  <2> QED
    BY <2>3, <2>4
<1> QED
  BY <1>2, <1>3

\* What the worker processes do among themselves.
LEMMA ApartKeeps ==
  ASSUME JobInv, TypeOK', UNCHANGED <<link, launcher, server>>
  PROVE  Kept
<1>1. UNCHANGED <<conn, inbox, outbox, manager, control, reset>>
  BY DEF link, launcher
<1>2. Grows /\ NoNewEnding /\ NoNewReport /\ ResetsGoOn /\ SameStarts
  BY <1>1, SameOutbox DEF JobInv, NoNewEnding, NoNewReport, ResetsGoOn, SameStarts, IsPending,
                          InQueue
<1> QED
  BY <1>1, <1>2, QuietKeeps DEF Quiet

LEMMA EscalationKeeps ==
  ASSUME JobInv, TypeOK', UNCHANGED server,
         \/ Escalate
         \/ \E job \in Jobs : Escalated(job)
         \/ \E t \in Tasks : Terminate(t)
  PROVE  Kept
<1>1. ASSUME NEW t \in Tasks, Terminate(t)
      PROVE  Kept
  BY <1>1, ApartKeeps DEF Terminate
<1> QED
  BY <1>1, EscalateKeeps, EscalatedKeeps

LEMMA WorkerKeeps ==
  ASSUME JobInv, TypeOK', UNCHANGED server, NEW p \in Processes, WorkerStep(p)
  PROVE  Kept
<1>1. UNCHANGED <<link, launcher>>
  BY DEF WorkerStep, Reap, WorkerReady, InitFails, Crash, ReadStdin, JobEvent,
         JobEnds, JobCloses, StartRun, StartRunFails, CloseRun, Inside
<1> QED
  BY <1>1, ApartKeeps

\* The manager lets go of a job that is not the assigned one, or that is over.
LEMMA ReleaseKeeps ==
  ASSUME JobInv, TypeOK', Grows, SameStarts, control' = control, reset' = reset,
         manager.worker # None, manager.job \in {None, manager.forwarded},
         manager'.job = None, manager'.timer = None, manager'.forwarded = None
  PROVE  Kept
<1>1. TypeOK /\ NoNewEnding /\ NoNewReport /\ ResetsGoOn
  BY DEF JobInv, NoNewEnding, NoNewReport, ResetsGoOn
<1>2. Calm' => Calm /\ \A t \in Jobs : ~Ending(t)
  BY <1>1, GrowsFacts DEF JobInv, OneEnding
<1>3. OneEnding'
  BY <1>1, <1>2, EndingKept
<1>4. InOnePlace'
  <2> SUFFICES ASSUME Live' PROVE InOnePlace'
    BY DEF InOnePlace
  <2>1. Live /\ current' = current /\ (WillReport(current)' <=> WillReport(current))
    BY <1>1, PlacesKept
  <2>2. PICK job \in Jobs : job = current
    BY <1>1, <2>1 DEF TypeOK, Live
  <2>3. manager.job # current
    BY <2>1, <2>2, NamesAssumption DEF JobInv, InOnePlace
  <2>4. IsPending(current)' <=> IsPending(current)
    BY <2>1, <2>2 DEF IsPending, SameStarts
  <2> QED
    BY <2>1, <2>2, <2>3, <2>4, NamesAssumption DEF JobInv, InOnePlace
<1> QED
  BY <1>3, <1>4 DEF Kept, TimerMatchesJob

\* A final event that is forwarded.
LEMMA ForwardFinalKeeps ==
  ASSUME JobInv, TypeOK', UNCHANGED server, conn = "open",
         NEW p \in Processes, ForwardFinal(p)
  PROVE  Kept
<1>1. /\ TypeOK /\ manager \in ManagerType /\ UNCHANGED <<conn, control, reset>>
      /\ stdout[p] # <<>> /\ Head(stdout[p]).type = "final" /\ Head(stdout[p]) \in StdoutLines
      /\ Send(<<Head(stdout[p])>>)
  BY ConsumeType DEF JobInv, TypeOK, ForwardFinal, Line
<1>2. PICK job \in Jobs : Head(stdout[p]) = Final(job)
  BY <1>1 DEF StdoutLines, Final, Message
<1>3. job \in Given /\ job # control.job /\ ~IsPending(job)
  <2>1. stdout[p] \in Seq(Named(Given))
    BY DEF JobInv, OnlyStarted, NamesIn
  <2>2. Head(stdout[p]) \in Named(Given)
    BY <1>1, <2>1, QueueTypes
  <2>3. job \in Given
    BY <1>2, <2>2, NamesAssumption DEF Named, Final, Message
  <2> QED
    BY <2>3 DEF Given, Started
<1>4. Grows /\ Sends(job) /\ NoNewEnding
  BY <1>1, <1>2, SendFinal DEF NoNewEnding
<1>5. Calm' => Calm
  BY <1>1, <1>4, GrowsFacts
<1>6. CASE CaeHolds(job) /\ manager.cleaned # job
  <2>1. /\ manager'.job = manager.job /\ manager.job = job /\ manager.worker # None
        /\ manager'.timer \in {manager.timer, job}
    BY <1>1, <1>2, <1>6 DEF ForwardFinal, CaeHolds, ManagerType, Final, Message
  <2>2. Calm' => manager'.timer \in {None, manager'.job}
    BY <1>5, <2>1, TimerIsCalm DEF JobInv
  <2>3. Calm => \A t \in Jobs : ~Ending(t)
    BY <2>1 DEF JobInv, OneEnding
  <2> QED
    BY <1>4, <1>5, <2>2, <2>3, ReportKeeps
<1>7. CASE ~(CaeHolds(job) /\ manager.cleaned # job)
  <2>1. /\ manager'.job = None /\ manager'.timer = None /\ manager'.worker = manager.worker
    BY <1>1, <1>2, <1>7 DEF ForwardFinal, Released, ManagerType, Final, Message
  <2>2. ASSUME Calm', NEW t \in Jobs, Ending(t)
        PROVE  Twice'
    <3>1. Calm /\ job = current
      BY <1>1, <1>4, <1>5, <2>2, GrowsFacts
    <3>2. CASE Twice
      BY <1>1, <1>4, <3>2, GrowsFacts
    <3>3. CASE manager.job # None /\ IsOver(manager.job)
      <4>1. ~Live
        BY <1>3, <3>1, <3>3 DEF JobInv, InOnePlace, Live
      <4>2. IsOver(job)
        BY <3>1, <4>1, NamesAssumption DEF Live
      <4> QED
        BY <1>1, <1>4, <2>2, <4>2, GrowsFacts
    <3> QED
      BY <2>2, <3>1, <3>2, <3>3 DEF JobInv, OneEnding
  <2>3. Calm' /\ (\E t \in Jobs : Ending(t)) =>
          manager'.worker = None /\ manager'.timer = None /\ control'.job = None /\ Twice'
    BY <1>1, <1>5, <2>1, <2>2 DEF JobInv, OneEnding
  <2> QED
    BY <1>4, <2>1, <2>3, ReportKeeps
<1> QED
  BY <1>6, <1>7

LEMMA ReaderKeeps ==
  ASSUME JobInv, TypeOK', UNCHANGED server, NEW p \in Processes, StdoutReader(p)
  PROVE  Kept
<1>1. TypeOK /\ manager \in ManagerType /\ UNCHANGED <<conn, inbox, control, reset>>
  BY DEF JobInv, TypeOK, StdoutReader, ReadReady, ReadCleaned, ForwardEvent, ForwardFinal,
         ReadError, EndReader, link, launcher
<1>2. CASE conn # "open"
  BY <1>1, <1>2, ClosedIsKept
<1>3. CASE conn = "open"
  <2>1. SameStarts /\ NoNewEnding /\ NoNewReport /\ ResetsGoOn
    BY <1>1 DEF SameStarts, IsPending, InQueue, NoNewEnding, NoNewReport, ResetsGoOn
  <2>2. outbox' = outbox => Grows
    BY <1>1, SameOutbox
  <2>3. /\ Released(manager).job = None /\ Released(manager).timer = None
        /\ Released(manager).forwarded = None /\ Released(manager).worker = manager.worker
        /\ Released(manager) \in ManagerType
    <3>1. Released(manager) \in ManagerType
      BY <1>1 DEF Released, ManagerType
    <3> QED
      BY <1>1, <3>1 DEF Released, ManagerType
  <2>4. ASSUME Grows, manager' = manager
        PROVE  Kept
    BY <1>1, <2>1, <2>4, QuietKeeps DEF Quiet
  <2>5. ASSUME Grows, Sends(manager.job), manager.job # None, manager'.job = None,
               manager'.timer = None, manager'.worker \in {None, manager.worker}
        PROVE  Kept
    <3>1. PICK job \in Jobs : job = manager.job
      BY <1>1, <2>5, ManagerTypes DEF TypeOK
    <3>2. Calm' => Calm
      BY <1>1, <2>5, GrowsFacts
    <3> QED
      BY <1>1, <2>1, <2>5, <3>1, <3>2, ReportKeeps DEF JobInv, OneEnding
  <2>6. CASE ReadReady(p)
    BY <2>2, <2>4, <2>6 DEF ReadReady, link, launcher
  <2>7. CASE ReadCleaned(p)
    <3>1. outbox' = outbox
      BY <2>7 DEF ReadCleaned, link
    <3>2. CASE /\ manager.worker # None /\ manager.job = manager.forwarded
               /\ manager' = Released(manager)
      BY <1>1, <2>1, <2>2, <2>3, <3>1, <3>2, ReleaseKeeps
    <3>3. CASE manager' = manager
      BY <2>2, <2>4, <3>1, <3>3
    <3>4. ASSUME NEW job \in Jobs, manager' = [manager EXCEPT !.cleaned = job]
          PROVE  Kept
      <4>1. /\ manager'.job = manager.job /\ manager'.timer = manager.timer
            /\ manager'.forwarded = manager.forwarded /\ manager'.worker = manager.worker
        BY <1>1, <3>4 DEF ManagerType
      <4> QED
        BY <1>1, <2>1, <2>2, <3>1, <4>1, QuietKeeps DEF Quiet
    <3>5. Head(stdout[p]).job \in Jobs
      <4>1. Head(stdout[p]) \in StdoutLines /\ Head(stdout[p]).type = "cae.run.cleaned"
        BY <1>1, <2>7, ConsumeType DEF ReadCleaned, Line
      <4> QED
        BY <4>1 DEF StdoutLines
    <3> QED
      BY <2>7, <3>2, <3>3, <3>4, <3>5 DEF ReadCleaned, CaeHolds
  <2>8. CASE ForwardEvent(p)
    <3>1. /\ Head(stdout[p]) \in StdoutLines /\ Head(stdout[p]).type = "event"
          /\ Send(<<Head(stdout[p])>>) /\ manager' = manager
      BY <1>1, <2>8, ConsumeType DEF ForwardEvent, Line, launcher
    <3>2. <<Head(stdout[p])>> \in Seq(LauncherMessages)
      <4>1. Head(stdout[p]) \in LauncherMessages
        BY <3>1 DEF StdoutLines, LauncherMessages
      <4> QED
        BY <4>1, ShortQueues
    <3> QED
      BY <1>1, <2>4, <3>1, <3>2, SendGrows
  <2>9. CASE ForwardFinal(p)
    BY <1>3, <2>9, ForwardFinalKeeps
  <2>10. CASE ReadError(p)
    <3>1. CASE manager.job = None
      BY <2>2, <2>4, <2>10, <3>1 DEF ReadError
    <3>2. CASE manager.job # None
      <4>1. Send(<<Final(manager.job)>>) /\ manager' = Released(manager)
        BY <2>10, <3>2 DEF ReadError
      <4>2. PICK job \in Jobs : job = manager.job
        BY <1>1, <3>2, ManagerTypes DEF TypeOK
      <4>3. Grows /\ Sends(job)
        BY <1>1, <1>3, <4>1, <4>2, SendFinal
      <4> QED
        BY <2>3, <2>5, <3>2, <4>1, <4>2, <4>3
    <3> QED
      BY <3>1, <3>2
  <2>11. CASE EndReader(p)
    <3>1. CASE ~(manager.worker = p /\ ~proc[p].stopping)
      BY <2>2, <2>4, <2>11, <3>1 DEF EndReader
    <3>2. CASE manager.worker = p /\ ~proc[p].stopping
      <4>1. /\ manager' = [Released(manager) EXCEPT !.worker = None, !.status = "error"]
            /\ Send(ExitReport) /\ manager.worker # None
        BY <2>11, <3>2, NamesAssumption DEF EndReader, Processes
      <4>2. /\ manager'.job = None /\ manager'.timer = None /\ manager'.forwarded = None
            /\ manager'.worker = None
        BY <2>3, <4>1 DEF ManagerType
      <4>3. CASE manager.job \in {None, manager.forwarded}
        <5>1. Send(<<>>) /\ <<>> \in Seq(LauncherMessages)
          BY <4>1, <4>3, ShortQueues DEF ExitReport
        <5>2. Grows
          BY <1>1, <5>1, SendGrows
        <5> QED
          BY <1>1, <2>1, <4>1, <4>2, <4>3, <5>2, ReleaseKeeps
      <4>4. CASE manager.job \notin {None, manager.forwarded}
        <5>1. PICK job \in Jobs : job = manager.job
          BY <1>1, <4>4, ManagerTypes DEF TypeOK
        <5>2. Send(<<Final(job)>>)
          BY <4>1, <4>4, <5>1 DEF ExitReport
        <5>3. Grows /\ Sends(job)
          BY <1>1, <1>3, <5>2, SendFinal
        <5> QED
          BY <2>5, <4>2, <4>4, <5>1, <5>3
      <4> QED
        BY <4>3, <4>4
    <3> QED
      BY <3>1, <3>2
  <2> QED
    BY <2>6, <2>7, <2>8, <2>9, <2>10, <2>11 DEF StdoutReader
<1> QED
  BY <1>2, <1>3
-----------------------------------------------------------------------------
(* The server *)

LEMMA SameKeeps ==
  ASSUME JobInv, UNCHANGED <<conn, outbox, current, manager, control, reset>>, SameStarts
  PROVE  Kept
<1>1. /\ Calm' <=> Calm
      /\ Twice' <=> Twice
      /\ Live' <=> Live
      /\ \A t \in Jobs : Ending(t)' <=> Ending(t)
      /\ \A job : IsOver(job)' <=> IsOver(job)
      /\ \A job : WillReport(job)' <=> WillReport(job)
  BY DEF Calm, Stray, Twice, Live, IsOver, InQueue, Ending, WillReport
<1>2. OneEnding'
  <2>1. OneEnding
    BY DEF JobInv
  <2>2. IsOver(manager.job)' <=> IsOver(manager.job)
    BY DEF IsOver, InQueue
  <2> QED
    BY <1>1, <2>1, <2>2 DEF OneEnding
<1>3. InOnePlace'
  <2> SUFFICES ASSUME Live' PROVE InOnePlace'
    BY DEF InOnePlace
  <2>1. Live /\ current \in Jobs
    BY <1>1 DEF Live, JobInv, TypeOK
  <2>2. PICK job \in Jobs : job = current
    BY <2>1
  <2>3. /\ IsPending(current)' <=> IsPending(current)
        /\ WillReport(current)' <=> WillReport(current)
    BY <1>1, <2>2 DEF SameStarts, IsPending, WillReport
  <2> QED
    BY <2>1, <2>3 DEF JobInv, InOnePlace
<1>4. TimerMatchesJob'
  BY <1>1, TimerIsCalm DEF JobInv, TimerMatchesJob, Calm
<1> QED
  BY <1>2, <1>3, <1>4 DEF Kept

\* A job is assigned: none of its names is known to the launcher.
LEMMA AssignKeeps ==
  ASSUME JobInv, TypeOK', NEW job \in Jobs, AssignJob(job)
  PROVE  Kept
<1>1. /\ TypeOK /\ UNCHANGED <<conn, outbox, manager, control, reset>>
      /\ current = None /\ current' = job /\ conn = "open" /\ cancels[job] = None
      /\ inbox' = Append(inbox, Message("job.start", job))
  BY DEF JobInv, AssignJob, Deliver, launcher
<1>2. job \notin Started /\ job # None
  BY <1>1, NamesAssumption DEF Started
<1>3. /\ manager.job # job /\ control.job # job /\ manager.forwarded # job
      /\ ~WillReport(job) /\ \A i \in 1..Len(outbox) : outbox[i].job # job
  <2>1. \A i \in 1..Len(outbox) : outbox[i] \in Named(Started)
    BY DEF JobInv, OnlyStarted, NamesIn
  <2>2. \A i \in 1..Len(outbox) : outbox[i].job \in Started \cup {None}
    BY <2>1 DEF Named
  <2> QED
    BY <1>2, <2>2 DEF JobInv, OnlyStarted, NamesIn, Given, WillReport
<1>4. Stray => Stray'
  BY <1>1, <1>3 DEF Stray
<1>5. Calm' => Calm /\ ~Twice
  <2>1. Twice => Stray
    <3>1. \A i \in 1..Len(outbox) : outbox[i].type # "worker.reset.done" => outbox[i].job # None
      BY <1>1, NamesAssumption DEF TypeOK, LauncherMessages, ResetDone, Message
    <3> QED
      BY <1>1, <3>1 DEF Twice, Stray
  <2> QED
    BY <1>1, <1>4, <2>1 DEF Calm
<1>6. OneEnding'
  <2>1. \A t \in Jobs : Ending(t)' <=> Ending(t)
    BY <1>1 DEF Ending
  <2>2. IsOver(manager.job)'
    BY <1>1, <1>3 DEF IsOver
  <2> QED
    BY <1>1, <1>5, <2>1, <2>2 DEF JobInv, OneEnding
<1>7. InOnePlace'
  <2>1. IsPending(job)'
    <3>1. Message("job.start", job) \in ServerMessages
      BY MessageTypes
    <3> QED
      BY <1>1, <3>1, DeliverOne DEF JobInv
  <2>2. ~WillReport(job)'
    BY <1>1, <1>3 DEF WillReport
  <2> QED
    BY <1>1, <1>3, <2>1, <2>2 DEF InOnePlace, IsPending, WillReport
<1>8. TimerMatchesJob'
  BY <1>1, <1>5, TimerIsCalm DEF JobInv, TimerMatchesJob, Calm
<1> QED
  BY <1>6, <1>7, <1>8 DEF Kept

\* A message is handled: the end of a job makes what follows of it stray.
LEMMA HandleKeeps ==
  ASSUME JobInv, TypeOK', HandleMessage
  PROVE  Kept
<1>1. /\ TypeOK /\ UNCHANGED <<inbox, manager, control, reset>> /\ conn = "open" /\ outbox # <<>>
  BY DEF JobInv, HandleMessage, launcher
<1>2. CASE ~Expected(Head(outbox))
  BY <1>2, ClosedIsKept DEF HandleMessage
<1>3. CASE Expected(Head(outbox))
  <2>1. /\ outbox' = Tail(outbox) /\ conn' = "open"
        /\ current' = IF Head(outbox).type = "final" THEN None ELSE current
    BY <1>1, <1>3 DEF HandleMessage
  <2>2. /\ Len(outbox') = Len(outbox) - 1 /\ Len(outbox) \in Nat /\ Len(outbox) > 0
        /\ Head(outbox) = outbox[1]
        /\ \A i \in 1..Len(outbox') : i + 1 \in 1..Len(outbox) /\ outbox'[i] = outbox[i + 1]
    BY <1>1, <2>1, TailIsRest DEF TypeOK
  <2>3. \A i \in 1..Len(outbox) : i # 1 => i - 1 \in 1..Len(outbox') /\ outbox'[i - 1] = outbox[i]
    BY <2>2
  <2>4. outbox[1].type # "worker.reset.done" => outbox[1].job = current
    BY <1>3, <2>2 DEF Expected
  <2>5. SameStarts
    BY <1>1 DEF SameStarts, IsPending, InQueue
  <2>6. \A t \in Jobs : Ending(t)' <=> Ending(t)
    BY <1>1 DEF Ending
  <2>7. CASE outbox[1].type # "final"
    <3>1. current' = current
      BY <2>1, <2>2, <2>7
    <3>2. Stray => Stray'
      BY <2>3, <2>4, <3>1 DEF Stray
    <3>3. Stray' => Stray
      BY <2>2, <3>1 DEF Stray
    <3>4. \A job : InQueue(outbox, Final(job))' <=> InQueue(outbox, Final(job))
      BY <2>2, <2>3, <2>7 DEF InQueue, Final, Message
    <3>5. Twice => Twice'
      <4> SUFFICES ASSUME NEW i \in 1..Len(outbox), NEW k \in 1..Len(outbox), i < k,
                          outbox[i] = Final(current), outbox[k].type # "worker.reset.done"
                   PROVE  Twice'
        BY DEF Twice
      <4>1. i # 1 /\ k # 1
        BY <2>7 DEF Final, Message
      <4>2. i - 1 < k - 1 /\ outbox'[i - 1] = Final(current)' /\ outbox'[k - 1] = outbox[k]
        BY <2>3, <3>1, <4>1 DEF Final, Message
      <4> QED
        BY <2>3, <3>1, <4>1, <4>2 DEF Twice, Final, Message
    <3>6. /\ Calm' <=> Calm
          /\ Live' <=> Live
          /\ \A job : IsOver(job) => IsOver(job)'
      BY <1>1, <2>1, <3>1, <3>2, <3>3, <3>4 DEF Calm, Live, IsOver, InQueue, Final, Message
    <3>7. OneEnding'
      <4>1. IsOver(manager.job) => IsOver(manager.job)'
        BY <1>1, <3>1, <3>4 DEF IsOver, InQueue, Final, Message
      <4> QED
        BY <1>1, <2>6, <3>5, <3>6, <4>1 DEF JobInv, OneEnding
    <3>8. InOnePlace'
      BY <1>1, <3>1, <3>6 DEF JobInv, InOnePlace, IsPending, WillReport
    <3>9. TimerMatchesJob'
      BY <1>1, <3>6, TimerIsCalm DEF JobInv, TimerMatchesJob, Calm
    <3> QED
      BY <3>7, <3>8, <3>9 DEF Kept
  <2>8. CASE outbox[1].type = "final"
    <3>1. current' = None /\ outbox[1].job = current /\ current # None
      <4>1. outbox[1].job = current
        BY <2>4, <2>8
      <4>2. outbox[1] \in LauncherMessages
        BY <1>1, <2>2 DEF TypeOK
      <4>3. outbox[1].job \in Jobs
        BY <2>8, <4>2 DEF LauncherMessages, ResetDone, Message
      <4> QED
        BY <2>1, <2>2, <2>8, <4>1, <4>3, NamesAssumption
    \* Whatever follows the end is stray now.
    <3>2. ASSUME NEW k \in 1..Len(outbox), k # 1, outbox[k].type # "worker.reset.done"
          PROVE  Stray'
      <4>1. outbox[k] \in LauncherMessages
        BY <1>1 DEF TypeOK
      <4>2. outbox[k].job # None
        BY <3>2, <4>1, NamesAssumption DEF LauncherMessages, ResetDone, Message
      <4> QED
        BY <2>3, <3>1, <3>2, <4>2 DEF Stray
    <3>3. Calm' => Calm /\ ~Twice
      <4>1. Stray => Stray'
        BY <2>4, <3>2 DEF Stray
      <4>2. Twice => Stray'
        BY <2>2, <3>2 DEF Twice
      <4> QED
        BY <1>1, <4>1, <4>2 DEF Calm
    <3>4. OneEnding'
      <4>1. manager'.job # None => IsOver(manager.job)'
        BY <3>1 DEF IsOver
      <4> QED
        BY <1>1, <2>6, <3>3, <4>1 DEF JobInv, OneEnding
    <3>5. InOnePlace'
      BY <3>1 DEF InOnePlace, Live
    <3>6. TimerMatchesJob'
      BY <1>1, <3>3, TimerIsCalm DEF JobInv, TimerMatchesJob, Calm
    <3> QED
      BY <3>4, <3>5, <3>6 DEF Kept
  <2> QED
    BY <2>7, <2>8
<1> QED
  BY <1>2, <1>3

LEMMA ServerKeeps ==
  ASSUME JobInv, TypeOK', Server \/ Lose
  PROVE  Kept
<1>1. ASSUME NEW message \in ServerMessages, message.type # "job.start", Deliver(message),
             current' = current
      PROVE  Kept
  <2>1. \A job \in Jobs : message # Message("job.start", job)
    BY <1>1 DEF Message
  <2>2. SameStarts
    BY <1>1, <2>1, DeliverOne DEF JobInv, Deliver, SameStarts
  <2> QED
    BY <1>1, <2>2, SameKeeps DEF Deliver, launcher
<1>2. ASSUME NEW job \in Jobs, CancelJob(job)
      PROVE  Kept
  <2>1. /\ Message("job.cancel", job) \in ServerMessages
        /\ Message("job.cancel", job).type # "job.start"
    BY MessageTypes DEF Message
  <2> QED
    BY <1>1, <1>2, <2>1 DEF CancelJob
<1>3. CASE ResetWorker
  <2>1. /\ Message("worker.reset", None) \in ServerMessages
        /\ Message("worker.reset", None).type # "job.start"
    BY MessageTypes DEF Message
  <2> QED
    BY <1>1, <1>3, <2>1 DEF ResetWorker
<1>4. CASE Lose
  BY <1>4, ClosedIsKept DEF Lose
<1> QED
  BY <1>2, <1>3, <1>4, AssignKeeps, HandleKeeps DEF Server
-----------------------------------------------------------------------------
(* The control reader *)

\* The control reader starts the job in hand, or one that is over.
HandIsKept ==
  \/ control'.job = None
  \/ control'.job = control.job /\ manager'.job \in {manager.job, None}
  \/ manager'.job = control'.job

\* A reset that the control reader is in is waited for.
ResetIsWaited ==
  control'.pc \in {"idle", "spawn", "ready", "stopped"} =>
    \/ reset'[Control] = None
    \/ /\ control.pc \in {"idle", "spawn", "ready", "stopped"}
       /\ reset'[Control] = reset[Control]

LEMMA GoesTo ==
  \A pc, job : GoTo(pc, job) => control'.job = job /\ control'.pc = pc
BY DEF GoTo

LEMMA EndResetWaited ==
  ASSUME TypeOK, NEW t \in Tasks, NEW more, EndReset(t, more)
  PROVE  reset'[t] = None /\ \A u \in Tasks : u # t => reset'[u] = reset[u]
BY DEF EndReset, TypeOK, Tasks

LEMMA BeginResetWaited ==
  ASSUME TypeOK, NEW t \in Tasks, NEW m, NEW cancelJob, NEW notify,
         BeginReset(t, m, cancelJob, notify)
  PROVE  /\ m.worker = None => reset' = reset
         /\ \A u \in Tasks : u # t => reset'[u] = reset[u]
BY DEF BeginReset, TypeOK, Tasks

LEMMA ControlReaderKept ==
  ASSUME TypeOK, ControlReader
  PROVE  HandIsKept /\ ResetIsWaited
<1>1. Control \in Tasks /\ manager \in ManagerType
  BY DEF Tasks, TypeOK
<1>2. CASE \/ RejectStart \/ StartOnWorker \/ SwitchWorker
           \/ StartWithoutEnvironment \/ StartWithoutWorker
  <2> DEFINE job == Head(inbox).job
  <2>1. /\ job \in Jobs /\ control.job = None /\ control.pc = "idle"
        /\ Taken(job) \in ManagerType /\ Taken(job).job = job
    BY <1>2, ReceiveType, TakenType, TakenFields
       DEF RejectStart, StartOnWorker, SwitchWorker, StartWithoutEnvironment, StartWithoutWorker
  <2>2. CASE RejectStart \/ StartWithoutEnvironment
    BY <2>1, <2>2 DEF RejectStart, StartWithoutEnvironment, launcher, HandIsKept, ResetIsWaited
  <2>3. CASE StartOnWorker
    <3>1. GiveJob(Taken(job), job)
      BY <2>3 DEF StartOnWorker
    <3> QED
      BY <2>1, <3>1, GiveJobFields DEF HandIsKept, ResetIsWaited
  <2>4. CASE SwitchWorker
    <3>1. /\ BeginReset(Control, Taken(job), FALSE, FALSE)
          /\ control'.job = job /\ control'.pc = "switch"
      BY <2>4, GoesTo DEF SwitchWorker
    <3>2. manager'.job = job
      BY <2>1, <3>1, ResetManager
    <3> QED
      BY <3>1, <3>2 DEF HandIsKept, ResetIsWaited
  <2>5. CASE StartWithoutWorker
    <3>1. /\ manager' = Taken(job) /\ reset' = reset
          /\ control'.job = job /\ control'.pc = "spawn"
      BY <2>5, GoesTo DEF StartWithoutWorker
    <3> QED
      BY <2>1, <3>1 DEF HandIsKept, ResetIsWaited
  <2> QED
    BY <1>2, <2>2, <2>3, <2>4, <2>5
<1>3. CASE \/ SwitchedWithoutEnvironment \/ Switched \/ TimedOut
  <2>1. EndReset(Control, <<Final(control.job)>>) \/ EndReset(Control, <<>>)
    BY <1>3 DEF SwitchedWithoutEnvironment, Switched, TimedOut
  <2>2. reset'[Control] = None
    BY <1>1, <2>1, EndResetWaited
  <2>3. CASE Switched
    <3>1. control'.job = control.job /\ manager' = manager
      BY <2>3, GoesTo DEF Switched
    <3> QED
      BY <2>2, <3>1 DEF HandIsKept, ResetIsWaited
  <2>4. CASE SwitchedWithoutEnvironment \/ TimedOut
    <3>1. control'.job = None
      BY <1>1, <2>4, StartFailsFields DEF SwitchedWithoutEnvironment, TimedOut
    <3> QED
      BY <2>2, <3>1 DEF HandIsKept, ResetIsWaited
  <2> QED
    BY <1>3, <2>3, <2>4
<1>4. CASE CannotSpawn \/ WorkerIsGone
  <2>1. /\ control'.job = None /\ reset' = reset
        /\ control.pc \in {"idle", "spawn", "ready", "stopped"}
    <3>1. StartFails(manager) => control'.job = None
      BY <1>1, StartFailsFields
    <3>2. [manager EXCEPT !.timer = None, !.cleaned = None, !.forwarded = None] \in ManagerType
      BY <1>1, ManagerTypes
    <3> QED
      BY <1>4, <3>1, <3>2, StartFailsFields DEF CannotSpawn, WorkerIsGone
  <2> QED
    BY <2>1 DEF HandIsKept, ResetIsWaited
<1>5. CASE Spawn
  <2>1. /\ control'.job = control.job /\ manager'.job = manager.job /\ reset' = reset
        /\ control.pc = "spawn"
    BY <1>1, <1>5, GoesTo DEF Spawn, ManagerType
  <2> QED
    BY <2>1 DEF HandIsKept, ResetIsWaited
<1>6. CASE WorkerIsReady
  <2> DEFINE m == [manager EXCEPT !.status = "idle"]
  <2>1. m \in ManagerType /\ control.job \in Jobs /\ control.pc = "ready"
    BY <1>1, <1>6, ManagerTypes, ControlJob DEF WorkerIsReady
  <2>2. control'.job = None /\ reset' = reset
    <3>1. GiveJob(m, control.job) => control'.job = None /\ reset' = reset
      BY <2>1, GiveJobFields
    <3>2. StartFails(m) => control'.job = None
      BY <2>1, StartFailsFields
    <3> QED
      BY <1>6, <3>1, <3>2 DEF WorkerIsReady
  <2> QED
    BY <2>1, <2>2 DEF HandIsKept, ResetIsWaited
<1>7. CASE ReadyTimeout
  <2>1. /\ BeginReset(Control, manager, FALSE, FALSE)
        /\ control'.job = control.job /\ control'.pc = "timeout"
    BY <1>7, GoesTo DEF ReadyTimeout
  <2>2. manager'.job = manager.job
    BY <1>1, <2>1, ResetManager
  <2> QED
    BY <2>1, <2>2 DEF HandIsKept, ResetIsWaited
<1>8. CASE IgnoreCancel \/ CancelWithoutWorker \/ CancelOnWorker
  <2>1. control' = control /\ reset' = reset /\ control.pc = "idle" /\ control.job = None
    BY <1>8, ReceiveType
       DEF IgnoreCancel, CancelWithoutWorker, CancelOnWorker, launcher
  <2> QED
    BY <2>1 DEF HandIsKept, ResetIsWaited
<1>9. CASE CancelBreaksPipe \/ ReceiveReset \/ StopAll
  <2>1. /\ BeginReset(Control, manager, TRUE, TRUE) /\ control.pc = "idle"
        /\ \/ GoTo("command", None) \/ GoTo("stopping", None)
           \/ manager.worker = None /\ (GoTo("idle", None) \/ GoTo("stopped", None))
    BY <1>9 DEF CancelBreaksPipe, ReceiveReset, StopAll, Receive
  <2>2. manager.worker = None => reset' = reset
    BY <1>1, <2>1, BeginResetWaited
  <2>3. CASE GoTo("command", None) \/ GoTo("stopping", None)
    BY <2>3, GoesTo DEF HandIsKept, ResetIsWaited
  <2>4. CASE manager.worker = None /\ (GoTo("idle", None) \/ GoTo("stopped", None))
    BY <2>1, <2>2, <2>4, GoesTo DEF HandIsKept, ResetIsWaited
  <2> QED
    BY <2>1, <2>3, <2>4
<1>10. CASE CommandDone \/ Stopped
  <2>1. EndReset(Control, <<>>) /\ control'.job = None
    BY <1>10, GoesTo DEF CommandDone, Stopped
  <2>2. reset'[Control] = None
    BY <1>1, <2>1, EndResetWaited
  <2> QED
    BY <2>1, <2>2 DEF HandIsKept, ResetIsWaited
<1> QED
  BY <1>2, <1>3, <1>4, <1>5, <1>6, <1>7, <1>8, <1>9, <1>10 DEF ControlReader

LEMMA HandKept ==
  ASSUME TypeOK, [Next]_vars
  PROVE  HandIsKept /\ ResetIsWaited
<1>1. CASE UNCHANGED <<control, manager, reset>>
  BY <1>1 DEF HandIsKept, ResetIsWaited
<1>2. ASSUME control' = control, manager'.job \in {manager.job, None},
             reset'[Control] \in {reset[Control], None}
      PROVE  HandIsKept /\ ResetIsWaited
  BY <1>2 DEF HandIsKept, ResetIsWaited
<1>3. manager \in ManagerType
  BY DEF TypeOK
<1>4. CASE Server \/ Lose
  BY <1>1, <1>4 DEF Server, AssignJob, CancelJob, ResetWorker, Deliver, HandleMessage, Lose,
                    launcher
<1>5. CASE Escalate
  <2>1. control' = control /\ manager.timer \in Jobs /\ manager.timer \in Tasks
    BY <1>3, <1>5, ManagerTypes DEF Escalate, Tasks
  <2>2. CASE manager.job = manager.timer
    <3>1. BeginReset(manager.timer, manager, manager.forwarded # manager.job, TRUE)
      BY <1>5, <2>2 DEF Escalate
    <3>2. (manager.forwarded # manager.job) \in BOOLEAN
      OBVIOUS
    <3>3. manager'.job \in {manager.job, None}
      BY <1>3, <3>1, <3>2, ResetManager
    <3>4. reset'[Control] = reset[Control]
      <4>1. Control \in Tasks /\ Control # manager.timer
        BY <2>1, NamesAssumption DEF Tasks
      <4> QED
        BY <2>1, <3>1, <4>1, BeginResetWaited
    <3> QED
      BY <1>2, <2>1, <3>3, <3>4
  <2>3. CASE manager.job # manager.timer
    <3>1. manager'.job = manager.job /\ reset' = reset
      BY <1>3, <1>5, <2>3 DEF Escalate, ManagerType
    <3> QED
      BY <1>2, <2>1, <3>1
  <2> QED
    BY <2>2, <2>3
<1>6. ASSUME NEW job \in Jobs, Escalated(job)
      PROVE  HandIsKept /\ ResetIsWaited
  <2>1. /\ EndReset(job, <<>>) /\ control' = control /\ manager'.job \in {manager.job, None}
    BY <1>3, <1>6 DEF Escalated, ManagerType
  <2>2. job \in Tasks /\ Control \in Tasks /\ Control # job
    BY NamesAssumption DEF Tasks
  <2> QED
    BY <1>2, <2>1, <2>2, EndResetWaited
<1>7. CASE \E t \in Tasks : Terminate(t)
  BY <1>1, <1>7 DEF Terminate, launcher
<1>8. ASSUME NEW p \in Processes, StdoutReader(p)
      PROVE  HandIsKept /\ ResetIsWaited
  <2>1. control' = control /\ reset' = reset
    BY <1>8 DEF StdoutReader, ReadReady, ReadCleaned, ForwardEvent, ForwardFinal,
                ReadError, EndReader, launcher
  <2>2. Released(manager) \in ManagerType /\ Released(manager).job = None
    BY <1>3 DEF Released, ManagerType
  <2>3. manager'.job \in {manager.job, None}
    <3>1. CASE ReadReady(p) \/ ForwardEvent(p)
      BY <3>1 DEF ReadReady, ForwardEvent, launcher
    <3>2. CASE ReadCleaned(p)
      BY <1>3, <2>2, <3>2 DEF ReadCleaned, ManagerType
    <3>3. CASE ForwardFinal(p)
      BY <1>3, <2>2, <3>3 DEF ForwardFinal, ManagerType
    <3>4. CASE ReadError(p)
      BY <2>2, <3>4 DEF ReadError
    <3>5. CASE EndReader(p)
      BY <1>3, <2>2, <3>5 DEF EndReader, ManagerType
    <3> QED
      BY <1>8, <3>1, <3>2, <3>3, <3>4, <3>5 DEF StdoutReader
  <2> QED
    BY <1>2, <2>1, <2>3
<1>9. CASE \E p \in Processes : WorkerStep(p)
  BY <1>1, <1>9 DEF WorkerStep, Reap, WorkerReady, InitFails, Crash, ReadStdin, JobEvent,
                    JobEnds, JobCloses, StartRun, StartRunFails, CloseRun, Inside, launcher
<1>10. CASE UNCHANGED vars
  BY <1>1, <1>10 DEF vars, launcher
<1> QED
  BY <1>4, <1>5, <1>6, <1>7, <1>8, <1>9, <1>10, ControlReaderKept, StepCases DEF Tasks

LEMMA InHandKept ==
  ASSUME TypeOK, InHand, OwnReset, [Next]_vars
  PROVE  InHand' /\ OwnReset'
<1>1. InHand'
  BY HandKept DEF InHand, HandIsKept
<1>2. OwnReset'
  BY HandKept DEF OwnReset, ResetIsWaited
<1> QED
  BY <1>1, <1>2
-----------------------------------------------------------------------------
LEMMA JobInit == LinkInit => JobInv
<1> SUFFICES ASSUME LinkInit PROVE JobInv
  OBVIOUS
<1>1. TypeOK
  BY LinkInitTyped
<1>2. /\ conn = "open" /\ inbox = <<>> /\ outbox = <<>> /\ current = None
      /\ manager.worker = None /\ manager.job = None
      /\ manager.timer = None /\ manager.forwarded = None
      /\ control.job = None /\ control.pc = "idle"
      /\ reset = [t \in Tasks |-> None]
  BY DEF LinkInit, Init, Tasks
<1>3. Len(inbox) = 0 /\ Len(outbox) = 0 /\ \A job \in Jobs : ~IsPending(job)
  BY <1>2 DEF IsPending, InQueue
<1>4. OnlyStarted
  <2>1. \A p \in Processes : slave[p].job = None /\ slave[p].run = None
    BY DEF LinkInit, Init
  <2>2. /\ stdin \in [Processes -> Seq(Named(Given))]
        /\ stdout \in [Processes -> Seq(Named(Given))]
    BY NamedMessages DEF LinkInit, Init
  <2> QED
    BY <1>2, <2>1, <2>2, NamedMessages DEF OnlyStarted, NamesIn
<1>5. OneStart /\ AssignedFirst /\ InHand /\ OwnReset
  BY <1>2, <1>3 DEF OneStart, AssignedFirst, InHand, OwnReset, Tasks
<1>6. OneEnding
  <2>1. \A t \in Jobs : ~Ending(t)
    BY <1>2 DEF Ending, Tasks
  <2> QED
    BY <2>1 DEF OneEnding
<1>7. InOnePlace /\ TimerMatchesJob
  BY <1>2 DEF InOnePlace, Live, TimerMatchesJob
<1> QED
  BY <1>1, <1>4, <1>5, <1>6, <1>7 DEF JobInv

LEMMA StepKeeps ==
  ASSUME JobInv, TypeOK', [Next]_vars
  PROVE  Kept
<1>1. CASE Server \/ Lose
  BY <1>1, ServerKeeps
<1>2. CASE ControlReader /\ UNCHANGED server
  BY <1>2, StartKeeps, StartingKeeps, CommandKeeps DEF ControlReader
<1>3. CASE \/ Escalate /\ UNCHANGED server
           \/ \E job \in Jobs : Escalated(job) /\ UNCHANGED server
           \/ \E t \in Jobs \cup {Control} : Terminate(t) /\ UNCHANGED server
  BY <1>3, EscalationKeeps DEF Tasks
<1>4. CASE \E p \in Processes : StdoutReader(p) /\ UNCHANGED server
  BY <1>4, ReaderKeeps
<1>5. CASE \E p \in Processes : WorkerStep(p) /\ UNCHANGED server
  BY <1>5, WorkerKeeps
<1>6. CASE UNCHANGED vars
  BY <1>6, ApartKeeps DEF vars
<1> QED
  BY <1>1, <1>2, <1>3, <1>4, <1>5, <1>6, StepCases

\* The invariant of the jobs of a connection is inductive.
THEOREM JobsInvariant == Spec => []JobInv
<1>1. JobInv /\ TypeOK' /\ [Next]_vars => JobInv'
  <2> SUFFICES ASSUME JobInv, TypeOK', [Next]_vars PROVE JobInv'
    OBVIOUS
  <2>1. OnlyStarted' /\ OneStart' /\ AssignedFirst' /\ InHand' /\ OwnReset'
    BY OnlyStartedKept, OneStartKept, AssignedFirstKept, InHandKept DEF JobInv
  <2>2. Kept
    BY StepKeeps
  <2> QED
    BY <2>1, <2>2 DEF JobInv, Kept
<1> QED
  BY <1>1, JobInit, LinkTyped, PTL DEF Spec

\* While the connection lives, an escalation timer is armed for the job in
\* hand: it never resets the worker of another job.  The exception is a
\* connection the server is about to close.
THEOREM TimersMatchJobs == Spec => []TimerMatchesJob
<1>1. JobInv => TimerMatchesJob
  BY DEF JobInv
<1> QED
  BY <1>1, JobsInvariant, PTL

\* The launcher drops no assigned job, whichever of Faults happen and however
\* starts, cancels, resets, escalations and the ends of workers interleave.  Of
\* lines that cannot be parsed it says nothing: the model has none.
THEOREM NoJobIsForgotten == Spec => []NoForgottenJob
<1>1. JobInv => NoForgottenJob
  <2> SUFFICES ASSUME JobInv, conn = "open", current # None, ~Stray,
                      ~InQueue(outbox, Final(current))
               PROVE  \/ InQueue(inbox, Message("job.start", current))
                      \/ current \in {control.job, manager.job}
                      \/ \E t \in Jobs \cup {Control} : reset[t] # None /\ reset[t].job = current
    BY DEF NoForgottenJob
  <2>1. Live
    BY DEF Live, Calm, IsOver
  <2> QED
    BY <2>1 DEF JobInv, InOnePlace, IsPending, WillReport, Tasks
<1> QED
  BY <1>1, JobsInvariant, PTL
=============================================================================
