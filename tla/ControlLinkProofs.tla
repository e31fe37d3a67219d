-------------------------- MODULE ControlLinkProofs --------------------------
(* A control connection, for any jobs, apps, faults and bounds.              *)
EXTENDS ControlLink, TLAPS

Tasks == Jobs \cup {Control}

\* A step of the process p, or its end.
WorkerStep(p) ==
  \/ Reap(p) \/ WorkerReady(p) \/ InitFails(p) \/ Crash(p)
  \/ ReadStdin(p) \/ JobEvent(p) \/ JobEnds(p) \/ JobCloses(p)
  \/ StartRun(p) \/ StartRunFails(p) \/ CloseRun(p)

\* The steps of the system, by who takes them.
LEMMA StepCases ==
  ASSUME [Next]_vars
  PROVE  \/ Server \/ Lose
         \/ ControlReader /\ UNCHANGED server
         \/ Escalate /\ UNCHANGED server
         \/ \E job \in Jobs : Escalated(job) /\ UNCHANGED server
         \/ \E t \in Jobs \cup {Control} : Terminate(t) /\ UNCHANGED server
         \/ \E p \in Processes : StdoutReader(p) /\ UNCHANGED server
         \/ \E p \in Processes : WorkerStep(p) /\ UNCHANGED server
         \/ UNCHANGED vars
BY DEF Next, ControlReader, StdoutReader, WorkerStep
-----------------------------------------------------------------------------
(* Messages and queues *)

LEMMA QueueTypes ==
  ASSUME NEW S, NEW q \in Seq(S)
  PROVE  /\ \A x \in S : Append(q, x) \in Seq(S)
         /\ \A r \in Seq(S) : q \o r \in Seq(S)
         /\ q # <<>> => Head(q) \in S /\ Tail(q) \in Seq(S)
<1>1. \A x \in S : Append(q, x) \in Seq(S)
  OBVIOUS
<1>2. \A r \in Seq(S) : q \o r \in Seq(S)
  OBVIOUS
<1>3. q # <<>> => Head(q) \in S /\ Tail(q) \in Seq(S)
  OBVIOUS
<1> QED
  BY <1>1, <1>2, <1>3

LEMMA ShortQueues ==
  ASSUME NEW S
  PROVE  /\ <<>> \in Seq(S)
         /\ \A x \in S : <<x>> \in Seq(S)
         /\ \A x, y \in S : <<x, y>> \in Seq(S)
OBVIOUS

\* The messages about a job, and those about none.
LEMMA MessageTypes ==
  /\ \A job \in Jobs : /\ Final(job) \in LauncherMessages /\ Final(job) \in StdoutLines
                       /\ Message("event", job) \in StdoutLines
                       /\ Cleaned(job) \in StdoutLines
                       /\ Message("job.start", job) \in ServerMessages \cap StdinLines
                       /\ Message("job.cancel", job) \in ServerMessages \cap StdinLines
  /\ ResetDone \in LauncherMessages
  /\ Message("worker.reset", None) \in ServerMessages
  /\ Message("stop", None) \in StdinLines
  /\ Message("worker.ready", None) \in StdoutLines
  /\ Message("error", None) \in StdoutLines
BY DEF Final, Cleaned, Message, ResetDone, LauncherMessages, StdoutLines,
       ServerMessages, StdinLines

\* A queue of at most one end and an acknowledgement.
LEMMA AcksType ==
  ASSUME NEW job \in Jobs \cup {None}, NEW notify \in BOOLEAN
  PROVE  /\ Acks(job, notify) \in Seq(LauncherMessages)
         /\ Acks(job, FALSE) \in Seq(StdoutLines)
<1>1. /\ (IF job = None THEN <<>> ELSE <<Final(job)>>) \in Seq(LauncherMessages)
      /\ (IF job = None THEN <<>> ELSE <<Final(job)>>) \in Seq(StdoutLines)
  BY MessageTypes, ShortQueues
<1>2. (IF notify THEN <<ResetDone>> ELSE <<>>) \in Seq(LauncherMessages)
  BY MessageTypes, ShortQueues
<1>3. <<>> \in Seq(StdoutLines)
  BY ShortQueues
<1> QED
  BY <1>1, <1>2, <1>3, QueueTypes DEF Acks

\* Send, Write and Emit keep the queues typed.
LEMMA SendType ==
  ASSUME TypeOK, NEW m \in Seq(LauncherMessages), Send(m)
  PROVE  outbox' \in Seq(LauncherMessages)
BY QueueTypes DEF TypeOK, Send

LEMMA SendFinalType ==
  ASSUME TypeOK, NEW job \in Jobs, Send(<<Final(job)>>)
  PROVE  outbox' \in Seq(LauncherMessages)
BY SendType, MessageTypes, ShortQueues

LEMMA WriteType ==
  ASSUME TypeOK, NEW p \in Processes, NEW line \in StdinLines, Write(p, line)
  PROVE  stdin' \in [Processes -> Seq(StdinLines)]
BY QueueTypes DEF TypeOK, Write

LEMMA EmitType ==
  ASSUME TypeOK, NEW p \in Processes, NEW lines \in Seq(StdoutLines), Emit(p, lines)
  PROVE  stdout' \in [Processes -> Seq(StdoutLines)]
BY QueueTypes DEF TypeOK, Emit

LEMMA ConsumeType ==
  ASSUME TypeOK, NEW p \in Processes, stdout[p] # <<>>, Consume(p)
  PROVE  /\ stdout' \in [Processes -> Seq(StdoutLines)]
         /\ Head(stdout[p]) \in StdoutLines
BY QueueTypes DEF TypeOK, Consume

\* A command names a job, a reset does not.
LEMMA ReceiveType ==
  ASSUME TypeOK, NEW type, Receive(type)
  PROVE  /\ inbox' \in Seq(ServerMessages)
         /\ type \in {"job.start", "job.cancel"} => Head(inbox).job \in Jobs
         /\ conn = "open" /\ control.pc = "idle" /\ control.job = None
<1>1. Head(inbox) \in ServerMessages /\ Tail(inbox) \in Seq(ServerMessages)
  BY QueueTypes DEF TypeOK, Receive
<1>2. type \in {"job.start", "job.cancel"} => Head(inbox).job \in Jobs
  BY <1>1 DEF Receive, ServerMessages, Message
<1>3. control.job = None
  BY DEF Receive, TypeOK, ControlType
<1> QED
  BY <1>1, <1>2, <1>3 DEF Receive
-----------------------------------------------------------------------------
(* Records *)

LEMMA ControlTypes ==
  /\ \A job \in Jobs, pc \in {"switch", "spawn", "ready", "timeout"} :
       [pc |-> pc, job |-> job] \in ControlType
  /\ \A pc \in {"idle", "command", "stopping", "stopped"} :
       [pc |-> pc, job |-> None] \in ControlType
BY DEF ControlType

LEMMA ControlJob ==
  ASSUME TypeOK, control.pc \in {"switch", "spawn", "ready", "timeout"}
  PROVE  control.job \in Jobs
BY DEF TypeOK, ControlType

LEMMA ManagerTypes ==
  ASSUME NEW m \in ManagerType
  PROVE  /\ m.worker \in Processes \cup {None} /\ m.job \in Jobs \cup {None}
         /\ m.timer \in Jobs \cup {None} /\ m.forwarded \in Jobs \cup {None}
         /\ Released(m) \in ManagerType
         /\ [m EXCEPT !.job = None, !.status = "idle"] \in ManagerType
         /\ [m EXCEPT !.status = "busy"] \in ManagerType
         /\ [m EXCEPT !.status = "idle"] \in ManagerType
         /\ [m EXCEPT !.timer = None, !.cleaned = None, !.forwarded = None] \in ManagerType
         /\ [m EXCEPT !.timer = None] \in ManagerType
         /\ [m EXCEPT !.worker = None, !.status = "error"] \in ManagerType
         /\ \A job \in Jobs :
              /\ [m EXCEPT !.job = job, !.status = "starting",
                           !.cleaned = None, !.forwarded = None] \in ManagerType
              /\ [m EXCEPT !.worker = job, !.status = "starting"] \in ManagerType
              /\ [m EXCEPT !.cleaned = job] \in ManagerType
BY DEF ManagerType, Released, Processes

\* An idle manager keeps its job, its timer and its worker.
LEMMA IdleManager ==
  ASSUME NEW m \in ManagerType
  PROVE  /\ [m EXCEPT !.status = "idle"] \in ManagerType
         /\ [m EXCEPT !.status = "idle"].worker = m.worker
         /\ [m EXCEPT !.status = "idle"].job = m.job
         /\ [m EXCEPT !.status = "idle"].timer = m.timer
         /\ [m EXCEPT !.status = "idle"].forwarded = m.forwarded
<1>1. [m EXCEPT !.status = "idle"] \in ManagerType
  BY DEF ManagerType
<1>2. /\ [m EXCEPT !.status = "idle"].worker = m.worker
      /\ [m EXCEPT !.status = "idle"].job = m.job
      /\ [m EXCEPT !.status = "idle"].timer = m.timer
      /\ [m EXCEPT !.status = "idle"].forwarded = m.forwarded
  BY DEF ManagerType
<1> QED
  BY <1>1, <1>2

LEMMA ProcTypes ==
  ASSUME NEW r \in ProcType
  PROVE  /\ [r EXCEPT !.reaped = TRUE] \in ProcType
         /\ [r EXCEPT !.stopping = TRUE] \in ProcType
         /\ [r EXCEPT !.reader = TRUE] \in ProcType
         /\ [r EXCEPT !.reader = FALSE] \in ProcType
         /\ [r EXCEPT !.ready = TRUE] \in ProcType
         /\ [r EXCEPT !.event = TRUE] \in ProcType
BY DEF ProcType

LEMMA SlaveTypes ==
  ASSUME NEW r \in SlaveType
  PROVE  /\ r.job \in Jobs \cup {None} /\ r.run \in Jobs \cup {None}
         /\ r.closing \in Jobs \cup {None}
         /\ Dead \in SlaveType
         /\ [r EXCEPT !.phase = "init"] \in SlaveType
         /\ [r EXCEPT !.phase = "loop"] \in SlaveType
         /\ \A job \in Jobs \cup {None} : /\ [r EXCEPT !.job = job] \in SlaveType
                                          /\ [r EXCEPT !.run = job] \in SlaveType
                                          /\ [r EXCEPT !.closing = job] \in SlaveType
BY DEF SlaveType, Dead

\* Two fields of one process change together.
LEMMA SlaveJobs ==
  ASSUME TypeOK, NEW p \in Processes, NEW job \in Jobs \cup {None}, NEW closing \in Jobs \cup {None},
         slave' = [slave EXCEPT ![p].job = job, ![p].closing = closing]
  PROVE  /\ slave' \in [Processes -> SlaveType]
         /\ \A q \in Processes : /\ slave'[q].phase = slave[q].phase
                                 /\ slave'[q].run = slave[q].run
                                 /\ slave'[q].job \in {slave[q].job, job}
<1> DEFINE r == [slave[p] EXCEPT !.job = job]
           s == [r EXCEPT !.closing = closing]
<1>1. slave[p] \in SlaveType
  BY DEF TypeOK
<1>2. r \in SlaveType /\ r.phase = slave[p].phase /\ r.run = slave[p].run /\ r.job = job
  BY <1>1 DEF SlaveType
<1> HIDE DEF r
<1>3. s \in SlaveType /\ s.phase = r.phase /\ s.run = r.run /\ s.job = r.job
  BY <1>2 DEF SlaveType
<1>4. slave' = [slave EXCEPT ![p] = s]
  BY DEF r
<1> HIDE DEF s
<1> QED
  BY <1>1, <1>2, <1>3, <1>4 DEF TypeOK
-----------------------------------------------------------------------------
(* reset_worker *)

LEMMA BeginResetType ==
  ASSUME TypeOK, NEW t \in Tasks, NEW m \in ManagerType,
         NEW cancelJob \in BOOLEAN, NEW notify \in BOOLEAN,
         BeginReset(t, m, cancelJob, notify)
  PROVE  /\ manager' \in ManagerType
         /\ outbox' \in Seq(LauncherMessages)
         /\ reset' \in [Tasks -> ResetType \cup {None}]
         /\ proc' \in [Processes -> ProcType]
         /\ stdin' \in [Processes -> Seq(StdinLines)]
         /\ UNCHANGED <<conn, stdout, slave>>
<1> DEFINE job == IF cancelJob THEN m.job ELSE None
<1>1. job \in Jobs \cup {None} /\ m.worker \in Processes \cup {None}
  BY ManagerTypes
<1>2. manager' \in ManagerType
  <2>1. manager' = [m EXCEPT !.timer = None, !.cleaned = None, !.forwarded = None,
                             !.worker = None, !.status = "idle",
                             !.job = IF cancelJob THEN None ELSE m.job]
    BY DEF BeginReset
  <2> QED
    BY <2>1 DEF ManagerType
<1>3. UNCHANGED <<conn, stdout, slave>>
  BY DEF BeginReset
<1>4. CASE m.worker = None
  <2>1. Send(Acks(job, notify)) /\ UNCHANGED <<reset, proc, stdin>>
    BY <1>4 DEF BeginReset
  <2>2. outbox' \in Seq(LauncherMessages)
    BY <2>1, <1>1, AcksType, SendType
  <2> QED
    BY <1>2, <1>3, <2>1, <2>2 DEF TypeOK, Tasks
<1>5. CASE m.worker # None
  <2>1. m.worker \in Processes
    BY <1>1, <1>5
  <2>2. /\ proc' = [proc EXCEPT ![m.worker].stopping = TRUE]
        /\ reset' = [reset EXCEPT ![t] =
                       [proc |-> m.worker, job |-> job, notify |-> notify]]
        /\ outbox' = outbox
        /\ stdin' = stdin \/ Write(m.worker, Message("stop", None))
    BY <1>5 DEF BeginReset
  <2>3. proc' \in [Processes -> ProcType]
    BY <2>1, <2>2, ProcTypes DEF TypeOK
  <2>4. [proc |-> m.worker, job |-> job, notify |-> notify] \in ResetType
    BY <1>1, <2>1 DEF ResetType
  <2>5. reset' \in [Tasks -> ResetType \cup {None}]
    BY <2>2, <2>4 DEF TypeOK, Tasks
  <2>6. stdin' \in [Processes -> Seq(StdinLines)]
    BY <2>1, <2>2, WriteType, MessageTypes DEF TypeOK
  <2> QED
    BY <1>2, <1>3, <2>2, <2>3, <2>5, <2>6 DEF TypeOK
<1> QED
  BY <1>4, <1>5

LEMMA EndResetType ==
  ASSUME TypeOK, NEW t \in Tasks, NEW more \in Seq(LauncherMessages),
         EndReset(t, more)
  PROVE  /\ outbox' \in Seq(LauncherMessages)
         /\ reset' \in [Tasks -> ResetType \cup {None}]
         /\ proc' \in [Processes -> ProcType]
         /\ stdout' \in [Processes -> Seq(StdoutLines)]
         /\ UNCHANGED <<conn, inbox, stdin, slave>>
<1>1. reset[t] \in ResetType
  BY DEF EndReset, TypeOK, Tasks
<1>2. /\ reset[t].proc \in Processes /\ reset[t].job \in Jobs \cup {None}
      /\ reset[t].notify \in BOOLEAN
  BY <1>1 DEF ResetType
<1>3. outbox' \in Seq(LauncherMessages)
  <2>1. Acks(reset[t].job, reset[t].notify) \o more \in Seq(LauncherMessages)
    BY <1>2, AcksType, QueueTypes
  <2> QED
    BY <2>1, SendType DEF EndReset
<1>4. proc' \in [Processes -> ProcType]
  BY <1>2, ProcTypes DEF EndReset, TypeOK
<1>5. stdout' \in [Processes -> Seq(StdoutLines)]
  BY <1>2, ShortQueues DEF EndReset, TypeOK
<1>6. reset' \in [Tasks -> ResetType \cup {None}]
  BY DEF EndReset, TypeOK, Tasks
<1> QED
  BY <1>3, <1>4, <1>5, <1>6 DEF EndReset
-----------------------------------------------------------------------------
(* start_job *)

LEMMA StartFailsType ==
  ASSUME NEW m \in ManagerType, StartFails(m)
  PROVE  manager' \in ManagerType /\ control' \in ControlType
BY ManagerTypes, ControlTypes DEF StartFails, GoTo

LEMMA GiveJobType ==
  ASSUME TypeOK, NEW m \in ManagerType, m.worker # None, NEW job \in Jobs,
         GiveJob(m, job)
  PROVE  /\ manager' \in ManagerType /\ control' \in ControlType
         /\ outbox' \in Seq(LauncherMessages)
         /\ stdin' \in [Processes -> Seq(StdinLines)]
         /\ UNCHANGED <<conn, reset, proc, stdout, slave>>
<1>1. m.worker \in Processes
  BY ManagerTypes
<1>2. CASE /\ Write(m.worker, Message("job.start", job))
           /\ manager' = [m EXCEPT !.status = "busy"]
           /\ GoTo("idle", None)
           /\ UNCHANGED outbox
  BY <1>1, <1>2, WriteType, MessageTypes, ManagerTypes, ControlTypes
     DEF TypeOK, GoTo, GiveJob
<1>3. CASE /\ StartFails(m) /\ Send(<<Final(job)>>)
           /\ UNCHANGED stdin
  BY <1>3, StartFailsType, SendFinalType DEF TypeOK, GiveJob
<1> QED
  BY <1>2, <1>3 DEF GiveJob

LEMMA TakenType ==
  ASSUME TypeOK, NEW job \in Jobs
  PROVE  Taken(job) \in ManagerType /\ Taken(job).worker = manager.worker
<1>1. manager \in ManagerType
  BY DEF TypeOK
<1>2. Taken(job) \in ManagerType
  BY <1>1, ManagerTypes DEF Taken
<1>3. Taken(job).worker = manager.worker
  BY <1>1 DEF Taken, ManagerType
<1> QED
  BY <1>2, <1>3

\* Handling a job.start.
LEMMA StartTypes ==
  ASSUME TypeOK, UNCHANGED server,
         \/ RejectStart \/ StartOnWorker \/ SwitchWorker
         \/ StartWithoutEnvironment \/ StartWithoutWorker
  PROVE  TypeOK'
<1> DEFINE job == Head(inbox).job
<1>1. /\ job \in Jobs /\ inbox' \in Seq(ServerMessages)
      /\ Taken(job) \in ManagerType /\ Taken(job).worker = manager.worker
      /\ control.job = None /\ control.pc = "idle"
  BY ReceiveType, TakenType
     DEF RejectStart, StartOnWorker, SwitchWorker, StartWithoutEnvironment,
         StartWithoutWorker
<1>2. CASE RejectStart
  BY <1>1, <1>2, SendFinalType DEF RejectStart, TypeOK, launcher, process, server
<1>3. CASE StartOnWorker
  BY <1>1, <1>3, GiveJobType DEF StartOnWorker, TypeOK, server
<1>4. CASE SwitchWorker
  <2>1. BeginReset(Control, Taken(job), FALSE, FALSE) /\ GoTo("switch", job)
    BY <1>4 DEF SwitchWorker
  <2>2. control' \in ControlType
    BY <1>1, <2>1, ControlTypes DEF GoTo
  <2> QED
    BY <1>1, <2>1, <2>2, BeginResetType DEF TypeOK, server, Tasks
<1>5. CASE StartWithoutEnvironment
  <2>1. manager' \in ManagerType
    BY <1>5 DEF StartWithoutEnvironment, Taken, TypeOK, ManagerType
  <2> QED
    BY <1>1, <1>5, <2>1, SendFinalType
       DEF StartWithoutEnvironment, TypeOK, process, server
<1>6. CASE StartWithoutWorker
  <2>1. control' \in ControlType
    BY <1>1, <1>6, ControlTypes DEF StartWithoutWorker, GoTo
  <2> QED
    BY <1>1, <1>6, <2>1 DEF StartWithoutWorker, TypeOK, process, server
<1> QED
  BY <1>2, <1>3, <1>4, <1>5, <1>6

\* The rest of a start, while the control reader has the job.
LEMMA StartingTypes ==
  ASSUME TypeOK, UNCHANGED server,
         \/ SwitchedWithoutEnvironment \/ Switched \/ CannotSpawn \/ Spawn
         \/ WorkerIsReady \/ WorkerIsGone \/ ReadyTimeout \/ TimedOut
  PROVE  TypeOK'
<1>1. /\ control.job \in Jobs /\ manager \in ManagerType
      /\ <<Final(control.job)>> \in Seq(LauncherMessages)
      /\ <<>> \in Seq(LauncherMessages)
  BY ControlJob, MessageTypes, ShortQueues
     DEF SwitchedWithoutEnvironment, Switched, CannotSpawn, Spawn,
         WorkerIsReady, WorkerIsGone, ReadyTimeout, TimedOut, TypeOK
<1>2. CASE SwitchedWithoutEnvironment
  <2>1. EndReset(Control, <<Final(control.job)>>) /\ StartFails(manager)
    BY <1>2 DEF SwitchedWithoutEnvironment
  <2> QED
    BY <1>1, <2>1, EndResetType, StartFailsType DEF TypeOK, server, Tasks
<1>3. CASE Switched
  <2>1. EndReset(Control, <<>>) /\ GoTo("spawn", control.job) /\ UNCHANGED manager
    BY <1>3 DEF Switched
  <2>2. control' \in ControlType
    BY <1>1, <2>1, ControlTypes DEF GoTo
  <2> QED
    BY <1>1, <2>1, <2>2, EndResetType DEF TypeOK, server, Tasks
<1>4. CASE CannotSpawn
  BY <1>1, <1>4, StartFailsType, SendFinalType DEF CannotSpawn, TypeOK, process, server
<1>5. CASE Spawn
  <2>1. manager' \in ManagerType
    BY <1>1, <1>5, ManagerTypes DEF Spawn
  <2>2. proc' \in [Processes -> ProcType]
    BY <1>1, <1>5, ProcTypes DEF Spawn, TypeOK, Processes
  <2>3. slave' \in [Processes -> SlaveType]
    BY <1>1, <1>5, SlaveTypes DEF Spawn, TypeOK, Processes
  <2>4. control' \in ControlType
    BY <1>1, <1>5, ControlTypes DEF Spawn, GoTo
  <2> QED
    BY <1>5, <2>1, <2>2, <2>3, <2>4 DEF Spawn, TypeOK, link, server
<1>6. CASE WorkerIsReady
  <2> DEFINE m == [manager EXCEPT !.status = "idle"]
  <2>1. m \in ManagerType
    BY <1>1, ManagerTypes
  <2>2. CASE m.worker # None /\ GiveJob(m, control.job)
    <3>1. inbox' = inbox
      BY <1>6 DEF WorkerIsReady
    <3> QED
      BY <1>1, <2>1, <2>2, <3>1, GiveJobType DEF TypeOK, server
  <2>3. CASE /\ StartFails(m) /\ Send(<<Final(control.job)>>)
             /\ UNCHANGED <<conn, reset, process>>
    <3>1. inbox' = inbox
      BY <1>6 DEF WorkerIsReady
    <3> QED
      BY <1>1, <2>1, <2>3, <3>1, StartFailsType, SendFinalType DEF TypeOK, process, server
  <2> QED
    BY <1>6, <2>2, <2>3 DEF WorkerIsReady
<1>7. CASE WorkerIsGone
  <2> DEFINE m == [manager EXCEPT !.timer = None, !.cleaned = None, !.forwarded = None]
  <2>1. m \in ManagerType
    BY <1>1, ManagerTypes
  <2>2. StartFails(m) /\ Send(<<Final(control.job)>>)
    BY <1>7 DEF WorkerIsGone
  <2> QED
    BY <1>1, <1>7, <2>1, <2>2, StartFailsType, SendFinalType
       DEF WorkerIsGone, TypeOK, process, server
<1>8. CASE ReadyTimeout
  <2>1. BeginReset(Control, manager, FALSE, FALSE) /\ GoTo("timeout", control.job)
    BY <1>8 DEF ReadyTimeout
  <2>2. control' \in ControlType
    BY <1>1, <2>1, ControlTypes DEF GoTo
  <2> QED
    BY <1>1, <1>8, <2>1, <2>2, BeginResetType DEF ReadyTimeout, TypeOK, server, Tasks
<1>9. CASE TimedOut
  <2>1. EndReset(Control, <<Final(control.job)>>) /\ StartFails(manager)
    BY <1>9 DEF TimedOut
  <2> QED
    BY <1>1, <2>1, EndResetType, StartFailsType DEF TypeOK, server, Tasks
<1> QED
  BY <1>2, <1>3, <1>4, <1>5, <1>6, <1>7, <1>8, <1>9

LEMMA ConfirmedType ==
  ASSUME TypeOK, NEW job \in Jobs, manager.job = job
  PROVE  /\ Confirmed(job) \in ManagerType
         /\ [Confirmed(job) EXCEPT !.timer = None, !.job = None, !.status = "idle"]
              \in ManagerType
         /\ [Confirmed(job) EXCEPT !.status = "cancelling", !.timer = job] \in ManagerType
<1>1. Confirmed(job) \in ManagerType
  BY DEF TypeOK, Confirmed, ManagerType
<1> QED
  BY <1>1 DEF ManagerType

\* Commands that do not start a job, and the end of the connection.
LEMMA CommandTypes ==
  ASSUME TypeOK, UNCHANGED server,
         \/ IgnoreCancel \/ CancelWithoutWorker \/ CancelOnWorker \/ CancelBreaksPipe
         \/ ReceiveReset \/ CommandDone \/ StopAll \/ Stopped
  PROVE  TypeOK'
<1>1. manager \in ManagerType /\ <<>> \in Seq(LauncherMessages)
  BY ShortQueues DEF TypeOK
<1>2. CASE IgnoreCancel
  BY <1>2, ReceiveType DEF IgnoreCancel, TypeOK, launcher, process, server
<1>3. CASE CancelWithoutWorker
  <2>1. inbox' \in Seq(ServerMessages) /\ manager.job \in Jobs
    BY <1>3, ReceiveType DEF CancelWithoutWorker
  <2>2. outbox' \in Seq(LauncherMessages) /\ manager' \in ManagerType
    BY <1>3, <2>1, SendFinalType, ConfirmedType DEF CancelWithoutWorker
  <2> QED
    BY <1>3, <2>1, <2>2 DEF CancelWithoutWorker, TypeOK, process, server
<1>4. CASE CancelOnWorker
  <2>1. inbox' \in Seq(ServerMessages) /\ manager.job \in Jobs
    BY <1>4, ReceiveType DEF CancelOnWorker
  <2>2. manager.worker \in Processes
    BY <1>1, <1>4, ManagerTypes DEF CancelOnWorker, CanAskWorker
  <2>3. stdin' \in [Processes -> Seq(StdinLines)] /\ manager' \in ManagerType
    BY <1>4, <2>1, <2>2, WriteType, MessageTypes, ConfirmedType DEF CancelOnWorker
  <2> QED
    BY <1>4, <2>1, <2>3 DEF CancelOnWorker, TypeOK, server
<1>5. CASE CancelBreaksPipe
  <2>1. inbox' \in Seq(ServerMessages)
    BY <1>5, ReceiveType DEF CancelBreaksPipe
  <2>2. BeginReset(Control, manager, TRUE, TRUE) /\ GoTo("command", None)
    BY <1>5 DEF CancelBreaksPipe
  <2>3. control' \in ControlType
    BY <2>2, ControlTypes DEF GoTo
  <2> QED
    BY <1>1, <2>1, <2>2, <2>3, BeginResetType DEF TypeOK, server, Tasks
<1>6. CASE ReceiveReset
  <2>1. inbox' \in Seq(ServerMessages)
    BY <1>6, ReceiveType DEF ReceiveReset
  <2>2. /\ BeginReset(Control, manager, TRUE, TRUE)
        /\ GoTo(IF manager.worker = None THEN "idle" ELSE "command", None)
    BY <1>6 DEF ReceiveReset
  <2>3. control' \in ControlType
    BY <2>2, ControlTypes DEF GoTo
  <2> QED
    BY <1>1, <2>1, <2>2, <2>3, BeginResetType DEF TypeOK, server, Tasks
<1>7. CASE CommandDone
  <2>1. EndReset(Control, <<>>) /\ GoTo("idle", None) /\ UNCHANGED manager
    BY <1>7 DEF CommandDone
  <2>2. control' \in ControlType
    BY <2>1, ControlTypes DEF GoTo
  <2> QED
    BY <1>1, <2>1, <2>2, EndResetType DEF TypeOK, server, Tasks
<1>8. CASE StopAll
  <2>1. /\ BeginReset(Control, manager, TRUE, TRUE)
        /\ GoTo(IF manager.worker = None THEN "stopped" ELSE "stopping", None)
        /\ UNCHANGED inbox
    BY <1>8 DEF StopAll
  <2>2. control' \in ControlType
    BY <2>1, ControlTypes DEF GoTo
  <2> QED
    BY <1>1, <2>1, <2>2, BeginResetType DEF TypeOK, server, Tasks
<1>9. CASE Stopped
  <2>1. EndReset(Control, <<>>) /\ GoTo("stopped", None) /\ UNCHANGED manager
    BY <1>9 DEF Stopped
  <2>2. control' \in ControlType
    BY <2>1, ControlTypes DEF GoTo
  <2> QED
    BY <1>1, <2>1, <2>2, EndResetType DEF TypeOK, server, Tasks
<1> QED
  BY <1>2, <1>3, <1>4, <1>5, <1>6, <1>7, <1>8, <1>9
-----------------------------------------------------------------------------
(* The other tasks, the workers and the server *)

\* escalate_cancel, and the end of a process that does not exit.
LEMMA EscalationTypes ==
  ASSUME TypeOK, UNCHANGED server,
         \/ Escalate
         \/ \E job \in Jobs : Escalated(job)
         \/ \E t \in Tasks : Terminate(t)
  PROVE  TypeOK'
<1>1. manager \in ManagerType /\ <<>> \in Seq(LauncherMessages)
  BY ShortQueues DEF TypeOK
<1>2. CASE Escalate
  <2>1. manager.timer \in Tasks
    BY <1>1, <1>2, ManagerTypes DEF Escalate, Tasks
  <2>2. CASE BeginReset(manager.timer, manager, manager.forwarded # manager.job, TRUE)
    <3>1. UNCHANGED <<inbox, control>>
      BY <1>2 DEF Escalate
    <3>2. (manager.forwarded # manager.job) \in BOOLEAN
      OBVIOUS
    <3> QED
      BY <1>1, <2>1, <2>2, <3>1, <3>2, BeginResetType DEF TypeOK, server, Tasks
  <2>3. CASE /\ manager' = [manager EXCEPT !.timer = None]
             /\ UNCHANGED <<conn, outbox, reset, process>>
    BY <1>1, <1>2, <2>3, ManagerTypes DEF Escalate, TypeOK, process, server
  <2> QED
    BY <1>2, <2>2, <2>3 DEF Escalate
<1>3. ASSUME NEW job \in Jobs, Escalated(job)
      PROVE  TypeOK'
  <2>1. EndReset(job, <<>>) /\ UNCHANGED control
    BY <1>3 DEF Escalated
  <2>2. manager' \in ManagerType
    BY <1>1, <1>3, ManagerTypes DEF Escalated
  <2> QED
    BY <1>1, <2>1, <2>2, EndResetType DEF TypeOK, server, Tasks
<1>4. ASSUME NEW t \in Tasks, Terminate(t)
      PROVE  TypeOK'
  <2>1. slave' \in [Processes -> SlaveType]
    BY <1>4, SlaveTypes DEF Terminate, TypeOK
  <2> QED
    BY <1>4, <2>1 DEF Terminate, TypeOK, link, launcher, server
<1> QED
  BY <1>2, <1>3, <1>4

\* What is reported for a worker that is gone.
LEMMA ExitReportType ==
  ASSUME TypeOK
  PROVE  ExitReport \in Seq(LauncherMessages)
<1>1. manager.job \in Jobs \cup {None}
  BY ManagerTypes DEF TypeOK
<1>2. CASE manager.job \in {None, manager.forwarded}
  BY <1>2, ShortQueues DEF ExitReport
<1>3. CASE manager.job \notin {None, manager.forwarded}
  BY <1>1, <1>3, MessageTypes, ShortQueues DEF ExitReport
<1> QED
  BY <1>2, <1>3

\* One line from a worker, or the end of its stdout.
LEMMA ReaderTypes ==
  ASSUME TypeOK, UNCHANGED server, NEW p \in Processes,
         \/ ReadReady(p) \/ ReadCleaned(p) \/ ForwardEvent(p)
         \/ ForwardFinal(p) \/ ReadError(p) \/ EndReader(p)
  PROVE  TypeOK'
<1> DEFINE line == Head(stdout[p])
<1>1. manager \in ManagerType /\ manager.worker \in Processes \cup {None}
  BY ManagerTypes DEF TypeOK
<1>2. CASE ReadReady(p)
  <2>1. stdout' \in [Processes -> Seq(StdoutLines)]
    BY <1>2, ConsumeType DEF ReadReady, Line
  <2>2. proc' \in [Processes -> ProcType]
    BY <1>1, <1>2, ProcTypes DEF ReadReady, TypeOK
  <2> QED
    BY <1>2, <2>1, <2>2 DEF ReadReady, TypeOK, link, launcher, server
<1>3. CASE ReadCleaned(p)
  <2>1. stdout' \in [Processes -> Seq(StdoutLines)] /\ line.job \in Jobs
    BY <1>3, ConsumeType DEF ReadCleaned, Line, StdoutLines
  <2>2. manager' \in ManagerType
    BY <1>1, <1>3, <2>1, ManagerTypes DEF ReadCleaned
  <2> QED
    BY <1>3, <2>1, <2>2 DEF ReadCleaned, TypeOK, link, server
<1>4. CASE ForwardEvent(p)
  <2>1. stdout' \in [Processes -> Seq(StdoutLines)] /\ line \in LauncherMessages
    BY <1>4, ConsumeType DEF ForwardEvent, Line, StdoutLines, LauncherMessages
  <2>2. outbox' \in Seq(LauncherMessages)
    BY <1>4, <2>1, SendType, ShortQueues DEF ForwardEvent
  <2> QED
    BY <1>4, <2>1, <2>2 DEF ForwardEvent, TypeOK, launcher, server
<1>5. CASE ForwardFinal(p)
  <2>1. /\ stdout' \in [Processes -> Seq(StdoutLines)]
        /\ line \in LauncherMessages /\ line.job \in Jobs
    BY <1>5, ConsumeType DEF ForwardFinal, Line, StdoutLines, LauncherMessages
  <2>2. outbox' \in Seq(LauncherMessages)
    BY <1>5, <2>1, SendType, ShortQueues DEF ForwardFinal
  <2>3. [manager EXCEPT !.forwarded = line.job, !.status = "cancelling",
                        !.timer = IF @ = None THEN line.job ELSE @] \in ManagerType
    BY <1>1, <2>1 DEF ManagerType
  <2>4. manager' \in ManagerType
    BY <1>1, <1>5, <2>3, ManagerTypes DEF ForwardFinal
  <2> QED
    BY <1>5, <2>1, <2>2, <2>4 DEF ForwardFinal, TypeOK, server
<1>6. CASE ReadError(p)
  <2>1. stdout' \in [Processes -> Seq(StdoutLines)]
    BY <1>6, ConsumeType DEF ReadError, Line
  <2>2. CASE manager.job = None
    BY <1>6, <2>1, <2>2 DEF ReadError, TypeOK, server
  <2>3. CASE manager.job # None
    <3>1. manager.job \in Jobs
      BY <1>1, <2>3, ManagerTypes
    <3>2. outbox' \in Seq(LauncherMessages) /\ manager' \in ManagerType
      BY <1>1, <1>6, <2>3, <3>1, SendFinalType, ManagerTypes DEF ReadError
    <3> QED
      BY <1>6, <2>1, <3>2 DEF ReadError, TypeOK, server
  <2> QED
    BY <2>2, <2>3
<1>7. CASE EndReader(p)
  <2>1. [Released(manager) EXCEPT !.worker = None, !.status = "error"] \in ManagerType
    BY <1>1, ManagerTypes
  <2>2. CASE manager.worker = p /\ ~proc[p].stopping
    <3>1. outbox' \in Seq(LauncherMessages)
      BY <1>7, <2>2, SendType, ExitReportType DEF EndReader
    <3>2. proc' = [proc EXCEPT ![p].reader = FALSE, ![p].event = TRUE]
      BY <1>7, <2>2 DEF EndReader
    <3>3. [proc EXCEPT ![p].reader = FALSE] \in [Processes -> ProcType]
      BY ProcTypes DEF TypeOK
    <3>4. \A f \in [Processes -> ProcType] :
            [f EXCEPT ![p].event = TRUE] \in [Processes -> ProcType]
      BY ProcTypes
    <3>5. proc' = [[proc EXCEPT ![p].reader = FALSE] EXCEPT ![p].event = TRUE]
      BY <3>2 DEF TypeOK
    <3>6. proc' \in [Processes -> ProcType]
      BY <3>3, <3>4, <3>5
    <3> QED
      BY <1>7, <2>1, <2>2, <3>1, <3>6 DEF EndReader, TypeOK, server
  <2>3. CASE ~(manager.worker = p /\ ~proc[p].stopping)
    <3>1. proc' = [proc EXCEPT ![p].reader = FALSE]
      BY <1>7, <2>3 DEF EndReader
    <3>2. proc' \in [Processes -> ProcType]
      BY <3>1, ProcTypes DEF TypeOK
    <3> QED
      BY <1>7, <2>3, <3>2 DEF EndReader, TypeOK, server
  <2> QED
    BY <2>2, <2>3
<1> QED
  BY <1>2, <1>3, <1>4, <1>5, <1>6, <1>7

\* What a job says when it is cancelled or stopped, and when it is closed.
LEMMA LateLines ==
  ASSUME NEW job \in Jobs \cup {None}, NEW p, NEW closing, NEW late \in Late(p, closing)
  PROVE  late \in Seq(StdoutLines) /\ Acks(job, FALSE) \o late \in Seq(StdoutLines)
<1>1. Acks(job, FALSE) \in Seq(StdoutLines)
  BY AcksType
<1>2. late \in Seq(StdoutLines)
  BY MessageTypes, ShortQueues DEF Late
<1> QED
  BY <1>1, <1>2, QueueTypes

\* A step of a worker process, or its end.
LEMMA WorkerTypes ==
  ASSUME TypeOK, UNCHANGED server, NEW p \in Processes,
         WorkerStep(p)
  PROVE  TypeOK'
<1>1. /\ slave[p] \in SlaveType
      /\ slave[p].job \in Jobs \cup {None} /\ slave[p].run \in Jobs \cup {None}
  BY SlaveTypes DEF TypeOK
<1>2. CASE Reap(p)
  <2>1. proc' \in [Processes -> ProcType]
    BY <1>2, ProcTypes DEF Reap, TypeOK
  <2> QED
    BY <1>2, <2>1 DEF Reap, TypeOK, link, launcher, server
<1>3. CASE WorkerReady(p)
  <2>1. stdout' \in [Processes -> Seq(StdoutLines)]
    BY <1>3, EmitType, MessageTypes, ShortQueues DEF WorkerReady
  <2>2. slave' \in [Processes -> SlaveType]
    BY <1>3, SlaveTypes DEF WorkerReady, TypeOK
  <2> QED
    BY <1>3, <2>1, <2>2 DEF WorkerReady, Inside, TypeOK, link, launcher, server
<1>4. CASE InitFails(p)
  <2>1. stdout' \in [Processes -> Seq(StdoutLines)]
    BY <1>4, EmitType, MessageTypes, ShortQueues DEF InitFails
  <2>2. slave' \in [Processes -> SlaveType]
    BY <1>1, <1>4, SlaveTypes DEF InitFails, TypeOK
  <2> QED
    BY <1>4, <2>1, <2>2 DEF InitFails, Inside, TypeOK, link, launcher, server
<1>5. CASE Crash(p)
  <2>1. slave' \in [Processes -> SlaveType]
    BY <1>1, <1>5, SlaveTypes DEF Crash, TypeOK
  <2> QED
    BY <1>5, <2>1 DEF Crash, Inside, TypeOK, link, launcher, server
<1>6. CASE ReadStdin(p)
  <2> DEFINE line == Head(stdin[p])
             job == slave[p].job
  <2>1. stdin[p] \in Seq(StdinLines) /\ stdin[p] # <<>>
    BY <1>6 DEF ReadStdin, TypeOK
  <2>2. line \in StdinLines /\ Tail(stdin[p]) \in Seq(StdinLines)
    BY <2>1, QueueTypes
  <2>3. line.type \in {"job.start", "job.cancel"} => line.job \in Jobs
    BY <2>2 DEF StdinLines, Message
  <2>4. stdin' \in [Processes -> Seq(StdinLines)]
    BY <1>6, <2>2 DEF ReadStdin, TypeOK
  <2>5. slave' \in [Processes -> SlaveType] /\ stdout' \in [Processes -> Seq(StdoutLines)]
    <3>1. CASE line.type = "job.start" /\ job = None /\ slave[p].closing = None
      <4>1. slave' = [slave EXCEPT ![p].job = line.job] /\ UNCHANGED stdout
        BY <1>6, <3>1 DEF ReadStdin
      <4> QED
        BY <1>1, <2>3, <3>1, <4>1, SlaveTypes DEF TypeOK
    <3>2. CASE line.type = "job.start" /\ ~(job = None /\ slave[p].closing = None)
      BY <1>6, <2>3, <3>2, EmitType, MessageTypes, ShortQueues DEF ReadStdin, TypeOK
    <3>3. CASE line.type = "job.cancel" /\ line.job \in {job, slave[p].closing}
      <4>1. slave' = [slave EXCEPT ![p].job = None, ![p].closing = None]
        BY <1>6, <3>3 DEF ReadStdin
      <4>2. PICK late \in Late(p, line.job) : Emit(p, Acks(job, FALSE) \o late)
        BY <1>6, <3>3 DEF ReadStdin
      <4> QED
        BY <1>1, <4>1, <4>2, EmitType, LateLines, SlaveJobs
    <3>4. CASE line.type = "job.cancel" /\ line.job \notin {job, slave[p].closing}
      BY <1>6, <3>4 DEF ReadStdin, TypeOK
    <3>5. CASE line.type = "stop"
      <4>1. slave' = [slave EXCEPT ![p] = Dead]
        BY <1>6, <3>5 DEF ReadStdin
      <4>2. PICK late \in Late(p, IF job = None THEN slave[p].closing ELSE job) :
                Emit(p, Acks(job, FALSE) \o late)
        BY <1>6, <3>5 DEF ReadStdin
      <4> QED
        BY <1>1, <4>1, <4>2, EmitType, LateLines, SlaveTypes DEF TypeOK
    <3> QED
      BY <1>6, <3>1, <3>2, <3>3, <3>4, <3>5 DEF ReadStdin
  <2> QED
    BY <1>6, <2>4, <2>5 DEF ReadStdin, Inside, TypeOK, link, launcher, server
<1>7. CASE JobEvent(p)
  <2>1. stdout' \in [Processes -> Seq(StdoutLines)]
    BY <1>1, <1>7, EmitType, MessageTypes, ShortQueues DEF JobEvent
  <2> QED
    BY <1>7, <2>1 DEF JobEvent, Inside, TypeOK, link, launcher, server
<1>8. CASE JobEnds(p)
  <2>1. slave[p].job \in Jobs
    BY <1>1, <1>8 DEF JobEnds
  <2>2. <<Final(slave[p].job)>> \in Seq(StdoutLines)
    BY <2>1, MessageTypes, ShortQueues
  <2>3. stdout' \in [Processes -> Seq(StdoutLines)]
    BY <1>8, <2>2, EmitType DEF JobEnds
  <2>4. slave' \in [Processes -> SlaveType]
    BY <1>1, <1>8, SlaveJobs DEF JobEnds
  <2> QED
    BY <1>8, <2>3, <2>4 DEF JobEnds, Inside, TypeOK, link, launcher, server
<1>9. CASE StartRun(p)
  <2>1. (IF slave[p].run = None THEN <<>> ELSE <<Cleaned(slave[p].run)>>)
          \in Seq(StdoutLines)
    BY <1>1, MessageTypes, ShortQueues
  <2>2. stdout' \in [Processes -> Seq(StdoutLines)]
    BY <1>9, <2>1, EmitType DEF StartRun
  <2>3. slave' \in [Processes -> SlaveType]
    BY <1>1, <1>9, SlaveTypes DEF StartRun, CanStartRun, TypeOK
  <2> QED
    BY <1>9, <2>2, <2>3 DEF StartRun, Inside, TypeOK, link, launcher, server
<1>10. CASE StartRunFails(p)
  <2>1. stdout' \in [Processes -> Seq(StdoutLines)]
    BY <1>1, <1>10, EmitType, MessageTypes, ShortQueues DEF StartRunFails, CanStartRun
  <2> QED
    BY <1>10, <2>1 DEF StartRunFails, Inside, TypeOK, link, launcher, server
<1>11. CASE CloseRun(p)
  <2>1. stdout' \in [Processes -> Seq(StdoutLines)]
    BY <1>1, <1>11, EmitType, MessageTypes, ShortQueues DEF CloseRun
  <2>2. slave' \in [Processes -> SlaveType]
    BY <1>1, <1>11, SlaveTypes DEF CloseRun, TypeOK
  <2> QED
    BY <1>11, <2>1, <2>2 DEF CloseRun, Inside, TypeOK, link, launcher, server
<1>12. CASE JobCloses(p)
  <2>1. stdout' \in [Processes -> Seq(StdoutLines)]
    BY <1>12, EmitType, LateLines DEF JobCloses
  <2>2. slave' \in [Processes -> SlaveType]
    BY <1>1, <1>12, SlaveTypes DEF JobCloses, TypeOK
  <2> QED
    BY <1>12, <2>1, <2>2 DEF JobCloses, Inside, TypeOK, link, launcher, server
<1> QED
  BY <1>2, <1>3, <1>4, <1>5, <1>6, <1>7, <1>8, <1>9, <1>10, <1>11, <1>12 DEF WorkerStep

\* A step of the server, or the loss of the connection.
LEMMA ServerTypes ==
  ASSUME TypeOK,
         \/ \E job \in Jobs : AssignJob(job) \/ CancelJob(job)
         \/ ResetWorker \/ HandleMessage \/ Lose
  PROVE  TypeOK'
<1>1. ASSUME NEW job \in Jobs, AssignJob(job)
      PROVE  TypeOK'
  <2>1. inbox' \in Seq(ServerMessages)
    BY <1>1, MessageTypes, QueueTypes DEF AssignJob, Deliver, TypeOK
  <2> QED
    BY <1>1, <2>1 DEF AssignJob, Deliver, TypeOK, launcher, process
<1>2. ASSUME NEW job \in Jobs, CancelJob(job)
      PROVE  TypeOK'
  <2>1. inbox' \in Seq(ServerMessages)
    BY <1>2, MessageTypes, QueueTypes DEF CancelJob, Deliver, TypeOK
  <2>2. cancels' \in [Jobs -> Nat \cup {None}]
    <3>1. /\ cancels[job] \in 0..(MaxCancels - 1)
          /\ cancels' = [cancels EXCEPT ![job] = cancels[job] + 1]
      BY <1>2 DEF CancelJob
    <3>2. cancels[job] + 1 \in Nat
      BY <3>1, CancelsAssumption
    <3> QED
      BY <3>1, <3>2 DEF TypeOK
  <2> QED
    BY <1>2, <2>1, <2>2 DEF CancelJob, Deliver, TypeOK, launcher, process
<1>3. CASE ResetWorker
  <2>1. inbox' \in Seq(ServerMessages)
    BY <1>3, MessageTypes, QueueTypes DEF ResetWorker, Deliver, TypeOK
  <2> QED
    BY <1>3, <2>1 DEF ResetWorker, Deliver, TypeOK, launcher, process
<1>4. CASE HandleMessage
  <2>1. outbox \in Seq(LauncherMessages) /\ outbox # <<>>
    BY <1>4 DEF HandleMessage, TypeOK
  <2>2. outbox' \in Seq(LauncherMessages)
    BY <1>4, <2>1, QueueTypes, ShortQueues DEF HandleMessage
  <2>3. current' \in Jobs \cup {None} /\ resetting' \in BOOLEAN
    BY <1>4 DEF HandleMessage, TypeOK
  <2>4. conn' \in {"open", "lost", "refused"}
    BY <1>4 DEF HandleMessage, TypeOK
  <2> QED
    BY <1>4, <2>2, <2>3, <2>4 DEF HandleMessage, TypeOK, launcher, process
<1>5. CASE Lose
  BY <1>5, ShortQueues DEF Lose, TypeOK, launcher, process, server
<1> QED
  BY <1>1, <1>2, <1>3, <1>4, <1>5
-----------------------------------------------------------------------------
LEMMA LinkInitTyped == LinkInit => TypeOK
<1> SUFFICES ASSUME LinkInit PROVE TypeOK
  OBVIOUS
<1>1. /\ manager \in ManagerType /\ control \in ControlType
      /\ proc \in [Processes -> ProcType]
  BY DEF LinkInit, Init, ManagerType, ControlType, ProcType
<1>2. /\ slave \in [Processes -> SlaveType]
      /\ reset \in [Jobs \cup {Control} -> ResetType \cup {None}]
      /\ cancels \in [Jobs -> Nat \cup {None}]
  BY DEF LinkInit, Init, SlaveType
<1>3. /\ inbox \in Seq(ServerMessages) /\ outbox \in Seq(LauncherMessages)
      /\ stdin \in [Processes -> Seq(StdinLines)]
      /\ stdout \in [Processes -> Seq(StdoutLines)]
  BY ShortQueues DEF LinkInit, Init
<1> QED
  BY <1>1, <1>2, <1>3 DEF LinkInit, Init, TypeOK

(* Every variable has its type, whichever of Faults happen, whoever acts.    *)
THEOREM LinkTyped == Spec => []TypeOK
<1>1. LinkInit => TypeOK
  BY LinkInitTyped
<1>2. TypeOK /\ [Next]_vars => TypeOK'
  <2> SUFFICES ASSUME TypeOK, [Next]_vars PROVE TypeOK'
    OBVIOUS
  <2>1. CASE Server \/ Lose
    BY <2>1, ServerTypes DEF Server
  <2>2. CASE ControlReader /\ UNCHANGED server
    BY <2>2, StartTypes, StartingTypes, CommandTypes DEF ControlReader
  <2>3. CASE \/ Escalate /\ UNCHANGED server
             \/ \E job \in Jobs : Escalated(job) /\ UNCHANGED server
             \/ \E t \in Jobs \cup {Control} : Terminate(t) /\ UNCHANGED server
    BY <2>3, EscalationTypes DEF Tasks
  <2>4. ASSUME NEW p \in Processes, StdoutReader(p), UNCHANGED server
        PROVE  TypeOK'
    BY <2>4, ReaderTypes DEF StdoutReader
  <2>5. ASSUME NEW p \in Processes, WorkerStep(p), UNCHANGED server
        PROVE  TypeOK'
    BY <2>5, WorkerTypes DEF WorkerStep
  <2>6. CASE UNCHANGED vars
    BY <2>6 DEF vars, link, launcher, process, server, TypeOK
  <2> QED
    BY <2>1, <2>2, <2>3, <2>4, <2>5, <2>6, StepCases
<1> QED
  BY <1>1, <1>2, PTL DEF Spec
-----------------------------------------------------------------------------
(* No forgotten process.  The manager gives up a process only by telling it  *)
(* to stop, or once it is gone; and it has no worker when it spawns one.     *)

NoWorkerYet == control.pc \in {"switch", "spawn"} => manager.worker = None
LinkInv == TypeOK /\ NoWorkerYet /\ NoForgottenProcess

NoneStarts == \A p \in Processes : Up(p)' => Up(p)
NoneReprieved == \A p \in Processes : proc[p].stopping => proc'[p].stopping
GivenUp(p) == conn' # "open" \/ ~Up(p)' \/ proc'[p].stopping

\* A step that spawns nothing.
Cautious ==
  /\ conn' = "open" => conn = "open"
  /\ NoneStarts /\ NoneReprieved
  /\ \/ manager'.worker = manager.worker
     \/ manager'.worker = None /\ \A p \in Processes : manager.worker = p => GivenUp(p)
  /\ control'.pc \in {"switch", "spawn"} =>
       control.pc \in {"switch", "spawn"} \/ manager'.worker = None

LEMMA CautiousIsSafe ==
  ASSUME LinkInv, Cautious
  PROVE  NoWorkerYet' /\ NoForgottenProcess'
<1>1. NoWorkerYet'
  BY DEF LinkInv, NoWorkerYet, Cautious
<1>2. ASSUME conn' = "open", NEW p \in Processes, Up(p)'
      PROVE  manager'.worker = p \/ proc'[p].stopping
  <2>1. manager.worker = p \/ proc[p].stopping
    BY <1>2 DEF LinkInv, NoForgottenProcess, Cautious, NoneStarts
  <2>2. CASE proc[p].stopping
    BY <2>2 DEF Cautious, NoneReprieved
  <2>3. CASE manager.worker = p
    BY <1>2, <2>3 DEF Cautious, GivenUp
  <2> QED
    BY <2>1, <2>2, <2>3
<1> QED
  BY <1>1, <1>2 DEF NoForgottenProcess

\* A step that leaves the worker, its process and the connection alone.
Aside ==
  /\ conn' = "open" => conn = "open"
  /\ NoneStarts /\ NoneReprieved
  /\ manager'.worker = manager.worker
  /\ control'.pc \in {"switch", "spawn"} =>
       control.pc \in {"switch", "spawn"} \/ manager'.worker = None

LEMMA AsideIsCautious == Aside => Cautious
BY DEF Aside, Cautious

LEMMA SameProcesses ==
  /\ slave' = slave => NoneStarts
  /\ proc' = proc => NoneReprieved
BY DEF NoneStarts, NoneReprieved, Up

LEMMA BeginResetCautious ==
  ASSUME TypeOK, NEW t, NEW m \in ManagerType, m.worker = manager.worker,
         NEW cancelJob, NEW notify, BeginReset(t, m, cancelJob, notify)
  PROVE  /\ conn' = conn /\ NoneStarts /\ NoneReprieved
         /\ manager'.worker = None
         /\ \A p \in Processes : manager.worker = p => GivenUp(p)
<1>1. conn' = conn /\ slave' = slave
  BY DEF BeginReset
<1>2. manager'.worker = None
  BY DEF BeginReset, ManagerType
<1>3. CASE m.worker = None
  <2>1. proc' = proc
    BY <1>3 DEF BeginReset
  <2> QED
    BY <1>1, <1>2, <1>3, <2>1, SameProcesses, NamesAssumption DEF Processes
<1>4. CASE m.worker # None
  <2>1. m.worker \in Processes
    BY <1>4, ManagerTypes
  <2>2. proc' = [proc EXCEPT ![m.worker].stopping = TRUE]
    BY <1>4 DEF BeginReset
  <2>3. \A p \in Processes : proc'[p].stopping = (proc[p].stopping \/ p = m.worker)
    BY <2>1, <2>2 DEF TypeOK, ProcType
  <2>4. NoneReprieved /\ proc'[m.worker].stopping
    BY <2>1, <2>3 DEF NoneReprieved
  <2> QED
    BY <1>1, <1>2, <2>4, SameProcesses DEF GivenUp
<1> QED
  BY <1>3, <1>4

LEMMA EndResetAside ==
  ASSUME TypeOK, NEW t \in Tasks, NEW more, EndReset(t, more)
  PROVE  conn' = conn /\ NoneStarts /\ NoneReprieved
<1>1. conn' = conn /\ slave' = slave
  BY DEF EndReset
<1>2. reset[t].proc \in Processes
  BY DEF EndReset, TypeOK, Tasks, ResetType
<1>3. proc' = [proc EXCEPT ![reset[t].proc].reader = FALSE]
  BY DEF EndReset
<1>4. NoneReprieved
  BY <1>2, <1>3 DEF TypeOK, ProcType, NoneReprieved
<1> QED
  BY <1>1, <1>4, SameProcesses

LEMMA StartFailsAside ==
  ASSUME NEW m \in ManagerType, StartFails(m)
  PROVE  manager'.worker = m.worker /\ control'.pc = "idle"
BY DEF StartFails, GoTo, ManagerType

LEMMA GiveJobAside ==
  ASSUME NEW m \in ManagerType, m.worker = manager.worker, NEW job, GiveJob(m, job)
  PROVE  Aside
<1>1. manager'.worker = m.worker /\ control'.pc = "idle"
  BY StartFailsAside DEF GiveJob, GoTo, ManagerType
<1>2. UNCHANGED <<conn, proc, slave>>
  BY DEF GiveJob
<1> QED
  BY <1>1, <1>2, SameProcesses DEF Aside

\* Handling a job.start.
LEMMA StartCautious ==
  ASSUME TypeOK,
         \/ RejectStart \/ StartOnWorker \/ SwitchWorker
         \/ StartWithoutEnvironment \/ StartWithoutWorker
  PROVE  Cautious
<1> DEFINE job == Head(inbox).job
<1>1. /\ job \in Jobs /\ control.pc = "idle"
      /\ Taken(job) \in ManagerType /\ Taken(job).worker = manager.worker
  BY ReceiveType, TakenType
     DEF RejectStart, StartOnWorker, SwitchWorker, StartWithoutEnvironment,
         StartWithoutWorker
<1>2. CASE RejectStart
  BY <1>2, AsideIsCautious, SameProcesses DEF RejectStart, Aside, launcher, process
<1>3. CASE StartOnWorker
  <2>1. GiveJob(Taken(job), job)
    BY <1>3 DEF StartOnWorker
  <2> QED
    BY <1>1, <2>1, GiveJobAside, AsideIsCautious
<1>4. CASE SwitchWorker
  <2>1. BeginReset(Control, Taken(job), FALSE, FALSE)
    BY <1>4 DEF SwitchWorker
  <2> QED
    BY <1>1, <2>1, BeginResetCautious DEF Cautious
<1>5. CASE StartWithoutEnvironment
  <2>1. manager'.worker = manager.worker
    BY <1>5 DEF StartWithoutEnvironment, Taken, TypeOK, ManagerType
  <2> QED
    BY <1>1, <1>5, <2>1, AsideIsCautious, SameProcesses
       DEF StartWithoutEnvironment, Aside, process
<1>6. CASE StartWithoutWorker
  BY <1>1, <1>6, AsideIsCautious, SameProcesses DEF StartWithoutWorker, Aside, process
<1> QED
  BY <1>2, <1>3, <1>4, <1>5, <1>6

\* The rest of a start, but for the spawn.
LEMMA StartingCautious ==
  ASSUME TypeOK,
         \/ SwitchedWithoutEnvironment \/ Switched \/ CannotSpawn
         \/ WorkerIsReady \/ WorkerIsGone \/ ReadyTimeout \/ TimedOut
  PROVE  Cautious
<1>1. manager \in ManagerType /\ Control \in Tasks
  BY DEF TypeOK, Tasks
<1>2. ASSUME NEW more, EndReset(Control, more), StartFails(manager)
      PROVE  Cautious
  BY <1>1, <1>2, EndResetAside, StartFailsAside, AsideIsCautious DEF Aside
<1>3. CASE SwitchedWithoutEnvironment
  BY <1>2, <1>3 DEF SwitchedWithoutEnvironment
<1>4. CASE Switched
  BY <1>1, <1>4, EndResetAside, AsideIsCautious DEF Switched, Aside
<1>5. CASE CannotSpawn
  BY <1>1, <1>5, StartFailsAside, SameProcesses, AsideIsCautious
     DEF CannotSpawn, Aside, process
<1>6. CASE WorkerIsReady
  <2> DEFINE m == [manager EXCEPT !.status = "idle"]
  <2>1. m \in ManagerType /\ m.worker = manager.worker /\ control.job \in Jobs
    <3>1. m \in ManagerType /\ m.worker = manager.worker
      BY <1>1, IdleManager
    <3>2. control.job \in Jobs
      BY <1>1, <1>6, ControlJob DEF WorkerIsReady
    <3> QED
      BY <3>1, <3>2
  <2>2. CASE m.worker # None /\ GiveJob(m, control.job)
    BY <2>1, <2>2, GiveJobAside, AsideIsCautious
  <2>3. CASE /\ StartFails(m)
             /\ UNCHANGED <<conn, reset, process>>
    BY <2>1, <2>3, StartFailsAside, SameProcesses, AsideIsCautious DEF Aside, process
  <2> QED
    BY <1>6, <2>2, <2>3 DEF WorkerIsReady
<1>7. CASE WorkerIsGone
  <2> DEFINE m == [manager EXCEPT !.timer = None, !.cleaned = None, !.forwarded = None]
  <2>1. m \in ManagerType
    BY <1>1, ManagerTypes
  <2>2. m.worker = manager.worker
    BY <1>1 DEF ManagerType
  <2>3. StartFails(m) /\ UNCHANGED <<conn, reset, process>>
    BY <1>7 DEF WorkerIsGone
  <2> QED
    BY <2>1, <2>2, <2>3, StartFailsAside, SameProcesses, AsideIsCautious
       DEF Aside, process
<1>8. CASE ReadyTimeout
  BY <1>1, <1>8, BeginResetCautious DEF ReadyTimeout, Cautious
<1>9. CASE TimedOut
  BY <1>2, <1>9 DEF TimedOut
<1> QED
  BY <1>3, <1>4, <1>5, <1>6, <1>7, <1>8, <1>9

\* Commands that do not start a job, and the end of the connection.
LEMMA CommandCautious ==
  ASSUME TypeOK,
         \/ IgnoreCancel \/ CancelWithoutWorker \/ CancelOnWorker \/ CancelBreaksPipe
         \/ ReceiveReset \/ CommandDone \/ StopAll \/ Stopped
  PROVE  Cautious
<1>1. manager \in ManagerType /\ Control \in Tasks
  BY DEF TypeOK, Tasks
<1>2. CASE IgnoreCancel
  BY <1>2, SameProcesses, AsideIsCautious DEF IgnoreCancel, Aside, launcher, process
<1>3. CASE CancelWithoutWorker
  <2>1. manager'.worker = manager.worker
    BY <1>1, <1>3 DEF CancelWithoutWorker, Confirmed, ManagerType
  <2> QED
    BY <1>3, <2>1, SameProcesses, AsideIsCautious DEF CancelWithoutWorker, Aside, process
<1>4. CASE CancelOnWorker
  <2>1. manager'.worker = manager.worker
    BY <1>1, <1>4 DEF CancelOnWorker, Confirmed, ManagerType
  <2> QED
    BY <1>4, <2>1, SameProcesses, AsideIsCautious DEF CancelOnWorker, Aside
<1>5. CASE CancelBreaksPipe
  BY <1>1, <1>5, BeginResetCautious DEF CancelBreaksPipe, Cautious
<1>6. CASE ReceiveReset
  BY <1>1, <1>6, BeginResetCautious DEF ReceiveReset, Cautious
<1>7. CASE CommandDone
  BY <1>1, <1>7, EndResetAside, AsideIsCautious DEF CommandDone, Aside, GoTo
<1>8. CASE StopAll
  BY <1>1, <1>8, BeginResetCautious DEF StopAll, Cautious
<1>9. CASE Stopped
  BY <1>1, <1>9, EndResetAside, AsideIsCautious DEF Stopped, Aside, GoTo
<1> QED
  BY <1>2, <1>3, <1>4, <1>5, <1>6, <1>7, <1>8, <1>9

\* escalate_cancel, and the end of a process that does not exit.
LEMMA EscalationCautious ==
  ASSUME TypeOK,
         \/ Escalate
         \/ \E job \in Jobs : Escalated(job)
         \/ \E t \in Tasks : Terminate(t)
  PROVE  Cautious
<1>1. manager \in ManagerType
  BY DEF TypeOK
<1>2. CASE Escalate
  <2>1. control' = control
    BY <1>2 DEF Escalate
  <2>2. CASE BeginReset(manager.timer, manager, manager.forwarded # manager.job, TRUE)
    BY <1>1, <2>1, <2>2, BeginResetCautious DEF Cautious
  <2>3. CASE /\ manager' = [manager EXCEPT !.timer = None]
             /\ UNCHANGED <<conn, outbox, reset, process>>
    <3>1. manager'.worker = manager.worker
      BY <1>1, <2>3 DEF ManagerType
    <3> QED
      BY <2>1, <2>3, <3>1, SameProcesses, AsideIsCautious DEF Aside, process
  <2> QED
    BY <1>2, <2>2, <2>3 DEF Escalate
<1>3. ASSUME NEW job \in Jobs, Escalated(job)
      PROVE  Cautious
  <2>1. EndReset(job, <<>>) /\ control' = control /\ job \in Tasks
    BY <1>3 DEF Escalated, Tasks
  <2>2. manager'.worker = manager.worker
    BY <1>1, <1>3 DEF Escalated, ManagerType
  <2> QED
    BY <2>1, <2>2, EndResetAside, AsideIsCautious DEF Aside
<1>4. ASSUME NEW t \in Tasks, Terminate(t)
      PROVE  Cautious
  <2>1. NoneStarts
    BY <1>4 DEF Terminate, TypeOK, SlaveType, Dead, NoneStarts, Up
  <2> QED
    BY <1>4, <2>1, SameProcesses, AsideIsCautious DEF Terminate, Aside, link, launcher
<1> QED
  BY <1>2, <1>3, <1>4

\* One line from a worker, or the end of its stdout.
LEMMA ReaderCautious ==
  ASSUME TypeOK, NEW p \in Processes, StdoutReader(p)
  PROVE  Cautious
<1>1. manager \in ManagerType /\ manager.worker \in Processes \cup {None}
  BY ManagerTypes DEF TypeOK
<1>2. control' = control /\ conn' = conn /\ slave' = slave
  BY DEF StdoutReader, ReadReady, ReadCleaned, ForwardEvent, ForwardFinal,
         ReadError, EndReader, link, launcher
<1>3. CASE ReadReady(p)
  <2>1. NoneReprieved
    BY <1>1, <1>3 DEF ReadReady, TypeOK, ProcType, NoneReprieved
  <2> QED
    BY <1>2, <1>3, <2>1, SameProcesses, AsideIsCautious DEF ReadReady, Aside, launcher
<1>4. CASE ReadCleaned(p) \/ ForwardEvent(p) \/ ForwardFinal(p) \/ ReadError(p)
  <2>1. manager'.worker = manager.worker
    BY <1>1, <1>4 DEF ReadCleaned, ForwardEvent, ForwardFinal, ReadError, launcher,
                      Released, ManagerType
  <2>2. proc' = proc
    BY <1>4 DEF ReadCleaned, ForwardEvent, ForwardFinal, ReadError
  <2> QED
    BY <1>2, <2>1, <2>2, SameProcesses, AsideIsCautious DEF Aside
<1>5. CASE EndReader(p)
  <2>1. NoneReprieved
    BY <1>5 DEF EndReader, TypeOK, ProcType, NoneReprieved
  <2>2. CASE manager.worker = p /\ ~proc[p].stopping
    <3>1. manager'.worker = None
      BY <1>1, <1>5, <2>2 DEF EndReader, Released, ManagerType
    <3>2. conn # "open" \/ ~Up(p)
      BY <1>5 DEF EndReader
    <3>3. GivenUp(p)
      BY <1>2, <3>2 DEF GivenUp, Up
    <3> QED
      BY <1>2, <2>1, <2>2, <3>1, <3>3, SameProcesses DEF Cautious
  <2>3. CASE ~(manager.worker = p /\ ~proc[p].stopping)
    BY <1>2, <1>5, <2>1, <2>3, SameProcesses, AsideIsCautious DEF EndReader, Aside
  <2> QED
    BY <2>2, <2>3
<1> QED
  BY <1>3, <1>4, <1>5 DEF StdoutReader

\* A step of a worker process, or its end: none starts.
LEMMA WorkerCautious ==
  ASSUME TypeOK, NEW p \in Processes, WorkerStep(p)
  PROVE  Cautious
<1>1. UNCHANGED <<conn, manager, control>>
  BY DEF WorkerStep, Reap, WorkerReady, InitFails, Crash, ReadStdin, JobEvent,
         JobEnds, JobCloses, StartRun, StartRunFails, CloseRun, Inside, link, launcher
<1>2. NoneReprieved
  <2>1. CASE Reap(p)
    BY <2>1 DEF Reap, TypeOK, ProcType, NoneReprieved
  <2>2. CASE proc' = proc
    BY <2>2, SameProcesses
  <2> QED
    BY <2>1, <2>2 DEF WorkerStep, WorkerReady, InitFails, Crash, ReadStdin, JobEvent,
                      JobEnds, JobCloses, StartRun, StartRunFails, CloseRun, Inside
<1>3. NoneStarts
  <2>2. slave' = slave => NoneStarts
    BY SameProcesses
  <2>3. slave' = [slave EXCEPT ![p] = Dead] => NoneStarts
    BY DEF TypeOK, SlaveType, Dead, NoneStarts, Up
  <2>4. CASE WorkerReady(p)
    BY <2>4 DEF WorkerReady, TypeOK, SlaveType, NoneStarts, Up
  <2>5. ASSUME NEW job, slave' = [slave EXCEPT ![p].job = job]
        PROVE  NoneStarts
    <3>1. \A q \in Processes : slave'[q].phase = slave[q].phase
      BY <2>5 DEF TypeOK, SlaveType
    <3> QED
      BY <3>1 DEF NoneStarts, Up
  <2>6. ASSUME NEW run, slave' = [slave EXCEPT ![p].run = run]
        PROVE  NoneStarts
    <3>1. \A q \in Processes : slave'[q].phase = slave[q].phase
      BY <2>6 DEF TypeOK, SlaveType
    <3> QED
      BY <3>1 DEF NoneStarts, Up
  <2>7. ASSUME NEW job \in Jobs \cup {None}, NEW closing \in Jobs \cup {None},
                slave' = [slave EXCEPT ![p].job = job, ![p].closing = closing]
         PROVE  NoneStarts
    BY <2>7, SlaveJobs DEF NoneStarts, Up
  <2>8. CASE JobEnds(p) \/ JobCloses(p)
    <3>1. slave[p].job \in Jobs \cup {None}
      BY SlaveTypes DEF TypeOK
    <3>2. JobCloses(p) => \A q \in Processes : slave'[q].phase = slave[q].phase
      BY DEF JobCloses, TypeOK, SlaveType
    <3>3. JobCloses(p) => NoneStarts
      BY <3>2 DEF NoneStarts, Up
    <3> QED
      BY <2>7, <2>8, <3>1, <3>3 DEF JobEnds
  <2>9. CASE ReadStdin(p)
    BY <2>2, <2>3, <2>5, <2>9, <2>7 DEF ReadStdin
  <2>10. CASE Reap(p) \/ InitFails(p) \/ Crash(p) \/ JobEvent(p)
    BY <2>2, <2>3, <2>10 DEF Reap, InitFails, Crash, JobEvent
  <2>11. CASE StartRun(p) \/ StartRunFails(p) \/ CloseRun(p)
    BY <2>2, <2>6, <2>11 DEF StartRun, StartRunFails, CloseRun
  <2> QED
    BY <2>4, <2>9, <2>10, <2>11, <2>8 DEF WorkerStep
<1> QED
  BY <1>1, <1>2, <1>3, AsideIsCautious DEF Aside

\* A step of the server, or the loss of the connection.
LEMMA ServerCautious ==
  ASSUME Server \/ Lose
  PROVE  Cautious
<1>1. UNCHANGED <<manager, control, proc, slave>> /\ (conn' = "open" => conn = "open")
  BY DEF Server, AssignJob, CancelJob, ResetWorker, Deliver, HandleMessage, Lose,
         launcher, process
<1> QED
  BY <1>1, SameProcesses, AsideIsCautious DEF Aside

\* Spawning: no other process is left running untold.
LEMMA SpawnIsSafe ==
  ASSUME LinkInv, Spawn
  PROVE  NoWorkerYet' /\ NoForgottenProcess'
<1>1. control.job \in Processes /\ manager.worker = None
  BY ControlJob DEF Spawn, LinkInv, NoWorkerYet, Processes
<1>2. manager'.worker = control.job /\ control'.pc = "ready" /\ conn' = conn
  BY DEF Spawn, GoTo, link, LinkInv, TypeOK, ManagerType
<1>3. ASSUME NEW p \in Processes, conn' = "open", Up(p)', p # control.job
      PROVE  proc'[p].stopping
  <2>1. Up(p)
    BY <1>3 DEF Spawn, Up, LinkInv, TypeOK
  <2>2. proc[p].stopping
    BY <1>1, <1>2, <1>3, <2>1, NamesAssumption DEF LinkInv, NoForgottenProcess, Processes
  <2> QED
    BY <1>3, <2>2 DEF Spawn, LinkInv, TypeOK
<1> QED
  BY <1>2, <1>3 DEF NoWorkerYet, NoForgottenProcess

\* While the connection lives, no process runs that the manager neither holds
\* nor has told to stop, whichever of Faults happen, for any jobs and apps.  A
\* line that cannot be parsed is not one: read_worker_stdout ends at it, and gives
\* up a worker that may still run.
THEOREM NoProcessIsForgotten == Spec => []NoForgottenProcess
<1>1. LinkInit => NoWorkerYet /\ NoForgottenProcess
  BY DEF LinkInit, Init, NoWorkerYet, NoForgottenProcess, Up
<1>2. LinkInv /\ [Next]_vars => NoWorkerYet' /\ NoForgottenProcess'
  <2> SUFFICES ASSUME LinkInv, [Next]_vars
               PROVE  NoWorkerYet' /\ NoForgottenProcess'
    OBVIOUS
  <2>1. TypeOK
    BY DEF LinkInv
  <2>2. CASE Spawn
    BY <2>2, SpawnIsSafe
  <2>3. CASE ~Spawn
    <3>1. CASE Server \/ Lose
      BY <3>1, ServerCautious, CautiousIsSafe
    <3>2. CASE ControlReader
      BY <2>1, <2>3, <3>2, StartCautious, StartingCautious, CommandCautious,
         CautiousIsSafe DEF ControlReader
    <3>3. CASE \/ Escalate \/ \E job \in Jobs : Escalated(job)
               \/ \E t \in Jobs \cup {Control} : Terminate(t)
      BY <2>1, <3>3, EscalationCautious, CautiousIsSafe DEF Tasks
    <3>4. CASE \E p \in Processes : StdoutReader(p)
      BY <2>1, <3>4, ReaderCautious, CautiousIsSafe
    <3>5. CASE \E p \in Processes : WorkerStep(p)
      BY <2>1, <3>5, WorkerCautious, CautiousIsSafe
    <3>6. CASE UNCHANGED vars
      BY <3>6 DEF vars, link, launcher, process, LinkInv, NoWorkerYet,
                  NoForgottenProcess, Up
    <3> QED
      BY <3>1, <3>2, <3>3, <3>4, <3>5, <3>6, StepCases
  <2> QED
    BY <2>2, <2>3
<1> QED
  BY <1>1, <1>2, LinkTyped, PTL DEF Spec, LinkInv
=============================================================================
