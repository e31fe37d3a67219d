---------------------------- MODULE WorkerManager ----------------------------
(***************************************************************************)
(* The launcher's end of one control connection: WorkerManager, the tasks  *)
(* that call it, and the worker processes behind their pipes.  The tasks   *)
(* are the control reader, which handles one server message at a time, one *)
(* stdout reader for every process, and the escalation timer.  A task is   *)
(* interrupted only where it waits: for a process to start, to be ready or *)
(* to exit, for a line, for a timer.  Sending on the control connection    *)
(* does not suspend.  What the server does is in ControlLink.              *)
(***************************************************************************)
EXTENDS Integers, Sequences

CONSTANTS Jobs, Apps,
          AppOf,      \* the slave app of a job
          Cae,        \* the app whose runs need a confirmed cleanup
          Faults,     \* what may go wrong: a subset of FaultKinds
          MaxLines,   \* bound on the unread lines a job, or its late error, adds to
          Control,    \* the control reader
          None

FaultKinds == {"startup", "slow", "crash", "late error", "reset", "loss"}

ASSUME AppsAssumption == AppOf \in [Jobs -> Apps]
ASSUME FaultsAssumption == Faults \subseteq FaultKinds
ASSUME BoundAssumption == MaxLines \in Nat
ASSUME NamesAssumption == Control \notin Jobs /\ None \notin Jobs \cup {Control}

VARIABLES
  conn,      \* the control connection
  inbox,     \* messages on their way to the launcher
  outbox,    \* messages on their way to the server
  manager,   \* the fields of WorkerManager
  control,   \* where the control reader is, and the job it is starting
  reset,     \* for each task, the reset_worker call it is waiting in
  proc,      \* ManagedWorker and its readers, for each process
  stdin, stdout,
  slave      \* inside each process: the main loop, its job, the job whose peer
             \* connection it is closing, the open CAE run

launcher == <<manager, control, reset>>
process == <<proc, stdin, stdout, slave>>
link == <<conn, inbox, outbox>>

\* A start_job spawns at most one process, which is named after its job.
Processes == Jobs
Message(type, job) == [type |-> type, job |-> job]
Final(job) == Message("final", job)
ResetDone == Message("worker.reset.done", None)

Init ==
  /\ conn = "open" /\ inbox = <<>> /\ outbox = <<>>
  /\ manager = [worker |-> None, job |-> None, status |-> "idle",
                timer |-> None, cleaned |-> None, forwarded |-> None]
  /\ control = [pc |-> "idle", job |-> None]
  /\ reset = [t \in Jobs \cup {Control} |-> None]
  /\ proc = [p \in Processes |-> [reaped |-> FALSE, ready |-> FALSE,
                event |-> FALSE, stopping |-> FALSE, reader |-> FALSE]]
  /\ stdin = [p \in Processes |-> <<>>]
  /\ stdout = [p \in Processes |-> <<>>]
  /\ slave = [p \in Processes |-> [phase |-> "none", job |-> None,
                                 closing |-> None, run |-> None]]

\* A send on a connection that is gone raises: nothing is sent.
Send(messages) ==
  outbox' = IF conn = "open" THEN outbox \o messages ELSE outbox
Write(p, message) == stdin' = [stdin EXCEPT ![p] = Append(@, message)]
Emit(p, lines) == stdout' = [stdout EXCEPT ![p] = @ \o lines]
Dead == [phase |-> "dead", job |-> None, closing |-> None, run |-> None]
Up(p) == slave[p].phase \in {"init", "loop"}
-----------------------------------------------------------------------------
(* reset_worker *)

Acks(job, notify) ==
  (IF job = None THEN <<>> ELSE <<Final(job)>>)
    \o (IF notify THEN <<ResetDone>> ELSE <<>>)

\* Up to the wait for the process to exit, or to the end when there is none.
\* m is the manager at the call.
BeginReset(t, m, cancelJob, notify) ==
  LET job == IF cancelJob THEN m.job ELSE None
      p == m.worker
  IN /\ manager' = [m EXCEPT !.timer = None, !.cleaned = None, !.forwarded = None,
                             !.worker = None, !.status = "idle",
                             !.job = IF cancelJob THEN None ELSE @]
     /\ UNCHANGED <<conn, stdout, slave>>
     /\ IF p = None
        THEN /\ Send(Acks(job, notify))
             /\ UNCHANGED <<reset, proc, stdin>>
        ELSE /\ proc' = [proc EXCEPT ![p].stopping = TRUE]
             /\ IF proc[p].reaped THEN UNCHANGED stdin ELSE Write(p, Message("stop", None))
             /\ reset' = [reset EXCEPT ![t] = [proc |-> p, job |-> job, notify |-> notify]]
             /\ UNCHANGED outbox

\* The process has exited: its stdout reader is cancelled, and what it has not
\* read is lost.
EndReset(t, more) ==
  /\ reset[t] # None
  /\ LET p == reset[t].proc
     IN /\ proc[p].reaped
        /\ proc' = [proc EXCEPT ![p].reader = FALSE]
        /\ stdout' = [stdout EXCEPT ![p] = <<>>]
        /\ Send(Acks(reset[t].job, reset[t].notify) \o more)
  /\ reset' = [reset EXCEPT ![t] = None]
  /\ UNCHANGED <<conn, inbox, stdin, slave>>

\* The process is still there after 3 seconds.
Terminate(t) ==
  /\ reset[t] # None /\ Up(reset[t].proc)
  /\ slave' = [slave EXCEPT ![reset[t].proc] = Dead]
  /\ UNCHANGED <<link, launcher, proc, stdin, stdout>>
-----------------------------------------------------------------------------
(* The control reader: handle_server_message *)

GoTo(pc, job) == control' = [pc |-> pc, job |-> job]

Receive(type) ==
  /\ control.pc = "idle" /\ conn = "open"
  /\ inbox # <<>> /\ Head(inbox).type = type
  /\ inbox' = Tail(inbox)

\* start_job fails after it has taken the manager.
StartFails(m) ==
  /\ manager' = [m EXCEPT !.job = None, !.status = "idle"]
  /\ GoTo("idle", None)

\* start_job with a ready worker; the write may find its pipe broken.
GiveJob(m, job) ==
  /\ \/ /\ Write(m.worker, Message("job.start", job))
        /\ manager' = [m EXCEPT !.status = "busy"]
        /\ GoTo("idle", None)
        /\ UNCHANGED outbox
     \/ /\ ~Up(m.worker)
        /\ StartFails(m) /\ Send(<<Final(job)>>)
        /\ UNCHANGED stdin
  /\ UNCHANGED <<conn, reset, proc, stdout, slave>>

\* start_job and ensure_worker, up to their first wait.
Taken(job) == [manager EXCEPT !.job = job, !.status = "starting",
                              !.cleaned = None, !.forwarded = None]
RejectStart ==
  /\ Receive("job.start") /\ manager.job # None
  /\ Send(<<Final(Head(inbox).job)>>)
  /\ UNCHANGED <<conn, launcher, process>>
Reusable(p, job) == ~proc[p].reaped /\ AppOf[p] = AppOf[job]
StartOnWorker ==
  /\ Receive("job.start") /\ manager.job = None
  /\ LET job == Head(inbox).job p == manager.worker
     IN /\ p # None /\ Reusable(p, job)
        /\ GiveJob(Taken(job), job)
\* A switch that forgets the worker of the other app.
BugSwitchWorker ==
  /\ Receive("job.start") /\ manager.job = None
  /\ LET job == Head(inbox).job p == manager.worker
     IN /\ p # None /\ ~Reusable(p, job)
        /\ manager' = Taken(job)
        /\ GoTo("spawn", job)
  /\ UNCHANGED <<conn, outbox, reset, process>>
SwitchWorker ==
  /\ Receive("job.start") /\ manager.job = None
  /\ LET job == Head(inbox).job p == manager.worker
     IN /\ p # None /\ ~Reusable(p, job)
        /\ BeginReset(Control, Taken(job), FALSE, FALSE)
        /\ GoTo("switch", job)
StartWithoutEnvironment ==
  /\ Receive("job.start") /\ manager.job = None /\ manager.worker = None
  /\ "startup" \in Faults
  /\ manager' = [Taken(None) EXCEPT !.status = "idle"]
  /\ Send(<<Final(Head(inbox).job)>>)
  /\ UNCHANGED <<conn, control, reset, process>>
StartWithoutWorker ==
  /\ Receive("job.start") /\ manager.job = None /\ manager.worker = None
  /\ manager' = Taken(Head(inbox).job)
  /\ GoTo("spawn", Head(inbox).job)
  /\ UNCHANGED <<conn, outbox, reset, process>>
Switched ==
  /\ control.pc = "switch" /\ EndReset(Control, <<>>)
  /\ GoTo("spawn", control.job)
  /\ UNCHANGED manager
SwitchedWithoutEnvironment ==
  /\ control.pc = "switch" /\ "startup" \in Faults
  /\ EndReset(Control, <<Final(control.job)>>)
  /\ StartFails(manager)

\* create_subprocess_exec
CannotSpawn ==
  /\ control.pc = "spawn" /\ "startup" \in Faults
  /\ StartFails(manager) /\ Send(<<Final(control.job)>>)
  /\ UNCHANGED <<conn, inbox, reset, process>>
Spawn ==
  /\ control.pc = "spawn"
  /\ manager' = [manager EXCEPT !.worker = control.job, !.status = "starting"]
  /\ proc' = [proc EXCEPT ![control.job].reader = TRUE]
  /\ slave' = [slave EXCEPT ![control.job].phase = "init"]
  /\ GoTo("ready", control.job)
  /\ UNCHANGED <<link, reset, stdin, stdout>>

\* ready_event is set: by worker.ready, or because the process is gone.  In
\* between the process may have failed again.
WorkerIsReady ==
  /\ control.pc = "ready"
  /\ LET job == control.job m == [manager EXCEPT !.status = "idle"]
     IN /\ proc[job].event /\ proc[job].ready
        /\ \/ /\ m.worker # None /\ GiveJob(m, job)
           \/ /\ m.worker = None
              /\ StartFails(m) /\ Send(<<Final(job)>>)
              /\ UNCHANGED <<conn, reset, process>>
  /\ UNCHANGED inbox
WorkerIsGone ==
  /\ control.pc = "ready"
  /\ proc[control.job].event /\ ~proc[control.job].ready
  /\ StartFails([manager EXCEPT !.timer = None, !.cleaned = None, !.forwarded = None])
  /\ Send(<<Final(control.job)>>)
  /\ UNCHANGED <<conn, inbox, reset, process>>
ReadyTimeout ==
  /\ control.pc = "ready" /\ "slow" \in Faults
  /\ ~proc[control.job].event
  /\ BeginReset(Control, manager, FALSE, FALSE)
  /\ GoTo("timeout", control.job)
  /\ UNCHANGED inbox
TimedOut ==
  /\ control.pc = "timeout" /\ EndReset(Control, <<Final(control.job)>>)
  /\ StartFails(manager)

\* cancel_job
Confirmed(job) ==
  [manager EXCEPT !.cleaned = IF @ = job THEN @ ELSE None,
                  !.forwarded = IF @ = job THEN @ ELSE None]
IgnoreCancel ==
  /\ Receive("job.cancel") /\ manager.job # Head(inbox).job
  /\ UNCHANGED <<conn, outbox, launcher, process>>
CanAskWorker == manager.worker # None /\ ~proc[manager.worker].reaped
CancelWithoutWorker ==
  /\ Receive("job.cancel") /\ manager.job = Head(inbox).job
  /\ ~CanAskWorker
  /\ Send(<<Final(manager.job)>>)
  /\ manager' = [Confirmed(manager.job) EXCEPT !.timer = None, !.job = None, !.status = "idle"]
  /\ UNCHANGED <<conn, control, reset, process>>
\* A cancel that trusts the worker to react.
BugCancelOnWorker ==
  /\ Receive("job.cancel") /\ manager.job = Head(inbox).job
  /\ CanAskWorker
  /\ Write(manager.worker, Message("job.cancel", manager.job))
  /\ manager' = [Confirmed(manager.job) EXCEPT !.status = "cancelling"]
  /\ UNCHANGED <<conn, outbox, control, reset, proc, stdout, slave>>
CancelOnWorker ==
  /\ Receive("job.cancel") /\ manager.job = Head(inbox).job
  /\ CanAskWorker
  /\ Write(manager.worker, Message("job.cancel", manager.job))
  /\ manager' = [Confirmed(manager.job) EXCEPT !.status = "cancelling", !.timer = manager.job]
  /\ UNCHANGED <<conn, outbox, control, reset, proc, stdout, slave>>
CancelBreaksPipe ==
  /\ Receive("job.cancel") /\ manager.job = Head(inbox).job
  /\ CanAskWorker /\ ~Up(manager.worker)
  /\ BeginReset(Control, manager, TRUE, TRUE)
  /\ GoTo("command", None)

\* worker.reset
\* A reset with nothing to stop that is not acknowledged.
BugReceiveReset ==
  /\ Receive("worker.reset")
  /\ BeginReset(Control, manager, TRUE, manager.worker # None)
  /\ GoTo(IF manager.worker = None THEN "idle" ELSE "command", None)
ReceiveReset ==
  /\ Receive("worker.reset")
  /\ BeginReset(Control, manager, TRUE, TRUE)
  /\ GoTo(IF manager.worker = None THEN "idle" ELSE "command", None)
CommandDone ==
  /\ control.pc = "command" /\ EndReset(Control, <<>>)
  /\ GoTo("idle", None)
  /\ UNCHANGED manager

\* The connection has ended: stop_all.
StopAll ==
  /\ control.pc = "idle" /\ conn # "open"
  /\ BeginReset(Control, manager, TRUE, TRUE)
  /\ GoTo(IF manager.worker = None THEN "stopped" ELSE "stopping", None)
  /\ UNCHANGED inbox
Stopped ==
  /\ control.pc = "stopping" /\ EndReset(Control, <<>>)
  /\ GoTo("stopped", None)
  /\ UNCHANGED manager

ControlReader ==
  \/ RejectStart \/ StartOnWorker \/ SwitchWorker
  \/ StartWithoutEnvironment \/ StartWithoutWorker
  \/ SwitchedWithoutEnvironment \/ Switched \/ CannotSpawn \/ Spawn \/ WorkerIsReady \/ WorkerIsGone
  \/ ReadyTimeout \/ TimedOut
  \/ IgnoreCancel \/ CancelWithoutWorker \/ CancelOnWorker \/ CancelBreaksPipe
  \/ ReceiveReset \/ CommandDone \/ StopAll \/ Stopped
-----------------------------------------------------------------------------
(* The stdout reader of a process: handle_worker_message *)

Line(p, type) ==
  /\ proc[p].reader
  /\ stdout[p] # <<>> /\ Head(stdout[p]).type = type
Consume(p) == stdout' = [stdout EXCEPT ![p] = Tail(@)]

\* It marks the worker of the moment, whichever process wrote the line.
ReadReady(p) ==
  /\ Line(p, "worker.ready")
  /\ proc' = IF manager.worker = None THEN proc
             ELSE [proc EXCEPT ![manager.worker].ready = TRUE,
                               ![manager.worker].event = TRUE]
  /\ Consume(p)
  /\ UNCHANGED <<link, launcher, stdin, slave>>

\* A job that ends without cancel_cancel_escalation.
BugReleased(m) == [m EXCEPT !.job = None, !.status = "idle",
                            !.cleaned = None, !.forwarded = None]
Released(m) == [m EXCEPT !.job = None, !.status = "idle", !.timer = None,
                         !.cleaned = None, !.forwarded = None]
CaeHolds(job) ==
  /\ manager.worker # None /\ AppOf[manager.worker] = Cae
  /\ manager.job = job

ReadCleaned(p) ==
  /\ Line(p, "cae.run.cleaned")
  /\ LET job == Head(stdout[p]).job
     IN manager' =
          IF ~CaeHolds(job) THEN manager
          ELSE IF manager.status = "cancelling" /\ manager.forwarded = job
          THEN Released(manager)
          ELSE [manager EXCEPT !.cleaned = job]
  /\ Consume(p)
  /\ UNCHANGED <<link, control, reset, proc, stdin, slave>>

\* job.answer, job.running, job.progress
ForwardEvent(p) ==
  /\ Line(p, "event") /\ conn = "open"
  /\ Send(<<Head(stdout[p])>>)
  /\ Consume(p)
  /\ UNCHANGED <<conn, inbox, launcher, proc, stdin, slave>>

\* job.result, job.error, job.cancelled
ForwardFinal(p) ==
  /\ Line(p, "final") /\ conn = "open"
  /\ Send(<<Head(stdout[p])>>)
  /\ LET job == Head(stdout[p]).job
     IN manager' =
          IF CaeHolds(job) /\ manager.cleaned # job
          THEN [manager EXCEPT !.forwarded = job, !.status = "cancelling",
                               !.timer = IF @ = None THEN job ELSE @]
          ELSE Released(manager)
  /\ Consume(p)
  /\ UNCHANGED <<conn, inbox, control, reset, proc, stdin, slave>>

\* error: it becomes the error of the job of the moment.
ReadError(p) ==
  /\ Line(p, "error") /\ (manager.job = None \/ conn = "open")
  /\ IF manager.job = None
     THEN UNCHANGED <<outbox, manager>>
     ELSE /\ Send(<<Final(manager.job)>>)
          /\ manager' = Released(manager)
  /\ Consume(p)
  /\ UNCHANGED <<conn, inbox, control, reset, proc, stdin, slave>>

\* What is reported for the job of a worker that is gone.
BugExitReport == <<>>
ExitReport ==
  IF manager.job \in {None, manager.forwarded} THEN <<>> ELSE <<Final(manager.job)>>

\* The reader ends, because the pipe is at its end or because it cannot forward
\* a line: the finally of read_worker_stdout.
EndReader(p) ==
  /\ proc[p].reader
  /\ \/ stdout[p] = <<>> /\ ~Up(p)
     \/ /\ conn # "open" /\ \/ Line(p, "event") \/ Line(p, "final")
                            \/ Line(p, "error") /\ manager.job # None
  /\ IF manager.worker = p /\ ~proc[p].stopping
     THEN /\ proc' = [proc EXCEPT ![p].reader = FALSE, ![p].event = TRUE]
          /\ manager' = [Released(manager) EXCEPT !.worker = None, !.status = "error"]
          /\ Send(ExitReport)
     ELSE /\ proc' = [proc EXCEPT ![p].reader = FALSE]
          /\ UNCHANGED <<manager, outbox>>
  /\ UNCHANGED <<conn, inbox, control, reset, stdin, stdout, slave>>

StdoutReader(p) == \/ ReadReady(p) \/ ReadCleaned(p) \/ ForwardEvent(p)
                   \/ ForwardFinal(p) \/ ReadError(p) \/ EndReader(p)
-----------------------------------------------------------------------------
(* escalate_cancel, 2 seconds after the timer was set *)

Escalate ==
  /\ manager.timer # None /\ "slow" \in Faults
  /\ IF manager.job = manager.timer
     THEN BeginReset(manager.timer, manager, manager.forwarded # manager.job, TRUE)
     ELSE /\ manager' = [manager EXCEPT !.timer = None]
          /\ UNCHANGED <<conn, outbox, reset, process>>
  /\ UNCHANGED <<inbox, control>>
Escalated(job) ==
  /\ EndReset(job, <<>>)
  /\ manager' = IF reset[job].job # None \/ conn # "open" THEN manager
                ELSE [manager EXCEPT !.job = None, !.status = "idle"]
  /\ UNCHANGED control
-----------------------------------------------------------------------------
(* The worker process: _run_worker_stdio *)

Alive(p) == slave[p].phase = "loop"
Inside == UNCHANGED <<link, launcher, proc>>

WorkerReady(p) ==
  /\ slave[p].phase = "init"
  /\ slave' = [slave EXCEPT ![p].phase = "loop"]
  /\ Emit(p, <<Message("worker.ready", None)>>)
  /\ Inside /\ UNCHANGED stdin
InitFails(p) ==
  /\ slave[p].phase = "init" /\ "startup" \in Faults
  /\ slave' = [slave EXCEPT ![p] = Dead]
  /\ Emit(p, <<Message("error", None)>>)
  /\ Inside /\ UNCHANGED stdin
Crash(p) ==
  /\ \/ slave[p].phase = "init" /\ "startup" \in Faults
     \/ Alive(p) /\ "crash" \in Faults
  /\ slave' = [slave EXCEPT ![p] = Dead]
  /\ Inside /\ UNCHANGED <<stdin, stdout>>
Reap(p) ==
  /\ slave[p].phase = "dead" /\ ~proc[p].reaped
  /\ proc' = [proc EXCEPT ![p].reaped = TRUE]
  /\ UNCHANGED <<link, launcher, stdin, stdout, slave>>

\* Closing the peer connection of a job may fail, also when it is cancelled.
Late(p, job) ==
  {<<>>} \cup (IF /\ job # None /\ "late error" \in Faults
                  /\ Len(stdout[p]) < MaxLines /\ Len(outbox) < MaxLines
               THEN {<<Message("error", None)>>} ELSE {})

\* One line of the main loop.  It is busy until the peer connection of its last
\* job is closed.  A cancelled or stopped job answers for itself.
ReadStdin(p) ==
  /\ Alive(p) /\ stdin[p] # <<>>
  /\ LET line == Head(stdin[p]) job == slave[p].job closing == slave[p].closing
     IN \/ /\ line.type = "job.start"
           /\ IF job = None /\ closing = None
              THEN slave' = [slave EXCEPT ![p].job = line.job] /\ UNCHANGED stdout
              ELSE Emit(p, <<Final(line.job)>>) /\ UNCHANGED slave
        \/ /\ line.type = "job.cancel" /\ line.job \notin {job, closing}
           /\ UNCHANGED <<slave, stdout>>
        \/ /\ line.type = "job.cancel" /\ line.job \in {job, closing}
           /\ slave' = [slave EXCEPT ![p].job = None, ![p].closing = None]
           /\ \E late \in Late(p, line.job) : Emit(p, Acks(job, FALSE) \o late)
        \/ /\ line.type = "stop"
           /\ slave' = [slave EXCEPT ![p] = Dead]
           /\ \E late \in Late(p, IF job = None THEN closing ELSE job) :
                Emit(p, Acks(job, FALSE) \o late)
  /\ stdin' = [stdin EXCEPT ![p] = Tail(@)]
  /\ Inside

\* job.answer, job.running or job.progress; a CAE run reports its progress under
\* the job that started it, also when that job is over.
JobEvent(p) ==
  /\ Alive(p)
  /\ Len(stdout[p]) < MaxLines /\ Len(outbox) < MaxLines
  /\ \E job \in {slave[p].job, slave[p].run} \ {None} :
       Emit(p, <<Message("event", job)>>)
  /\ Inside /\ UNCHANGED <<stdin, slave>>
\* The job ends, and then its peer connection is closed.
JobEnds(p) ==
  /\ Alive(p) /\ slave[p].job # None
  /\ slave' = [slave EXCEPT ![p].job = None, ![p].closing = slave[p].job]
  /\ Emit(p, <<Final(slave[p].job)>>)
  /\ Inside /\ UNCHANGED stdin
JobCloses(p) ==
  /\ Alive(p) /\ slave[p].closing # None
  /\ slave' = [slave EXCEPT ![p].closing = None]
  /\ \E late \in Late(p, slave[p].closing) : Emit(p, late)
  /\ Inside /\ UNCHANGED stdin

\* cae_simulation_start: a new run aborts the runs of earlier jobs.  A start that
\* fails says that there is nothing to clean; when its attachments are over the
\* limit it says so before it looks for a run of the job.
Cleaned(job) == Message("cae.run.cleaned", job)
CanStartRun(p) ==
  /\ Alive(p) /\ AppOf[p] = Cae /\ slave[p].job # None /\ Len(stdout[p]) < MaxLines
StartRun(p) ==
  /\ CanStartRun(p) /\ slave[p].run # slave[p].job
  /\ slave' = [slave EXCEPT ![p].run = slave[p].job]
  /\ Emit(p, IF slave[p].run = None THEN <<>> ELSE <<Cleaned(slave[p].run)>>)
  /\ Inside /\ UNCHANGED stdin
StartRunFails(p) ==
  /\ CanStartRun(p)
  /\ Emit(p, <<Cleaned(slave[p].job)>>)
  /\ Inside /\ UNCHANGED <<stdin, slave>>
\* CaeRun._close
CloseRun(p) ==
  /\ Alive(p) /\ slave[p].run # None
  /\ slave' = [slave EXCEPT ![p].run = None]
  /\ Emit(p, <<Cleaned(slave[p].run)>>)
  /\ Inside /\ UNCHANGED stdin
=============================================================================
