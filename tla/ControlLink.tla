----------------------------- MODULE ControlLink -----------------------------
(***************************************************************************)
(* A control connection from end to end: the launcher of WorkerManager and *)
(* what the server does on this connection.  The server assigns one job at *)
(* a time, asks to cancel it, asks for a reset of the worker, and closes   *)
(* the connection when the launcher sends an event it does not expect.     *)
(* JobOrchestrator has the server with all its tasks and a launcher that   *)
(* may send anything; here the launcher is real and the server is reduced  *)
(* to the registry entry of this launcher.                                 *)
(***************************************************************************)
EXTENDS WorkerManager

CONSTANT MaxCancels   \* bound on the cancel requests for one job

ASSUME CancelsAssumption == MaxCancels \in Nat /\ None \notin Nat

VARIABLES
  current,     \* LauncherRuntime.current_job_id
  resetting,   \* LauncherRuntime.resetting
  cancels      \* per job: not assigned yet (None), or the cancels sent

server == <<current, resetting, cancels>>
vars == <<link, launcher, process, server>>

LinkInit ==
  /\ Init
  /\ current = None /\ resetting = FALSE
  /\ cancels = [job \in Jobs |-> None]
-----------------------------------------------------------------------------
Deliver(message) ==
  /\ conn = "open"
  /\ inbox' = Append(inbox, message)
  /\ UNCHANGED <<conn, outbox, launcher, process>>

\* Only an idle launcher that is not resetting is given a job.
AssignJob(job) ==
  /\ current = None /\ ~resetting /\ cancels[job] = None
  /\ Deliver(Message("job.start", job))
  /\ current' = job
  /\ cancels' = [cancels EXCEPT ![job] = 0]
  /\ UNCHANGED resetting

CancelJob(job) ==
  /\ current = job /\ cancels[job] \in 0..(MaxCancels - 1)
  /\ Deliver(Message("job.cancel", job))
  /\ cancels' = [cancels EXCEPT ![job] = @ + 1]
  /\ UNCHANGED <<current, resetting>>

ResetWorker ==
  /\ "reset" \in Faults /\ ~resetting
  /\ Deliver(Message("worker.reset", None))
  /\ resetting' = TRUE
  /\ UNCHANGED <<current, cancels>>

\* handle_launcher_job_event
Expected(message) ==
  IF message.type = "worker.reset.done" THEN resetting /\ current = None
  ELSE current = message.job
HandleMessage ==
  /\ conn = "open" /\ outbox # <<>>
  /\ LET message == Head(outbox)
     IN IF Expected(message)
        THEN /\ outbox' = Tail(outbox)
             /\ current' = IF message.type = "final" THEN None ELSE current
             /\ resetting' = (resetting /\ message.type # "worker.reset.done")
             /\ UNCHANGED conn
        ELSE /\ conn' = "refused" /\ outbox' = <<>>
             /\ UNCHANGED <<current, resetting>>
  /\ UNCHANGED <<inbox, cancels, launcher, process>>

Lose ==
  /\ conn = "open" /\ "loss" \in Faults
  /\ conn' = "lost" /\ outbox' = <<>>
  /\ UNCHANGED <<inbox, launcher, process, server>>

Server == \/ \E job \in Jobs : AssignJob(job) \/ CancelJob(job)
          \/ ResetWorker \/ HandleMessage

Next ==
  \/ Server \/ Lose
  \/ RejectStart /\ UNCHANGED server
  \/ StartOnWorker /\ UNCHANGED server
  \/ SwitchWorker /\ UNCHANGED server
  \/ StartWithoutEnvironment /\ UNCHANGED server
  \/ StartWithoutWorker /\ UNCHANGED server
  \/ SwitchedWithoutEnvironment /\ UNCHANGED server
  \/ Switched /\ UNCHANGED server
  \/ CannotSpawn /\ UNCHANGED server
  \/ Spawn /\ UNCHANGED server
  \/ WorkerIsReady /\ UNCHANGED server
  \/ WorkerIsGone /\ UNCHANGED server
  \/ ReadyTimeout /\ UNCHANGED server
  \/ TimedOut /\ UNCHANGED server
  \/ IgnoreCancel /\ UNCHANGED server
  \/ CancelWithoutWorker /\ UNCHANGED server
  \/ CancelOnWorker /\ UNCHANGED server
  \/ CancelBreaksPipe /\ UNCHANGED server
  \/ ReceiveReset /\ UNCHANGED server
  \/ CommandDone /\ UNCHANGED server
  \/ StopAll /\ UNCHANGED server
  \/ Stopped /\ UNCHANGED server
  \/ Escalate /\ UNCHANGED server
  \/ \E job \in Jobs : Escalated(job) /\ UNCHANGED server
  \/ \E t \in Jobs \cup {Control} : Terminate(t) /\ UNCHANGED server
  \/ \E p \in Processes :
       \/ ReadReady(p) /\ UNCHANGED server
       \/ ReadCleaned(p) /\ UNCHANGED server
       \/ ForwardEvent(p) /\ UNCHANGED server
       \/ ForwardFinal(p) /\ UNCHANGED server
       \/ ReadError(p) /\ UNCHANGED server
       \/ EndReader(p) /\ UNCHANGED server
       \/ Reap(p) /\ UNCHANGED server
       \/ WorkerReady(p) /\ UNCHANGED server
       \/ InitFails(p) /\ UNCHANGED server
       \/ Crash(p) /\ UNCHANGED server
       \/ ReadStdin(p) /\ UNCHANGED server
       \/ JobEvent(p) /\ UNCHANGED server
       \/ JobEnds(p) /\ UNCHANGED server
       \/ JobCloses(p) /\ UNCHANGED server
       \/ StartRun(p) /\ UNCHANGED server
       \/ StartRunFails(p) /\ UNCHANGED server
       \/ CloseRun(p) /\ UNCHANGED server

Spec == LinkInit /\ [][Next]_vars

\* The event loops run: the launcher's tasks are resumed and its timers fire,
\* a process that was killed is reaped, the server handles what it receives.
\* Nothing is assumed of the worker processes, which may hang anywhere.
FairSpec ==
  /\ Spec
  /\ WF_vars(HandleMessage)
  /\ WF_vars(ControlReader /\ UNCHANGED server)
  /\ WF_vars(Escalate /\ UNCHANGED server)
  /\ \A job \in Jobs : WF_vars(Escalated(job) /\ UNCHANGED server)
  /\ \A t \in Jobs \cup {Control} : WF_vars(Terminate(t) /\ UNCHANGED server)
  /\ \A p \in Processes : /\ WF_vars(StdoutReader(p) /\ UNCHANGED server)
                          /\ WF_vars(Reap(p) /\ UNCHANGED server)
-----------------------------------------------------------------------------
ServerMessages ==
  [type : {"job.start", "job.cancel"}, job : Jobs] \cup {Message("worker.reset", None)}
LauncherMessages == [type : {"event", "final"}, job : Jobs] \cup {ResetDone}
StdinLines == [type : {"job.start", "job.cancel"}, job : Jobs] \cup {Message("stop", None)}
StdoutLines == [type : {"event", "final", "cae.run.cleaned"}, job : Jobs]
                 \cup [type : {"worker.ready", "error"}, job : {None}]

ManagerType ==
  [worker : Processes \cup {None}, job : Jobs \cup {None},
   status : {"idle", "starting", "busy", "cancelling", "error"},
   timer : Jobs \cup {None}, cleaned : Jobs \cup {None}, forwarded : Jobs \cup {None}]
\* The control reader has a job exactly while it starts one.
ControlType ==
  [pc : {"switch", "spawn", "ready", "timeout"}, job : Jobs]
    \cup [pc : {"idle", "command", "stopping", "stopped"}, job : {None}]
ResetType == [proc : Processes, job : Jobs \cup {None}, notify : BOOLEAN]
ASSUME ResetAssumption == None \notin ResetType
ProcType == [reaped : BOOLEAN, ready : BOOLEAN, event : BOOLEAN,
             stopping : BOOLEAN, reader : BOOLEAN]
SlaveType == [phase : {"none", "init", "loop", "dead"},
              job : Jobs \cup {None}, closing : Jobs \cup {None}, run : Jobs \cup {None}]

\* Every variable has its type.
TypeOK ==
  /\ conn \in {"open", "lost", "refused"}
  /\ inbox \in Seq(ServerMessages) /\ outbox \in Seq(LauncherMessages)
  /\ manager \in ManagerType
  /\ control \in ControlType
  /\ reset \in [Jobs \cup {Control} -> ResetType \cup {None}]
  /\ proc \in [Processes -> ProcType]
  /\ stdin \in [Processes -> Seq(StdinLines)]
  /\ stdout \in [Processes -> Seq(StdoutLines)]
  /\ slave \in [Processes -> SlaveType]
  /\ current \in Jobs \cup {None} /\ resetting \in BOOLEAN
  /\ cancels \in [Jobs -> Nat \cup {None}]

\* The launcher has sent an event of a job that is over for the server, which
\* will close the connection when it comes to it.
Stray == \E i \in 1..Len(outbox) : outbox[i].type # "worker.reset.done" /\ outbox[i].job # current

\* The escalation timer is armed for the job in hand and for no other: a timer
\* left over from an earlier job never resets the worker of the next one.
TimerMatchesJob ==
  conn = "open" /\ manager.timer # None => manager.timer = manager.job \/ Stray

\* While the connection lives, every process that runs is the manager's worker
\* or has been told to stop: no job starts next to a forgotten process that
\* still holds the GPU.
NoForgottenProcess ==
  conn = "open" =>
    \A p \in Processes : Up(p) => manager.worker = p \/ proc[p].stopping

InQueue(queue, message) == \E i \in 1..Len(queue) : queue[i] = message

\* A job that the server has assigned is never dropped by the launcher: its
\* start is on its way or being handled, or the launcher has it, or its end is
\* on its way or will be sent by a reset that is under way; or the connection
\* is about to be closed, which ends every job on it.
NoForgottenJob ==
  conn = "open" /\ current # None =>
    \/ InQueue(inbox, Message("job.start", current))
    \/ current \in {control.job, manager.job}
    \/ InQueue(outbox, Final(current))
    \/ \E t \in Jobs \cup {Control} : reset[t] # None /\ reset[t].job = current
    \/ Stray

\* handle_launcher_job_event: an event names the job that is assigned to the
\* launcher ("launcher event does not match its assigned job").
EventMatchesJob ==
  outbox # <<>> /\ Head(outbox).type # "worker.reset.done" => Expected(Head(outbox))

\* handle_launcher_job_event: a completed reset was asked for, and the job is
\* over ("unexpected worker reset completion").
ResetDoneExpected ==
  outbox # <<>> /\ Head(outbox).type = "worker.reset.done" => Expected(Head(outbox))

\* A job is written to a CAE worker only when no run of an earlier job is open
\* in it.
CleanBeforeReuse ==
  \A p \in Processes, job \in Jobs :
    AppOf[p] = Cae /\ InQueue(stdin[p], Message("job.start", job)) =>
      slave[p].run \in {None, job}

\* A cancelled job leaves the launcher even when the worker never reacts to it.
CancelEnds ==
  \A job \in Jobs :
    current = job /\ cancels[job] > 0 ~> current # job \/ conn # "open"

\* A reset that the server has asked for is acknowledged, or the connection is
\* closed.
ResetEnds == resetting ~> ~resetting \/ conn # "open"
=============================================================================
