# GP Station v1: a verification project

GP Station runs jobs on other people's GPUs. A *master* (the SDK in an
application) posts a job with a WebRTC offer to the *server*; the server assigns
it to a *launcher* that is connected to it by a control WebSocket; the launcher
starts a *slave* worker process for the job's app; the worker answers the offer,
and master and slave talk over a DataChannel until the job ends. All paths below
are under `src/app_v1/`.

This directory holds TLA+ modules that model the code, TLC configurations that
check them on small instances, and TLAPS proofs of the main safety properties
for all values of the constants. Section 1 is the inventory, 2 the modules, 3 the
runs and their bounds, 4 where the code does something else than it says, 5 the
proofs, 6 what is not modelled and what is left to do.

## 1. The system

| Component | Code | State it keeps | Operations | Hard because |
|---|---|---|---|---|
| Job orchestration | `server/app/service/job_orchestrator.py`, `job_service.py`, `launcher_service.py`, `server/app/state.py` | tables `jobs`, `launchers`; registry of connected launchers (`current_job_id`, `resetting`); `_assignment_lock`, one send lock per launcher | create, claim and deliver, launcher events, kill, reset, expire, revalidate keys, reconcile, recover after restart | the table, the registry and the socket change at different moments; every `await` lets another task in; any process may vanish |
| Control WebSocket | `server/app/routers/v1/launchers.py` | one task per launcher | hello, receive loop, heartbeat, cleanup | cleanup races kills, deliveries and sweeps |
| Answer long polls | `job_orchestrator.py` `wait_for_answer`, `state.py` | one shared `asyncio.Event` and a waiter count per job | prepare, read, wait, release, set | lost wake-ups, leaked or dropped events |
| Launcher | `launcher/app/subprocess_manager.py`, `control.py` | worker process, current job, cancel escalation timer | start, cancel, reset, worker messages | timers and process exits race messages of the server and of the worker |
| Slave runtime | `sdk/slave/*.py` | one job session: its queue of calls, the request being received, the result being sent | answer, wait for ready, call, result, acknowledge, cancel, finish | a cancel, a result and a disconnect cross on one channel |
| Master SDKs | `sdk/master/python/gpstation_master/*.py`, `sdk/master/js/src` | peer connection, pending call, partial result; cache of prewarmed connections | run a job with one retry, call, close, prewarm, clear | late results, retries after a half-failed attempt, connections that change hands |
| AI slave | `slaves/ai/app/gpu_residency.py` and the model runtimes; `llm/generation.py`, `llm/chat.py` | which model sits on which GPU, a lock per device; the parser of a generated text | lease, evict, load, make room; take the answer out of a text or a stream | several devices, cancellation while a thread still works; a chunk may end anywhere in a marker |
| CAE slave | `slaves/cae/app/runtime.py`, `handlers.py` | simulation runs that stop at each record; tables of the values a program may use or release | start, next, record, acknowledge, abort; `sim.run`, `sim.release` | watchdogs, lost results and jobs that end in the middle; objects shared between results |
| Web sessions | `server/app/service/auth_session_service.py`, `routers/web/auth.py`; `website/src/api/http.ts` | refresh token with a grace window; the cookies of the browser | csrf, refresh, logout, revoke | several tabs refresh at once, answers overtake each other |
| Access keys | `server/app/auth.py`, `service/access_key_service.py`, `state.py`, `routers/v1/launchers.py` | rows of keys; the requests of the last minute per key; when the key of a launcher was last looked up | create, authenticate, ask for a scope, limit the rate, revoke, revalidate launchers | a key may be revoked between any two steps of a request; trims and sweeps forget what still counts |
| CRUD, settings, UI, solvers, model inference | the rest | - | - | single-request reads and writes, presentation, numerical code |

How they interact: HTTP from the master and the website to the server; JSON
messages over the control WebSocket (`sdk/protocol/messages.py`); JSON lines over
stdin/stdout between launcher and worker; the DataChannel between master and
worker. The server is one asyncio process: its tasks share the registry and two
kinds of lock, and everything durable is in Postgres.

What makes each part correct: a launcher runs one job at a time; a job ends once
and stays ended; the registry agrees with the table; `job.start`, `job.cancel`
and `worker.reset` keep their order on the socket; nothing stays on a launcher
that is gone; every kill, lost launcher and assigned job comes to an end; a poll
does not miss its answer; a call succeeds only with the whole result of its own
handler, and always ends; an input is sent once whatever is retried; a
simulation never runs ahead of its master; two models share a GPU only if they
may; tabs that refresh together do not look like a thief; a key is never granted
more than its limit and a launcher does not outlive its key; a streamed answer is
the answer. `PROJECT.json` lists under `hazards` what can go wrong, line by line,
with the properties that would notice.

## 2. Modules

| Module | What it is |
|---|---|
| `JobLifecycle` | abstract specification: the life of a job and the exclusive use of a launcher |
| `JobOrchestrator` | the server in detail; implements `JobLifecycle` |
| `JobOrchestratorProofs` | proofs about `JobOrchestrator`, the refinement among them |
| `MCJobOrchestrator` | values for TLC |
| `WorkerManager` | the launcher's end of a control connection, its tasks and its worker processes |
| `ControlLink` | `WorkerManager` composed with the server's checks, over FIFO queues |
| `ControlLinkProofs`, `ControlLinkJobs` | proofs about the composition: types and processes; jobs and the messages in flight |
| `MCControlLink` | values for TLC |
| `AnswerWait` | long polls and the shared event of one job |
| `CallContract` | abstract specification: what a job session promises its caller |
| `JobChannel` | the DataChannel between master and slave |
| `MasterPeer` | the job peer of both master SDKs on it |
| `SlaveSession` | the slave's job session on it |
| `JobSession`, `JobSessionProofs` | both over one channel; implements `CallContract`; proofs |
| `RunJob` | `run_job` and the prewarm cache of both SDKs |
| `CaeRun` | the streaming protocol of a CAE run |
| `SimArtifacts` | what `sim.run` returns and `sim.release` takes back |
| `GpuResidency` | leases, evictions and loads of the AI slave |
| `LlmAnswer` | the answer in what a language model generates |
| `SessionTokens` | refresh tokens of a web session and its tabs |
| `AccessKeys` | the access keys of a user, their requests and launchers |
| `ServerProofs` | proofs about `AnswerWait`, `SessionTokens` and `AccessKeys` |
| `SlaveProofs` | proofs about `CaeRun`, `SimArtifacts` and `GpuResidency` |
| `LlmAnswerProofs` | proofs about `LlmAnswer` |
| `MCParts` | eight parts without common state in one instance for TLC |
| `PartsProofs` | proofs about `RunJob`, and about the parts of `MCParts` together |

### JobOrchestrator

*Grain.* An action is what one task does between two `await`s where another task
can run. A database transaction is one step. The methods of `RuntimeRegistry`
are part of the step that calls them: their lock protects no `await`, so it is
never contended. A section that holds `_assignment_lock` around one transaction
(`RequestKill`, `RequestReset`) is one action guarded by `AssignmentLockFree`;
the dispatcher holds that lock over three steps (`LockSteps`).

*State.* `jobState`, `jobLauncher`, `cancelRequested`, `progress` are columns of
`jobs`; `rowStatus`, `rowGone` (`disconnected_at`) of `launchers`. `registered`,
`current`, `resetting` are the registry. `ws`, `hstep`, `hkind`, `hjob` are a
control socket and the task that reads it. `dstep` and the other `d...` variables
are the dispatcher, `delivery`/`dlstep` the tasks of `_deliver_job_start`,
`kstep` those of `kill_job`, `rstep`/`rjob` those of `reset_launcher_worker`.
`sent` records the `job.start` and `job.cancel` put on a socket. A launcher
constant is one connection: a reconnect makes a new row in the code, hence
another launcher here.

*The launcher is arbitrary.* It may send any message at any time, or vanish, so
the safety properties hold whatever launchers do. A message received after the
server dropped the launcher from the registry is refused, as in the code.

*Abstractions.* Clocks: the deadlines of `expire_stale_jobs` may have passed for
any job of `ExpiringJobs` whenever the dispatcher looks; a 30 s poll is always
possible. `Compatible` stands for "same user and the launcher offers the slave
app". SKIP LOCKED: a row whose launcher's handler may be in a transaction
(`Skippable`) may be passed over. `WriteHeartbeat` may leave the status
alone, because the handler's session keeps the row object (`expire_on_commit` is
off) and writes only what differs from it. `Reconcile` is one step although the code
awaits between its look at the registry and its `UPDATE`: a launcher that is neither
registered nor connecting never is again (theorem `MissingStaysMissing`), and a second
mark on a row that is gone changes nothing, since it has no active job
(`GoneLauncherHasNoJob`), so that what may happen in between makes no difference. A send succeeds only to a registered
launcher and may always fail or time out. Sizes, payloads, audits and answers to
HTTP requests are left out.

*Not in the model.* Database errors inside a task; the graceful stop of the
dispatcher (a stop is `RestartServer`, which loses every task at once); two kill
requests for one job at the same time.

### WorkerManager and ControlLink

*Grain.* Three kinds of launcher task share the fields of `WorkerManager`
without a lock: the control reader, which handles one server message at a time
(`handle_server_message`), one stdout reader per process (`read_worker_stdout`,
`handle_worker_message`) and the escalation timer (`escalate_cancel`). An action
is what one of them does between two waits. A wait is for a process to be
created, to be ready or to exit, for a line, or for a timer; sending on the
control connection is taken not to suspend (no back-pressure), so a handler that
only sends is one action.

*State.* `manager` is the record of the fields of `WorkerManager`: `worker`,
`job` (`current_job_id`), `status`, `timer` (the job of
`cancel_escalation_task`), `cleaned` and `forwarded`
(`cancel_cleanup_confirmed_job_id`, `cancel_terminal_forwarded_job_id`).
`control` is where the control reader is in `start_job` or a reset; `reset` holds,
for each task, the `reset_worker` call it waits in, since several may be under
way at once. `proc` is `ManagedWorker` (`ready`, the event, `stopping`) with
whether its exit has been seen (`reaped`) and its reader lives; `stdin` and
`stdout` are the pipes; `slave` is inside the process: the main loop of
`sdk/slave/worker.py`, its job, the job that has reported its end and is closing its
peer connection (`closing`: a `job.start` is still refused then), and the CAE run that is
open in it. A run reports progress under the job that started it, also when that job is
over. A process is
named after the job whose `start_job` spawned it.

*reset_worker* is `BeginReset`, up to the wait for the exit, and `EndReset`, after
it; between the two the stdout reader goes on, and the other tasks too.
`EndReset` may come before the reader has read everything: what is left is lost.
`Terminate` is the end of the 3 s of grace. `BeginReset` takes the manager at the
call, because `start_job` calls it with its own assignments already made.

*The server* in `ControlLink` is the registry entry of this one launcher:
`AssignJob`, `CancelJob`, `ResetWorker` send, and `HandleMessage` makes the two
checks of `handle_launcher_job_event`; a message that fails them closes the
connection (`"refused"`). How the server's own tasks interleave is in
`JobOrchestrator`, where the launcher is arbitrary.

*Faults* is the set of things that may go wrong in a run: `startup` (no
environment, no process, a failing or dying initialisation), `slow` (the ready
and escalation timers run out), `crash`, `late error` (an error line after the end
or the cancel of a job, from `drain_worker_job_task`), `reset` (the website asks for one),
`loss` (of the connection). A worker may hang at any point in every run.

*Left out.* Heartbeats, stderr, the wording of errors; lines on stdout that cannot be
parsed (the reader ends at one and gives up a worker that may still run,
`subprocess_manager.py:248-261`: of that `NoForgottenProcess` says nothing); messages
of the server that are still buffered when the connection ends; the death of the
launcher itself; `unknown_slave_app`, which an unassigned app would need and
the server assigns only offered ones. All answers, progress and liveness
messages of a job are `event`; its result, error and cancellation are `final`.
`MaxLines` bounds the lines a worker adds on its own, `MaxCancels` the cancels of
a job.

### AnswerWait

One job and any number of polls. `entry` and `waiters` are
`job_events.get(job_id)` and `job_event_waiters`; `isSet` the event objects;
`step` and `held` each poll. `StartWait` and `ReturnAtOnce` are the two outcomes
of the first read (the second also stands for an error and for
`wait_seconds = 0`), `Wake`/`Timeout` the end of the wait, `Reread` the response.
Writers are `Commit` (a transaction) followed, later, by `SetJobEvent`
(`owing` counts those in between). An event object nobody refers to is reused:
it is cleared when it is created.

### JobSession: MasterPeer and SlaveSession over JobChannel

*Grain.* Each end is one asyncio program (or one JavaScript event loop). An action
is a frame handler, which runs to its end, or what the end's own task does between
two awaits: the slave's `run_worker_job`, the sending of a call's attachments,
the wait for an acknowledgement to leave the buffer, the timers.

*State.* `link`, `toSlave`, `toMaster` are the channel: ordered and reliable
while it lasts, and frames put on a channel that is down are lost. `slave` has the fields of
the job (`ready_event`, `finish_event`, `closed_event`, `call_queue`,
`incoming_call`, `call_in_progress`) and `phase`, where `run_worker_job` is. `peer`
has those of `GpStationJobPeer` (`pending`, `response`, `finish`) with the calls as their
callers see them (`state`). A frame is its kind, its call and, for a chunk, its
index and whether it is the last; a result whose announced sizes are wrong is one
that is not `sound`.

*Two SDKs.* `peer.sdk` says which one the master uses. Where Python and
JavaScript treat the same event differently there is a `Py` and a `Js` operator:
who ends a call at its deadline, what a failed send rejects, and what happens
between an acknowledgement and its leaving the buffer (`SlowAcks`).

*Promise.* `CallContract` is what the caller relies on: calls one at a time, each
handled at most once and in order, and success only with the whole result of its
own handler. In the mapping a result that is resolved with a part of its data
(`"torn"`) is no outcome of the contract; in that of `OnlyTornBreaksContract` it counts as
failed.

*Faults* (`Disturbances`): `loss` of the connection, a `blip` (the connection is
reported as disconnected, and recovers), `cancel` from the launcher.

*Left out.* ICE and the exchange of the offer (one step), the wording of errors,
progress events of a handler, the two `waitUntilOpen` time-outs (a session that
does not open is `Close`).

### RunJob

An action is what the client does between two awaits. `run` holds each call of
`run_job`: the await it is at, its attempt (0 or 1), its connection and whether it
finishes its own session (`auto_finish`); `spare`, `build` and `warm` are the
prewarmed connection of a key, the task that gathers the next one and those who
wait for it, the background refills of the runs included; `peers` is every
connection. `Fail` stands for all the ways an await may raise; what it does
depends on where the run is: before the input was sent the attempt is repeated
once, after it never, and then the session is finished before it is closed.
A connection that nobody holds any more is named anew, so that a handful is enough.

*Left out.* The HTTP requests themselves, the job on the server (its kill after a
failed attempt is best effort and leaves no state in the client), diagnostics.

### CaeRun

A simulation is a task of its own that stops at every record until the master
acknowledges that record, which it does with its next call. `caeRuns` are the run
objects: `task`, the `ack` future of the last record with its 120 s watchdog,
`queue` (records and the outcome), `pending` and `completed`. `serving` is the
call of `next()` that waits: the slave serves one at a time. `got` is what reached
the master, since the result of a call may be lost on the way. Acknowledgements
may be right, missing or stale. Timers (first `next()`, record, `maxRunSeconds`)
may fire at any time.

*Left out.* `record()` called by several threads of one program, progress and
heartbeats.

### SimArtifacts

A result of `sim.run` is a graph of Python objects registered by identity. `heap`
has the graphs, `releasable`, `provenance` and `revisions` the three tables of
`SimulationApi`, `emptied` the objects that `run.release` has emptied in place.
A program has no `try`, so the first refusal ends it (`refused`). The results of
the shipped kernels are given by place; `transient`, which returns a state of its
own, is like the kernels of the tests and is external. The result and its
artifacts dictionary are one object; values that do not come from `sim.run` and
kernels that return views of their inputs are left out.

### GpuResidency

`gpuLock` and `loadedOn` are the locks and the table; `lease` each call with the
request it makes, where it is in `__aenter__` or its body, what it still has to
evict, and the thread it waits for; `memory` which model a runtime really has
loaded. The slave serves one call at a time, so that calls meet only through
cancellation: the coroutine ends and its thread runs on. `OutOfMemory` and
`TryAgain` are the second try after `evict_co_resident_models`.

### SessionTokens

The session row (`refresh_jti`, the grace tokens, the window, `revoked`), the
cookies of one browser, and its tabs, each with the request or answer that is
under way. Cookies are those of the moment when a request is sent, and change when
an answer arrives, which may be in any order. A `POST` needs a CSRF token first,
with one repetition. `slow` remembers that an answer was lost or an exchange
outlasted the grace window: then a token may rightly look stolen. A tab whose refresh
fails is idle again, with the CSRF token it had, and refreshes once more at its next
denied request.

*Left out.* A new login over an old session; OAuth.

### AccessKeys

The keys of one user. `keyRow` has status and scopes of each row, `ownerActive` what
`is_active_user` reads. `auth` is where each HTTP request and each control socket is
between two awaits of `authenticate_access_key` and its caller: `Present` looks the
key up, `CheckOwner` the user, and then, in the same step, decides network policy (a
free choice) and rate limit, `RequireScope` asks for the scope. `recent` is
`_rate_limit_requests`, trimmed by each request and swept for all keys once a
minute (`sweptAt`); `clock` counts ticks and `Minute` is 60 s of them. A socket goes
on with `Hello` to a launcher, for which nothing asks for the key again until its
check is `due`: then a `Heartbeat` or the dispatcher (`FindTargets`,
`RevalidateTargets`, with `targets` in between) does. `RevokeKeys` commits the rows;
`CloseLaunchers` comes later, key after key.

*Left out.* The hashes of keys, lists of addresses and origins, the sampling of
`last_used_at`. A key that expires does so at any time.

### LlmAnswer

`parser` has the fields of `GenerationOutputParser`, `text` is what the model
generates and `fed` how much of it the parser has seen. `Feed` and `FinishOutput` are
`feed` and `finish`; `Chunk` and `StreamEnds` are `ai.chat`, whose deltas are joined in
`streamed`, and `OutputOf` is `ai.llm`, which parses the whole text at once. A text is
made of blanks, objects and the characters of the markers, two in each, so that the end
of a chunk can cut one. `Texts` is the set of the texts a model may generate: any, but none
in which markers of both families of models stand. Inference is external; the cancellation of a stream is `GpuResidency`'s.

## 3. What the runs check

Deadlock is checked in the runs of `JobOrchestrator`. The others stop when there
is nothing left to do: every job is over or its connection closed, every call
made and settled, the bounds on runs and calls used up. They say
`CHECK_DEADLOCK FALSE`.

| Run | Instance | Shows |
|---|---|---|
| `KillReset.cfg` | 2 jobs, 1 launcher, kill of job 1, reset, no progress | `RegistryKnowsActiveJob`; `CancelFollowsStart`; `NoJobWhileResetting`; `NoStartAfterReset` |
| `ExpireRevoke.cfg` | 2 jobs, 1 launcher, kill of job 1, key revoked, any expiry, 1 progress item | `GoneLauncherHasNoJob`; `LostLauncherIsClean`; `ImplementsLifecycle` |
| `TwoLaunchers.cfg` | 2 jobs, 2 launchers (symmetric) | `OneActiveJobPerLauncher`; `RegisteredLauncherKeepsRow` |
| `LiveDelivery.cfg` | 2 jobs, 1 launcher, kill and expiry of job 1 | `AssignedJobIsDelivered`; `QueuedJobIsServed` |
| `LiveKillReset.cfg` | 1 job, 1 launcher, kill and reset | `KillReachesLauncher`; `OrphanedJobEnds`; `EndedJobFreesLauncher` |
| `WorkerFaults.cfg` | 2 CAE jobs (symmetric); start-up failures, slow workers, crashes, late errors; 1 cancel per job | `TimerMatchesJob`; `NoForgottenJob` |
| `LinkLive.cfg` | a CAE and an AI job; slow workers, resets, loss of the connection; 1 cancel per job | `NoForgottenProcess`; `CancelEnds`; `ResetEnds` |
| `Sessions.cfg` | 2 calls with up to 1 attachment chunk each way, either SDK, slow acknowledgements of Python, loss | `TypeOK`; `NoFalseBusy`; `ImplementsContract`; `EveryCallSettles`; `SlaveFollowsClose` |
| `Parts.cfg`, polls | 3 polls, 2 writers at a time | `NoLostWakeUp`; `AnswerEndsPoll` |
| `Parts.cfg`, runs | 2 runs of either SDK, with refills, clearing and closing | `InputSentOnce`; `RunCleansUp`; `EveryRunEnds` |
| `Parts.cfg`, cae | 2 runs of 2 records, 2 jobs | `RecordReachedMaster`; `OneLiveRun`; `RunIsCleaned` |
| `Parts.cfg`, sim | 2 `sim.run` calls, 3 kernels, any releases | `RefusalIsDeserved` |
| `Parts.cfg`, gpu | 3 calls for 6 models on 2 devices, 1 cancelled | `LlmIsAlone` |
| `Parts.cfg`, tokens | 3 tabs, 4 tokens, 2 in the grace window | `NoFalseReuse`; `BrowserHasNewestToken` |
| `Parts.cfg`, keys | 1 key of 2 requests a minute, 2 requests and a launcher; minutes of 2 ticks, 3 ticks | `RateIsLimited`; `LauncherLosesKey` |
| `Parts.cfg`, chat | every text of 4 lexemes of either family of models, in chunks of up to 3 characters | `StreamIsAnswer` |

`Parts.cfg` is one run of `MCParts`, which also checks the type invariants
(`PartsTypeOK`). The variable `part` is chosen at the start and says which part
moves; the others stay in initial states where none of their fair actions is
enabled, so that what holds there holds of each part alone. The part `runs` is
`RunJob`, `chat` is `LlmAnswer`. The types of the other components are not checked
by a run of their own: they are theorems (`TypeCorrect`, `LinkTyped`), and so is
`FinalStateIsFinal` (`EndsAreFinal`), which `ImplementsLifecycle` implies. That each part
behaves in `MCParts` as it does alone is a lemma, `PartsAreAlone` of `PartsProofs`.

Three more runs check what the code or its documents promise and the code does not
keep; TLC finds each violated (section 4).

| Run | Property violated |
|---|---|
| `StartFailure.cfg` | `EventMatchesJob`, by a worker that fails while it starts |
| `WorkerReuse.cfg` | `CleanBeforeReuse`, by a run opened after a failed start |
| `SharedConnection.cfg` | `ConnectionServesOneRun`, by two prewarms that wait for one connection |

`BusyReset.cfg` (`EventMatchesJob`, by a reset of a worker with a job),
`Escalation.cfg` (`ResetDoneExpected`, by an escalated cancel), both of
`MCControlLink`, and `SharedTicks.cfg` (`RefusalIsExplained`, of `SimArtifacts`) are
kept beside them: further counterexamples of section 4, to be run by hand; and so is
`SlowAcks.cfg` of `JobSession`, which passes: with slow acknowledgements of JavaScript, loss and
cancel, `OnlyTornBreaksContract` holds of two calls of up to one chunk each way (it is a
theorem, section 5, item 10).

Why the bounds are enough to be interesting: two jobs are what it takes for a
launcher to be given a second one, for a late event of the first to meet the
second and for the dispatcher to come round again; one launcher lets kills,
resets, deliveries and disconnects contend for the same locks; two launchers let
a claim choose and a sweep hit the wrong row. Three polls let one leave while
another stays and a third joins. Inputs (kills, resets, revocations, expiries)
are split over the runs to keep each one exhaustive; the theorems have no such
bound. On the control connection, two jobs let the remains of the first (a timer,
a line, a run, a reset under way) meet the second, and two apps make the second
need another process; `MaxLines = 1` in `WorkerFaults` lets runs open and fail,
and `LinkLive` leaves them out to afford the liveness. The connection is lost in
`LinkLive` alone: the properties of `WorkerFaults` say nothing of one that is. One cancel per job is
allowed: a second one would only write again and rearm the timer.
`TimerMatchesJob` and `NoForgottenJob` except the states in which a message that
the server will refuse is in flight (`Stray`): the connection is then about to be
closed, for the reasons of section 4, and every job on it ends with it.

Two calls with one chunk each let the remains of the first (a result, a chunk, an
error, an acknowledgement, a request half sent) meet the second at each end.
Two runs, with the refill each leaves behind, contend for one spare connection and
for the task that builds it; `Prewarms = {}` in `Parts.cfg`, because with
callers' own prewarms the third violation above is reached; with `MaxConns = 5`
every reachable state has a free connection, so that no action is held up by the
bound. Two CAE runs, records and jobs: a run of an old job meets the start of a new
one, and a stale acknowledgement can be told from a missing one. Two `sim.run`
calls give one result that depends on another; `refused` needs no more. Three GPU calls:
one cancelled with its thread alive, one that evicts, one that follows. `GraceHashes = 2`
is the smallest window that remembers a token for each *other* one of three tabs;
the code keeps 8. With fewer the session of honest tabs can be revoked, which the
theorem makes an assumption. `AccessExpires` only happens when the grace window
is over, as the access token lives longer than its 10 s. `SlowAcks` has
Python alone in `Sessions.cfg` because JavaScript breaks the contract there (section 4);
that it does so in this one way is a theorem. Two requests
and a launcher are one more than the limit of their key, and three ticks let the
first leave its minute and the table be swept while the others are on their way. The
run has one key: a sweep that the request of another key makes is covered by the
theorem `RateStaysLimited` alone, which is about any number of keys.
`MCTexts` has the texts of up to `MaxLexemes = 4` markers, objects and blanks of either
family: a reasoning part with both markers, an answer and a turn end or a
blank, in every order; chunks of one to three characters cut each marker and join it
to its neighbours.

*Fairness* (`FairSpec`): each server task that has begun goes on, because asyncio
runs it and every send is bounded by `LAUNCHER_SEND_TIMEOUT_SECONDS`; strong
fairness where a task waits for an `asyncio.Lock`, which is served in order, and
for a claim, which SKIP LOCKED passes over only while a short transaction holds
the row. Nothing is assumed of clients, launchers, the website, the clock or
crashes. In `AnswerWait` a writer calls `set_job_event` after its commit and a
poll whose event is set is resumed; its timeout is assumed nothing of.
In `RunJob` every await of an attempt has a timeout or an answer, so that the attempt
goes on or fails; in `CaeRun` the event loop runs what is ready and armed timers
fire; nothing is assumed of prewarms, of the master or of the length of a
simulation. In `JobSession` frames arrive while the channel lasts, deadlines of calls
run out, a handler returns and both programs go on; the caller owes nothing (it
need not call, finish or close), and no disturbance need happen.
In `AccessKeys` 30 s pass and the dispatcher comes round; no heartbeat need come.
`SimArtifacts`, `GpuResidency`, `SessionTokens` and `LlmAnswer` assume no fairness.
In `ControlLink` the tasks of the two event loops go on, a timer that is armed
fires or is cancelled, a process that was terminated is reaped, and nothing is
assumed of the workers: `CancelEnds` and `ResetEnds` hold although a worker may hang
anywhere, which is what the ready, escalation and termination timers are for.

Every property has a mutant in `PROJECT.json`: an operator `Bug...` (or named for
what it leaves out) next to the definition it replaces, under which TLC finds the
property violated.

## 4. Where code and promises part

1. *A worker that fails to start is reported twice* (`start_failure`). The stdout
   reader's `finally` sends `job.error` (`worker_exit`), or it forwards the worker's
   own error, and wakes `start_job`, which sends `worker_start_failed` for the same
   job (`subprocess_manager.py:85-99`, `249-270`). The server has ended the job at
   the first message and refuses the second: the launcher is disconnected.
2. *A reset of a busy worker ends its job twice* (`BusyReset.cfg`). The worker answers
   `stop` with `job.cancelled`, its reader forwards it, and `reset_worker` sends
   its own (`subprocess_manager.py:225-233`).
3. *An escalated cancel acknowledges a reset nobody asked for* (`Escalation.cfg`).
   `escalate_cancel` leaves `notify_reset` at its default; the server refuses
   `worker.reset.done` unless it is resetting the launcher. For a CAE job no
   cancel is needed: one that ends without a confirmed cleanup arms the timer.
4. *A failed start confirms the cleanup of a later run* (`worker_reuse`).
   `cae.run.cleaned` of a start that failed is remembered for the job; when a
   second start of the job succeeds, the end of the job frees the worker with
   the run still open, and the next job is given to it. A start whose attachments are
   over the limit (`handlers.py:66-71`) says so even while a run of the job is open.

5. *Two runs may be given one connection* (`shared_connection`). Two callers of
   `prewarm_job_connection` wait for the same task. The first stores the
   connection, a run takes it, and the second, resumed late, stores it
   again (`client.py:246-265`): two job peers then send over one DataChannel.
   `sdk/master/python/README.md:110` says a prewarm is for the next matching job.
6. *A release spoils another artifact* (`SharedTicks.cfg`). The Joule heating and
   the current density of one `dc_current_density` task share their tick lists
   (`dc_current_density/solver.py:97`, `:119`), so that after the release of one
   the other is refused with a message that it was released
   (`runtime.py:603`, `614`, `646`, `715`).
7. *More than the answer may be streamed.* `slaves/README.md:39` says of `ai.chat`
   "stream only final-answer text". When a text has two `</think>`, `rfind` ends the
   reasoning at the second if it is there already, and at the first if the second comes
   in a later chunk: the streamed answer then differs from that of `ai.llm` and has a marker
   in it. When the blanks and the `<turn|>` at the end are longer than the characters
   held back, the front of them is sent after the answer. `StreamIsAnswer` excepts both.

`PROJECT.json` (`findings`) quotes the lines of 1, 4 and 5. In 1 to 3 the launcher
reconnects and goes on, but a job that it held or was given meanwhile is lost.

Further behaviour that the models have and that no text of the repository
contradicts:

- *Calls.* A result, chunk or error of a call that has timed out rejects the call
  that is pending by then, and `job.event` goes to it. After an acknowledgement has
  waited in the buffer Python clears whichever call is pending then, and
  JavaScript (`resolvePendingCall`) reads the pending call anew, clears it with
  its timer and may resolve it with half of its result, or not at all: `Sessions.cfg` with `"js"` in `SlowAcks` violates
  `ImplementsContract` and `EveryCallSettles`. A JavaScript send that fails
  rejects whichever call is pending. A request whose attachments stop half-way
  leaves `incoming_call` set, and every later call of the session is refused as busy.
- *Runs.* The connection of a prewarm that is cleared or cancelled between the end
  of its task and the caller's return is not closed. The job of a cancelled run,
  or of an attempt whose create answer was lost, stays on the server until
  it expires.
- *Runs that outlive their job.* `job.progress` of a CAE run goes on until the run is
  closed (`runtime.py:352`, `405`), also after its job has ended; the server refuses it as
  an event of no current job and closes the control connection.
- *CAE.* A record that is queued when its run is cancelled keeps its tensor and
  its watchdog after `cae.run.cleaned`; the 120 s count from the production of a
  record, not from its delivery.
- *GPU.* A cancellation leaves the thread at work while the locks are given back:
  the memory half of `LlmIsAlone` is stated for executions without one. A
  cancellation inside `__aenter__` (`gpu_residency.py:76`, `:94`) keeps the locks, as
  `except Exception` does not see `CancelledError`: later calls for the device wait
  for ever.
- *Tokens.* The grace window is that of the first rotation in it; when the answer to a
  refresh is lost, the next refresh after the window ends the session.

## 5. What is proved

Each theorem is for all values of the constants, from the named assumptions of the module
it is about; they say that bounds are natural numbers, that the values which mean "none"
are none of the others (`NoneAssumption`, `NoEventAssumption`, `NamesAssumption`,
`CancelsAssumption`, `ResetAssumption`), that kernels, requests and limits are of the
kinds the code has (`KernelsAssumption`, `RequestsAssumption`, `KeysAssumption`), that a
session has a first refresh token (`TokenBoundsAssumption`) and that texts are of the
characters of the model (`TextsAssumption`). Some theorems have a hypothesis besides, on
`GraceHashes` (item 6) or on `SlowAcks` (item 10). Every proof has the same frame: `Init`
gives the inductive invariant, each action keeps it, it implies the property.

1. `JobOrchestratorProofs`, types. *Frame lemmas* state once which steps write which
   variables, so that every later proof only treats the actions that matter.
   `TypeInv` strengthens `TypeOK`: a handler past `receive` has a message, a
   delivery in progress has a job, a dispatcher with a claim in hand has a job
   and a launcher. `TypeCorrect` follows.
2. `JobOrchestratorProofs`, safety. `SafetyInv` is the inductive invariant, in layers:
   `TableInv` (a job without a launcher is absent, queued or ended; a row that is
   gone has no active job), `ConnInv` (what the state of the connection says
   about row and registry), `RegInv` (what is active on a registered launcher is
   what the registry, the dispatcher or a handler in flight knows), `SendInv` (who
   holds or waits for a send lock, and what has been sent by then), `ResetInv`
   (who may still send to a launcher that is being reset). None of the properties
   is inductive alone: that a launcher gets one job needs `RegInv`, since the claim
   trusts the registry's snapshot, and `RegInv` needs `ConnInv`, since a launcher
   that was dropped is forgotten at once while its row is cleaned up later.
   Theorems: `OneActiveJob`, `RegistryAgreesWithTable`, `StartBeforeCancel`,
   `GoneLauncherIsEmpty`, `LostLauncherStaysClean`, `SweepsSpareRegistered`; the action
   properties `EndsAreFinal`, `ResettingGetsNoJob`, `ResetFollowsStart`; `MissingStaysMissing`,
   which is why a sweep may be one step (section 2); and
   `TablesImplementLifecycle`: with `state <- jobState`, `launcher <- jobLauncher`,
   `lost <-` the rows that are gone, each step is a step of `JobLifecycle` or changes
   nothing of it.
3. `ControlLinkProofs`, for any jobs, apps, faults and bounds. `LinkTyped`: lemmas
   on the queues, the records and the two halves of `reset_worker` first, then one
   lemma per task. `NoProcessIsForgotten`: `NoForgottenProcess` is not inductive
   alone, since `Spawn` overwrites `manager.worker`; `LinkInv` adds `NoWorkerYet`
   (the manager has no worker while the control reader is about to spawn one).
   Every step but `Spawn` is `Cautious`: it starts no process, takes back no stop,
   and gives up the worker only if the worker was told to stop or is gone, or the
   connection is.
4. `ControlLinkJobs`, for the same constants. A job passes through two
   queues, two pipes and the fields of three programs, and what `TimerMatchesJob` and
   `NoForgottenJob` need is what may be in which of them at once. `JobInv`
   (`JobsInvariant`): only jobs that were started are named anywhere (`OnlyStarted`);
   at most one start is under way, and it is of the assigned job (`OneStart`), whose
   assignment came first (`AssignedFirst`); the start that the control reader is at
   is of the job in hand (`InHand`), and the reader is in a reset only where it waits
   for one (`OwnReset`); at most one escalated cancel of a job that is over stops
   its worker, and meanwhile no other job is in hand (`OneEnding`); the assigned job, until
   its end is on the way to the server, is in the inbox, in hand or in a reset that will
   report it, and in one of them only (`InOnePlace`). Theorems `TimersMatchJobs`, `NoJobIsForgotten`.
5. `ServerProofs`, polls. `WaitInv`: all polls hold the event of the dictionary, they
   hold it exactly while they read and wait, and the count is the cardinality of
   the holders. Theorems `CountIsExact` and `NoWakeUpIsLost`, for any finite set of
   polls.
6. `ServerProofs`, tokens, for any finite set of tabs and any number of rotations,
   assuming `GraceHashes + 1 >= Cardinality(Tabs)`. The invariant `Sound` says that the
   newest token is in the cookie or in the one answer that carries it
   (`CookiePlace`), that the token of every request is current or in the grace window
   (`RequestsAccepted`), and why the window has room: `GraceHasRoom` counts its tokens
   together with the tabs that are still to rotate, and the sum never exceeds
   the number of tabs. Theorems `ReuseIsNeverFalse`, `NewestTokenIsKept`. The types need more
   than themselves: a tab sends the token of its cookie, which is one that was made
   (`TokensMade`); with it `TokenTypesHold`, without the assumption on `GraceHashes`.
7. `ServerProofs`, keys, for any requests, keys, limits and length of the minute.
   `RateIsLimited` speaks of every minute that has been, the code only of those it
   trims to. `KeysInv` adds that whoever has passed the limit has presented a key
   before, and once (`PassedOnce`) and that no trim or sweep loses a request which still counts
   (`Remembered`). Theorems `RateStaysLimited`, `KeyTypesHold`.
8. `SlaveProofs`. *Runs*, for any number of runs, records and jobs: `RecordReachedMaster` is
   not inductive. That the simulation goes past a record depends on its future, the future
   on the acknowledgement, and that on the pending record, which was taken from the queue.
   `RecordPlace` says where the last record of a run is in each of these states (queued,
   pending, acknowledged, gone past) and that only one is under way. `OneLiveRun` needs no
   more than that a start closes what it finds. Theorems `CaeTypesHold`,
   `RecordsReachMaster`, `RunsAreExclusive`. *Artifacts*, for any set of the shipped kernels
   and any number of results: `SimInv` says that the heap holds what the calls made, closed
   under reference (`HeapOfCalls`), and that what is missing from a table was emptied by a
   release that had it (`TablesKeepUp`). Theorems `RefusalsAreDeserved`, `SimTypesHold`.
   *Residency*, for any requests and devices: `GpuInv` says that calls come one after the
   other (`CallsInTurn`), that `loaded_on` names leases that were given (`TableOfLeases`)
   and that, while nothing was cancelled, memory is what the table says (`MemoryInTable`).
   Theorems `LlmStaysAlone`, `GpuTypesHold`.
9. `PartsProofs`. *Runs*, for any runs, prewarms and connections. `RunInPlace`: at the steps
   before `calling`, a retry included, the input of a run has not been sent, and a run that is
   under way has a connection. `InputsAreSentOnce` follows; `RunsCleanUp` is an action property
   of the same invariant, and with the types of the cache (`CacheTyped`) `RunTypesHold`.
   `JsConnectionServesOneRun`: with the JavaScript SDK, which has no shared task to wait for, no two
   runs and no run and the cache ever have the same connection (`HoldersDiffer`). It is the
   property that Python's `prewarm_job_connection` breaks (section 4, item 5), proved where the
   code keeps it. *Parts*: a step of `MCParts` is, for each part, a step of it or none
   (`PartsAreAlone`), so that the theorems on the parts together give `PartsTypesHold`.
10. `JobSessionProofs`, for any calls, frames and disturbances and either SDK.
    `SessionTyped` and `SessionFailsOnlyTorn` need no hypothesis. The other two assume `"js"
    \notin SlowAcks`: with a slow JavaScript acknowledgement the code breaks both (section
    4). What a step of each end does is stated once (the master's calm steps, its new call
    and its acknowledgement; the slave's own steps and its cases of a frame received), and
    every invariant treats those few cases. `CallsInv` has the master's calls in turn;
    `AnsweredFirst`: a result in the channel, being received, acknowledged or resolved is
    one that the handler has returned; `InOrder`: the calls in the channel are later than
    those at the slave, and in order. Theorem `SessionFailsOnlyTorn`: with torn calls
    counted as failed, each step is a step of `CallContract` or changes nothing of it,
    whichever SDK and however slow; a late drain of JavaScript resolves the call of the
    response that is there, which `AnsweredFirst` knows to be answered. `QuickJs` (no
    acknowledgement of JavaScript waits, so that no call is torn) is invariant under the
    hypothesis, and gives `SessionImplementsContract`. For `BusyIsNeverFalse` the invariant
    `Acknowledging` follows one acknowledgement: the slave is busy only with the call it
    serves (`BusyServing`), a resolved call has put its acknowledgement on the channel
    (`AckSent`), before the frame of the next call (`AckGoesFirst`), and an acknowledgement
    is of a result that was sent (`AcksAnswered`).
11. `LlmAnswerProofs`, for any texts, markers in them and cuts into chunks. `After` is what the
    parser has become when a text was fed, as a function of the text alone, and
    `FedInPieces` says that feeding a further piece gives `After` of the longer text: no marker is
    seen that is not there, and none missed because a chunk ended in it. This needs that the first
    place of a marker, once there, stays (`EndKept`), and that the cut of a held-back end
    commutes with joining (`CutJoined`). `CutsAreNotSeen` states it of the parser itself.
    `EmittedGrows`: the delta of a chunk is just what the chunk adds to what was sent.
    `FinishFacts`: at the end what was sent is the answer and at most blanks and turn ends.
    The invariant `ChatInv` joins them: the parser is `After` the prefix that was fed and
    `streamed` is what it has emitted, until the stream ends. Theorems `ChatTypesHold`,
    `StreamedAnswer`. The recursions of the code's loops are first and last places of a
    set here, and that a set of places has a smallest is taken from the well-foundedness of
    finite sets (`SomeSmallest`), so that no induction over texts is needed.

Every safety invariant and action property that a passing run checks has its theorem. Liveness
(`AssignedJobIsDelivered`, `QueuedJobIsServed`, `KillReachesLauncher`, `OrphanedJobEnds`,
`EndedJobFreesLauncher`, `CancelEnds`, `ResetEnds`, `EveryCallSettles`, `SlaveFollowsClose`,
`AnswerEndsPoll`, `EveryRunEnds`, `RunIsCleaned`, `LauncherLosesKey`) is only model-checked: no
prover here treats fairness.

## 6. Not modelled, and what is left

Left out, for good: numerical code (solvers, tensors, model inference: floating
point and external libraries); CRUD and settings (single-request reads and
writes); the website beyond its refresh of tokens and the AI master's UI
(presentation over the same requests); OAuth (an external service; its
callback takes the state after the exchange of the code).

Left to do, in this order:

1. Database errors in `JobOrchestrator`: the transaction of any task may abort
   (the hazard at `job_orchestrator.py:188`), and two kills of one job at once.
2. Several `record()` calls of one simulation and progress in `CaeRun`; a new
   login over an old session in `SessionTokens`.
3. A run in which `JobOrchestrator` takes the place of the reduced server of
   `ControlLink`, on one job, and one with `RunJob` over `JobSession`.
