------------------------------- MODULE RunJob -------------------------------
(* run_job of the client SDKs (gpstation_master/client.py, js/src/client.ts):  *)
(* the attempts of concurrent runs, the connections they use, and the cache   *)
(* of prewarmed connections the runs take from and refill. All runs here use  *)
(* the same slave app and configuration, hence one key of the cache. What     *)
(* happens over an open connection is JobSession.                             *)
EXTENDS Naturals, FiniteSets

CONSTANTS
    Runs,       \* calls of run_job on one client
    Prewarms,   \* calls of prewarm_job_connection, beside the refills of the runs
    MaxConns,   \* bound: connections at a time; one that nobody holds is named anew
    ClientSdks  \* a subset of {"python", "js"}

ASSUME RunsAssumption == Runs \cap Prewarms = {}
ASSUME MaxConnsAssumption == MaxConns \in Nat

VARIABLES
    client,     \* which SDK, and _closed
    peers,      \* "gathering", "open", "closed", or "failed" to gather
    spare,      \* the prewarmed connection of the key, or NoConn
    build,      \* the connection of the key's prewarm task, or NoConn
    warm,       \* of each prewarm and each run's refill: step, and task joined
    run,        \* of each run: step, attempt, connection, auto_finish
    inputs      \* how often the input of a run was sent

runVars == <<client, peers, spare, build, warm, run, inputs>>

Conns == 1..MaxConns
NoConn == 0
Warmers == Runs \cup Prewarms

IsOver(step) == step \in {"done", "failed", "cancelled"}
Attempting == {"offering", "creating", "answering", "connecting", "calling", "finishing"}
Usable(c) == c # NoConn /\ peers[c] \in {"gathering", "open"}
Python == client.sdk = "python"
Js == client.sdk = "js"

Held == {spare, build} \cup {run[r].conn : r \in Runs} \cup {warm[w].task : w \in Warmers}
Free == {c \in Conns \ Held : peers[c] \in {"closed", "failed"}}
Fresh(c) == c \in Free /\ \A d \in Free : c <= d

RunInit ==
    /\ client \in [sdk : ClientSdks, closed : {FALSE}]
    /\ peers = [c \in Conns |-> "closed"]
    /\ spare = NoConn /\ build = NoConn
    /\ warm = [w \in Warmers |-> [step |-> IF w \in Prewarms THEN "due" ELSE "idle",
                                  task |-> NoConn]]
    /\ run = [r \in Runs |-> [step |-> "idle", attempt |-> 0, conn |-> NoConn, auto |-> TRUE]]
    /\ inputs = [r \in Runs |-> 0]

(* ------------------------------------------------------- the prewarm cache *)

(* prewarm_job_connection up to its wait: a usable connection is enough; a    *)
(* stale one is dropped, and the task of the key is joined or started.        *)
PyPrewarm(w) ==
    /\ Python /\ ~client.closed
    /\ warm[w].step = "due"
    /\ \/ /\ Usable(spare)
          /\ warm' = [warm EXCEPT ![w].step = "over"]
          /\ UNCHANGED <<peers, spare, build>>
       \/ /\ ~Usable(spare)
          /\ spare' = NoConn
          /\ IF build # NoConn
             THEN UNCHANGED <<peers, build>>
             ELSE \E c \in Conns : /\ Fresh(c)
                                   /\ build' = c
                                   /\ peers' = [peers EXCEPT ![c] = "gathering"]
          /\ warm' = [warm EXCEPT ![w] = [step |-> "waiting", task |-> build']]
    /\ UNCHANGED <<client, run, inputs>>

(* create_prepared_job_connection comes to its end, or fails. *)
Gathered(c) ==
    /\ peers[c] = "gathering"
    /\ \E end \in {"open", "failed"} : peers' = [peers EXCEPT ![c] = end]
    /\ UNCHANGED <<client, spare, build, warm, run, inputs>>

(* prewarm_job_connection after its wait. Another claim of the same task, and  *)
(* the run of that other caller, may have come before: Lock.acquire does not  *)
(* suspend, so a caller goes on to take the connection before the next one of *)
(* the task's waiters is resumed; a waiter may also still be closing a stale  *)
(* connection.                                                                *)
PyClaim(w) ==
    /\ Python
    /\ warm[w].step = "waiting"
    /\ LET c == warm[w].task
           refused == client.closed \/ spare \notin {NoConn, c} IN
         /\ peers[c] # "gathering"
         /\ build' = IF build = c THEN NoConn ELSE build
         /\ spare' = IF peers[c] = "failed" \/ refused THEN spare ELSE c
         /\ peers' = IF peers[c] = "open" /\ refused THEN [peers EXCEPT ![c] = "closed"] ELSE peers
    /\ warm' = [warm EXCEPT ![w] = [step |-> "over", task |-> NoConn]]
    /\ UNCHANGED <<client, run, inputs>>

(* Of the connections that are cleared, those that are still gathering close  *)
(* themselves when their task is cancelled.                                   *)
Closed(cs) == [c \in Conns |->
    IF c \notin cs THEN peers[c]
    ELSE CASE peers[c] = "gathering" -> "failed" [] peers[c] = "open" -> "closed"
           [] OTHER -> peers[c]]

(* Refills are background tasks and are cancelled; a caller's own prewarm is   *)
(* cancelled with the task it waits for.                                      *)
Uncancelled(w) == w \in Prewarms /\ peers[warm[w].task] # "gathering"
WarmCancelled ==
    [w \in Warmers |-> IF warm[w].step = "waiting" /\ ~Uncancelled(w)
                       THEN [step |-> "over", task |-> NoConn] ELSE warm[w]]

(* A task that is done is beyond cancelling: its connection stays open. *)
ClearedConns == {spare} \cup (IF build # NoConn /\ peers[build] = "gathering" THEN {build} ELSE {})

(* clear_prewarmed_job_connections *)
PyClear ==
    /\ Python /\ ~client.closed
    /\ spare # NoConn \/ build # NoConn
    /\ peers' = Closed(ClearedConns)
    /\ warm' = WarmCancelled
    /\ spare' = NoConn /\ build' = NoConn
    /\ UNCHANGED <<client, run, inputs>>

(* GpStationClient.close: also the sessions and the peers of runs. *)
PyCloseClient ==
    /\ Python /\ ~client.closed
    /\ client' = [client EXCEPT !.closed = TRUE]
    /\ peers' = Closed(ClearedConns \cup {run[r].conn : r \in Runs})
    /\ warm' = WarmCancelled
    /\ spare' = NoConn /\ build' = NoConn
    /\ UNCHANGED <<run, inputs>>

(* prewarmJobConnection, which does not wait for anything. *)
JsPrewarm ==
    /\ Js /\ ~Usable(spare)
    /\ \E c \in Conns : /\ Fresh(c)
                        /\ spare' = c
                        /\ peers' = [peers EXCEPT ![c] = "open"]
    /\ UNCHANGED <<client, build, warm, run, inputs>>

JsClear ==
    /\ Js /\ spare # NoConn
    /\ peers' = Closed({spare})
    /\ spare' = NoConn
    /\ UNCHANGED <<client, build, warm, run, inputs>>

(* --------------------------------------------------------------------- runs *)

(* _take_prepared_connection, or a connection of the attempt's own. *)
Taken(c) == IF Usable(spare) THEN c = spare ELSE Fresh(c)

(* The head of _run_job_attempt: take the prewarmed connection, or make one.  *)
BeginAttempt(r, attempt, auto) ==
    /\ spare' = NoConn
    /\ \E c \in Conns :
          /\ Taken(c)
          /\ peers' = [peers EXCEPT ![c] = "open"]
          /\ run' = [run EXCEPT ![r] = [step |-> "offering", attempt |-> attempt,
                                         conn |-> c, auto |-> auto]]
    /\ UNCHANGED <<client, build, warm, inputs>>

BeginRun(r) ==
    /\ run[r].step = "idle" /\ ~client.closed
    /\ \E auto \in BOOLEAN : BeginAttempt(r, 0, auto)

(* The next await of an attempt returns: the offer, the job, its answer, the  *)
(* open channel (then job.ready and the input are sent), the result.          *)
Advance(r) ==
    /\ Usable(run[r].conn)
    /\ \E hop \in {<<"offering", "creating">>, <<"creating", "answering">>,
                   <<"answering", "connecting">>, <<"connecting", "calling">>,
                   <<"calling", IF run[r].auto THEN "finishing" ELSE "session">>} :
          /\ run[r].step = hop[1]
          /\ run' = [run EXCEPT ![r].step = hop[2]]
          /\ inputs' = IF hop[2] = "calling" THEN [inputs EXCEPT ![r] = @ + 1] ELSE inputs
    /\ UNCHANGED <<client, peers, spare, build, warm>>

(* The end of run_job, whatever it is: a run that finishes its own session     *)
(* prewarms the next connection, Python in the background.                    *)
End(r, step, conns) ==
    /\ run' = [run EXCEPT ![r] = [@ EXCEPT !.step = step, !.conn = NoConn]]
    /\ IF ~run[r].auto \/ client.closed
       THEN UNCHANGED <<warm, spare>> /\ peers' = conns
       ELSE IF Python
       THEN /\ warm' = [warm EXCEPT ![r].step = "due"]
            /\ peers' = conns /\ UNCHANGED spare
       ELSE /\ UNCHANGED warm
            /\ IF Usable(spare) /\ conns[spare] = "open"
               THEN peers' = conns /\ UNCHANGED spare
               ELSE \E c \in Conns : /\ Fresh(c)
                                     /\ spare' = c
                                     /\ peers' = [conns EXCEPT ![c] = "open"]
    /\ UNCHANGED <<client, build, inputs>>

Finish(r) ==
    /\ run[r].step = "finishing" /\ Usable(run[r].conn)
    /\ End(r, "done", Closed({run[r].conn}))

(* A retry whatever became of the first attempt. *)
BugFail(r) ==
    /\ run[r].step \in Attempting
    /\ IF run[r].attempt = 1
       THEN End(r, "failed", Closed({run[r].conn}))
       ELSE /\ run' = [run EXCEPT ![r].step = "retrying"]
            /\ peers' = Closed({run[r].conn})
            /\ UNCHANGED <<client, spare, build, warm, inputs>>

(* An attempt that forgets its connection. *)
BugFailOpen(r) ==
    /\ run[r].step \in Attempting
    /\ End(r, "failed", peers)

(* An await of an attempt raises: a timeout, an HTTP error, a job that ended   *)
(* without an answer, a closed channel, an error of the handler. Once the     *)
(* input is out the session is finished before it is closed, and there is no  *)
(* second attempt.                                                            *)
Fail(r) ==
    /\ run[r].step \in Attempting
    /\ \/ /\ run[r].step = "calling"
          /\ run' = [run EXCEPT ![r].step = "closing"]
          /\ UNCHANGED <<client, peers, spare, build, warm, inputs>>
       \/ /\ run[r].step # "calling"
          /\ run[r].step # "finishing" /\ run[r].attempt = 0
          /\ run' = [run EXCEPT ![r].step = "retrying"]
          /\ peers' = Closed({run[r].conn})
          /\ UNCHANGED <<client, spare, build, warm, inputs>>
       \/ /\ run[r].step # "calling"
          /\ run[r].step = "finishing" \/ run[r].attempt = 1
          /\ End(r, "failed", Closed({run[r].conn}))

(* A cleanup that waits for the slave to confirm the finish. *)
BugCleanUp(r) ==
    /\ run[r].step = "closing" /\ Usable(run[r].conn)
    /\ End(r, "failed", Closed({run[r].conn}))

(* cleanup() of an attempt that failed with its input sent. *)
CleanUp(r) ==
    /\ run[r].step = "closing"
    /\ End(r, "failed", Closed({run[r].conn}))

(* _kill_job_best_effort of the first job, then the second attempt. *)
Retry(r) ==
    /\ run[r].step = "retrying"
    /\ BeginAttempt(r, 1, run[r].auto)

(* The task of the caller is cancelled, at any await. *)
PyCancelRun(r) ==
    /\ Python
    /\ run[r].step \in Attempting \cup {"closing", "retrying"}
    /\ End(r, "cancelled", Closed({run[r].conn}))

(* The caller closes the session it was given. *)
CloseSession(r) ==
    /\ run[r].step = "session"
    /\ run' = [run EXCEPT ![r] = [@ EXCEPT !.step = "done", !.conn = NoConn]]
    /\ peers' = Closed({run[r].conn})
    /\ UNCHANGED <<client, spare, build, warm, inputs>>

RunSteps(r) ==
    Advance(r) \/ Finish(r) \/ Fail(r) \/ CleanUp(r) \/ Retry(r)

RunNext ==
    \/ \E w \in Warmers : PyPrewarm(w) \/ PyClaim(w)
    \/ \E c \in Conns : Gathered(c)
    \/ PyClear \/ PyCloseClient \/ JsPrewarm \/ JsClear
    \/ \E r \in Runs : BeginRun(r) \/ RunSteps(r) \/ PyCancelRun(r) \/ CloseSession(r)

RunSpec == RunInit /\ [][RunNext]_runVars

(* Every await of an attempt has a timeout or an answer. *)
RunFairness == \A r \in Runs : WF_runVars(RunSteps(r))

RunFairSpec == RunSpec /\ RunFairness

RunTypeOK ==
    /\ client \in [sdk : ClientSdks, closed : BOOLEAN]
    /\ peers \in [Conns -> {"gathering", "open", "closed", "failed"}]
    /\ {spare, build} \subseteq Conns \cup {NoConn}
    /\ warm \in [Warmers -> [step : {"idle", "due", "waiting", "over"},
                             task : Conns \cup {NoConn}]]
    /\ run \in [Runs -> [step : Attempting \cup {"idle", "retrying", "closing", "session",
                                                 "done", "failed", "cancelled"},
                         attempt : 0..1, conn : Conns \cup {NoConn}, auto : BOOLEAN]]
    /\ inputs \in [Runs -> Nat]

(* ---------------------------------------------------------------- properties *)

(* The handler is given the input of a run in at most one attempt, whichever  *)
(* await failed and whoever closed the connection (client.py:355, :388).      *)
InputSentOnce == \A r \in Runs : inputs[r] <= 1

(* An attempt that is given up or done with has closed its connection, also   *)
(* when it was cancelled or had to be finished first; a session that is       *)
(* handed out keeps it.                                                       *)
RunCleansUp ==
    [][\A r \in Runs :
          /\ run[r].step \in Attempting \cup {"closing"}
          /\ run'[r].step \notin Attempting \cup {"closing", "session"}
          => peers'[run[r].conn] \notin {"gathering", "open"}]_runVars

(* Every run comes to an end, or to a session: no failure, closed client or    *)
(* lost answer leaves it waiting.                                             *)
EveryRunEnds ==
    \A r \in Runs : run[r].step # "idle" ~> IsOver(run[r].step) \/ run[r].step = "session"

(* A prewarmed connection is for "the next matching job" (README.md:110 of    *)
(* gpstation_master): two runs never hold the same one.                       *)
ConnectionServesOneRun ==
    \A r, s \in Runs :
        r # s /\ run[r].conn = run[s].conn => \/ run[r].conn = NoConn
                                              \/ ~Usable(run[r].conn)
=============================================================================
