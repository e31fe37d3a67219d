----------------------------- MODULE AnswerWait -----------------------------
(***************************************************************************)
(* Long polls for the answer of one job: JobOrchestrator.wait_for_answer   *)
(* and the shared asyncio.Event that RuntimeRegistry keeps per job while   *)
(* somebody waits.  Jobs do not share anything here, so there is one job.  *)
(* A registry method never suspends; a poll can be overtaken at each       *)
(* database read and while it waits.                                       *)
(***************************************************************************)
EXTENDS Integers, FiniteSets

CONSTANTS Polls,       \* requests that may be in progress at the same time
          MaxEvents,   \* bound on the event objects in use at the same time
          MaxOwing,    \* bound on the writers between commit and set_job_event
          NoEvent      \* no entry in the dictionary, no event held

Events == 1..MaxEvents

ASSUME PollsAssumption == IsFiniteSet(Polls)
ASSUME BoundsAssumption == MaxEvents \in Nat /\ MaxOwing \in Nat
ASSUME NoEventAssumption == NoEvent \notin Events

VARIABLES
  job,       \* the row: no answer yet, an answer, or a terminal state
  owing,     \* writers that have committed and not yet called set_job_event
  entry,     \* job_events.get(job_id)
  waiters,   \* job_event_waiters.get(job_id, 0)
  isSet,     \* Event.is_set() of each event object
  step,      \* where each poll is
  held       \* the event a poll prepared and has not released

row == <<job, owing>>
table == <<entry, waiters, isSet>>
pollVars == <<row, table, step, held>>

Holders == {p \in Polls : held[p] # NoEvent}
InUse == {held[p] : p \in Polls} \cup {entry}

PollInit ==
  /\ job = "pending" /\ owing = 0
  /\ entry = NoEvent /\ waiters = 0
  /\ isSet = [e \in Events |-> FALSE]
  /\ step = [p \in Polls |-> "idle"]
  /\ held = [p \in Polls |-> NoEvent]
-----------------------------------------------------------------------------
(* Writers: a transaction on the row, then set_job_event *)

\* A change without an answer (kill request, running, progress), the answer,
\* or an end.
Commit(s) ==
  /\ owing < MaxOwing
  /\ job # "ended" /\ (s = "pending" => job = "pending")
  /\ job' = s
  /\ owing' = owing + 1
  /\ UNCHANGED <<table, step, held>>

SetJobEvent ==
  /\ owing > 0
  /\ owing' = owing - 1
  /\ isSet' = IF entry = NoEvent THEN isSet ELSE [isSet EXCEPT ![entry] = TRUE]
  /\ UNCHANGED <<job, entry, waiters, step, held>>
-----------------------------------------------------------------------------
(* A poll *)

\* release_prepared_job_event that drops the event with waiters left.
BugRelease(p) ==
  /\ waiters' = IF waiters <= 1 THEN 0 ELSE waiters - 1
  /\ entry' = IF entry = held[p] THEN NoEvent ELSE entry
  /\ held' = [held EXCEPT ![p] = NoEvent]
\* release_prepared_job_event that loses a decrement.
ReleaseKeepsCount(p) ==
  /\ waiters' = waiters
  /\ entry' = IF waiters <= 1 /\ entry = held[p] THEN NoEvent ELSE entry
  /\ held' = [held EXCEPT ![p] = NoEvent]
\* release_prepared_job_event
Release(p) ==
  /\ waiters' = IF waiters <= 1 THEN 0 ELSE waiters - 1
  /\ entry' = IF waiters <= 1 /\ entry = held[p] THEN NoEvent ELSE entry
  /\ held' = [held EXCEPT ![p] = NoEvent]

\* A new event for every poll.
BugPrepare(p) ==
  /\ step[p] = "idle"
  /\ \E e \in Events \ InUse :
       /\ entry' = e
       /\ isSet' = [isSet EXCEPT ![e] = FALSE]
       /\ held' = [held EXCEPT ![p] = e]
  /\ waiters' = waiters + 1
  /\ step' = [step EXCEPT ![p] = "read"]
  /\ UNCHANGED row
\* prepare_job_wait: the event of the job, or a new one.
Prepare(p) ==
  /\ step[p] = "idle"
  /\ IF entry = NoEvent
     THEN /\ \E e \in Events \ InUse :
               /\ \A f \in Events \ InUse : e <= f
               /\ entry' = e
               /\ isSet' = [isSet EXCEPT ![e] = FALSE]
               /\ held' = [held EXCEPT ![p] = e]
          /\ waiters' = 1
     ELSE /\ held' = [held EXCEPT ![p] = entry]
          /\ waiters' = waiters + 1
          /\ UNCHANGED <<entry, isSet>>
  /\ step' = [step EXCEPT ![p] = "read"]
  /\ UNCHANGED row

\* The first read returns a job that is worth waiting for.
StartWait(p) ==
  /\ step[p] = "read" /\ job = "pending"
  /\ step' = [step EXCEPT ![p] = "wait"]
  /\ UNCHANGED <<row, table, held>>

\* An answer or an end, no such job, wait_seconds = 0, or an error: finally.
ReturnAtOnce(p) ==
  /\ step[p] = "read"
  /\ Release(p)
  /\ step' = [step EXCEPT ![p] = "idle"]
  /\ UNCHANGED <<row, isSet>>

\* wait_prepared_job_event returns, because the event is set or on a timeout.
Leave(p) ==
  /\ step[p] = "wait"
  /\ Release(p)
  /\ step' = [step EXCEPT ![p] = "reread"]
  /\ UNCHANGED <<row, isSet>>
Wake(p) == Leave(p) /\ isSet[held[p]]
Timeout(p) == Leave(p)

\* The second read is the response.
Reread(p) ==
  /\ step[p] = "reread"
  /\ step' = [step EXCEPT ![p] = "idle"]
  /\ UNCHANGED <<row, table, held>>
-----------------------------------------------------------------------------
Poll(p) == \/ Prepare(p) \/ StartWait(p) \/ ReturnAtOnce(p)
           \/ Wake(p) \/ Timeout(p) \/ Reread(p)

PollNext == \/ \E s \in {"pending", "answered", "ended"} : Commit(s)
            \/ SetJobEvent
            \/ \E p \in Polls : Poll(p)

PollSpec == PollInit /\ [][PollNext]_pollVars

\* A writer calls set_job_event after its commit and the event loop resumes a
\* poll whose event is set.  Nothing is assumed of the timeout.
PollFairness == /\ WF_pollVars(SetJobEvent)
                /\ \A p \in Polls : WF_pollVars(Wake(p)) /\ WF_pollVars(Reread(p))

PollFairSpec == PollSpec /\ PollFairness
-----------------------------------------------------------------------------
\* Every variable has its type.
PollTypeOK ==
  /\ job \in {"pending", "answered", "ended"}
  /\ owing \in 0..MaxOwing
  /\ entry \in Events \cup {NoEvent}
  /\ waiters \in 0..Cardinality(Polls)
  /\ isSet \in [Events -> BOOLEAN]
  /\ step \in [Polls -> {"idle", "read", "wait", "reread"}]
  /\ held \in [Polls -> Events \cup {NoEvent}]

\* job_event_waiters counts exactly the polls that have an event, and the
\* dictionaries keep nothing for a job nobody waits for, whatever polls start,
\* time out, fail or are woken in between.
WaitersCounted ==
  /\ waiters = Cardinality(Holders)
  /\ Holders = {} => entry = NoEvent

\* A poll that waits will not miss a change it has not read: its event is set,
\* or the writer that is still to call set_job_event will set that very event.
NoLostWakeUp ==
  \A p \in Polls : step[p] = "wait" =>
    /\ held[p] = entry
    /\ job # "pending" => isSet[held[p]] \/ owing > 0

\* A poll that is waiting when the answer or the end arrives is answered
\* without having to wait for its own timeout.
AnswerEndsPoll ==
  \A p \in Polls : step[p] = "wait" /\ job # "pending" ~> step[p] # "wait"
=============================================================================
