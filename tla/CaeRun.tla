------------------------------- MODULE CaeRun -------------------------------
(* Runs of the CAE slave (slaves/cae/app/runtime.py, handlers.py): the        *)
(* simulation is a task that stops at every record until the master           *)
(* acknowledges it with its next call. The slave serves one job at a time and  *)
(* one call at a time (SlaveSession), but a run outlives its job until one of *)
(* its watchdogs or the start of another run ends it.                         *)
EXTENDS Naturals, Sequences, FiniteSets

CONSTANTS
    MaxRuns,    \* bound: runs started
    MaxRecords, \* bound: records of a run
    MaxCaeJobs  \* bound: jobs of the slave

ASSUME CaeBoundsAssumption ==
    MaxRuns \in Nat \ {0} /\ MaxRecords \in Nat /\ MaxCaeJobs \in Nat \ {0}

VARIABLES
    caeRuns,    \* the CaeRun objects, in the order of their start
    serving,    \* the run whose next() waits at its queue, or 0
    caeJob,     \* the job the slave runs
    got         \* the last record of each run that reached the master
(* job       the job a run belongs to                                          *)
(* closed    closed: not in memory["runs"] any more, and cae.run.cleaned sent  *)
(* task      "none" before the first next, "computing", "recording" (at the    *)
(*           shielded ack of its record), "over"                               *)
(* sequence  the last record produced; ack: the future of that record, "none", *)
(*           "open" (its watchdog runs), "set" or "expired"                    *)
(* queue     records by their sequence, or Outcome: complete or failed         *)
(* pending   the record that was returned and not acknowledged, or 0          *)
(* completed completed_sequences, the records the simulation has gone past     *)

caeVars == <<caeRuns, serving, caeJob, got>>

NoRun == 0
Started == 1..Len(caeRuns)
Outcome == 0

CaeInit ==
    /\ caeRuns = <<>>
    /\ serving = NoRun /\ caeJob = 1
    /\ got = [r \in 1..MaxRuns |-> 0]

(* _close; a task that is cancelled ends at its await. *)
ClosedRun(run) == [run EXCEPT !.closed = TRUE]
OverRun(run) == [run EXCEPT !.closed = TRUE, !.task = "over"]
AbortedRun(run) ==
    [run EXCEPT !.closed = TRUE, !.pending = 0,
                !.ack = IF run.pending # 0 THEN "none" ELSE run.ack,
                !.task = IF run.task = "none" THEN "none" ELSE "over"]

(* --------------------------------------------------------------- handlers *)

NewRun == [job |-> caeJob, closed |-> FALSE, task |-> "none", sequence |-> 0,
           ack |-> "none", queue |-> <<>>, pending |-> 0, completed |-> 0]

(* A start that leaves the runs of earlier jobs alone. *)
BugCaeStart ==
    /\ serving = NoRun /\ Len(caeRuns) < MaxRuns
    /\ \A r \in Started : ~caeRuns[r].closed => caeRuns[r].job # caeJob
    /\ caeRuns' = Append(caeRuns, NewRun)
    /\ UNCHANGED <<serving, caeJob, got>>

(* cae_simulation_start: one run per job; runs left by other jobs are aborted. *)
CaeStart ==
    /\ serving = NoRun /\ Len(caeRuns) < MaxRuns
    /\ \A r \in Started : ~caeRuns[r].closed => caeRuns[r].job # caeJob
    /\ caeRuns' = Append([r \in Started |-> IF caeRuns[r].closed THEN caeRuns[r]
                                           ELSE AbortedRun(caeRuns[r])], NewRun)
    /\ UNCHANGED <<serving, caeJob, got>>

(* A next that takes any acknowledgement for the pending record's. *)
BugAcknowledged(run, ack) == run.pending # 0 \/ ack = 0

(* _acknowledge: exactly the pending record, or none when there is none. *)
Acknowledged(run, ack) == ack = run.pending

(* cae_simulation_next up to the wait for the queue. The master acknowledges   *)
(* what it got last, or nothing, or what it acknowledged before.              *)
CaeNext(r, ack) ==
    /\ serving = NoRun
    /\ ~caeRuns[r].closed /\ caeRuns[r].job = caeJob
    /\ ack \in 0..got[r]
    /\ IF Acknowledged(caeRuns[r], ack)
       THEN /\ caeRuns' = [caeRuns EXCEPT
                 ![r].pending = 0,
                 ![r].ack = IF caeRuns[r].pending # 0 /\ @ = "open" THEN "set" ELSE @,
                 ![r].task = IF @ = "none" THEN "computing" ELSE @]
            /\ serving' = r
       ELSE /\ caeRuns' = [caeRuns EXCEPT ![r] = AbortedRun(@)]
            /\ UNCHANGED serving
    /\ UNCHANGED <<caeJob, got>>

DeliveredRun(run) ==
    [run EXCEPT !.queue = Tail(@), !.pending = Head(run.queue),
                !.closed = @ \/ Head(run.queue) = Outcome]

(* next() goes on with an item of the queue. Its result may be lost with the  *)
(* channel, or arrive after the master gave the call up.                      *)
CaeDeliver ==
    /\ serving # NoRun
    /\ caeRuns[serving].queue # <<>>
    /\ LET item == Head(caeRuns[serving].queue) IN
         /\ caeRuns' = [caeRuns EXCEPT ![serving] = DeliveredRun(@)]
         /\ \/ UNCHANGED got
            \/ item # Outcome /\ got' = [got EXCEPT ![serving] = item]
    /\ serving' = NoRun
    /\ UNCHANGED caeJob

(* job.cancel while next() waits: the queue keeps what is in it. *)
CaeCancel ==
    /\ serving # NoRun
    /\ caeRuns' = [caeRuns EXCEPT ![serving] = OverRun(@)]
    /\ serving' = NoRun
    /\ UNCHANGED <<caeJob, got>>

(* The job ends between two calls, and another one begins. *)
NextCaeJob ==
    /\ serving = NoRun /\ caeJob < MaxCaeJobs
    /\ caeJob' = caeJob + 1
    /\ UNCHANGED <<caeRuns, serving, got>>

(* --------------------------------------------------------- the simulation *)

RecordingRun(run) ==
    [run EXCEPT !.sequence = @ + 1, !.ack = "open", !.task = "recording",
                !.queue = Append(@, run.sequence + 1)]
RecordedRun(run) == [run EXCEPT !.task = "computing", !.completed = @ + 1]
EndedRun(run) == [run EXCEPT !.task = "over", !.queue = Append(@, Outcome)]

(* record() up to its wait; a value that cannot be encoded uses no sequence   *)
(* number and fails the simulation.                                           *)
Record(r) ==
    /\ caeRuns[r].task = "computing" /\ caeRuns[r].sequence < MaxRecords
    /\ caeRuns' = [caeRuns EXCEPT ![r] = RecordingRun(@)]
    /\ UNCHANGED <<serving, caeJob, got>>

Recorded(r) ==
    /\ caeRuns[r].task = "recording" /\ caeRuns[r].ack = "set"
    /\ caeRuns' = [caeRuns EXCEPT ![r] = RecordedRun(@)]
    /\ UNCHANGED <<serving, caeJob, got>>

EndTask(r) ==
    /\ caeRuns' = [caeRuns EXCEPT ![r] = EndedRun(@)]
    /\ UNCHANGED <<serving, caeJob, got>>

(* _execute: complete, or an error of the program, its inputs or a kernel.    *)
SimulationEnds(r) == caeRuns[r].task = "computing" /\ EndTask(r)

(* The exception of an expired ack; _close has already been called.           *)
RecordFails(r) ==
    /\ caeRuns[r].task = "recording" /\ caeRuns[r].ack = "expired"
    /\ EndTask(r)

(* maxRunSeconds, at any await of the simulation; a record that is pending     *)
(* stays so, for the outcome to be fetched after it.                          *)
RunTimeout(r) == caeRuns[r].task \in {"computing", "recording"} /\ EndTask(r)

(* -------------------------------------------------------------- watchdogs *)

FirstNextTimeout(r) ==
    /\ caeRuns[r].task = "none" /\ ~caeRuns[r].closed
    /\ caeRuns' = [caeRuns EXCEPT ![r] = ClosedRun(@)]
    /\ UNCHANGED <<serving, caeJob, got>>

ExpiredRun(run) == [run EXCEPT !.ack = "expired", !.pending = 0]

(* A watchdog that leaves the run to its task, as if that always waited.      *)
BugRecordAckTimeout(r) ==
    /\ caeRuns[r].ack = "open"
    /\ caeRuns' = [caeRuns EXCEPT ![r] = ExpiredRun(@)]
    /\ UNCHANGED <<serving, caeJob, got>>

(* _watch_record_ack, from the moment a record is produced, also of a record   *)
(* whose run has timed out.                                                   *)
RecordAckTimeout(r) ==
    /\ caeRuns[r].ack = "open"
    /\ caeRuns' = [caeRuns EXCEPT ![r] = ClosedRun(ExpiredRun(@))]
    /\ UNCHANGED <<serving, caeJob, got>>

TaskStep(r) == Recorded(r) \/ RecordFails(r) \/ RunTimeout(r)
Watchdog(r) == FirstNextTimeout(r) \/ RecordAckTimeout(r)

CaeNextState ==
    \/ CaeStart \/ CaeDeliver \/ CaeCancel \/ NextCaeJob
    \/ \E r \in Started :
          \/ \E ack \in 0..MaxRecords : CaeNext(r, ack)
          \/ Record(r) \/ SimulationEnds(r)
          \/ TaskStep(r) \/ Watchdog(r)

CaeSpec == CaeInit /\ [][CaeNextState]_caeVars

(* The event loop runs what is ready, and every timer fires.                  *)
CaeFairness ==
    /\ WF_caeVars(CaeDeliver)
    /\ \A r \in 1..MaxRuns :
          WF_caeVars(r \in Started /\ (TaskStep(r) \/ Watchdog(r)))

CaeFairSpec == CaeSpec /\ CaeFairness

CaeTypeOK ==
    /\ serving \in 0..Len(caeRuns) /\ caeJob \in 1..MaxCaeJobs
    /\ Len(caeRuns) <= MaxRuns
    /\ \A r \in Started :
          /\ caeRuns[r].job \in 1..MaxCaeJobs /\ caeRuns[r].closed \in BOOLEAN
          /\ caeRuns[r].task \in {"none", "computing", "recording", "over"}
          /\ caeRuns[r].ack \in {"none", "open", "set", "expired"}
          /\ {caeRuns[r].sequence, caeRuns[r].pending, caeRuns[r].completed} \subseteq 0..MaxRecords
          /\ caeRuns[r].queue \in Seq(0..MaxRecords)
    /\ got \in [1..MaxRuns -> 0..MaxRecords]

(* ---------------------------------------------------------------- properties *)

(* The simulation goes past a record only when the master has it: results that *)
(* are lost, repeated calls and stale acknowledgements end the run instead    *)
(* (runtime.py:262-277). What next() reports complete is complete.            *)
RecordReachedMaster == \A r \in Started : caeRuns[r].completed <= got[r]

(* At most one run is alive in the slave, whatever jobs were cut off in the    *)
(* middle of theirs: a start takes the memory of the previous run back.        *)
OneLiveRun == \A r, s \in Started : ~caeRuns[r].closed /\ ~caeRuns[s].closed => r = s

(* Every run is cleaned up and its task ends, even when the master never calls *)
(* again, at any point of the protocol.                                       *)
RunIsCleaned ==
    \A r \in 1..MaxRuns :
        r \in Started ~>
            r \in Started /\ caeRuns[r].closed /\ caeRuns[r].task \in {"none", "over"}
=============================================================================
