---------------------------- MODULE SlaveProofs ----------------------------
(* The parts of the slaves that share no state.                               *)
EXTENDS CaeRun, SimArtifacts, GpuResidency, FiniteSetTheorems, SequenceTheorems, TLAPS

(* The stream of a CAE run, for any number of runs, records and jobs. *)

Tasks == {"none", "computing", "recording", "over"}
Acks == {"none", "open", "set", "expired"}
RunRecords ==
    [job : 1..MaxCaeJobs, closed : BOOLEAN, task : Tasks, sequence : 0..MaxRecords,
     ack : Acks, queue : Seq(0..MaxRecords), pending : 0..MaxRecords,
     completed : 0..MaxRecords]

CaeTyped ==
    /\ caeRuns \in Seq(RunRecords) /\ Len(caeRuns) <= MaxRuns
    /\ serving \in 0..Len(caeRuns)
    /\ caeJob \in 1..MaxCaeJobs
    /\ got \in [1..MaxRuns -> 0..MaxRecords]

(* Where the one record of a run can be while its simulation waits for it: in  *)
(* the queue, in the channel as pending, or acknowledged, and then the master *)
(* has it. While the simulation computes there is none; a run that is over may *)
(* have left its last record in the queue.                                    *)
RecordPlace(run, has) ==
    /\ run.completed <= has /\ run.completed <= run.sequence
    /\ \A i \in 1..Len(run.queue) : run.queue[i] \in {Outcome, run.sequence}
    /\ run.task = "none" => run.queue = <<>> /\ run.pending = 0 /\ run.sequence = 0 /\ run.completed = 0
    /\ run.task = "computing" =>
          run.queue = <<>> /\ run.pending = 0 /\ run.sequence = run.completed
    /\ run.task = "recording" =>
          /\ run.sequence = run.completed + 1
          /\ \/ run.queue = <<run.sequence>> /\ run.pending = 0
             \/ run.queue = <<>> /\ run.pending \in {0, run.sequence}
          /\ run.ack = "set" => run.sequence <= has /\ run.queue = <<>> /\ run.pending = 0

CaeInv ==
    /\ CaeTyped
    /\ \A r \in Started : RecordPlace(caeRuns[r], got[r])
    /\ OneLiveRun

(* A step that changes one run, and never opens a closed one.                 *)
LEMMA OneRunChanges ==
  ASSUME CaeInv, NEW r \in Started, NEW new \in RunRecords, NEW has \in 0..MaxRecords,
         caeRuns' = [caeRuns EXCEPT ![r] = new],
         caeRuns[r].closed => new.closed,
         RecordPlace(new, has),
         got' = [got EXCEPT ![r] = has],
         serving' \in 0..Len(caeRuns),
         caeJob' \in 1..MaxCaeJobs
  PROVE  CaeInv'
<1>1. caeRuns \in Seq(RunRecords) /\ Len(caeRuns) <= MaxRuns /\ r \in 1..Len(caeRuns)
  BY DEF CaeInv, CaeTyped, Started
<1>2. caeRuns' \in Seq(RunRecords) /\ Len(caeRuns') = Len(caeRuns)
  BY <1>1
<1>3. \A s \in 1..Len(caeRuns) : caeRuns'[s] = IF s = r THEN new ELSE caeRuns[s]
  BY <1>1
<1>4. got \in [1..MaxRuns -> 0..MaxRecords] /\ Len(caeRuns) \in Nat
  BY <1>1 DEF CaeInv, CaeTyped
<1>5. \A s \in 1..Len(caeRuns) : got'[s] = IF s = r THEN has ELSE got[s]
  BY <1>1, <1>4, CaeBoundsAssumption
<1>6. CaeTyped'
  BY <1>1, <1>2, <1>4 DEF CaeTyped
<1>7. (\A s \in Started : RecordPlace(caeRuns[s], got[s]))'
  BY <1>2, <1>3, <1>5 DEF CaeInv, Started
<1>8. OneLiveRun'
  <2>1. \A s \in 1..Len(caeRuns) : ~caeRuns'[s].closed => ~caeRuns[s].closed
    BY <1>3
  <2> QED
    BY <2>1, <1>2 DEF CaeInv, OneLiveRun, Started
<1> QED
  BY <1>6, <1>7, <1>8 DEF CaeInv

(* The fields of a run have their types.                                      *)
LEMMA RunFields ==
  ASSUME CaeInv, NEW r \in Started
  PROVE  /\ caeRuns[r] \in RunRecords
         /\ RecordPlace(caeRuns[r], got[r])
         /\ got[r] \in 0..MaxRecords /\ r \in 1..MaxRuns
         /\ got = [got EXCEPT ![r] = got[r]]
<1>1. caeRuns \in Seq(RunRecords) /\ r \in 1..Len(caeRuns) /\ Len(caeRuns) <= MaxRuns
  BY DEF CaeInv, CaeTyped, Started
<1>2. got \in [1..MaxRuns -> 0..MaxRecords]
  BY DEF CaeInv, CaeTyped
<1>3. r \in 1..MaxRuns
  BY <1>1, CaeBoundsAssumption
<1> QED
  BY <1>1, <1>2, <1>3 DEF CaeInv

LEMMA AbortedKeepsPlace ==
  ASSUME NEW run \in RunRecords, NEW has, RecordPlace(run, has)
  PROVE  /\ AbortedRun(run) \in RunRecords /\ AbortedRun(run).closed
         /\ RecordPlace(AbortedRun(run), has)
<1> DEFINE ended == IF run.task = "none" THEN "none" ELSE "over"
           acked == IF run.pending # 0 THEN "none" ELSE run.ack
           new == [run EXCEPT !.closed = TRUE, !.pending = 0, !.ack = acked, !.task = ended]
<1>1. AbortedRun(run) = new
  BY DEF AbortedRun
<1>2. ended \in Tasks /\ acked \in Acks /\ 0 \in 0..MaxRecords /\ ended \in {"none", "over"}
  BY CaeBoundsAssumption DEF RunRecords, Tasks, Acks
<1>3. run.task = "none" <=> ended = "none"
  OBVIOUS
<1> HIDE DEF ended, acked
<1>4. new \in RunRecords
  BY <1>2 DEF RunRecords
<1>5. /\ new.closed /\ new.task = ended /\ new.pending = 0 /\ new.queue = run.queue
      /\ new.sequence = run.sequence /\ new.completed = run.completed
  BY DEF RunRecords
<1> HIDE DEF new
<1>6. RecordPlace(new, has)
  BY <1>2, <1>3, <1>5 DEF RecordPlace
<1> QED
  BY <1>1, <1>4, <1>5, <1>6

LEMMA StartKeepsInv == ASSUME CaeInv, CaeStart PROVE CaeInv'
<1> DEFINE left(r) == IF caeRuns[r].closed THEN caeRuns[r] ELSE AbortedRun(caeRuns[r])
           kept == [r \in Started |-> left(r)]
<1>1. caeRuns \in Seq(RunRecords) /\ Len(caeRuns) < MaxRuns /\ Len(caeRuns) \in Nat
  BY DEF CaeInv, CaeTyped, CaeStart
<1>2. NewRun \in RunRecords
  BY CaeBoundsAssumption DEF NewRun, RunRecords, CaeInv, CaeTyped, Tasks, Acks
<1>3. ASSUME NEW r \in Started
      PROVE  left(r) \in RunRecords /\ left(r).closed /\ RecordPlace(left(r), got[r])
  <2>1. caeRuns[r] \in RunRecords /\ RecordPlace(caeRuns[r], got[r])
    BY <1>3, RunFields
  <2> QED
    BY <2>1, AbortedKeepsPlace DEF RunRecords
<1>4. kept \in Seq(RunRecords) /\ Len(kept) = Len(caeRuns)
  BY <1>1, <1>3 DEF Started
<1>5. caeRuns' = Append(kept, NewRun)
  BY DEF CaeStart
<1>6. /\ caeRuns' \in Seq(RunRecords) /\ Len(caeRuns') = Len(caeRuns) + 1
      /\ \A r \in 1..Len(caeRuns) : caeRuns'[r] = left(r)
      /\ caeRuns'[Len(caeRuns) + 1] = NewRun
  BY <1>1, <1>2, <1>4, <1>5 DEF Started
<1>7. got' = got /\ caeJob' = caeJob /\ serving' = NoRun
  BY DEF CaeStart
<1>8. CaeTyped'
  BY <1>1, <1>6, <1>7, CaeBoundsAssumption DEF CaeInv, CaeTyped, NoRun
<1>9. (\A r \in Started : RecordPlace(caeRuns[r], got[r]))'
  <2>1. ASSUME NEW r \in 1..(Len(caeRuns) + 1)
        PROVE  RecordPlace(caeRuns'[r], got[r])
    <3>1. CASE r \in Started
      BY <1>3, <1>6, <3>1 DEF Started
    <3>2. CASE r = Len(caeRuns) + 1
      <4>1. got[r] \in Nat
        BY <1>1, <3>2, CaeBoundsAssumption DEF CaeInv, CaeTyped
      <4> QED
        BY <1>6, <3>2, <4>1 DEF NewRun, RecordPlace, NoRun, Outcome
    <3> QED
      BY <3>1, <3>2, <1>1 DEF Started
  <2> QED
    BY <2>1, <1>6, <1>7 DEF Started
<1>10. OneLiveRun'
  <2>1. \A r \in 1..(Len(caeRuns) + 1) : ~caeRuns'[r].closed => r = Len(caeRuns) + 1
    BY <1>1, <1>3, <1>6 DEF Started
  <2> QED
    BY <2>1, <1>6 DEF OneLiveRun, Started
<1> QED
  BY <1>8, <1>9, <1>10 DEF CaeInv

LEMMA NextKeepsInv == ASSUME CaeInv, NEW r \in Started, NEW ack \in 0..MaxRecords, CaeNext(r, ack)
                      PROVE  CaeInv'
<1>1. caeRuns[r] \in RunRecords /\ RecordPlace(caeRuns[r], got[r]) /\ got[r] \in 0..MaxRecords
  BY RunFields
<1>2. got' = [got EXCEPT ![r] = got[r]] /\ caeJob' \in 1..MaxCaeJobs /\ ack <= got[r]
  BY RunFields, <1>1 DEF CaeNext, CaeInv, CaeTyped
<1>3. r \in 1..Len(caeRuns) /\ Len(caeRuns) \in Nat /\ serving \in 0..Len(caeRuns)
  BY DEF CaeInv, CaeTyped, Started
<1>4. CASE Acknowledged(caeRuns[r], ack)
  <2> DEFINE old == caeRuns[r]
             acked == IF old.pending # 0 /\ old.ack = "open" THEN "set" ELSE old.ack
             task == IF old.task = "none" THEN "computing" ELSE old.task
             new == [job |-> old.job, closed |-> old.closed, task |-> task,
                     sequence |-> old.sequence, ack |-> acked, queue |-> old.queue,
                     pending |-> 0, completed |-> old.completed]
  <2>1. caeRuns' = [caeRuns EXCEPT ![r] = new] /\ serving' = r
    BY <1>1, <1>3, <1>4 DEF CaeNext, RunRecords
  <2>2. acked \in Acks /\ task \in Tasks
    BY <1>1 DEF RunRecords, Acks, Tasks
  <2>3. new \in RunRecords
    BY <1>1, <2>2, CaeBoundsAssumption DEF RunRecords
  <2>4. RecordPlace(new, got[r])
    BY <1>1, <1>2, <1>4 DEF Acknowledged, RunRecords, RecordPlace, Tasks, Acks
  <2>5. caeRuns[r].closed => new.closed
    OBVIOUS
  <2>6. serving' \in 0..Len(caeRuns)
    BY <1>3, <2>1
  <2> HIDE DEF new, old, acked, task
  <2> QED
    BY <1>1, <1>2, <2>1, <2>3, <2>4, <2>5, <2>6, OneRunChanges
<1>5. CASE ~Acknowledged(caeRuns[r], ack)
  <2>1. caeRuns' = [caeRuns EXCEPT ![r] = AbortedRun(caeRuns[r])] /\ serving' = serving
    BY <1>5 DEF CaeNext
  <2> QED
    BY <1>1, <1>2, <1>3, <2>1, AbortedKeepsPlace, OneRunChanges
<1> QED
  BY <1>4, <1>5

LEMMA DeliverKeepsInv == ASSUME CaeInv, CaeDeliver PROVE CaeInv'
<1> DEFINE r == serving
           old == caeRuns[r]
           item == Head(old.queue)
           new == DeliveredRun(old)
<1>1. r \in Started /\ r \in 1..Len(caeRuns)
  BY DEF CaeInv, CaeTyped, CaeDeliver, NoRun, Started
<1>2. old \in RunRecords /\ RecordPlace(old, got[r]) /\ got[r] \in 0..MaxRecords
      /\ got = [got EXCEPT ![r] = got[r]]
  BY <1>1, RunFields
<1>3. caeRuns' = [caeRuns EXCEPT ![r] = new] /\ old.queue # <<>>
      /\ serving' = 0 /\ caeJob' = caeJob
      /\ (got' = got \/ (item # Outcome /\ got' = [got EXCEPT ![r] = item]))
  BY DEF CaeDeliver, NoRun
<1>4. old.queue \in Seq(0..MaxRecords) /\ old.queue # <<>> /\ old.sequence \in Nat /\ old.closed \in BOOLEAN
      /\ old.completed \in Nat /\ old.task \in Tasks
  BY <1>2, <1>3, CaeBoundsAssumption DEF RunRecords
<1>5. /\ item \in 0..MaxRecords /\ Tail(old.queue) \in Seq(0..MaxRecords)
      /\ Len(Tail(old.queue)) = Len(old.queue) - 1 /\ Len(old.queue) \in Nat \ {0}
      /\ item = old.queue[1]
      /\ \A i \in 1..(Len(old.queue) - 1) : Tail(old.queue)[i] = old.queue[i + 1]
  <2> DEFINE q == old.queue
  <2>1. q \in Seq(0..MaxRecords) /\ q # <<>>
    BY <1>4
  <2> HIDE DEF q
  <2>2. /\ Head(q) \in 0..MaxRecords /\ Tail(q) \in Seq(0..MaxRecords)
        /\ Len(Tail(q)) = Len(q) - 1
        /\ \A i \in 1..Len(Tail(q)) : Tail(q)[i] = q[i + 1]
    BY <2>1, HeadTailProperties, Zenon
  <2>3. Len(q) \in Nat \ {0} /\ Head(q) = q[1]
    BY <2>1
  <2> QED
    BY <2>2, <2>3 DEF q
<1>6. item \in {Outcome, old.sequence}
  BY <1>2, <1>5 DEF RecordPlace
<1>7. old.task = "recording" => Tail(old.queue) = <<>> /\ item = old.sequence
  BY <1>2, <1>3, <1>4 DEF RecordPlace
<1>8. old.task \in {"recording", "over"}
  BY <1>2, <1>3, <1>4 DEF RecordPlace, Tasks
<1>9. new \in RunRecords
  BY <1>2, <1>4, <1>5 DEF RunRecords, DeliveredRun
<1>10. /\ new.queue = Tail(old.queue) /\ new.pending = item /\ new.task = old.task
       /\ new.sequence = old.sequence /\ new.completed = old.completed /\ new.ack = old.ack
       /\ new.closed = (old.closed \/ item = Outcome)
  BY <1>2 DEF RunRecords, DeliveredRun
<1>11. \A i \in 1..Len(new.queue) : new.queue[i] \in {Outcome, new.sequence}
  <2>1. \A i \in 1..Len(new.queue) : i + 1 \in 1..Len(old.queue)
    BY <1>5, <1>10
  <2>2. \A i \in 1..Len(old.queue) : old.queue[i] \in {Outcome, old.sequence}
    BY <1>2 DEF RecordPlace
  <2> QED
    BY <2>1, <2>2, <1>5, <1>10
<1>12. ASSUME NEW has \in {got[r], item}, has = got[r] \/ item # Outcome
       PROVE  RecordPlace(new, has)
  <2>1. old.completed <= has
    BY <1>2, <1>4, <1>6, <1>12 DEF RecordPlace, Outcome
  <2>2. old.task = "recording" =>
          /\ old.sequence = old.completed + 1
          /\ old.ack # "set"
    BY <1>2, <1>3, <1>4, <1>7, <1>12 DEF RecordPlace
  <2>3. old.completed <= old.sequence
    BY <1>2 DEF RecordPlace
  <2> HIDE DEF new
  <2> QED
    BY <1>7, <1>8, <1>10, <1>11, <2>1, <2>2, <2>3 DEF RecordPlace
<1>13. old.closed => new.closed
  BY <1>10
<1>14. caeJob' \in 1..MaxCaeJobs /\ serving' \in 0..Len(caeRuns)
  BY <1>3 DEF CaeInv, CaeTyped
<1> HIDE DEF new, item
<1>15. CASE got' = got
  <2>1. got' = [got EXCEPT ![r] = got[r]]
    BY <1>15, <1>2
  <2> QED
    BY <1>1, <1>2, <1>3, <1>9, <1>12, <1>13, <1>14, <2>1, OneRunChanges
<1>16. CASE item # Outcome /\ got' = [got EXCEPT ![r] = item]
  BY <1>1, <1>2, <1>3, <1>5, <1>9, <1>12, <1>13, <1>14, <1>16, OneRunChanges
<1> QED
  BY <1>3, <1>15, <1>16

(* What a step of one run takes from the invariant and may leave alone.       *)
LEMMA StepInPlace ==
  ASSUME CaeInv, NEW r \in Started, NEW new \in RunRecords,
         caeRuns' = [caeRuns EXCEPT ![r] = new],
         caeRuns[r].closed => new.closed,
         RecordPlace(new, got[r]),
         got' = got, caeJob' = caeJob, serving' \in {serving, NoRun}
  PROVE  CaeInv'
<1>1. got' = [got EXCEPT ![r] = got[r]] /\ got[r] \in 0..MaxRecords
  BY RunFields
<1>2. serving' \in 0..Len(caeRuns) /\ caeJob' \in 1..MaxCaeJobs
  BY DEF CaeInv, CaeTyped, NoRun
<1> QED
  BY <1>1, <1>2, OneRunChanges

LEMMA CancelKeepsInv == ASSUME CaeInv, CaeCancel PROVE CaeInv'
<1> DEFINE old == caeRuns[serving]
           new == OverRun(old)
<1>1. serving \in Started
  BY DEF CaeInv, CaeTyped, CaeCancel, NoRun, Started
<1>2. old \in RunRecords /\ RecordPlace(old, got[serving])
  BY <1>1, RunFields
<1>3. new \in RunRecords /\ new.closed
  BY <1>2 DEF OverRun, RunRecords, Tasks
<1>4. RecordPlace(new, got[serving])
  BY <1>2 DEF OverRun, RunRecords, RecordPlace, Tasks
<1> HIDE DEF new
<1>5. caeRuns' = [caeRuns EXCEPT ![serving] = new]
  BY DEF CaeCancel, new
<1> QED
  BY <1>1, <1>3, <1>4, <1>5, StepInPlace DEF CaeCancel

LEMMA RecordKeepsInv == ASSUME CaeInv, NEW r \in Started, Record(r) PROVE CaeInv'
<1> DEFINE old == caeRuns[r]
           new == RecordingRun(old)
<1>1. old \in RunRecords /\ RecordPlace(old, got[r]) /\ old.task = "computing"
      /\ old.sequence < MaxRecords
  BY RunFields DEF Record
<1>2. old.queue = <<>> /\ old.pending = 0 /\ old.sequence = old.completed
      /\ old.completed <= got[r] /\ old.sequence \in 0..MaxRecords
  BY <1>1 DEF RecordPlace, RunRecords
<1>3. Append(old.queue, old.sequence + 1) = <<old.sequence + 1>>
      /\ old.sequence + 1 \in 0..MaxRecords
  BY <1>1, <1>2, CaeBoundsAssumption
<1>4. new \in RunRecords
  <2>1. Append(old.queue, old.sequence + 1) \in Seq(0..MaxRecords)
    BY <1>1, <1>3, AppendProperties DEF RunRecords
  <2>2. "open" \in Acks /\ "recording" \in Tasks
    BY DEF Tasks, Acks
  <2> QED
    BY <1>1, <1>3, <2>1, <2>2 DEF RunRecords, RecordingRun
<1>5. /\ new.queue = <<old.sequence + 1>> /\ new.pending = 0 /\ new.task = "recording"
      /\ new.sequence = old.sequence + 1 /\ new.completed = old.completed
      /\ new.ack = "open" /\ new.closed = old.closed
  BY <1>1, <1>2, <1>3 DEF RunRecords, RecordingRun
<1>6. caeRuns' = [caeRuns EXCEPT ![r] = new]
  BY DEF Record
<1> HIDE DEF new
<1>7. RecordPlace(new, got[r])
  BY <1>2, <1>5, CaeBoundsAssumption DEF RecordPlace
<1> QED
  BY <1>4, <1>5, <1>6, <1>7, StepInPlace DEF Record

LEMMA RecordedKeepsInv == ASSUME CaeInv, NEW r \in Started, Recorded(r) PROVE CaeInv'
<1> DEFINE old == caeRuns[r]
           new == RecordedRun(old)
<1>1. old \in RunRecords /\ RecordPlace(old, got[r]) /\ got[r] \in 0..MaxRecords
      /\ old.task = "recording" /\ old.ack = "set"
  BY RunFields DEF Recorded
<1>2. old.queue = <<>> /\ old.pending = 0 /\ old.sequence = old.completed + 1
      /\ old.sequence <= got[r] /\ old.sequence \in 0..MaxRecords /\ old.completed \in 0..MaxRecords
  BY <1>1 DEF RecordPlace, RunRecords
<1>3. old.completed + 1 \in 0..MaxRecords
  BY <1>2
<1>4. new \in RunRecords
  BY <1>1, <1>3 DEF RunRecords, Tasks, RecordedRun
<1>5. /\ new.queue = <<>> /\ new.pending = 0 /\ new.task = "computing"
      /\ new.sequence = old.sequence /\ new.completed = old.completed + 1
      /\ new.closed = old.closed
  BY <1>1, <1>2 DEF RunRecords, RecordedRun
<1>6. caeRuns' = [caeRuns EXCEPT ![r] = new]
  BY DEF Recorded
<1> HIDE DEF new
<1>7. RecordPlace(new, got[r])
  BY <1>1, <1>2, <1>5, CaeBoundsAssumption DEF RecordPlace
<1> QED
  BY <1>4, <1>5, <1>6, <1>7, StepInPlace DEF Recorded

LEMMA EndKeepsInv ==
  ASSUME CaeInv, NEW r \in Started, caeRuns[r].task # "none", EndTask(r)
  PROVE  CaeInv'
<1> DEFINE old == caeRuns[r]
           new == EndedRun(old)
<1>1. old \in RunRecords /\ RecordPlace(old, got[r])
  BY RunFields
<1>2. old.queue \in Seq(0..MaxRecords) /\ Outcome \in 0..MaxRecords
  BY <1>1, CaeBoundsAssumption DEF RunRecords, Outcome
<1>3. /\ Append(old.queue, Outcome) \in Seq(0..MaxRecords)
      /\ Len(Append(old.queue, Outcome)) = Len(old.queue) + 1 /\ Len(old.queue) \in Nat
      /\ \A i \in 1..Len(old.queue) : Append(old.queue, Outcome)[i] = old.queue[i]
      /\ Append(old.queue, Outcome)[Len(old.queue) + 1] = Outcome
  BY <1>2
<1>4. new \in RunRecords
  BY <1>1, <1>3 DEF RunRecords, Tasks, EndedRun
<1>5. /\ new.queue = Append(old.queue, Outcome) /\ new.task = "over"
      /\ new.sequence = old.sequence /\ new.completed = old.completed /\ new.closed = old.closed
  BY <1>1 DEF RunRecords, EndedRun
<1>6. caeRuns' = [caeRuns EXCEPT ![r] = new]
  BY DEF EndTask
<1> HIDE DEF new
<1>7. \A i \in 1..Len(new.queue) : new.queue[i] \in {Outcome, new.sequence}
  <2>1. \A i \in 1..Len(old.queue) : old.queue[i] \in {Outcome, old.sequence}
    BY <1>1 DEF RecordPlace
  <2>2. \A i \in 1..Len(new.queue) : i \in 1..Len(old.queue) \/ i = Len(old.queue) + 1
    BY <1>3, <1>5
  <2> QED
    BY <2>1, <2>2, <1>3, <1>5
<1>8. RecordPlace(new, got[r])
  BY <1>1, <1>5, <1>7 DEF RecordPlace
<1> QED
  BY <1>4, <1>5, <1>6, <1>8, StepInPlace DEF EndTask

LEMMA WatchdogKeepsInv == ASSUME CaeInv, NEW r \in Started, Watchdog(r) PROVE CaeInv'
<1> DEFINE old == caeRuns[r]
<1>1. old \in RunRecords /\ RecordPlace(old, got[r])
  BY RunFields
<1>2. CASE FirstNextTimeout(r)
  <2> DEFINE new == ClosedRun(old)
  <2>1. new \in RunRecords /\ new.closed
    BY <1>1 DEF ClosedRun, RunRecords
  <2>2. RecordPlace(new, got[r])
    BY <1>1 DEF ClosedRun, RunRecords, RecordPlace
  <2>3. caeRuns' = [caeRuns EXCEPT ![r] = new]
    BY <1>2 DEF FirstNextTimeout
  <2> HIDE DEF new
  <2> QED
    BY <1>2, <2>1, <2>2, <2>3, StepInPlace DEF FirstNextTimeout
<1>3. CASE RecordAckTimeout(r)
  <2> DEFINE new == ClosedRun(ExpiredRun(old))
  <2>1. new \in RunRecords /\ new.closed
    <3>1. ExpiredRun(old) \in RunRecords
      <4>1. "expired" \in Acks /\ 0 \in 0..MaxRecords
        BY CaeBoundsAssumption DEF Acks
      <4> QED
        BY <1>1, <4>1 DEF ExpiredRun, RunRecords
    <3> QED
      BY <3>1 DEF ClosedRun, RunRecords
  <2>2. /\ new.queue = old.queue /\ new.pending = 0 /\ new.task = old.task
        /\ new.sequence = old.sequence /\ new.completed = old.completed /\ new.ack = "expired"
    BY <1>1 DEF ClosedRun, ExpiredRun, RunRecords
  <2>3. caeRuns' = [caeRuns EXCEPT ![r] = new]
    BY <1>3 DEF RecordAckTimeout
  <2> HIDE DEF new
  <2>4. RecordPlace(new, got[r])
    BY <1>1, <2>2 DEF RecordPlace
  <2> QED
    BY <1>3, <2>1, <2>3, <2>4, StepInPlace DEF RecordAckTimeout
<1> QED
  BY <1>2, <1>3 DEF Watchdog

LEMMA CaeInvHolds == CaeSpec => []CaeInv
<1>1. CaeInit => CaeInv
  <2> SUFFICES ASSUME CaeInit PROVE CaeInv
    OBVIOUS
  <2>1. caeRuns = <<>> /\ Len(caeRuns) = 0 /\ <<>> \in Seq(RunRecords) /\ Started = {}
    BY DEF CaeInit, Started
  <2>2. CaeTyped
    BY <2>1, CaeBoundsAssumption DEF CaeInit, CaeTyped, NoRun
  <2> QED
    BY <2>1, <2>2 DEF CaeInv, OneLiveRun
<1>2. CaeInv /\ [CaeNextState]_caeVars => CaeInv'
  <2> SUFFICES ASSUME CaeInv, [CaeNextState]_caeVars PROVE CaeInv'
    OBVIOUS
  <2>1. CASE CaeStart
    BY <2>1, StartKeepsInv
  <2>2. CASE CaeDeliver
    BY <2>2, DeliverKeepsInv
  <2>3. CASE CaeCancel
    BY <2>3, CancelKeepsInv
  <2>4. CASE NextCaeJob
    <3>1. caeRuns' = caeRuns /\ serving' = serving /\ got' = got
          /\ caeJob' \in 1..MaxCaeJobs
      BY <2>4, CaeBoundsAssumption DEF NextCaeJob, CaeInv, CaeTyped
    <3>2. CaeTyped'
      BY <3>1 DEF CaeInv, CaeTyped
    <3> QED
      BY <3>1, <3>2 DEF CaeInv, OneLiveRun, Started
  <2>5. ASSUME NEW r \in Started, NEW ack \in 0..MaxRecords, CaeNext(r, ack) PROVE CaeInv'
    BY <2>5, NextKeepsInv
  <2>6. ASSUME NEW r \in Started, Record(r) PROVE CaeInv'
    BY <2>6, RecordKeepsInv
  <2>7. ASSUME NEW r \in Started, SimulationEnds(r) PROVE CaeInv'
    BY <2>7, EndKeepsInv DEF SimulationEnds
  <2>8. ASSUME NEW r \in Started, TaskStep(r) PROVE CaeInv'
    BY <2>8, EndKeepsInv, RecordedKeepsInv DEF TaskStep, RecordFails, RunTimeout
  <2>9. ASSUME NEW r \in Started, Watchdog(r) PROVE CaeInv'
    BY <2>9, WatchdogKeepsInv
  <2>10. CASE UNCHANGED caeVars
    BY <2>10 DEF caeVars, CaeInv, CaeTyped, OneLiveRun, Started
  <2> QED
    BY <2>1, <2>2, <2>3, <2>4, <2>5, <2>6, <2>7, <2>8, <2>9, <2>10 DEF CaeNextState
<1> QED
  BY <1>1, <1>2, PTL DEF CaeSpec

(* Every variable of the streaming protocol keeps its type, for any number of  *)
(* runs, records and jobs.                                                    *)
THEOREM CaeTypesHold == CaeSpec => []CaeTypeOK
<1>1. CaeInv => CaeTypeOK
  <2> SUFFICES ASSUME CaeInv PROVE CaeTypeOK
    OBVIOUS
  <2>1. ASSUME NEW r \in Started PROVE caeRuns[r] \in RunRecords
    BY RunFields
  <2> QED
    BY <2>1 DEF CaeInv, CaeTyped, CaeTypeOK, RunRecords, Tasks, Acks
<1> QED
  BY <1>1, CaeInvHolds, PTL

(* The simulation goes past a record only when the master has it              *)
(* (runtime.py:262-277).                                                      *)
THEOREM RecordsReachMaster == CaeSpec => []RecordReachedMaster
<1>1. CaeInv => RecordReachedMaster
  BY DEF CaeInv, RecordPlace, RecordReachedMaster
<1> QED
  BY <1>1, CaeInvHolds, PTL

(* A start ends whatever run an earlier job has left (handlers.py:83-90).     *)
THEOREM RunsAreExclusive == CaeSpec => []OneLiveRun
<1>1. CaeInv => OneLiveRun
  BY DEF CaeInv
<1> QED
  BY <1>1, CaeInvHolds, PTL

-----------------------------------------------------------------------------
(* Whatever a simulation program makes, passes on and releases. *)

Outputs == {v \in DOMAIN heap : v[2] = "output"}
ResultPlaces == {"output", "joule", "density", "ticks", "jouleField", "densityField",
                 "temperature", "field", "state", "stateField"}

(* The objects are those of the sim.run calls so far, and refer to each other. *)
HeapOfCalls ==
    /\ IsFiniteSet(Outputs)
    /\ \A v \in DOMAIN heap : v \in (1..SimCalls) \X ResultPlaces /\ heap[v] \subseteq DOMAIN heap

(* What is missing from a table has been emptied, and for that a program has  *)
(* released something that had it.                                            *)
TablesKeepUp ==
    /\ DOMAIN heap \ releasable \subseteq emptied
    /\ Values(ArtifactPlaces) \ provenance \subseteq emptied
    /\ Values({"state"}) \ DOMAIN revisions \subseteq emptied
    /\ asked \subseteq DOMAIN heap
    /\ \A v \in emptied : \E x \in asked : v \in Contents(heap, x)

SimInv == HeapOfCalls /\ TablesKeepUp /\ SimTypeOK /\ RefusalIsDeserved

LEMMA OfContents ==
  ASSUME NEW objects, NEW value, NEW v
  PROVE  v \in Contents(objects, value) <=>
            \/ v = value \/ v \in objects[value]
            \/ \E w \in objects[value] : v \in objects[w]
BY DEF Contents

LEMMA ContentsInHeap ==
  ASSUME HeapOfCalls, NEW value \in DOMAIN heap
  PROVE  Contents(heap, value) \subseteq DOMAIN heap /\ value \in Contents(heap, value)
BY OfContents DEF HeapOfCalls

(* What an emptied object makes fail was asked for. *)
LEMMA RefuseDeserved ==
  ASSUME SimInv, refused = NoValue, NEW value \in DOMAIN heap, Refuse(value),
         ~Whole(value)
  PROVE  SimInv'
<1>1. PICK v \in emptied : v \in Contents(heap, value)
  BY DEF Whole
<1>2. PICK x \in asked : v \in Contents(heap, x)
  BY DEF SimInv, TablesKeepUp
<1>3. Contents(heap, x) \cap Contents(heap, value) # {}
  BY <1>1, <1>2
<1>4. SimTypeOK'
  BY DEF Refuse, SimInv, SimTypeOK, SimCalls, Values
<1>5. HeapOfCalls'
  BY DEF Refuse, SimInv, HeapOfCalls, Outputs, SimCalls
<1>7. TablesKeepUp'
  <2>1. Values(ArtifactPlaces)' = Values(ArtifactPlaces) /\ Values({"state"})' = Values({"state"})
    BY DEF Refuse, Values
  <2>2. \A e, y : (e \in Contents(heap, y))' <=> e \in Contents(heap, y)
    BY DEF Refuse, Contents
  <2> QED
    BY <2>1, <2>2 DEF Refuse, SimInv, TablesKeepUp
<1>6. RefusalIsDeserved'
  BY <1>3 DEF Refuse, RefusalIsDeserved, Contents
<1> QED
  BY <1>4, <1>5, <1>6, <1>7 DEF SimInv

(* A result is one object that has all the others in it. *)
LEMMA ResultIsOneGraph ==
  ASSUME NEW kernel \in DOMAIN PlacesOf
  PROVE  /\ PlacesOf[kernel] \subseteq ResultPlaces /\ "output" \in PlacesOf[kernel]
         /\ \A place \in PlacesOf[kernel] :
               \/ place = "output" \/ place \in ItemsOf("output")
               \/ \E via \in ItemsOf("output") \cap PlacesOf[kernel] : place \in ItemsOf(via)
<1>1. /\ ItemsOf("output") = ArtifactPlaces \cup {"state"}
      /\ ItemsOf("joule") = {"jouleField", "ticks"}
      /\ ItemsOf("density") = {"densityField", "ticks"}
      /\ ItemsOf("temperature") = {"field"} /\ ItemsOf("state") = {"stateField"}
  BY DEF ItemsOf
<1>2. CASE kernel = "dc"
  BY <1>1, <1>2 DEF PlacesOf, ResultPlaces, ArtifactPlaces
<1>3. CASE kernel = "heat"
  BY <1>1, <1>3 DEF PlacesOf, ResultPlaces, ArtifactPlaces
<1>4. CASE kernel = "transient"
  BY <1>1, <1>4 DEF PlacesOf, ResultPlaces, ArtifactPlaces
<1> QED
  BY <1>2, <1>3, <1>4 DEF PlacesOf

LEMMA SimRunKeepsInv ==
  ASSUME SimInv, refused = NoValue, NEW kernel \in Kernels,
         NEW state \in Values({"state"}) \cup {NoValue},
         NEW input \in Values({"joule"}) \cup {NoValue},
         SimRun(kernel, state, input)
  PROVE  SimInv'
<1> DEFINE result == ResultOf(kernel, state)
           next == SimCalls + 1
           new == And(heap, result)
<1> USE DEF SimInv
<1>0. Values({"state"}) \subseteq DOMAIN heap /\ Values({"joule"}) \subseteq Values(ArtifactPlaces)
  BY DEF Values, ArtifactPlaces
<1>1. CASE ~LiveState(state)
  <2>1. state \in emptied /\ state \in DOMAIN heap /\ Refuse(state)
    BY <1>0, <1>1 DEF LiveState, SimRun, TablesKeepUp
  <2> QED
    BY <2>1, ContentsInHeap, RefuseDeserved DEF Whole
<1>2. CASE LiveState(state) /\ (~LiveArtifact(input) \/ (input # NoValue /\ ~Whole(input)))
  <2>1. input \in DOMAIN heap /\ Refuse(input)
    BY <1>0, <1>2 DEF LiveArtifact, SimRun, Values
  <2>2. input \in emptied \/ ~Whole(input)
    BY <1>0, <1>2, <2>1 DEF LiveArtifact, TablesKeepUp
  <2> QED
    BY <2>1, <2>2, ContentsInHeap, RefuseDeserved DEF Whole
<1>3. CASE LiveState(state) /\ LiveArtifact(input) /\ ~(input # NoValue /\ ~Whole(input))
  <2>1. /\ heap' = new /\ refused' = NoValue
        /\ releasable' = releasable \cup Contents(new, <<next, "output">>)
        /\ provenance' = provenance \cup {v \in DOMAIN result : v[2] \in ArtifactPlaces}
        /\ revisions' = StateRevisions(DOMAIN result)
        /\ emptied' = emptied /\ asked' = asked
    BY <1>3 DEF SimRun, Registered
  <2>2. SimCalls \in Nat /\ kernel \in DOMAIN PlacesOf
    BY FS_CardinalityType, KernelsAssumption DEF HeapOfCalls, Outputs, SimCalls
  <2>3. /\ DOMAIN result = {<<next, place>> : place \in PlacesOf[kernel]}
        /\ \A place \in PlacesOf[kernel] : result[<<next, place>>] =
             {<<next, item>> : item \in ItemsOf(place) \cap PlacesOf[kernel]}
               \cup IF place = "output" /\ "state" \notin PlacesOf[kernel]
                    THEN {state} \ {NoValue} ELSE {}
    BY DEF ResultOf
  <2>4. DOMAIN result \cap DOMAIN heap = {}
    BY <2>2, <2>3 DEF HeapOfCalls
  <2>5. /\ DOMAIN new = DOMAIN heap \cup DOMAIN result
        /\ \A v \in DOMAIN heap : new[v] = heap[v]
        /\ \A v \in DOMAIN result : new[v] = result[v]
    BY <2>4 DEF And
  <2>6. \A v \in DOMAIN new : new[v] \subseteq DOMAIN new
    BY <1>0, <2>3, <2>5 DEF HeapOfCalls
  <2>7. DOMAIN result \subseteq Contents(new, <<next, "output">>)
    <3> SUFFICES ASSUME NEW place \in PlacesOf[kernel]
                 PROVE  <<next, place>> \in Contents(new, <<next, "output">>)
      BY <2>3
    <3>1. CASE place = "output"
      BY <3>1, OfContents
    <3>2. CASE place \in ItemsOf("output")
      <4>1. <<next, place>> \in new[<<next, "output">>]
        BY <2>2, <2>3, <2>5, <3>2, ResultIsOneGraph
      <4> QED
        BY <4>1, OfContents
    <3>3. ASSUME NEW via \in ItemsOf("output") \cap PlacesOf[kernel], place \in ItemsOf(via)
          PROVE  <<next, place>> \in Contents(new, <<next, "output">>)
      <4>1. <<next, via>> \in new[<<next, "output">>] /\ <<next, place>> \in new[<<next, via>>]
        BY <2>2, <2>3, <2>5, <3>3, ResultIsOneGraph
      <4> QED
        BY <4>1, OfContents
    <3> QED
      BY <2>2, <3>1, <3>2, <3>3, ResultIsOneGraph
  <2>8. \A v \in DOMAIN heap : Contents(new, v) = Contents(heap, v)
    <3> SUFFICES ASSUME NEW v \in DOMAIN heap, NEW w
                 PROVE  w \in Contents(new, v) <=> w \in Contents(heap, v)
      BY DEF Contents
    <3> QED
      BY <2>5, OfContents DEF HeapOfCalls
  <2>9. Outputs' = Outputs \cup {<<next, "output">>} /\ <<next, "output">> \notin Outputs
    <3>1. <<next, "output">> \in DOMAIN result
      BY <2>2, <2>3, ResultIsOneGraph
    <3>2. \A v \in DOMAIN result : v[2] = "output" <=> v = <<next, "output">>
      BY <2>3
    <3> QED
      BY <2>1, <2>4, <2>5, <3>1, <3>2 DEF Outputs
  <2>10. IsFiniteSet(Outputs') /\ SimCalls' = next
    <3>1. SimCalls = Cardinality(Outputs) /\ SimCalls' = Cardinality(Outputs')
      BY DEF SimCalls, Outputs
    <3> QED
      BY <2>9, <3>1, FS_AddElement DEF HeapOfCalls
  <2>11. HeapOfCalls'
    <3>1. \A v \in DOMAIN result : v \in (1..next) \X ResultPlaces
      BY <2>2, <2>3, ResultIsOneGraph
    <3>2. \A v \in DOMAIN heap : v \in (1..next) \X ResultPlaces
      BY <2>2 DEF HeapOfCalls
    <3> QED
      BY <2>1, <2>5, <2>6, <2>10, <3>1, <3>2 DEF HeapOfCalls
  <2>12. TablesKeepUp'
    <3>1. (DOMAIN heap \ releasable)' \subseteq emptied
      BY <2>1, <2>5, <2>7 DEF TablesKeepUp
    <3>2. (Values(ArtifactPlaces) \ provenance)' \subseteq emptied
      BY <2>1, <2>5 DEF TablesKeepUp, Values
    <3>3. (Values({"state"}) \ DOMAIN revisions)' \subseteq emptied
      BY <2>1, <2>5 DEF TablesKeepUp, Values, StateRevisions, And
    <3>4. asked \subseteq DOMAIN new
      BY <2>5 DEF TablesKeepUp
    <3>5. \A v \in emptied : \E x \in asked : v \in Contents(new, x)
      BY <2>8 DEF TablesKeepUp
    <3> QED
      BY <2>1, <3>1, <3>2, <3>3, <3>4, <3>5 DEF TablesKeepUp
  <2>13. RefusalIsDeserved'
    BY <2>1 DEF RefusalIsDeserved
  <2>14. SimTypeOK'
    <3>1. SimCalls' <= MaxSimRuns
      BY <1>3, <2>2, <2>10, KernelsAssumption DEF SimRun
    <3>2. provenance' \subseteq Values(ArtifactPlaces)'
      BY <2>1, <2>5 DEF SimTypeOK, Values
    <3>3. DOMAIN revisions' \subseteq Values({"state"})'
      BY <2>1, <2>5 DEF SimTypeOK, Values, StateRevisions, And
    <3>4. Contents(new, <<next, "output">>) \subseteq DOMAIN new
      <4>1. <<next, "output">> \in DOMAIN new
        BY <2>2, <2>3, <2>5, ResultIsOneGraph
      <4> HIDE DEF new, next
      <4> QED
        BY <2>6, <4>1, OfContents
    <3>5. (emptied \cup releasable \cup asked)' \subseteq DOMAIN heap'
      BY <2>1, <2>5, <3>4 DEF SimTypeOK
    <3> QED
      BY <2>1, <3>1, <3>2, <3>3, <3>5 DEF SimTypeOK
  <2> QED
    BY <2>11, <2>12, <2>13, <2>14
<1> QED
  BY <1>1, <1>2, <1>3

LEMMA SimReleaseKeepsInv ==
  ASSUME SimInv, refused = NoValue, NEW value \in DOMAIN heap, SimRelease(value)
  PROVE  SimInv'
<1> USE DEF SimInv
<1>1. CASE Contents(heap, value) \subseteq releasable
  <2> DEFINE released == Contents(heap, value)
  <2>1. /\ emptied' = emptied \cup released /\ releasable' = releasable \ released
        /\ provenance' = provenance \ released
        /\ DOMAIN revisions' = DOMAIN revisions \ released
        /\ asked' = asked \cup {value} /\ heap' = heap /\ refused' = NoValue
    BY <1>1 DEF SimRelease, EmptiedWith
  <2>2. HeapOfCalls' /\ RefusalIsDeserved'
    BY <2>1 DEF HeapOfCalls, Outputs, SimCalls, RefusalIsDeserved
  <2>3. \A v \in emptied' : \E x \in asked' : v \in Contents(heap, x)
    BY <2>1 DEF TablesKeepUp
  <2>4. TablesKeepUp'
    BY <2>1, <2>3 DEF TablesKeepUp, Values
  <2>5. SimTypeOK'
    BY <1>1, <2>1 DEF SimTypeOK, SimCalls, Values
  <2> QED
    BY <2>2, <2>4, <2>5
<1>2. CASE ~(Contents(heap, value) \subseteq releasable)
  <2>1. ~Whole(value)
    BY <1>2, ContentsInHeap DEF TablesKeepUp, Whole
  <2> QED
    BY <1>2, <2>1, RefuseDeserved DEF SimRelease
<1> QED
  BY <1>1, <1>2

LEMMA SimInvHolds == SimSpec => []SimInv
<1>1. SimInit => SimInv
  <2> SUFFICES ASSUME SimInit PROVE SimInv
    OBVIOUS
  <2>1. DOMAIN heap = {} /\ Outputs = {}
    BY DEF SimInit, Outputs
  <2> QED
    BY <2>1, FS_EmptySet, KernelsAssumption
       DEF SimInit, SimInv, HeapOfCalls, TablesKeepUp, SimTypeOK, RefusalIsDeserved, Values,
           SimCalls, Outputs
<1>2. SimInv /\ [SimNext]_simVars => SimInv'
  <2> SUFFICES ASSUME SimInv, [SimNext]_simVars PROVE SimInv'
    OBVIOUS
  <2>1. CASE UNCHANGED simVars
    <3> USE <2>1 DEF simVars, SimInv
    <3>1. HeapOfCalls'
      BY DEF HeapOfCalls, Outputs, SimCalls
    <3>2. TablesKeepUp'
      BY DEF TablesKeepUp, Values
    <3>3. RefusalIsDeserved'
      BY DEF RefusalIsDeserved
    <3>4. SimTypeOK'
      BY DEF SimTypeOK, SimCalls, Values
    <3> QED
      BY <3>1, <3>2, <3>3, <3>4
  <2>2. ASSUME refused = NoValue, NEW kernel \in Kernels,
               NEW state \in Values({"state"}) \cup {NoValue},
               NEW input \in Values({"joule"}) \cup {NoValue}, SimRun(kernel, state, input)
        PROVE  SimInv'
    BY <2>2, SimRunKeepsInv
  <2>3. ASSUME refused = NoValue, NEW value \in DOMAIN heap, SimRelease(value)
        PROVE  SimInv'
    BY <2>3, SimReleaseKeepsInv
  <2>4. ASSUME refused = NoValue, NEW value \in Values(ArtifactPlaces), RecordRefused(value)
        PROVE  SimInv'
    BY <2>4, RefuseDeserved DEF RecordRefused, Values
  <2>5. ASSUME refused = NoValue, NEW value \in Values({"state"}), FinalStateRefused(value)
        PROVE  SimInv'
    <3>1. value \in DOMAIN heap /\ value \in emptied /\ Refuse(value)
      BY <2>5 DEF FinalStateRefused, LiveState, SimInv, TablesKeepUp, Values
    <3> QED
      BY <2>5, <3>1, ContentsInHeap, RefuseDeserved DEF Whole, SimInv
  <2> QED
    BY <2>1, <2>2, <2>3, <2>4, <2>5 DEF SimNext
<1> QED
  BY <1>1, <1>2, PTL DEF SimSpec

(* The tables of a simulation only ever hold what it was given.               *)
THEOREM SimTypesHold == SimSpec => []SimTypeOK
<1>1. SimInv => SimTypeOK
  BY DEF SimInv
<1> QED
  BY <1>1, SimInvHolds, PTL

(* A value is refused only for a release that took something of it, in whatever *)
(* order a program makes, passes on and releases results (runtime.py:601-737). *)
THEOREM RefusalsAreDeserved == SimSpec => []RefusalIsDeserved
<1>1. SimInv => RefusalIsDeserved
  BY DEF SimInv
<1> QED
  BY <1>1, SimInvHolds, PTL

-----------------------------------------------------------------------------
(* The GPU of the AI slave, for any number of calls, devices and models, of any *)
(* roles. *)

LeaseSteps == {"idle", "locking", "evicting", "working", "making room", "over", "cancelled"}
Leases == [req : Requests \cup {Unloaded}, step : LeaseSteps, evict : SUBSET GpuCalls,
           thread : Roles \cup {"none", "load", "use"}, retried : BOOLEAN]

(* Only the last call is in progress, and a thread belongs to a step of it or  *)
(* of a call that was cancelled.                                              *)
CallsInTurn ==
    \A c \in GpuCalls :
       /\ InProgress(c) => c = serves
       /\ c <= serves => Wants(c) \in Requests
       /\ Step(c) # "idle" => c <= serves
       /\ lease[c].thread \in Roles => Step(c) \in {"evicting", "making room", "cancelled"}
       /\ lease[c].thread \in {"load", "use"} => Step(c) \in {"working", "cancelled"}

(* What the lease in progress has in the table, and has still to take from it. *)
TableOfLeases ==
    /\ \A d \in Gpus : \A e \in loadedOn[d] : e <= serves
    /\ \A c \in GpuCalls :
          /\ Step(c) = "evicting" => {e \in Entries(c) : Conflict(c, e)} \subseteq lease[c].evict
          /\ Step(c) = "making room" => \A e \in lease[c].evict : Wants(e).role # Wants(c).role
          /\ Step(c) \in {"working", "making room"} =>
                \A d \in Wants(c).devices : c \in loadedOn[d]

Calm == \A c \in GpuCalls : Step(c) # "cancelled"

(* The table has an entry, of this call or of an earlier one, wherever a role  *)
(* has a model in memory.                                                     *)
MemoryInTable ==
    \A r \in Roles : memory[r] # Unloaded =>
       /\ memory[r] \in Requests /\ memory[r].role = r
       /\ Calm => \A d \in memory[r].devices : \E e \in loadedOn[d] : Wants(e).role = r

GpuInv == GpuTypeOK /\ CallsInTurn /\ TableOfLeases /\ MemoryInTable /\ LlmIsAlone

LEMMA RequestFacts ==
  ASSUME NEW req \in Requests
  PROVE  /\ req.role \in Roles /\ req.devices \subseteq Gpus /\ req # Unloaded
         /\ req.role \notin {"none", "load", "use"}
<1>1. /\ req.role \in Roles /\ req.devices \subseteq Gpus /\ req.role \notin {"none", "load", "use"}
  BY RequestsAssumption DEF Roles, Gpus
<1> QED
  BY <1>1 DEF Unloaded

LEMMA RoleNames == Roles \cap {"none", "load", "use"} = {}
BY RequestsAssumption DEF Roles

LEMMA GpuTyped ==
  ASSUME GpuTypeOK
  PROVE  /\ lease \in [GpuCalls -> Leases] /\ serves \in Nat /\ serves <= MaxGpuCalls
         /\ GpuCalls = 1..MaxGpuCalls /\ MaxGpuCalls \in Nat
         /\ loadedOn \in [Gpus -> SUBSET GpuCalls]
         /\ memory \in [Roles -> Requests \cup {Unloaded}]
         /\ \A c \in GpuCalls : lease[c].req.devices \subseteq Gpus /\ lease[c] \in Leases
         /\ \A d \in Gpus : \A e \in loadedOn[d] : e \in GpuCalls
         /\ \A c \in GpuCalls : c \in Nat /\ c # 0
<1>1. lease \in [GpuCalls -> Leases]
  BY DEF GpuTypeOK, Leases, LeaseSteps
<1>2. \A c \in GpuCalls : lease[c].req \in Requests \cup {Unloaded}
  BY <1>1 DEF Leases
<1>3. Unloaded.devices = {}
  BY DEF Unloaded
<1>4. \A c \in GpuCalls : lease[c].req.devices \subseteq Gpus
  BY <1>2, <1>3, RequestFacts
<1>5. serves \in 0..MaxGpuCalls /\ MaxGpuCalls \in Nat
  BY GpuCallsAssumption DEF GpuTypeOK
<1>6. serves \in Nat /\ serves <= MaxGpuCalls
  BY <1>5
<1>7. GpuCalls = 1..MaxGpuCalls
  BY DEF GpuCalls
<1>8. \A d \in Gpus : \A e \in loadedOn[d] : e \in GpuCalls
  BY DEF GpuTypeOK
<1>9. \A c \in GpuCalls : c \in Nat /\ c # 0
  BY <1>5, <1>7
<1> QED
  BY <1>1, <1>4, <1>5, <1>6, <1>7, <1>8, <1>9 DEF GpuTypeOK

(* A step of one lease that takes entries off the table, or nothing, and unloads *)
(* models, or none: the entries it takes are of roles that have none any more. *)
LEMMA LeaseStepKeepsInv ==
  ASSUME GpuInv, NEW c \in GpuCalls, NEW next \in Leases,
         lease' = [lease EXCEPT ![c] = next], next.req = lease[c].req,
         serves' = serves, gpuLock' \in [Gpus -> 0..MaxGpuCalls],
         loadedOn' \in [Gpus -> SUBSET GpuCalls],
         memory' \in [Roles -> Requests \cup {Unloaded}],
         \A d \in Gpus : loadedOn'[d] \subseteq loadedOn[d],
         \A r \in Roles : memory'[r] \in {memory[r], Unloaded},
         \A r \in Roles, d \in Gpus : \A e \in loadedOn[d] :
            memory'[r] # Unloaded /\ lease[e].req.role = r => e \in loadedOn'[d],
         \/ InProgress(c)
         \/ lease[c].step = "cancelled" /\ next.step = "cancelled" /\ loadedOn' = loadedOn,
         next.step # "idle",
         next.step \in {"evicting", "making room", "working"} => InProgress(c),
         next.step = "locking" => InProgress(c),
         next.thread \in Roles => next.step \in {"evicting", "making room", "cancelled"},
         next.thread \in {"load", "use"} => next.step \in {"working", "cancelled"},
         next.thread = "use" => next.step = "cancelled" \/ (lease[c].thread = "use" /\ memory' = memory),
         next.step = "evicting" =>
            \A d \in lease[c].req.devices : \A e \in loadedOn'[d] : Conflict(c, e) => e \in next.evict,
         next.step = "making room" => \A e \in next.evict : lease[e].req.role # lease[c].req.role,
         next.step \in {"working", "making room"} =>
            \A d \in lease[c].req.devices : c \in loadedOn'[d]
  PROVE  GpuInv'
<1> USE DEF GpuInv, Step, Wants
<1>0. /\ lease \in [GpuCalls -> Leases] /\ serves \in Nat
      /\ loadedOn \in [Gpus -> SUBSET GpuCalls]
      /\ memory \in [Roles -> Requests \cup {Unloaded}]
      /\ \A b \in GpuCalls : lease[b].req.devices \subseteq Gpus
  BY GpuTyped
<1>1. /\ lease' \in [GpuCalls -> Leases] /\ lease'[c] = next
      /\ \A b \in GpuCalls \ {c} : lease'[b] = lease[b]
      /\ \A b \in GpuCalls : lease'[b].req = lease[b].req
  BY <1>0
<1>2. GpuTypeOK'
  <2>1. serves' \in 0..MaxGpuCalls
    BY DEF GpuTypeOK
  <2> QED
    BY <1>1, <2>1 DEF GpuTypeOK, Leases, LeaseSteps
<1>3. CallsInTurn'
  BY <1>1 DEF CallsInTurn, InProgress
<1>4. ASSUME NEW b \in GpuCalls \ {c}, InProgress(b)
      PROVE  lease[c].step = "cancelled" /\ next.step = "cancelled" /\ loadedOn' = loadedOn
  BY <1>4 DEF CallsInTurn
<1>5. \A b, e \in GpuCalls : Conflict(b, e)' <=> Conflict(b, e)
  BY <1>1 DEF Conflict
<1>6. Calm' => Calm /\ next.step # "cancelled"
  <2>1. InProgress(c) => lease[c].step # "cancelled"
    BY DEF InProgress
  <2> QED
    BY <1>1, <2>1 DEF Calm
<1>7. TableOfLeases'
  <2>1. \A d \in Gpus : \A e \in loadedOn'[d] : e <= serves
    BY DEF TableOfLeases
  <2>2. ASSUME NEW b \in GpuCalls, lease'[b].step = "evicting"
        PROVE  {e \in Entries(b)' : Conflict(b, e)'} \subseteq lease'[b].evict
    <3> SUFFICES ASSUME NEW e \in Entries(b)', Conflict(b, e)'
                 PROVE  e \in lease'[b].evict
      OBVIOUS
    <3>0. PICK d \in lease[b].req.devices : e \in loadedOn'[d]
      <4>1. Entries(b)' = UNION {loadedOn'[d] : d \in lease[b].req.devices}
        BY <1>1 DEF Entries
      <4> QED
        BY <4>1
    <3>. d \in Gpus /\ e \in GpuCalls /\ Conflict(b, e)
      BY <1>0, <1>5, <3>0
    <3>1. CASE b = c
      BY <1>1, <2>2, <3>0, <3>1
    <3>2. CASE b # c
      <4>1. lease[b].step = "evicting" /\ InProgress(b)
        BY <1>1, <2>2, <3>2 DEF InProgress
      <4>2. loadedOn' = loadedOn /\ lease'[b] = lease[b]
        BY <1>1, <1>4, <3>2, <4>1
      <4>3. e \in Entries(b)
        BY <3>0, <4>2 DEF Entries
      <4> QED
        BY <4>1, <4>2, <4>3 DEF TableOfLeases
    <3> QED
      BY <3>1, <3>2
  <2>3. ASSUME NEW b \in GpuCalls, lease'[b].step = "making room", NEW e \in lease'[b].evict
        PROVE  lease'[e].req.role # lease'[b].req.role
    <3>1. lease'[b].evict \subseteq GpuCalls
      BY <1>1 DEF Leases
    <3>2. CASE b = c
      BY <1>1, <2>3, <3>1, <3>2
    <3>3. CASE b # c
      <4>1. lease[b].step = "making room" /\ e \in lease[b].evict
        BY <1>1, <2>3, <3>3
      <4>2. lease[e].req.role # lease[b].req.role
        BY <4>1 DEF TableOfLeases
      <4> QED
        BY <1>1, <3>1, <4>2
    <3> QED
      BY <3>2, <3>3
  <2>4. ASSUME NEW b \in GpuCalls, lease'[b].step \in {"working", "making room"},
               NEW d \in lease'[b].req.devices
        PROVE  b \in loadedOn'[d]
    <3>1. d \in lease[b].req.devices
      BY <1>1, <2>4
    <3>2. CASE b = c
      BY <1>1, <2>4, <3>1, <3>2
    <3>3. CASE b # c
      <4>1. lease[b].step = lease'[b].step /\ InProgress(b)
        BY <1>1, <2>4, <3>3 DEF InProgress
      <4>2. loadedOn' = loadedOn
        BY <1>4, <3>3, <4>1
      <4> QED
        BY <2>4, <3>1, <4>1, <4>2 DEF TableOfLeases
    <3> QED
      BY <3>2, <3>3
  <2> QED
    BY <2>1, <2>2, <2>3, <2>4 DEF TableOfLeases
<1>8. MemoryInTable'
  <2> SUFFICES ASSUME NEW r \in Roles, memory'[r] # Unloaded
               PROVE  /\ memory'[r] \in Requests /\ memory'[r].role = r
                      /\ Calm' => \A d \in memory'[r].devices :
                                     \E e \in loadedOn'[d] : lease'[e].req.role = r
    BY DEF MemoryInTable
  <2>1. memory'[r] = memory[r] /\ memory[r] \in Requests /\ memory[r].role = r
    BY DEF MemoryInTable
  <2>2. ASSUME Calm, NEW d \in memory[r].devices
        PROVE  \E e \in loadedOn'[d] : lease'[e].req.role = r
    <3>1. d \in Gpus
      BY <2>1, RequestFacts
    <3>2. PICK e \in loadedOn[d] : lease[e].req.role = r
      BY <2>1, <2>2 DEF MemoryInTable
    <3>3. e \in GpuCalls /\ e \in loadedOn'[d]
      BY <1>0, <3>1, <3>2
    <3> QED
      BY <1>1, <3>2, <3>3
  <2> QED
    BY <1>6, <2>1, <2>2
<1>9. LlmIsAlone'
  <2>1. ASSUME NEW d \in Gpus, NEW e \in loadedOn'[d], lease'[e].req.exclusive
        PROVE  loadedOn'[d] = {e}
    <3>1. e \in loadedOn[d] /\ e \in GpuCalls
      OBVIOUS
    <3>2. lease[e].req.exclusive
      BY <1>1, <2>1, <3>1
    <3>3. loadedOn[d] = {e}
      BY <3>1, <3>2 DEF LlmIsAlone
    <3> QED
      BY <3>3
  <2>2. ASSUME Calm', NEW r \in Roles, NEW s \in Roles, r # s, memory'[r].exclusive
        PROVE  memory'[r].devices \cap memory'[s].devices = {}
    <3>1. Unloaded.devices = {} /\ ~Unloaded.exclusive
      BY DEF Unloaded
    <3>2. memory[r].exclusive => memory[r].devices \cap memory[s].devices = {}
      BY <1>6, <2>2 DEF LlmIsAlone, Calm
    <3> QED
      BY <2>2, <3>1, <3>2
  <2>3. ASSUME Calm', NEW b \in GpuCalls, lease'[b].thread = "use"
        PROVE  memory'[lease'[b].req.role] = lease'[b].req
    <3>1. CASE b = c
      BY <1>1, <1>6, <2>3, <3>1 DEF LlmIsAlone, Calm
    <3>2. CASE b # c
      <4>1. lease[b].thread = "use" /\ Calm
        BY <1>1, <1>6, <2>3, <3>2
      <4>2. InProgress(b)
        BY <4>1 DEF CallsInTurn, InProgress, Calm
      <4> QED
        BY <1>4, <1>6, <2>3, <3>2, <4>2
    <3> QED
      BY <3>1, <3>2
  <2> QED
    BY <2>1, <2>2, <2>3 DEF LlmIsAlone, Calm
<1> QED
  BY <1>2, <1>3, <1>7, <1>8, <1>9

LEMMA GpuCallKeepsInv ==
  ASSUME GpuInv, GpuCall
  PROVE  GpuInv'
<1> USE DEF GpuInv, Step, Wants
<1>1. PICK req \in Requests :
         lease' = [lease EXCEPT ![serves + 1] = [Idle EXCEPT !.req = req, !.step = "locking"]]
  BY DEF GpuCall
<1> DEFINE n == serves + 1
           new == [Idle EXCEPT !.req = req, !.step = "locking"]
<1>2. /\ lease \in [GpuCalls -> Leases] /\ serves \in Nat
      /\ loadedOn \in [Gpus -> SUBSET GpuCalls]
      /\ serves' = n /\ n \in GpuCalls /\ n <= MaxGpuCalls
      /\ gpuLock' = gpuLock /\ loadedOn' = loadedOn /\ memory' = memory
      /\ \A c \in GpuCalls : c \in Nat /\ c # 0
      /\ \A d \in Gpus : \A e \in loadedOn[d] : e \in GpuCalls
  BY GpuTyped DEF GpuCall
<1>3. /\ new.req = req /\ new.step = "locking" /\ new.thread = "none" /\ new.evict = {}
      /\ new \in Leases
  BY DEF Idle, Leases, LeaseSteps
<1>4. /\ lease' \in [GpuCalls -> Leases] /\ lease'[n] = new
      /\ \A c \in GpuCalls \ {n} : lease'[c] = lease[c]
  BY <1>1, <1>2, <1>3
<1>5. GpuTypeOK'
  <2>1. serves' \in 0..MaxGpuCalls
    BY <1>2, GpuCallsAssumption
  <2> QED
    BY <1>2, <1>4, <2>1 DEF GpuTypeOK, Leases, LeaseSteps
<1>6. \A c \in GpuCalls : ~InProgress(c)
  <2> SUFFICES ASSUME NEW c \in GpuCalls, InProgress(c) PROVE FALSE
    OBVIOUS
  <2>1. c = serves /\ c # 0
    BY <1>2 DEF CallsInTurn
  <2>2. InProgress(serves)
    BY <2>1
  <2> QED
    BY <2>1, <2>2 DEF GpuCall
<1>7. CallsInTurn'
  <2> SUFFICES ASSUME NEW c \in GpuCalls
               PROVE  /\ InProgress(c)' => c = n
                      /\ c <= n => lease'[c].req \in Requests
                      /\ lease'[c].step # "idle" => c <= n
                      /\ lease'[c].thread \in Roles => lease'[c].step \in {"evicting", "making room", "cancelled"}
                      /\ lease'[c].thread \in {"load", "use"} => lease'[c].step \in {"working", "cancelled"}
    BY <1>2 DEF CallsInTurn
  <2>1. CASE c = n
    <3>1. lease'[c] = new /\ "none" \notin Roles /\ c <= n
      BY <1>2, <1>4, <2>1, RoleNames
    <3> QED
      BY <1>3, <2>1, <3>1
  <2>2. CASE c # n
    <3>1. lease'[c] = lease[c] /\ ~InProgress(c)'
      BY <1>4, <1>6, <2>2 DEF InProgress
    <3>2. (c <= n <=> c <= serves) /\ (c <= serves => c <= n)
      BY <1>2, <2>2
    <3>3. /\ c <= serves => lease[c].req \in Requests
          /\ lease[c].step # "idle" => c <= serves
          /\ lease[c].thread \in Roles => lease[c].step \in {"evicting", "making room", "cancelled"}
          /\ lease[c].thread \in {"load", "use"} => lease[c].step \in {"working", "cancelled"}
      BY DEF CallsInTurn
    <3> QED
      BY <3>1, <3>2, <3>3
  <2> QED
    BY <2>1, <2>2
<1>8. \A d \in Gpus : \A e \in loadedOn[d] : e \in GpuCalls /\ e <= serves /\ e # n
  <2>1. \A d \in Gpus : \A e \in loadedOn[d] : e <= serves
    BY DEF TableOfLeases
  <2>2. ~(n <= serves)
    BY <1>2
  <2> QED
    BY <1>2, <2>1, <2>2
<1>9. \A d \in Gpus : \A e \in loadedOn[d] : lease'[e].req = lease[e].req
  BY <1>4, <1>8
<1>10. TableOfLeases'
  <2>1. \A d \in Gpus : \A e \in loadedOn'[d] : e <= serves'
    BY <1>2, <1>8
  <2>2. \A c \in GpuCalls : lease'[c].step \notin {"evicting", "working", "making room"}
    BY <1>3, <1>4, <1>6 DEF InProgress
  <2> QED
    BY <2>1, <2>2 DEF TableOfLeases
<1>11. Calm' => Calm
  <2>1. ~(n <= serves)
    BY <1>2
  <2>2. lease[n].step = "idle"
    BY <1>2, <2>1 DEF CallsInTurn
  <2> QED
    BY <1>4, <2>2 DEF Calm
<1>12. MemoryInTable'
  <2> SUFFICES ASSUME NEW r \in Roles, memory[r] # Unloaded
               PROVE  /\ memory[r] \in Requests /\ memory[r].role = r
                      /\ Calm' => \A d \in memory[r].devices :
                                     \E e \in loadedOn[d] : lease'[e].req.role = r
    BY <1>2 DEF MemoryInTable
  <2>1. memory[r] \in Requests /\ memory[r].role = r
    BY DEF MemoryInTable
  <2> QED
    BY <1>9, <1>11, <2>1, RequestFacts DEF MemoryInTable
<1>13. LlmIsAlone'
  <2>1. \A d \in Gpus : \A e \in loadedOn'[d] : lease'[e].req.exclusive => loadedOn'[d] = {e}
    BY <1>2, <1>9 DEF LlmIsAlone
  <2>2. \A c \in GpuCalls : lease'[c].thread = "use" => c # n
    BY <1>3, <1>4
  <2> QED
    BY <1>2, <1>4, <1>11, <2>1, <2>2 DEF LlmIsAlone, Calm
<1> QED
  BY <1>5, <1>7, <1>10, <1>12, <1>13

(* The lease takes the place of its role on its devices, where nothing that is *)
(* left conflicts with it.                                                    *)
LEMMA EnterLeaseKeepsInv ==
  ASSUME GpuInv, NEW c \in GpuCalls, EnterLease(c)
  PROVE  GpuInv'
<1> USE DEF GpuInv, Step, Wants
<1> DEFINE mine == lease[c].req
<1>1. /\ lease \in [GpuCalls -> Leases] /\ serves \in Nat
      /\ loadedOn \in [Gpus -> SUBSET GpuCalls]
      /\ serves' = serves /\ gpuLock' = gpuLock /\ memory' = memory
      /\ lease[c].step = "evicting" /\ lease[c].evict = {}
      /\ c = serves /\ mine \in Requests /\ mine.devices \subseteq Gpus
  BY GpuTyped DEF EnterLease, CallsInTurn, InProgress
<1>2. /\ lease' \in [GpuCalls -> Leases]
      /\ lease'[c].step = "working" /\ lease'[c].thread = "load"
      /\ \A b \in GpuCalls \ {c} : lease'[b] = lease[b]
      /\ \A b \in GpuCalls : lease'[b].req = lease[b].req
  <2>1. lease' = [lease EXCEPT ![c] = [lease[c] EXCEPT !.step = "working", !.thread = "load"]]
    BY DEF EnterLease
  <2>2. [lease[c] EXCEPT !.step = "working", !.thread = "load"] \in Leases
    BY <1>1 DEF Leases, LeaseSteps
  <2> QED
    BY <1>1, <2>1, <2>2 DEF Leases
<1>3. /\ \A d \in Gpus \ mine.devices : loadedOn'[d] = loadedOn[d]
      /\ \A d \in mine.devices :
            loadedOn'[d] = {e \in loadedOn[d] : lease[e].req.role # mine.role} \cup {c}
      /\ loadedOn' \in [Gpus -> SUBSET GpuCalls]
  BY <1>1 DEF EnterLease
<1>4. ASSUME NEW d \in mine.devices, NEW e \in loadedOn[d], lease[e].req.role # mine.role
      PROVE  ~mine.exclusive /\ ~lease[e].req.exclusive
  <2>1. e \in GpuCalls /\ e \in Entries(c)
    BY <1>1 DEF Entries
  <2>2. ~Conflict(c, e)
    BY <1>1, <2>1 DEF TableOfLeases
  <2> QED
    BY <1>4, <2>2 DEF Conflict
<1>5. GpuTypeOK'
  BY <1>1, <1>2, <1>3 DEF GpuTypeOK, Leases, LeaseSteps
<1>6. CallsInTurn'
  BY <1>1, <1>2, RoleNames DEF CallsInTurn, InProgress
<1>7. \A b \in GpuCalls : lease'[b].step \in {"evicting", "making room", "working"} => b = c
  BY <1>1, <1>2 DEF CallsInTurn, InProgress
<1>8. TableOfLeases'
  <2>1. ASSUME NEW d \in Gpus, NEW e \in loadedOn'[d]
        PROVE  e <= serves'
    <3>1. e \in loadedOn[d] \/ e = c
      BY <1>3
    <3>2. c <= serves'
      BY <1>1
    <3> QED
      BY <1>1, <3>1, <3>2 DEF TableOfLeases
  <2>2. \A d \in mine.devices : c \in loadedOn'[d]
    BY <1>3
  <2>3. lease'[c].step = "working" /\ lease'[c].req.devices = mine.devices
    BY <1>2
  <2>4. \A b \in GpuCalls : lease'[b].step \notin {"evicting", "making room"}
    BY <1>7, <2>3
  <2> QED
    BY <1>7, <2>1, <2>2, <2>3, <2>4 DEF TableOfLeases
<1>9. Calm' => Calm
  BY <1>1, <1>2 DEF Calm
<1>10. MemoryInTable'
  <2> SUFFICES ASSUME NEW r \in Roles, memory[r] # Unloaded
               PROVE  /\ memory[r] \in Requests /\ memory[r].role = r
                      /\ Calm' => \A d \in memory[r].devices :
                                     \E e \in loadedOn'[d] : lease'[e].req.role = r
    BY <1>1 DEF MemoryInTable
  <2>1. memory[r] \in Requests /\ memory[r].role = r
    BY DEF MemoryInTable
  <2>2. ASSUME Calm, NEW d \in memory[r].devices
        PROVE  \E e \in loadedOn'[d] : lease'[e].req.role = r
    <3>1. d \in Gpus
      BY <2>1, RequestFacts
    <3>2. PICK e \in loadedOn[d] : lease[e].req.role = r
      BY <2>1, <2>2 DEF MemoryInTable
    <3>3. e \in GpuCalls
      BY <1>1, <3>1, <3>2
    <3>4. CASE d \in mine.devices /\ r = mine.role
      BY <1>2, <1>3, <3>4
    <3>5. CASE d \notin mine.devices \/ r # mine.role
      BY <1>2, <1>3, <3>1, <3>2, <3>3, <3>5
    <3> QED
      BY <3>4, <3>5
  <2> QED
    BY <1>9, <2>1, <2>2
<1>11. LlmIsAlone'
  <2>1. ASSUME NEW d \in Gpus, NEW e \in loadedOn'[d], lease'[e].req.exclusive
        PROVE  loadedOn'[d] = {e}
    <3>1. e \in GpuCalls /\ lease[e].req.exclusive
      BY <1>2, <1>3, <2>1
    <3>2. CASE d \notin mine.devices
      BY <1>3, <3>1, <3>2 DEF LlmIsAlone
    <3>3. CASE d \in mine.devices /\ e = c
      <4>1. {f \in loadedOn[d] : lease[f].req.role # mine.role} = {}
        BY <1>4, <3>1, <3>3
      <4> QED
        BY <1>3, <3>3, <4>1
    <3>4. CASE d \in mine.devices /\ e # c
      BY <1>3, <1>4, <3>1, <3>4
    <3> QED
      BY <3>2, <3>3, <3>4
  <2>2. \A b \in GpuCalls : lease'[b].thread = "use" => b # c
    BY <1>2
  <2> QED
    BY <1>1, <1>2, <1>9, <2>1, <2>2 DEF LlmIsAlone, Calm
<1> QED
  BY <1>5, <1>6, <1>8, <1>10, <1>11

(* The model that is loaded is the one for which the table was cleared, unless *)
(* the call was cancelled.                                                    *)
LEMMA LoadModelKeepsInv ==
  ASSUME GpuInv, NEW c \in GpuCalls, LoadModel(c)
  PROVE  GpuInv'
<1> USE DEF GpuInv, Step, Wants
<1> DEFINE mine == lease[c].req
<1>1. /\ lease \in [GpuCalls -> Leases] /\ serves \in Nat
      /\ loadedOn \in [Gpus -> SUBSET GpuCalls]
      /\ memory \in [Roles -> Requests \cup {Unloaded}]
      /\ serves' = serves /\ gpuLock' = gpuLock /\ loadedOn' = loadedOn
      /\ lease[c].thread = "load" /\ lease[c].step \in {"working", "cancelled"}
      /\ mine \in Requests /\ mine.devices \subseteq Gpus /\ mine.role \in Roles
      /\ mine # Unloaded
  BY GpuTyped, RequestFacts DEF LoadModel, CallsInTurn, InProgress
<1>2. /\ lease' \in [GpuCalls -> Leases] /\ lease'[c].thread = "use"
      /\ \A b \in GpuCalls \ {c} : lease'[b] = lease[b]
      /\ \A b \in GpuCalls : /\ lease'[b].req = lease[b].req /\ lease'[b].step = lease[b].step
                             /\ lease'[b].evict = lease[b].evict
  BY <1>1 DEF LoadModel, Leases
<1>3. /\ memory' \in [Roles -> Requests \cup {Unloaded}] /\ memory'[mine.role] = mine
      /\ \A r \in Roles \ {mine.role} : memory'[r] = memory[r]
  BY <1>1 DEF LoadModel
<1>4. GpuTypeOK'
  BY <1>1, <1>2, <1>3 DEF GpuTypeOK, Leases, LeaseSteps
<1>5. CallsInTurn'
  BY <1>1, <1>2, RoleNames DEF CallsInTurn, InProgress
<1>6. \A b, e \in GpuCalls : Conflict(b, e)' <=> Conflict(b, e)
  BY <1>2 DEF Conflict
<1>7. TableOfLeases'
  <2>1. \A b \in GpuCalls : Entries(b)' = Entries(b) /\ Entries(b) \subseteq GpuCalls
    <3> SUFFICES ASSUME NEW b \in GpuCalls
                 PROVE  Entries(b)' = Entries(b) /\ Entries(b) \subseteq GpuCalls
      OBVIOUS
    <3>1. lease[b].req.devices \subseteq Gpus
      BY GpuTyped
    <3> QED
      BY <1>1, <1>2, <3>1 DEF Entries
  <2>2. \A b \in GpuCalls : {e \in Entries(b)' : Conflict(b, e)'} = {e \in Entries(b) : Conflict(b, e)}
    BY <1>6, <2>1
  <2>3. ASSUME NEW b \in GpuCalls, NEW e \in lease[b].evict
        PROVE  lease'[e].req = lease[e].req
    BY <1>1, <1>2 DEF Leases
  <2>4. \A d \in Gpus : \A e \in loadedOn'[d] : e <= serves'
    BY <1>1 DEF TableOfLeases
  <2>5. \A b \in GpuCalls : lease'[b].step = "evicting" =>
           {e \in Entries(b)' : Conflict(b, e)'} \subseteq lease'[b].evict
    BY <1>2, <2>2 DEF TableOfLeases
  <2>6. \A b \in GpuCalls : lease'[b].step = "making room" =>
           \A e \in lease'[b].evict : lease'[e].req.role # lease'[b].req.role
    <3> SUFFICES ASSUME NEW b \in GpuCalls, lease'[b].step = "making room", NEW e \in lease[b].evict
                 PROVE  lease'[e].req.role # lease'[b].req.role
      BY <1>2
    <3>1. lease[e].req.role # lease[b].req.role
      BY <1>2 DEF TableOfLeases
    <3> QED
      BY <1>2, <2>3, <3>1
  <2>7. \A b \in GpuCalls : lease'[b].step \in {"working", "making room"} =>
           \A d \in lease'[b].req.devices : b \in loadedOn'[d]
    BY <1>1, <1>2 DEF TableOfLeases
  <2> QED
    BY <2>4, <2>5, <2>6, <2>7 DEF TableOfLeases
<1>8. Calm' => Calm /\ lease[c].step = "working"
  BY <1>1, <1>2 DEF Calm
<1>9. Calm => \A d \in mine.devices : c \in loadedOn[d]
  BY <1>1 DEF Calm, TableOfLeases
<1>10. MemoryInTable'
  <2> SUFFICES ASSUME NEW r \in Roles, memory'[r] # Unloaded
               PROVE  /\ memory'[r] \in Requests /\ memory'[r].role = r
                      /\ Calm' => \A d \in memory'[r].devices :
                                     \E e \in loadedOn[d] : lease'[e].req.role = r
    BY <1>1 DEF MemoryInTable
  <2>1. CASE r = mine.role
    BY <1>1, <1>2, <1>3, <1>8, <1>9, <2>1
  <2>2. CASE r # mine.role
    <3>1. memory'[r] = memory[r] /\ memory[r] \in Requests /\ memory[r].role = r
      BY <1>3, <2>2 DEF MemoryInTable
    <3>2. ASSUME Calm, NEW d \in memory[r].devices
          PROVE  \E e \in loadedOn[d] : lease'[e].req.role = r
      <4>1. d \in Gpus
        BY <3>1, RequestFacts
      <4>2. PICK e \in loadedOn[d] : lease[e].req.role = r
        BY <3>1, <3>2 DEF MemoryInTable
      <4>3. e \in GpuCalls
        BY <1>1, <4>1, <4>2
      <4> QED
        BY <1>2, <4>2, <4>3
    <3> QED
      BY <1>8, <3>1, <3>2
  <2> QED
    BY <2>1, <2>2
<1>11. ASSUME Calm, NEW s \in Roles, s # mine.role, NEW d \in mine.devices \cap memory[s].devices
       PROVE  ~mine.exclusive /\ ~memory[s].exclusive
  <2>1. memory[s] # Unloaded /\ memory[s] \in Requests /\ memory[s].role = s
    BY <1>11 DEF MemoryInTable, Unloaded
  <2>2. d \in Gpus /\ c \in loadedOn[d]
    BY <1>1, <1>9, <1>11
  <2>3. PICK e \in loadedOn[d] : lease[e].req.role = s
    BY <1>11, <2>1 DEF MemoryInTable
  <2>4. e \in GpuCalls /\ e # c /\ lease[e].req \in Requests
    BY <1>1, <1>11, <2>2, <2>3 DEF CallsInTurn, TableOfLeases
  <2>5. ~mine.exclusive /\ ~lease[e].req.exclusive
    BY <2>2, <2>3, <2>4 DEF LlmIsAlone
  <2> QED
    BY <2>1, <2>3, <2>4, <2>5, RequestsAssumption
<1>12. LlmIsAlone'
  <2>1. \A d \in Gpus : \A e \in loadedOn'[d] : lease'[e].req.exclusive => loadedOn'[d] = {e}
    BY <1>1, <1>2 DEF LlmIsAlone
  <2>2. ASSUME Calm', NEW r \in Roles, NEW s \in Roles, r # s, memory'[r].exclusive
        PROVE  memory'[r].devices \cap memory'[s].devices = {}
    <3>1. CASE r # mine.role /\ s # mine.role
      BY <1>3, <1>8, <2>2, <3>1 DEF LlmIsAlone, Calm
    <3>2. CASE r = mine.role
      BY <1>3, <1>8, <1>11, <2>2, <3>2
    <3>3. CASE s = mine.role
      BY <1>3, <1>8, <1>11, <2>2, <3>3
    <3> QED
      BY <3>1, <3>2, <3>3
  <2>3. ASSUME Calm', NEW b \in GpuCalls, lease'[b].thread = "use"
        PROVE  b = c
    BY <1>1, <1>2, <1>8, <2>3, RoleNames DEF CallsInTurn, InProgress, Calm
  <2> QED
    BY <1>2, <1>3, <2>1, <2>2, <2>3 DEF LlmIsAlone, Calm
<1> QED
  BY <1>4, <1>5, <1>7, <1>10, <1>12

LEMMA LocksTyped ==
  ASSUME GpuTypeOK, NEW c \in GpuCalls
  PROVE  /\ gpuLock \in [Gpus -> 0..MaxGpuCalls]
         /\ Unlocked(c) \in [Gpus -> 0..MaxGpuCalls]
         /\ \A d \in Gpus : [gpuLock EXCEPT ![d] = c] \in [Gpus -> 0..MaxGpuCalls]
<1>1. gpuLock \in [Gpus -> 0..MaxGpuCalls]
  BY DEF GpuTypeOK
<1>2. 0 \in 0..MaxGpuCalls /\ c \in 0..MaxGpuCalls
  BY GpuCallsAssumption DEF GpuCalls
<1>3. Unlocked(c) \in [Gpus -> 0..MaxGpuCalls]
  BY <1>1, <1>2 DEF Unlocked
<1> QED
  BY <1>1, <1>2, <1>3

(* The steps that only find out what to evict, and start to, or wait. *)
LEMMA WaitingStepsKeepInv ==
  ASSUME GpuInv, NEW c \in GpuCalls,
         \/ LockNext(c) \/ FindConflicts(c) \/ StartEviction(c) \/ TryAgain(c)
         \/ OutOfMemory(c) \/ GpuCancel(c)
  PROVE  GpuInv'
<1> USE DEF Step, Wants
<1>1. /\ lease \in [GpuCalls -> Leases] /\ lease[c] \in Leases
      /\ loadedOn \in [Gpus -> SUBSET GpuCalls]
      /\ memory \in [Roles -> Requests \cup {Unloaded}]
      /\ lease[c].req.devices \subseteq Gpus
      /\ \A d \in Gpus : \A e \in loadedOn[d] : e \in GpuCalls
  BY GpuTyped DEF GpuInv
<1>2. loadedOn' = loadedOn /\ memory' = memory /\ serves' = serves
  BY DEF LockNext, FindConflicts, StartEviction, TryAgain, OutOfMemory, GpuCancel
<1>3. gpuLock' \in [Gpus -> 0..MaxGpuCalls]
  <2>1. /\ gpuLock \in [Gpus -> 0..MaxGpuCalls] /\ Unlocked(c) \in [Gpus -> 0..MaxGpuCalls]
        /\ \A d \in Gpus : [gpuLock EXCEPT ![d] = c] \in [Gpus -> 0..MaxGpuCalls]
    BY LocksTyped DEF GpuInv
  <2>2. CASE LockNext(c)
    <3>1. PICK d : gpuLock' = [gpuLock EXCEPT ![d] = c]
      BY <2>2 DEF LockNext
    <3>2. CASE d \in Gpus
      BY <2>1, <3>1, <3>2
    <3>3. CASE d \notin Gpus
      BY <2>1, <3>1, <3>3
    <3> QED
      BY <3>2, <3>3
  <2> QED
    BY <2>1, <2>2 DEF FindConflicts, StartEviction, TryAgain, OutOfMemory, GpuCancel
<1>4. /\ lease[c].thread \in Roles => lease[c].step \in {"evicting", "making room", "cancelled"}
      /\ lease[c].thread \in {"load", "use"} => lease[c].step \in {"working", "cancelled"}
  BY DEF GpuInv, CallsInTurn
<1>5. /\ lease[c].step = "evicting" =>
            \A d \in lease[c].req.devices : \A e \in loadedOn[d] : Conflict(c, e) => e \in lease[c].evict
      /\ lease[c].step = "making room" => \A e \in lease[c].evict : lease[e].req.role # lease[c].req.role
      /\ lease[c].step \in {"working", "making room"} =>
            \A d \in lease[c].req.devices : c \in loadedOn[d]
  <2>1. ASSUME NEW d \in lease[c].req.devices, NEW e \in loadedOn[d]
        PROVE  e \in Entries(c)
    BY DEF Entries
  <2> QED
    BY <2>1 DEF GpuInv, TableOfLeases
<1>6. CASE LockNext(c)
  <2>1. lease' = [lease EXCEPT ![c] = lease[c]] /\ lease[c].step = "locking"
    BY <1>1, <1>6 DEF LockNext
  <2> QED
    BY <1>1, <1>2, <1>3, <1>4, <2>1, LeaseStepKeepsInv DEF InProgress
<1>7. CASE FindConflicts(c)
  <2> DEFINE next == [lease[c] EXCEPT !.step = "evicting", !.evict = {e \in Entries(c) : Conflict(c, e)}]
  <2>1. lease' = [lease EXCEPT ![c] = next] /\ lease[c].step = "locking"
    BY <1>7 DEF FindConflicts
  <2>2. Entries(c) \subseteq GpuCalls
    BY <1>1 DEF Entries
  <2>3. /\ next \in Leases /\ next.req = lease[c].req /\ next.step = "evicting"
        /\ next.thread = lease[c].thread /\ next.evict = {e \in Entries(c) : Conflict(c, e)}
    BY <1>1, <2>2 DEF Leases, LeaseSteps
  <2>4. \A d \in lease[c].req.devices : \A e \in loadedOn[d] : Conflict(c, e) => e \in next.evict
    BY <2>3 DEF Entries
  <2> HIDE DEF next
  <2> QED
    BY <1>1, <1>2, <1>3, <1>4, <2>1, <2>3, <2>4, LeaseStepKeepsInv DEF InProgress
<1>8. CASE StartEviction(c)
  <2>1. PICK role \in Roles \cup {"none"} : lease' = [lease EXCEPT ![c].thread = role]
    <3>1. PICK e \in lease[c].evict : lease' = [lease EXCEPT ![c].thread = lease[e].req.role]
      BY <1>8 DEF StartEviction
    <3>2. lease[e].req \in Requests \cup {Unloaded}
      BY <1>1 DEF Leases
    <3>3. lease[e].req.role \in Roles \cup {"none"}
      BY <3>2, RequestFacts DEF Unloaded
    <3> QED
      BY <3>1, <3>3
  <2> DEFINE next == [lease[c] EXCEPT !.thread = role]
  <2>2. lease' = [lease EXCEPT ![c] = next] /\ lease[c].step \in {"evicting", "making room"}
    BY <1>8, <2>1 DEF StartEviction
  <2>3. /\ next \in Leases /\ next.req = lease[c].req /\ next.step = lease[c].step
        /\ next.thread = role /\ next.evict = lease[c].evict
    BY <1>1 DEF Leases
  <2> HIDE DEF next
  <2> QED
    BY <1>1, <1>2, <1>3, <1>5, <2>2, <2>3, RoleNames, LeaseStepKeepsInv DEF InProgress
<1>9. CASE TryAgain(c)
  <2> DEFINE next == [lease[c] EXCEPT !.step = "working", !.thread = "load"]
  <2>1. lease' = [lease EXCEPT ![c] = next] /\ lease[c].step = "making room"
    BY <1>9 DEF TryAgain
  <2>2. /\ next \in Leases /\ next.req = lease[c].req /\ next.step = "working"
        /\ next.thread = "load" /\ next.evict = lease[c].evict
    BY <1>1 DEF Leases, LeaseSteps
  <2> HIDE DEF next
  <2> QED
    BY <1>1, <1>2, <1>3, <1>5, <2>1, <2>2, RoleNames, LeaseStepKeepsInv DEF InProgress
<1>10. CASE OutOfMemory(c)
  <2>1. PICK others \in SUBSET GpuCalls :
           /\ \A e \in others : lease[e].req.role # lease[c].req.role
           /\ lease' = [lease EXCEPT ![c].step = "making room", ![c].evict = others,
                                     ![c].thread = "none", ![c].retried = TRUE]
    <3>1. Entries(c) \subseteq GpuCalls
      BY <1>1 DEF Entries
    <3> QED
      BY <1>10, <3>1 DEF OutOfMemory
  <2> DEFINE next == [lease[c] EXCEPT !.step = "making room", !.evict = others,
                                      !.thread = "none", !.retried = TRUE]
  <2>2. lease' = [lease EXCEPT ![c] = next] /\ lease[c].step = "working"
    BY <1>10, <2>1 DEF OutOfMemory
  <2>3. /\ next \in Leases /\ next.req = lease[c].req /\ next.step = "making room"
        /\ next.thread = "none" /\ next.evict = others
    BY <1>1 DEF Leases, LeaseSteps
  <2> HIDE DEF next
  <2> QED
    BY <1>1, <1>2, <1>3, <1>5, <2>1, <2>2, <2>3, RoleNames, LeaseStepKeepsInv DEF InProgress
<1>11. CASE GpuCancel(c)
  <2> DEFINE next == [lease[c] EXCEPT !.step = "cancelled", !.evict = {}]
  <2>1. lease' = [lease EXCEPT ![c] = next] /\ InProgress(c)
    BY <1>11 DEF GpuCancel, InProgress
  <2>2. /\ next \in Leases /\ next.req = lease[c].req /\ next.step = "cancelled"
        /\ next.evict = {}
    BY <1>1 DEF Leases, LeaseSteps
  <2> HIDE DEF next
  <2> QED
    BY <1>1, <1>2, <1>3, <2>1, <2>2, LeaseStepKeepsInv
<1> QED
  BY <1>6, <1>7, <1>8, <1>9, <1>10, <1>11

(* A thread that has unloaded what its role had. *)
LEMMA EvictedKeepsInv ==
  ASSUME GpuInv, NEW c \in GpuCalls, Evicted(c)
  PROVE  GpuInv'
<1> USE DEF Step, Wants
<1>1. /\ lease \in [GpuCalls -> Leases] /\ lease[c] \in Leases
      /\ loadedOn \in [Gpus -> SUBSET GpuCalls]
      /\ memory \in [Roles -> Requests \cup {Unloaded}]
      /\ lease[c].req.devices \subseteq Gpus
      /\ \A d \in Gpus : \A e \in loadedOn[d] : e \in GpuCalls
  BY GpuTyped DEF GpuInv
<1> DEFINE role == lease[c].thread
<1>2. /\ role \in Roles /\ memory' = [memory EXCEPT ![role] = Unloaded] /\ serves' = serves
      /\ gpuLock \in [Gpus -> 0..MaxGpuCalls]
      /\ Unlocked(c) \in [Gpus -> 0..MaxGpuCalls]
  BY LocksTyped DEF Evicted, GpuInv
<1>3. /\ memory' \in [Roles -> Requests \cup {Unloaded}] /\ memory'[role] = Unloaded
      /\ \A r \in Roles : memory'[r] \in {memory[r], Unloaded}
  BY <1>1, <1>2
<1>5. /\ lease[c].step = "evicting" =>
            \A d \in lease[c].req.devices : \A e \in loadedOn[d] : Conflict(c, e) => e \in lease[c].evict
      /\ lease[c].step = "making room" => \A e \in lease[c].evict : lease[e].req.role # lease[c].req.role
      /\ lease[c].step = "making room" => \A d \in lease[c].req.devices : c \in loadedOn[d]
  <2>1. ASSUME NEW d \in lease[c].req.devices, NEW e \in loadedOn[d]
        PROVE  e \in Entries(c)
    BY DEF Entries
  <2> QED
    BY <2>1 DEF GpuInv, TableOfLeases
<1>6. ASSUME lease[c].step \in {"evicting", "making room"},
             NEW e \in lease[c].evict, lease[e].req.role = role,
             loadedOn' = [d \in Gpus |-> loadedOn[d] \ {e}], gpuLock' = gpuLock,
             lease' = [lease EXCEPT ![c].thread = "none", ![c].evict = @ \ {e}]
      PROVE  GpuInv'
  <2> DEFINE next == [lease[c] EXCEPT !.thread = "none", !.evict = @ \ {e}]
  <2>1. lease' = [lease EXCEPT ![c] = next]
    BY <1>6
  <2>2. /\ next \in Leases /\ next.req = lease[c].req /\ next.step = lease[c].step
        /\ next.thread = "none" /\ next.evict = lease[c].evict \ {e}
    BY <1>1 DEF Leases
  <2>3. /\ loadedOn' \in [Gpus -> SUBSET GpuCalls]
        /\ \A d \in Gpus : loadedOn'[d] = loadedOn[d] \ {e} /\ loadedOn'[d] \subseteq loadedOn[d]
    BY <1>1, <1>6
  <2>4. \A r \in Roles, d \in Gpus : \A f \in loadedOn[d] :
           memory'[r] # Unloaded /\ lease[f].req.role = r => f \in loadedOn'[d]
    BY <1>3, <1>6, <2>3
  <2>5. /\ lease[c].step = "evicting" =>
              \A d \in lease[c].req.devices : \A f \in loadedOn'[d] : Conflict(c, f) => f \in next.evict
        /\ lease[c].step = "making room" =>
              /\ \A f \in next.evict : lease[f].req.role # lease[c].req.role
              /\ \A d \in lease[c].req.devices : c \in loadedOn'[d]
    BY <1>1, <1>5, <1>6, <2>2, <2>3
  <2>6. InProgress(c) /\ "none" \notin Roles /\ gpuLock' \in [Gpus -> 0..MaxGpuCalls]
    BY <1>2, <1>6, RoleNames DEF InProgress
  <2>7. next.step \in {"evicting", "making room"}
    BY <1>6, <2>2
  <2> HIDE DEF next
  <2> QED
    BY <1>2, <1>3, <2>1, <2>2, <2>3, <2>4, <2>5, <2>6, <2>7, LeaseStepKeepsInv
<1>7. CASE /\ lease[c].step \in {"evicting", "making room"}
           /\ lease' = [lease EXCEPT ![c].thread = "none", ![c].step = "over", ![c].evict = {}]
           /\ gpuLock' = Unlocked(c) /\ loadedOn' = loadedOn
  <2> DEFINE next == [lease[c] EXCEPT !.thread = "none", !.step = "over", !.evict = {}]
  <2>1. lease' = [lease EXCEPT ![c] = next]
    BY <1>7
  <2>2. /\ next \in Leases /\ next.req = lease[c].req /\ next.step = "over"
        /\ next.thread = "none"
    BY <1>1 DEF Leases, LeaseSteps
  <2> HIDE DEF next
  <2> QED
    BY <1>1, <1>2, <1>3, <1>7, <2>1, <2>2, RoleNames, LeaseStepKeepsInv DEF InProgress
<1>8. CASE /\ lease[c].step = "cancelled"
           /\ lease' = [lease EXCEPT ![c].thread = "none"]
           /\ gpuLock' = gpuLock /\ loadedOn' = loadedOn
  <2> DEFINE next == [lease[c] EXCEPT !.thread = "none"]
  <2>1. lease' = [lease EXCEPT ![c] = next]
    BY <1>8
  <2>2. /\ next \in Leases /\ next.req = lease[c].req /\ next.step = "cancelled"
        /\ next.thread = "none"
    BY <1>1, <1>8 DEF Leases
  <2> HIDE DEF next
  <2> QED
    BY <1>1, <1>2, <1>3, <1>8, <2>1, <2>2, RoleNames, LeaseStepKeepsInv DEF InProgress
<1> QED
  BY <1>6, <1>7, <1>8 DEF Evicted

(* A thread that was loading or using a model, or was left to it. *)
LEMMA ThreadEndsKeepsInv ==
  ASSUME GpuInv, NEW c \in GpuCalls, ThreadEnds(c)
  PROVE  GpuInv'
<1> USE DEF Step, Wants
<1>1. /\ lease \in [GpuCalls -> Leases] /\ lease[c] \in Leases
      /\ loadedOn \in [Gpus -> SUBSET GpuCalls]
      /\ memory \in [Roles -> Requests \cup {Unloaded}]
  BY GpuTyped DEF GpuInv
<1>2. /\ lease[c].thread \in {"load", "use"} /\ lease[c].step \in {"working", "cancelled"}
      /\ loadedOn' = loadedOn /\ serves' = serves
      /\ gpuLock \in [Gpus -> 0..MaxGpuCalls]
      /\ Unlocked(c) \in [Gpus -> 0..MaxGpuCalls]
  BY LocksTyped DEF ThreadEnds, GpuInv, CallsInTurn
<1>3. /\ memory' \in [Roles -> Requests \cup {Unloaded}]
      /\ \A r \in Roles : memory'[r] \in {memory[r], Unloaded}
  BY <1>1 DEF ThreadEnds
<1>4. PICK over \in {lease[c].step, "over"} :
         /\ lease' = [lease EXCEPT ![c] = [lease[c] EXCEPT !.thread = "none", !.step = over]]
         /\ gpuLock' \in [Gpus -> 0..MaxGpuCalls]
         /\ lease[c].step = "working" => over = "over"
         /\ lease[c].step = "cancelled" => over = "cancelled"
  <2>1. CASE lease[c].step = "working"
    BY <1>1, <1>2, <2>1 DEF ThreadEnds
  <2>2. CASE lease[c].step = "cancelled"
    <3>1. lease' = [lease EXCEPT ![c].thread = "none"] /\ gpuLock' = gpuLock
      BY <2>2 DEF ThreadEnds
    <3>2. [lease[c] EXCEPT !.thread = "none", !.step = "cancelled"] = [lease[c] EXCEPT !.thread = "none"]
      BY <1>1, <2>2 DEF Leases
    <3> QED
      BY <1>2, <2>2, <3>1, <3>2
  <2> QED
    BY <1>2, <2>1, <2>2
<1> DEFINE next == [lease[c] EXCEPT !.thread = "none", !.step = over]
<1>5. /\ next \in Leases /\ next.req = lease[c].req /\ next.step = over /\ next.thread = "none"
      /\ next.evict = lease[c].evict
  BY <1>1, <1>4 DEF Leases, LeaseSteps
<1> HIDE DEF next
<1>6. lease' = [lease EXCEPT ![c] = next]
  BY <1>4 DEF next
<1> QED
  BY <1>1, <1>2, <1>3, <1>4, <1>5, <1>6, RoleNames, LeaseStepKeepsInv DEF InProgress

LEMMA GpuInvHolds == GpuSpec => []GpuInv
<1>1. GpuInit => GpuInv
  <2> SUFFICES ASSUME GpuInit PROVE GpuInv
    OBVIOUS
  <2> USE DEF Step, Wants
  <2>1. /\ \A c \in GpuCalls : /\ lease[c].step = "idle" /\ lease[c].thread = "none"
                              /\ Idle \in Leases
        /\ lease = [c \in GpuCalls |-> Idle]
    BY DEF GpuInit, Idle, Leases, LeaseSteps
  <2>2. GpuTypeOK
    <3>1. lease \in [GpuCalls -> Leases]
      BY <2>1
    <3>2. 0 \in 0..MaxGpuCalls
      BY GpuCallsAssumption
    <3> QED
      BY <3>1, <3>2 DEF GpuInit, GpuTypeOK, Leases, LeaseSteps
  <2>3. CallsInTurn
    <3>1. \A c \in GpuCalls : ~(c <= serves)
      BY GpuCallsAssumption DEF GpuInit, GpuCalls
    <3> QED
      BY <2>1, <3>1, RoleNames DEF CallsInTurn, InProgress
  <2>4. TableOfLeases
    BY <2>1 DEF GpuInit, TableOfLeases
  <2>5. MemoryInTable
    BY DEF GpuInit, MemoryInTable
  <2>6. LlmIsAlone
    <3>1. \A r \in Roles : ~memory[r].exclusive
      BY DEF GpuInit, Unloaded
    <3> QED
      BY <2>1, <3>1 DEF GpuInit, LlmIsAlone
  <2> QED
    BY <2>2, <2>3, <2>4, <2>5, <2>6 DEF GpuInv
<1>2. GpuInv /\ [GpuNext]_gpuVars => GpuInv'
  <2> SUFFICES ASSUME GpuInv, [GpuNext]_gpuVars PROVE GpuInv'
    OBVIOUS
  <2>1. CASE UNCHANGED gpuVars
    <3> USE <2>1 DEF gpuVars, GpuInv, Step, Wants
    <3>1. GpuTypeOK'
      BY DEF GpuTypeOK
    <3>2. CallsInTurn'
      BY DEF CallsInTurn, InProgress
    <3>3. TableOfLeases'
      <4>1. \A c \in GpuCalls : Entries(c)' = Entries(c)
        BY DEF Entries
      <4>2. \A c, e : Conflict(c, e)' <=> Conflict(c, e)
        BY DEF Conflict
      <4> QED
        BY <4>1, <4>2 DEF TableOfLeases
    <3>4. MemoryInTable' /\ LlmIsAlone'
      BY DEF MemoryInTable, LlmIsAlone, Calm
    <3> QED
      BY <3>1, <3>2, <3>3, <3>4
  <2> QED
    BY <2>1, GpuCallKeepsInv, WaitingStepsKeepInv, EvictedKeepsInv, EnterLeaseKeepsInv,
       LoadModelKeepsInv, ThreadEndsKeepsInv DEF GpuNext
<1> QED
  BY <1>1, <1>2, PTL DEF GpuSpec

(* Every variable of the residency keeps its type, for any number of calls,    *)
(* devices and models (gpu_residency.py:53-150).                              *)
THEOREM GpuTypesHold == GpuSpec => []GpuTypeOK
<1>1. GpuInv => GpuTypeOK
  BY DEF GpuInv
<1> QED
  BY <1>1, GpuInvHolds, PTL

(* Whatever calls are cancelled and wherever, the table never has the language  *)
(* model beside another, and the memory agrees as long as none was             *)
(* (gpu_residency.py:57-118).                                                 *)
THEOREM LlmStaysAlone == GpuSpec => []LlmIsAlone
<1>1. GpuInv => LlmIsAlone
  BY DEF GpuInv
<1> QED
  BY <1>1, GpuInvHolds, PTL
=============================================================================
