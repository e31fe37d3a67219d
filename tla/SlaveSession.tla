---------------------------- MODULE SlaveSession ----------------------------
(* The slave's end of a job: run_worker_job, its session loop and the message *)
(* handlers of the job's DataChannel (sdk/slave/worker.py, channel.py).       *)
EXTENDS JobChannel

VARIABLE slave
(* phase    where run_worker_job is: "answering", "waiting" (for job.ready),  *)
(*          "idle" (between calls), "taken" (a call is out of the queue),     *)
(*          "running" (its handler), "replying" (sending the result),         *)
(*          "acking" (waiting for job.result.ack), "ended"                    *)
(* prepared the connection is the prewarmed one                               *)
(* ready, finish, gone   ready_event, finish_event, closed_event              *)
(* queue, incoming, busy call_queue, incoming_call, call_in_progress          *)
(* current  the call being served; left, parts, sound: its result             *)
(* acked    the event registered for current is set                           *)
(* report   the last word to the launcher: result, error or cancelled         *)
(* handled, answered, refused   history of calls                              *)

NoIncoming == [call |-> NoCall, next |-> 0]

SlaveInit ==
    \E prepared \in BOOLEAN :
        slave = [phase |-> "answering", prepared |-> prepared, ready |-> FALSE,
                 finish |-> FALSE, gone |-> FALSE, queue |-> <<>>,
                 incoming |-> NoIncoming, busy |-> FALSE, current |-> NoCall,
                 left |-> 0, parts |-> 0, acked |-> FALSE, report |-> "none",
                 handled |-> 0, answered |-> {}, refused |-> {}]

SlaveTypeOK ==
    /\ slave.phase \in {"answering", "waiting", "idle", "taken", "running",
                        "replying", "acking", "ended"}
    /\ {slave.prepared, slave.ready, slave.finish, slave.gone, slave.busy,
        slave.acked} \subseteq BOOLEAN
    /\ slave.queue \in Seq(Calls) /\ Len(slave.queue) <= 1
    /\ slave.incoming \in [call : Calls \cup {NoCall}, next : 0..MaxParts]
    /\ {slave.current, slave.handled} \subseteq Calls \cup {NoCall}
    /\ slave.left \in 0..MaxParts /\ slave.parts \in 0..MaxParts
    /\ slave.report \in {"none", "result", "error", "cancelled"}
    /\ slave.answered \subseteq Calls /\ slave.refused \subseteq Calls

(* ------------------------------------------------------ the job's own task *)

(* The end of run_worker_job_call, which forgets the call. *)
Served(s) == [s EXCEPT !.phase = "idle", !.busy = FALSE, !.acked = FALSE,
                       !.current = NoCall, !.parts = 0, !.left = 0]

(* The end of run_worker_job: last frame, report, and pc.close().             *)
EndJob(report, frame) ==
    /\ slave' = [Served(slave) EXCEPT !.phase = "ended", !.report = report,
                                      !.queue = <<>>, !.incoming = NoIncoming]
    /\ toMaster' = Put(toMaster, <<frame>>)
    /\ link' = "down"
    /\ toSlave' = <<>>

FailJob == EndJob("error", Frame("error", JobId))

(* build_worker_job_answer, whose answer a master that gave up before it never  *)
(* uses.                                                                      *)
BuildAnswer ==
    /\ slave' = [slave EXCEPT !.phase = "waiting"]
    /\ link' = IF link = "none" THEN "opening" ELSE link
    /\ UNCHANGED <<toSlave, toMaster>>

(* The offer is answered, from a cold connection if the prewarmed one fails.  *)
AnswerOffer ==
    /\ slave.phase = "answering"
    /\ \/ BuildAnswer
       \/ /\ slave.prepared
          /\ slave' = [slave EXCEPT !.prepared = FALSE]
          /\ UNCHANGED channelVars
       \/ ~slave.prepared /\ FailJob

(* A wait that ignores the closed event. *)
BugAwaitReady ==
    /\ slave.phase = "waiting" /\ slave.ready
    /\ slave' = [slave EXCEPT !.phase = "idle"]
    /\ UNCHANGED channelVars

AwaitReady ==
    /\ slave.phase = "waiting"
    /\ \/ /\ slave.ready
          /\ slave' = [slave EXCEPT !.phase = "idle"]
          /\ UNCHANGED channelVars
       \/ slave.gone /\ ~slave.ready /\ FailJob

(* A send raises once the slave has seen the channel close. *)
Unsendable == slave.gone /\ link = "down"

(* One turn of run_worker_job_session: a close or a finish goes before a call. *)
(* The getter takes a call out of the queue before the loop runs again, so     *)
(* either may still win over a call that was taken.                            *)
SessionTurn ==
    /\ slave.phase \in {"idle", "taken"}
    /\ \/ slave.gone /\ FailJob
       \/ /\ slave.finish
          /\ IF Unsendable THEN FailJob ELSE EndJob("result", Frame("finished", JobId))
       \/ /\ slave.phase = "idle" /\ ~slave.gone /\ ~slave.finish
          /\ slave.queue # <<>>
          /\ slave' = [slave EXCEPT !.phase = "taken", !.current = Head(slave.queue),
                                    !.queue = Tail(slave.queue)]
          /\ UNCHANGED channelVars

StartCall ==
    /\ slave.phase = "taken"
    /\ slave' = [slave EXCEPT !.phase = "running", !.busy = TRUE,
                              !.handled = slave.current]
    /\ UNCHANGED channelVars

HandlerFails ==
    /\ slave.phase = "running"
    /\ IF Unsendable
       THEN FailJob
       ELSE /\ slave' = Served(slave)
            /\ toMaster' = Put(toMaster, <<Frame("error", slave.current)>>)
            /\ UNCHANGED <<link, toSlave>>

(* The handler returns: register the ack event, then send_job_result.         *)
HandlerReturns(parts, sound) ==
    /\ slave.phase = "running"
    /\ IF Unsendable
       THEN FailJob
       ELSE /\ slave' = [slave EXCEPT !.phase = IF parts = 0 THEN "acking" ELSE "replying",
                                      !.parts = parts, !.left = parts, !.acked = FALSE,
                                      !.answered = slave.answered \cup {slave.current}]
            /\ toMaster' = Put(toMaster,
                               <<Opening("result", slave.current, parts, sound)>>)
            /\ UNCHANGED <<link, toSlave>>

(* send_attachment: chunk by chunk, waiting while the buffer is full.         *)
SendResultChunk ==
    /\ slave.phase = "replying"
    /\ IF Unsendable
       THEN FailJob
       ELSE
          /\ slave' = [slave EXCEPT !.left = slave.left - 1,
                                    !.phase = IF slave.left = 1 THEN "acking" ELSE "replying"]
          /\ toMaster' = Put(toMaster, <<Chunk(slave.current, slave.parts - slave.left,
                                               slave.left = 1)>>)
          /\ UNCHANGED <<link, toSlave>>

(* The buffer does not drain in BUFFERED_AMOUNT_DRAIN_TIMEOUT_SECONDS. *)
ResultBufferStuck == slave.phase = "replying" /\ FailJob

(* wait_for_job_result_ack *)
AckArrived ==
    /\ slave.phase = "acking" /\ slave.acked
    /\ slave' = Served(slave)
    /\ UNCHANGED channelVars

AckMissing ==
    /\ slave.phase = "acking" /\ ~slave.acked
    /\ FailJob

(* job.cancel from the launcher, at any await of the job. *)
CancelJob ==
    /\ slave.phase # "ended"
    /\ EndJob("cancelled", Frame("error", JobId))

(* ------------------------------------------------------- the frame handlers *)

Refuse(call) ==
    /\ slave' = [slave EXCEPT !.refused = slave.refused \cup {call}]
    /\ toMaster' = Put(toMaster, <<Frame("error", call)>>)

(* A job.call that is not looked at for being busy with a queued call. *)
BugTakeCall(frame) ==
    IF slave.busy \/ slave.incoming # NoIncoming
    THEN Refuse(frame.call)
    ELSE /\ slave' = IF frame.parts = 0
                     THEN [slave EXCEPT !.queue = Append(slave.queue, frame.call)]
                     ELSE [slave EXCEPT !.incoming = [call |-> frame.call, next |-> 0]]
         /\ UNCHANGED toMaster

(* receive_job_call, behind the busy guard of on_message. *)
TakeCall(frame) ==
    IF slave.busy \/ slave.incoming # NoIncoming \/ slave.queue # <<>>
    THEN Refuse(frame.call)
    ELSE /\ slave' = IF frame.parts = 0
                     THEN [slave EXCEPT !.queue = Append(slave.queue, frame.call)]
                     ELSE [slave EXCEPT !.incoming = [call |-> frame.call, next |-> 0]]
         /\ UNCHANGED toMaster

(* receive_request_attachment_chunk. A chunk that is not the next one of the  *)
(* call being received drops that call; one that belongs to none blames the   *)
(* job.                                                                       *)
TakeChunk(frame) ==
    IF slave.incoming = NoIncoming
    THEN /\ toMaster' = Put(toMaster, <<Frame("error", JobId)>>)
         /\ UNCHANGED slave
    ELSE IF <<frame.call, frame.index>> # <<slave.incoming.call, slave.incoming.next>>
    THEN /\ toMaster' = Put(toMaster, <<Frame("error", slave.incoming.call)>>)
         /\ slave' = [slave EXCEPT !.incoming = NoIncoming]
    ELSE /\ slave' = IF frame.final
                     THEN [slave EXCEPT !.incoming = NoIncoming,
                                        !.queue = Append(slave.queue, frame.call)]
                     ELSE [slave EXCEPT !.incoming.next = frame.index + 1]
         /\ UNCHANGED toMaster

(* An acknowledgement that leaves the guard to the waiting task. *)
BugTakeAck(frame) ==
    /\ slave' = IF slave.phase \in {"replying", "acking"} /\ frame.call = slave.current
                THEN [slave EXCEPT !.acked = TRUE]
                ELSE slave
    /\ UNCHANGED toMaster

(* job.result.ack frees the guard before the waiting task runs again. *)
TakeAck(frame) ==
    /\ slave' = IF slave.phase \in {"replying", "acking"} /\ frame.call = slave.current
                THEN [slave EXCEPT !.acked = TRUE, !.busy = FALSE]
                ELSE slave
    /\ UNCHANGED toMaster

(* on_message of the job's DataChannel. *)
SlaveReceives ==
    /\ slave.phase # "ended"
    /\ toSlave # <<>>
    /\ toSlave' = Tail(toSlave)
    /\ LET frame == Head(toSlave) IN
         \/ /\ frame.kind = "ready"
            /\ slave' = [slave EXCEPT !.ready = TRUE]
            /\ UNCHANGED toMaster
         \/ frame.kind = "call" /\ TakeCall(frame)
         \/ frame.kind = "chunk" /\ TakeChunk(frame)
         \/ frame.kind = "ack" /\ TakeAck(frame)
         \/ /\ frame.kind = "finish"
            /\ slave' = [slave EXCEPT !.finish = TRUE]
            /\ UNCHANGED toMaster
    /\ UNCHANGED link

(* The channel closes, or the connection is closed, failed or disconnected.   *)
(* A disconnected connection may still carry frames: closed_event stays set.  *)
SlaveSeesClose(mayBlip) ==
    /\ slave.phase \notin {"answering", "ended"} /\ ~slave.gone
    /\ \/ link = "down" /\ toSlave' = <<>>
       \/ mayBlip /\ link = "open" /\ UNCHANGED toSlave
    /\ slave' = [slave EXCEPT !.gone = TRUE]
    /\ UNCHANGED <<link, toMaster>>

SlaveStep ==
    \/ AnswerOffer \/ AwaitReady \/ SessionTurn \/ StartCall
    \/ SendResultChunk \/ AckArrived \/ AckMissing
    \/ SlaveReceives \/ SlaveSeesClose(FALSE)
=============================================================================
