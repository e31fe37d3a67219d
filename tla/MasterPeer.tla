----------------------------- MODULE MasterPeer -----------------------------
(* The master's end of a job: GpStationJobPeer of the Python SDK (job_peer.py) *)
(* and of the JavaScript SDK (job-peer.ts). The two keep the same state; where *)
(* they treat it differently there is a Py and a Js operator.                  *)
EXTENDS JobChannel

CONSTANTS
    Sdks,       \* the SDKs a master may use: a subset of {"python", "js"}
    SlowAcks    \* those whose acknowledgement may take time to leave the buffer

VARIABLE peer
(* sdk      which of the two                                                   *)
(* up       the channel is open as the peer sees it                            *)
(* closed   isClosed                                                           *)
(* issued   calls made so far; state[c], how each stands for its caller        *)
(* pending  pendingCall; response: the result being received                   *)
(* sending  calls whose request frames are still being sent, unsent[c] of them *)
(* acking   results whose acknowledgement is still in the buffer               *)
(* finish   "no", "sent", "done" or "failed"                                   *)

NoResponse == [call |-> NoCall, next |-> 0, parts |-> 0, sound |-> TRUE]

PeerInit ==
    \E sdk \in Sdks :
        peer = [sdk |-> sdk, up |-> FALSE, closed |-> FALSE, issued |-> 0,
                state |-> [c \in Calls |-> "new"], pending |-> NoCall,
                response |-> NoResponse, sending |-> {},
                unsent |-> [c \in Calls |-> 0], size |-> [c \in Calls |-> 0],
                acking |-> {}, finish |-> "no"]

PeerTypeOK ==
    /\ peer.sdk \in Sdks
    /\ {peer.up, peer.closed} \subseteq BOOLEAN
    /\ peer.issued \in 0..MaxCalls
    /\ peer.state \in [Calls -> {"new", "open", "resolved", "torn", "rejected"}]
    /\ peer.pending \in Calls \cup {NoCall}
    /\ peer.response \in [call : Calls \cup {NoCall}, next : 0..MaxParts,
                          parts : 0..MaxParts, sound : BOOLEAN]
    /\ peer.sending \subseteq Calls /\ peer.acking \subseteq Calls
    /\ {peer.unsent, peer.size} \subseteq [Calls -> 0..MaxParts]
    /\ peer.finish \in {"no", "sent", "done", "failed"}

Usable(p) == p.up /\ ~p.closed
Open(p, c) == c # NoCall /\ p.state[c] = "open"

(* _clear_pending_call / clearPendingCall *)
ClearPending(p) == [p EXCEPT !.pending = NoCall, !.response = NoResponse]

(* A rejection that forgets the caller. *)
BugRejectPending(p) == ClearPending(p)

(* _reject_pending_call / rejectPendingCall *)
RejectPending(p) ==
    [ClearPending(p) EXCEPT
        !.state = [c \in Calls |-> IF c = p.pending /\ Open(p, c) THEN "rejected"
                                                                  ELSE p.state[c]]]

(* _reject_open_work: a finish that was sent counts as done. *)
RejectOpenWork(p) ==
    [RejectPending(p) EXCEPT !.finish = IF p.finish = "sent" THEN "done" ELSE p.finish]

(* The caller of the latest call has its answer. A Python call() returns only *)
(* after it stopped sending.                                                  *)
CallerFree ==
    peer.issued > 0 => /\ peer.state[peer.issued] # "open"
                       /\ peer.sdk = "python" => peer.issued \notin peer.sending

(* wait_until_open, send_ready *)
SendReady ==
    /\ link = "opening" /\ ~peer.closed
    /\ link' = "open"
    /\ toSlave' = <<Frame("ready", JobId)>>
    /\ peer' = [peer EXCEPT !.up = TRUE]
    /\ UNCHANGED toMaster

(* call: the frame goes out, its attachments follow. *)
MakeCall(parts) ==
    LET call == peer.issued + 1 IN
    /\ Usable(peer) /\ CallerFree /\ peer.finish = "no"
    /\ peer.issued < MaxCalls
    /\ peer.pending = NoCall
    /\ peer' = [peer EXCEPT !.issued = call, !.state[call] = "open", !.pending = call,
                            !.response = NoResponse,
                            !.sending = IF parts = 0 THEN peer.sending
                                                     ELSE peer.sending \cup {call},
                            !.unsent[call] = parts, !.size[call] = parts]
    /\ toSlave' = Put(toSlave, <<Opening("call", call, parts, TRUE)>>)
    /\ UNCHANGED <<link, toMaster>>

(* _send_request_attachment / sendRequestAttachment: a frame, or the end of   *)
(* the wait after the last one.                                               *)
SendRequestChunk(call) ==
    /\ call \in peer.sending /\ Usable(peer)
    /\ IF peer.unsent[call] > 0
       THEN /\ peer' = [peer EXCEPT !.unsent[call] = peer.unsent[call] - 1]
            /\ toSlave' = Put(toSlave, <<Chunk(call, peer.size[call] - peer.unsent[call],
                                               peer.unsent[call] = 1)>>)
       ELSE /\ peer' = [peer EXCEPT !.sending = peer.sending \ {call}, !.size[call] = 0]
            /\ UNCHANGED toSlave
    /\ UNCHANGED <<link, toMaster>>

(* The buffer does not drain, or the channel is found closed. Python ends this *)
(* call; JavaScript rejects whichever call is pending.                         *)
PyStopSending(call) ==
    /\ peer.sdk = "python" /\ call \in peer.sending
    /\ peer' = [ClearPending(peer) EXCEPT
                  !.sending = peer.sending \ {call}, !.unsent[call] = 0, !.size[call] = 0,
                  !.state[call] = IF peer.state[call] = "open" THEN "rejected"
                                                               ELSE peer.state[call]]
    /\ UNCHANGED channelVars

JsStopSending(call) ==
    /\ peer.sdk = "js" /\ call \in peer.sending
    /\ peer' = [RejectPending(peer) EXCEPT !.sending = peer.sending \ {call},
                                          !.unsent[call] = 0, !.size[call] = 0]
    /\ UNCHANGED channelVars

(* The deadline of a call. Python's belongs to the caller that waits for the   *)
(* future; JavaScript's is a timer that clearing the pending call cancels.     *)
PyCallTimeout(call) ==
    /\ peer.sdk = "python"
    /\ Open(peer, call) /\ call \notin peer.sending
    /\ peer' = [(IF peer.pending = call THEN ClearPending(peer) ELSE peer)
                  EXCEPT !.state[call] = "rejected"]
    /\ UNCHANGED channelVars

JsCallTimeout(call) ==
    /\ peer.sdk = "js"
    /\ peer.pending = call /\ Open(peer, call)
    /\ peer' = RejectPending(peer)
    /\ UNCHANGED channelVars

(* ------------------------------------------------------ receiving a result *)

Settle(p, call, state) ==
    [ClearPending(p) EXCEPT !.state[call] = IF p.state[call] = "open" THEN state
                                                                      ELSE p.state[call]]

(* _resolve_pending_call up to the wait for the buffer; without a wait the     *)
(* call is resolved at once.                                                   *)
Acknowledge(p) ==
    LET call == p.response.call IN
    IF ~Usable(p)
    THEN peer' = RejectPending(p) /\ UNCHANGED toSlave
    ELSE /\ toSlave' = Put(toSlave, <<Frame("ack", call)>>)
         /\ \/ peer' = Settle(p, call, "resolved")
            \/ /\ p.sdk \in SlowAcks
               /\ peer' = [p EXCEPT !.acking = p.acking \cup {call}]

(* After the wait Python resolves the call it acknowledged, but clears the one *)
(* that is pending by then.                                                    *)
PyAckDrained(call) ==
    /\ peer.sdk = "python" /\ call \in peer.acking
    /\ peer' = [Settle(peer, call, "resolved") EXCEPT !.acking = peer.acking \ {call}]
    /\ UNCHANGED channelVars

(* JavaScript reads the pending call and the response after the wait: a newer  *)
(* call is cleared with its timer, and resolved with what has come of its      *)
(* result, or not at all.                                                      *)
JsAckDrained(call) ==
    /\ peer.sdk = "js" /\ call \in peer.acking
    /\ LET whole == peer.response.next = peer.response.parts
           read  == IF peer.response.call = NoCall THEN ClearPending(peer)
                    ELSE Settle(peer, peer.pending, IF whole THEN "resolved" ELSE "torn")
       IN  peer' = [read EXCEPT !.acking = peer.acking \ {call}]
    /\ UNCHANGED channelVars

(* RESULT_ACK_BUFFER_TIMEOUT_SECONDS, or the channel closes. *)
AckStuck(call) ==
    /\ call \in peer.acking
    /\ peer' = [RejectPending(peer) EXCEPT !.acking = peer.acking \ {call}]
    /\ UNCHANGED channelVars

(* A result that is taken for the pending call's, whatever its id. *)
BugTakeResult(frame) ==
    IF peer.pending = NoCall
    THEN UNCHANGED <<peer, toSlave>>
    ELSE LET p == [peer EXCEPT !.response = [call |-> peer.pending, next |-> 0,
                                             parts |-> frame.parts, sound |-> frame.sound]]
         IN  IF frame.parts = 0 THEN Acknowledge(p)
             ELSE peer' = p /\ UNCHANGED toSlave

(* job.result: of any call but the pending one it is a protocol error, which   *)
(* rejects the pending one.                                                    *)
TakeResult(frame) ==
    IF frame.call # peer.pending
    THEN peer' = RejectPending(peer) /\ UNCHANGED toSlave
    ELSE LET p == [peer EXCEPT !.response = [call |-> frame.call, next |-> 0,
                                             parts |-> frame.parts, sound |-> frame.sound]]
         IN  IF frame.parts = 0 THEN Acknowledge(p)
             ELSE peer' = p /\ UNCHANGED toSlave

(* _handle_binary_message / handleBinaryMessage. A result whose sizes do not  *)
(* add up (sound is FALSE) is found out with its last chunk.                  *)
TakeResultChunk(frame) ==
    IF peer.response = NoResponse
    THEN UNCHANGED <<peer, toSlave>>
    ELSE IF \/ frame.call # peer.pending
            \/ frame.index # peer.response.next
            \/ frame.final /\ ~peer.response.sound
    THEN peer' = RejectPending(peer) /\ UNCHANGED toSlave
    ELSE LET p == [peer EXCEPT !.response.next = frame.index + 1]
         IN  IF frame.final THEN Acknowledge(p)
             ELSE peer' = p /\ UNCHANGED toSlave

(* job.error of the pending call rejects it; any other is about the job. *)
TakeError(frame) ==
    /\ peer' = IF frame.call = peer.pending THEN RejectPending(peer)
                                            ELSE RejectOpenWork(peer)
    /\ UNCHANGED toSlave

(* Python consumes its messages one by one, JavaScript starts a handler for   *)
(* each.                                                                      *)
MasterReceives ==
    /\ peer.up /\ ~peer.closed
    /\ peer.sdk = "python" => peer.acking = {}
    /\ toMaster # <<>>
    /\ toMaster' = Tail(toMaster)
    /\ LET frame == Head(toMaster) IN
         \/ frame.kind = "result" /\ TakeResult(frame)
         \/ frame.kind = "chunk" /\ TakeResultChunk(frame)
         \/ frame.kind = "error" /\ TakeError(frame)
         \/ /\ frame.kind = "finished"
            /\ peer' = [peer EXCEPT !.finish = IF peer.finish = "sent" THEN "done"
                                                                       ELSE peer.finish]
            /\ UNCHANGED toSlave
    /\ UNCHANGED link

(* ------------------------------------------------------- finish and closing *)

SendFinish ==
    /\ Usable(peer) /\ CallerFree
    /\ peer.pending = NoCall /\ peer.finish = "no"
    /\ peer' = [peer EXCEPT !.finish = "sent"]
    /\ toSlave' = Put(toSlave, <<Frame("finish", JobId)>>)
    /\ UNCHANGED <<link, toMaster>>

FinishTimeout ==
    /\ peer.finish = "sent"
    /\ peer' = [peer EXCEPT !.finish = "failed"]
    /\ UNCHANGED channelVars

(* close, also after a finish and when the task of a call is cancelled. *)
Close ==
    /\ ~peer.closed
    /\ peer' = [RejectPending(peer) EXCEPT !.closed = TRUE,
                   !.finish = IF peer.finish = "sent" THEN "failed" ELSE peer.finish]
    /\ link' = "down"
    /\ toMaster' = <<>>
    /\ UNCHANGED toSlave

(* The channel's close or error event; frames not yet handled are lost. *)
MasterSeesClose ==
    /\ link = "down" /\ peer.up /\ ~peer.closed
    /\ peer' = [RejectOpenWork(peer) EXCEPT !.up = FALSE]
    /\ toMaster' = <<>>
    /\ UNCHANGED <<link, toSlave>>
=============================================================================
