----------------------------- MODULE JobSession -----------------------------
(* A job between its master and its slave: MasterPeer and SlaveSession over    *)
(* one JobChannel.                                                             *)
EXTENDS MasterPeer, SlaveSession

CONSTANT Disturbances   \* what may go wrong: a subset of {"blip", "loss", "cancel"}

vars == <<channelVars, peer, slave>>

Init ==
    /\ link = "none" /\ toSlave = <<>> /\ toMaster = <<>>
    /\ PeerInit /\ SlaveInit

Handle == \E parts \in 0..MaxParts, sound \in BOOLEAN :
    /\ parts = 0 => sound
    /\ HandlerReturns(parts, sound)

Timers ==
    \/ \E call \in Calls : PyCallTimeout(call) \/ JsCallTimeout(call)
    \/ FinishTimeout

Drain == \E call \in Calls : PyAckDrained(call) \/ JsAckDrained(call) \/ AckStuck(call)

Upload == \E call \in Calls : SendRequestChunk(call) \/ PyStopSending(call) \/ JsStopSending(call)

(* The connection breaks, for both ends to find out. *)
LoseLink ==
    /\ "loss" \in Disturbances
    /\ link \in {"opening", "open"}
    /\ link' = "down"
    /\ UNCHANGED <<toSlave, toMaster, peer, slave>>

MasterNext ==
    \/ \E parts \in 0..MaxParts : MakeCall(parts)
    \/ SendReady \/ Upload \/ Timers \/ Drain \/ MasterReceives
    \/ SendFinish \/ Close \/ MasterSeesClose

SlaveNext ==
    \/ SlaveStep \/ Handle \/ HandlerFails \/ ResultBufferStuck
    \/ "cancel" \in Disturbances /\ CancelJob
    \/ SlaveSeesClose("blip" \in Disturbances)

Next ==
    \/ MasterNext /\ UNCHANGED slave
    \/ SlaveNext /\ UNCHANGED peer
    \/ LoseLink

Spec == Init /\ [][Next]_vars

(* Frames arrive, timers run out, handlers return and both programs go on; the *)
(* caller of the SDK owes nothing, and no disturbance need happen.             *)
FairSpec ==
    /\ Spec
    /\ WF_vars(MasterReceives /\ UNCHANGED slave)
    /\ WF_vars(MasterSeesClose /\ UNCHANGED slave)
    /\ WF_vars(SendReady /\ UNCHANGED slave)
    /\ WF_vars(Upload /\ UNCHANGED slave)
    /\ WF_vars(Drain /\ UNCHANGED slave)
    /\ \A call \in Calls :
          /\ WF_vars(PyCallTimeout(call) /\ UNCHANGED slave)
          /\ WF_vars(JsCallTimeout(call) /\ UNCHANGED slave)
    /\ WF_vars(SlaveStep /\ UNCHANGED peer)
    /\ WF_vars(Handle /\ UNCHANGED peer)

TypeOK ==
    /\ link \in {"none", "opening", "open", "down"}
    /\ PeerTypeOK /\ SlaveTypeOK

(* ---------------------------------------------------------------- properties *)

(* A call made after the previous one succeeded is never refused as busy: the *)
(* slave has freed its guard when the acknowledgement arrives, before the     *)
(* next frame (worker.py:299-307).                                            *)
NoFalseBusy ==
    \A call \in slave.refused : call > 1 /\ peer.state[call - 1] # "resolved"

(* Each call is handled at most once, in order, one at a time, and resolved   *)
(* only with the whole result of its own handler, whatever call timed out,    *)
(* whatever was refused, whenever the channel broke.                          *)
Contract == INSTANCE CallContract WITH
    outcome  <- [call \in Calls |->
                   CASE peer.state[call] = "resolved" -> "ok"
                     [] peer.state[call] = "rejected" -> "failed"
                     [] OTHER -> peer.state[call]],
    handled  <- slave.handled,
    answered <- slave.answered
ImplementsContract == Contract!Spec

(* Where JavaScript's acknowledgements are slow, a call may be resolved with a  *)
(* part of its result ("torn"). That is all that goes wrong: with torn calls   *)
(* counted among the failed ones the contract is kept, although the older      *)
(* acknowledgement reads the pending call and the response of a newer one     *)
(* (resolvePendingCall, job-peer.ts).                                         *)
Lenient == INSTANCE CallContract WITH
    outcome  <- [call \in Calls |->
                   CASE peer.state[call] = "resolved" -> "ok"
                     [] peer.state[call] \in {"rejected", "torn"} -> "failed"
                     [] OTHER -> peer.state[call]],
    handled  <- slave.handled,
    answered <- slave.answered
OnlyTornBreaksContract == Lenient!Spec

(* Every call comes to an end for its caller: a lost frame, a silent slave or *)
(* a closed channel never leaves it waiting.  It does not hold when an        *)
(* acknowledgement of JavaScript is slow ("js" in SlowAcks): a call may time  *)
(* out while waitForAckBufferedAmountLow (job-peer.ts) waits, and the drain   *)
(* then clears the next call, its timer included, without settling it.        *)
EveryCallSettles == \A call \in Calls : peer.state[call] = "open" ~> peer.state[call] # "open"

(* When the master has closed its end the slave's job ends, so the launcher   *)
(* is free for the next one.                                                  *)
SlaveFollowsClose == peer.closed ~> slave.phase = "ended"
=============================================================================
