-------------------------- MODULE JobSessionProofs --------------------------
(* A job session over one DataChannel, for any calls, frames, SDKs, slow      *)
(* acknowledgements of Python and disturbances.                               *)
EXTENDS JobSession, TLAPS

SlaveFrames ==
  [kind : {"ready", "ack", "finish"}, call : Calls]
    \cup [kind : {"call"}, call : Calls, parts : 0..MaxParts, sound : BOOLEAN]
    \cup [kind : {"chunk"}, call : Calls, index : 0..(MaxParts - 1), final : BOOLEAN]
MasterFrames ==
  [kind : {"error", "finished"}, call : Calls]
    \cup [kind : {"result"}, call : Calls, parts : 0..MaxParts, sound : BOOLEAN]
    \cup [kind : {"chunk"}, call : Calls, index : 0..(MaxParts - 1), final : BOOLEAN]

Responses == [call : Calls \cup {NoCall}, next : 0..MaxParts, parts : 0..MaxParts, sound : BOOLEAN]
PeerRecords ==
  [sdk : Sdks, up : BOOLEAN, closed : BOOLEAN, issued : 0..MaxCalls,
   state : [Calls -> {"new", "open", "resolved", "torn", "rejected"}],
   pending : Calls \cup {NoCall}, response : Responses, sending : SUBSET Calls,
   unsent : [Calls -> 0..MaxParts], size : [Calls -> 0..MaxParts],
   acking : SUBSET Calls, finish : {"no", "sent", "done", "failed"}]

\* At most one call waits to be served.
Queues == {<<>>} \cup {<<c>> : c \in Calls}
SlaveRecords ==
  [phase : {"answering", "waiting", "idle", "taken", "running", "replying", "acking", "ended"},
   prepared : BOOLEAN, ready : BOOLEAN, finish : BOOLEAN, gone : BOOLEAN, queue : Queues,
   incoming : [call : Calls \cup {NoCall}, next : 0..MaxParts], busy : BOOLEAN,
   current : Calls \cup {NoCall}, left : 0..MaxParts, parts : 0..MaxParts,
   acked : BOOLEAN, report : {"none", "result", "error", "cancelled"},
   handled : Calls \cup {NoCall}, answered : SUBSET Calls, refused : SUBSET Calls]

\* No more frames are left of a call than it has, and a result that is being
\* received is that of the pending call.
PeerSound(p) ==
  /\ \A c \in Calls : p.unsent[c] <= p.size[c]
  /\ p.response = NoResponse \/ p.response.call = p.pending
SlaveSound(s) ==
  /\ s.incoming # NoIncoming => s.queue = <<>> /\ s.incoming.call \in Calls
  /\ s.left <= s.parts
  /\ s.phase = "replying" => s.left > 0
  /\ s.phase \in {"taken", "running", "replying", "acking"} => s.current \in Calls

TypeInv ==
  /\ link \in {"none", "opening", "open", "down"}
  /\ toSlave \in Seq(SlaveFrames) /\ toMaster \in Seq(MasterFrames)
  /\ peer \in PeerRecords /\ PeerSound(peer)
  /\ slave \in SlaveRecords /\ SlaveSound(slave)
-----------------------------------------------------------------------------
(* Frames and records *)

LEMMA CallFacts == /\ JobId \in Calls /\ NoCall \notin Calls /\ Calls \subseteq Nat
                   /\ NoResponse \in Responses
                   /\ NoIncoming \in [call : Calls \cup {NoCall}, next : 0..MaxParts]
BY BoundsAssumption DEF JobId, Calls, NoCall, NoResponse, Responses, NoIncoming

LEMMA FrameTypes ==
  ASSUME NEW c \in Calls
  PROVE  /\ \A kind \in {"ready", "ack", "finish"} : Frame(kind, c) \in SlaveFrames
         /\ \A kind \in {"error", "finished"} : Frame(kind, c) \in MasterFrames
         /\ \A parts \in 0..MaxParts, sound \in BOOLEAN :
              /\ Opening("call", c, parts, sound) \in SlaveFrames
              /\ Opening("result", c, parts, sound) \in MasterFrames
         /\ \A index \in 0..(MaxParts - 1), final \in BOOLEAN :
              /\ Chunk(c, index, final) \in SlaveFrames
              /\ Chunk(c, index, final) \in MasterFrames
BY DEF Frame, Opening, Chunk, SlaveFrames, MasterFrames

\* What a frame carries.
LEMMA SlaveFrameFacts ==
  ASSUME NEW f \in SlaveFrames
  PROVE  /\ f.kind \in {"ready", "ack", "finish", "call", "chunk"}
         /\ f.call \in Calls
         /\ f.kind = "call" => f.parts \in 0..MaxParts
         /\ f.kind = "chunk" => f.index \in 0..(MaxParts - 1) /\ f.final \in BOOLEAN
BY DEF SlaveFrames

LEMMA MasterFrameFacts ==
  ASSUME NEW f \in MasterFrames
  PROVE  /\ f.kind \in {"error", "finished", "result", "chunk"}
         /\ f.call \in Calls
         /\ f.kind = "result" => f.parts \in 0..MaxParts /\ f.sound \in BOOLEAN
         /\ f.kind = "chunk" => f.index \in 0..(MaxParts - 1) /\ f.final \in BOOLEAN
BY DEF MasterFrames

\* Frames keep the order in which they were put, and are taken at the front.
LEMMA PutFacts ==
  ASSUME NEW S, NEW q \in Seq(S), NEW f \in S
  PROVE  /\ Put(q, <<f>>) \in Seq(S)
         /\ link = "open" => Put(q, <<f>>) = Append(q, f)
         /\ link # "open" => Put(q, <<f>>) = q
<1>1. q \o <<f>> = Append(q, f) /\ Append(q, f) \in Seq(S)
  OBVIOUS
<1> QED
  BY <1>1 DEF Put

LEMMA TakeFacts ==
  ASSUME NEW S, NEW q \in Seq(S), q # <<>>
  PROVE  /\ Head(q) \in S /\ Head(q) = q[1] /\ Tail(q) \in Seq(S)
         /\ Len(q) \in Nat \ {0} /\ Len(Tail(q)) = Len(q) - 1
         /\ \A i \in 1..Len(Tail(q)) : i + 1 \in 1..Len(q) /\ Tail(q)[i] = q[i + 1]
OBVIOUS

LEMMA ClearTyped ==
  ASSUME NEW p \in PeerRecords
  PROVE  /\ ClearPending(p) \in PeerRecords
         /\ RejectPending(p) \in PeerRecords
         /\ RejectOpenWork(p) \in PeerRecords
         /\ \A c \in Calls, state \in {"resolved", "torn", "rejected"} :
              Settle(p, c, state) \in PeerRecords
<1>1. ClearPending(p) \in PeerRecords
  BY CallFacts DEF ClearPending, PeerRecords
<1>2. RejectPending(p) \in PeerRecords
  BY <1>1 DEF RejectPending, ClearPending, PeerRecords
<1>3. RejectOpenWork(p) \in PeerRecords
  BY <1>2 DEF RejectOpenWork, PeerRecords
<1>4. \A c \in Calls, state \in {"resolved", "torn", "rejected"} :
        Settle(p, c, state) \in PeerRecords
  BY <1>1 DEF Settle, ClearPending, PeerRecords
<1> QED
  BY <1>1, <1>2, <1>3, <1>4

\* What ends the pending call leaves alone, and does to its caller.
Kept(p, q) ==
  /\ q.sdk = p.sdk /\ q.up = p.up /\ q.closed = p.closed /\ q.issued = p.issued
  /\ q.pending = NoCall /\ q.response = NoResponse
  /\ q.sending = p.sending /\ q.acking = p.acking
  /\ q.unsent = p.unsent /\ q.size = p.size

LEMMA ClearKeeps ==
  ASSUME NEW p \in PeerRecords
  PROVE  /\ Kept(p, ClearPending(p)) /\ ClearPending(p).state = p.state
         /\ \A q \in {RejectPending(p), RejectOpenWork(p)} :
              /\ Kept(p, q)
              /\ \A c \in Calls :
                   \/ q.state[c] = p.state[c]
                   \/ c = p.pending /\ p.state[c] = "open" /\ q.state[c] = "rejected"
         /\ \A d \in Calls, state \in {"resolved", "torn", "rejected"} :
              /\ Kept(p, Settle(p, d, state))
              /\ \A c \in Calls :
                   \/ Settle(p, d, state).state[c] = p.state[c]
                   \/ c = d /\ p.state[c] = "open" /\ Settle(p, d, state).state[c] = state
<1>1. Kept(p, ClearPending(p)) /\ ClearPending(p).state = p.state
  BY DEF Kept, ClearPending, PeerRecords
<1>2. Kept(p, RejectPending(p))
  BY <1>1, ClearTyped DEF Kept, RejectPending, PeerRecords
<1>3. RejectPending(p).state = [c \in Calls |-> IF c = p.pending /\ Open(p, c) THEN "rejected"
                                                                            ELSE p.state[c]]
  BY ClearTyped DEF RejectPending, PeerRecords
<1>4. \A c \in Calls :
         \/ RejectPending(p).state[c] = p.state[c]
         \/ c = p.pending /\ p.state[c] = "open" /\ RejectPending(p).state[c] = "rejected"
  BY <1>3 DEF Open
<1>5. Kept(p, RejectOpenWork(p)) /\ RejectOpenWork(p).state = RejectPending(p).state
  BY <1>2, ClearTyped DEF Kept, RejectOpenWork, PeerRecords
<1>6. ASSUME NEW d \in Calls, NEW state \in {"resolved", "torn", "rejected"}
      PROVE  /\ Kept(p, Settle(p, d, state))
             /\ \A c \in Calls :
                  \/ Settle(p, d, state).state[c] = p.state[c]
                  \/ c = d /\ p.state[c] = "open" /\ Settle(p, d, state).state[c] = state
  BY <1>1, ClearTyped DEF Kept, Settle, PeerRecords
<1> QED
  BY <1>1, <1>2, <1>4, <1>5, <1>6
-----------------------------------------------------------------------------
(* Types *)

LEMMA ClearSound ==
  ASSUME NEW p \in PeerRecords, PeerSound(p)
  PROVE  /\ \A q \in {ClearPending(p), RejectPending(p), RejectOpenWork(p)} :
              q \in PeerRecords /\ PeerSound(q)
         /\ \A c \in Calls, state \in {"resolved", "torn", "rejected"} :
              Settle(p, c, state) \in PeerRecords /\ PeerSound(Settle(p, c, state))
<1>1. \A q : Kept(p, q) => PeerSound(q)
  BY DEF Kept, PeerSound
<1> QED
  BY <1>1, ClearTyped, ClearKeeps

LEMMA AcknowledgeTyped ==
  ASSUME toSlave \in Seq(SlaveFrames), NEW p \in PeerRecords, PeerSound(p),
         p.response.call \in Calls, Acknowledge(p)
  PROVE  peer' \in PeerRecords /\ PeerSound(peer') /\ toSlave' \in Seq(SlaveFrames)
<1>1. CASE ~Usable(p)
  <2>1. peer' = RejectPending(p) /\ toSlave' = toSlave
    BY <1>1 DEF Acknowledge
  <2> QED
    BY <2>1, ClearSound
<1>2. CASE Usable(p)
  <2> DEFINE call == p.response.call
  <2>1. /\ toSlave' = Put(toSlave, <<Frame("ack", call)>>)
        /\ \/ peer' = Settle(p, call, "resolved")
           \/ peer' = [p EXCEPT !.acking = p.acking \cup {call}]
    BY <1>2 DEF Acknowledge
  <2>2. toSlave' \in Seq(SlaveFrames)
    BY <2>1, FrameTypes, PutFacts
  <2>3. CASE peer' = Settle(p, call, "resolved")
    BY <2>2, <2>3, ClearSound
  <2>4. CASE peer' = [p EXCEPT !.acking = p.acking \cup {call}]
    <3>1. peer' \in PeerRecords
      BY <2>4 DEF PeerRecords
    <3>2. PeerSound(peer')
      BY <2>4 DEF PeerRecords, PeerSound
    <3> QED
      BY <2>2, <3>1, <3>2
  <2> QED
    BY <2>1, <2>3, <2>4
<1> QED
  BY <1>1, <1>2

\* Each action of the master.
MasterStep ==
  \/ \E parts \in 0..MaxParts : MakeCall(parts)
  \/ SendReady \/ SendFinish \/ FinishTimeout \/ Close \/ MasterSeesClose \/ MasterReceives
  \/ \E call \in Calls :
       \/ SendRequestChunk(call) \/ PyStopSending(call) \/ JsStopSending(call)
       \/ PyCallTimeout(call) \/ JsCallTimeout(call)
       \/ PyAckDrained(call) \/ JsAckDrained(call) \/ AckStuck(call)

LEMMA MasterCases == MasterNext <=> MasterStep
BY DEF MasterNext, MasterStep, Upload, Timers, Drain

LEMMA MasterTyped ==
  ASSUME TypeInv, MasterNext, UNCHANGED slave
  PROVE  TypeInv'
<1> DEFINE Typed == /\ link' \in {"none", "opening", "open", "down"}
                    /\ toSlave' \in Seq(SlaveFrames) /\ toMaster' \in Seq(MasterFrames)
                    /\ peer' \in PeerRecords /\ PeerSound(peer')
<1>0. /\ link \in {"none", "opening", "open", "down"}
      /\ toSlave \in Seq(SlaveFrames) /\ toMaster \in Seq(MasterFrames)
      /\ peer \in PeerRecords /\ PeerSound(peer)
      /\ <<>> \in Seq(SlaveFrames) /\ <<>> \in Seq(MasterFrames)
  BY DEF TypeInv
<1> SUFFICES Typed
  BY DEF TypeInv
<1>1. ASSUME NEW parts \in 0..MaxParts, MakeCall(parts) PROVE Typed
  <2> DEFINE call == peer.issued + 1
  <2>1. call \in Calls /\ call \in 0..MaxCalls
    BY <1>0, <1>1, BoundsAssumption DEF MakeCall, PeerRecords, Calls
  <2>2. toSlave' \in Seq(SlaveFrames)
    BY <1>0, <1>1, <2>1, FrameTypes, PutFacts DEF MakeCall
  <2>3. peer' \in PeerRecords
    BY <1>0, <1>1, <2>1, CallFacts, BoundsAssumption DEF MakeCall, PeerRecords
  <2>4. PeerSound(peer')
    BY <1>0, <1>1, <2>1 DEF MakeCall, PeerRecords, PeerSound
  <2> QED
    BY <1>0, <1>1, <2>2, <2>3, <2>4 DEF MakeCall
<1>2. CASE SendReady
  <2>1. toSlave' \in Seq(SlaveFrames)
    BY <1>2, FrameTypes, CallFacts DEF SendReady
  <2>2. peer' \in PeerRecords /\ PeerSound(peer')
    BY <1>0, <1>2 DEF SendReady, PeerRecords, PeerSound
  <2> QED
    BY <1>0, <1>2, <2>1, <2>2 DEF SendReady
<1>3. CASE SendFinish
  <2>1. toSlave' \in Seq(SlaveFrames)
    BY <1>0, <1>3, FrameTypes, PutFacts, CallFacts DEF SendFinish
  <2> QED
    BY <1>0, <1>3, <2>1 DEF SendFinish, PeerRecords, PeerSound
<1>4. CASE FinishTimeout
  BY <1>0, <1>4 DEF FinishTimeout, PeerRecords, PeerSound, channelVars
<1>5. CASE Close
  <2>1. /\ RejectPending(peer) \in PeerRecords
        /\ PeerSound(RejectPending(peer))
    BY <1>0, ClearSound
  <2>2. peer' \in PeerRecords /\ PeerSound(peer')
    BY <2>1, <1>5, <1>0 DEF Close, PeerRecords, PeerSound
  <2> QED
    BY <1>0, <1>5, <2>2 DEF Close
<1>6. CASE MasterSeesClose
  <2>1. /\ RejectOpenWork(peer) \in PeerRecords
        /\ PeerSound(RejectOpenWork(peer))
    BY <1>0, ClearSound
  <2>2. peer' \in PeerRecords /\ PeerSound(peer')
    BY <2>1, <1>6 DEF MasterSeesClose, PeerRecords, PeerSound
  <2> QED
    BY <1>0, <1>6, <2>2 DEF MasterSeesClose
<1>7. CASE MasterReceives
  <2> DEFINE frame == Head(toMaster)
  <2>1. /\ frame \in MasterFrames /\ toMaster' \in Seq(MasterFrames) /\ link' = link
    BY <1>0, <1>7, TakeFacts DEF MasterReceives
  <2>2. CASE frame.kind = "result" /\ TakeResult(frame)
    <3> DEFINE p == [peer EXCEPT !.response = [call |-> frame.call, next |-> 0,
                                               parts |-> frame.parts, sound |-> frame.sound]]
    <3>0. /\ frame.call \in Calls /\ frame.parts \in 0..MaxParts
          /\ [call |-> frame.call, next |-> 0, parts |-> frame.parts, sound |-> frame.sound]
               \in Responses
      BY <2>1, <2>2, MasterFrameFacts, BoundsAssumption DEF Responses
    <3>1. p \in PeerRecords /\ p.response.call = frame.call
          /\ (frame.call = peer.pending => PeerSound(p))
      BY <1>0, <3>0 DEF PeerRecords, PeerSound
    <3>2. \/ peer' = RejectPending(peer) /\ toSlave' = toSlave
          \/ frame.call = peer.pending /\ Acknowledge(p)
          \/ frame.call = peer.pending /\ peer' = p /\ toSlave' = toSlave
      BY <2>2 DEF TakeResult
    <3>3. PeerSound(RejectPending(peer)) /\ RejectPending(peer) \in PeerRecords
      BY <1>0, ClearSound
    <3> HIDE DEF p
    <3>4. peer' \in PeerRecords /\ PeerSound(peer') /\ toSlave' \in Seq(SlaveFrames)
      BY <1>0, <3>0, <3>1, <3>2, <3>3, AcknowledgeTyped
    <3> QED
      BY <1>0, <2>1, <3>4
  <2>3. CASE frame.kind = "chunk" /\ TakeResultChunk(frame)
    <3> DEFINE p == [peer EXCEPT !.response.next = frame.index + 1]
    <3>0. /\ frame.call \in Calls /\ frame.index + 1 \in 0..MaxParts
          /\ [peer.response EXCEPT !.next = frame.index + 1] \in Responses
      <4>1. frame.call \in Calls /\ frame.index \in 0..(MaxParts - 1)
        BY <2>1, <2>3, MasterFrameFacts
      <4>2. peer.response \in Responses /\ frame.index + 1 \in 0..MaxParts
        BY <1>0, <4>1, BoundsAssumption DEF PeerRecords
      <4> QED
        BY <4>1, <4>2 DEF Responses
    <3>1. /\ p \in PeerRecords /\ p.response.call = peer.response.call
          /\ peer.response.call = frame.call => PeerSound(p)
      <4>1. p = [peer EXCEPT !.response = [peer.response EXCEPT !.next = frame.index + 1]]
        BY <1>0 DEF PeerRecords
      <4>2. p \in PeerRecords /\ p.response.call = peer.response.call
        BY <1>0, <4>1, <3>0 DEF PeerRecords, Responses
      <4>3. /\ p.pending = peer.pending /\ p.unsent = peer.unsent /\ p.size = peer.size
        BY <1>0 DEF PeerRecords
      <4>4. frame.call # NoCall /\ NoResponse.call = NoCall
        BY <3>0, CallFacts DEF NoResponse
      <4>5. PeerSound(p) <=> /\ \A c \in Calls : p.unsent[c] <= p.size[c]
                             /\ p.response = NoResponse \/ p.response.call = p.pending
        BY DEF PeerSound
      <4> HIDE DEF p
      <4>6. frame.call = peer.response.call => PeerSound(p)
        BY <1>0, <4>2, <4>3, <4>4, <4>5, <3>0 DEF PeerSound
      <4> QED
        BY <4>2, <4>6
    <3>2. \/ peer' = peer /\ toSlave' = toSlave
          \/ peer' = RejectPending(peer) /\ toSlave' = toSlave
          \/ peer.response.call = frame.call /\ Acknowledge(p)
          \/ peer.response.call = frame.call /\ peer' = p /\ toSlave' = toSlave
      BY <1>0, <2>3 DEF TakeResultChunk, PeerSound
    <3>3. PeerSound(RejectPending(peer)) /\ RejectPending(peer) \in PeerRecords
      BY <1>0, ClearSound
    <3> HIDE DEF p
    <3>4. peer' \in PeerRecords /\ PeerSound(peer') /\ toSlave' \in Seq(SlaveFrames)
      BY <1>0, <3>0, <3>1, <3>2, <3>3, AcknowledgeTyped
    <3> QED
      BY <1>0, <2>1, <3>4
  <2>4. CASE frame.kind = "error" /\ TakeError(frame)
    <3>1. toSlave' = toSlave /\ (peer' = RejectPending(peer) \/ peer' = RejectOpenWork(peer))
      BY <2>4 DEF TakeError
    <3> QED
      BY <1>0, <2>1, <3>1, ClearSound
  <2>5. CASE frame.kind = "finished" /\ toSlave' = toSlave
             /\ peer' = [peer EXCEPT !.finish = IF peer.finish = "sent" THEN "done" ELSE peer.finish]
    BY <1>0, <2>1, <2>5 DEF PeerRecords, PeerSound
  <2> QED
    BY <1>7, <2>2, <2>3, <2>4, <2>5 DEF MasterReceives
<1>8. ASSUME NEW call \in Calls, SendRequestChunk(call) PROVE Typed
  <2>1. CASE peer.unsent[call] > 0
    <3>1. /\ peer.unsent[call] \in 0..MaxParts /\ peer.size[call] \in 0..MaxParts
          /\ peer.unsent[call] <= peer.size[call]
      BY <1>0 DEF PeerRecords, PeerSound
    <3>2. /\ peer.size[call] - peer.unsent[call] \in 0..(MaxParts - 1)
          /\ peer.unsent[call] - 1 \in 0..MaxParts
          /\ (peer.unsent[call] = 1) \in BOOLEAN
      BY <2>1, <3>1, BoundsAssumption
    <3>3. Chunk(call, peer.size[call] - peer.unsent[call], peer.unsent[call] = 1) \in SlaveFrames
      BY <3>2, FrameTypes
    <3>4. toSlave' \in Seq(SlaveFrames)
      BY <1>0, <1>8, <2>1, <3>3, PutFacts DEF SendRequestChunk
    <3>5. peer' = [peer EXCEPT !.unsent[call] = peer.unsent[call] - 1]
      BY <1>8, <2>1 DEF SendRequestChunk
    <3>6. peer' \in PeerRecords
      BY <1>0, <3>2, <3>5 DEF PeerRecords
    <3>7. PeerSound(peer')
      BY <1>0, <3>1, <3>5 DEF PeerRecords, PeerSound
    <3> QED
      BY <1>0, <1>8, <3>4, <3>6, <3>7 DEF SendRequestChunk
  <2>2. CASE ~(peer.unsent[call] > 0)
    <3>1. peer' = [peer EXCEPT !.sending = peer.sending \ {call}, !.size[call] = 0] /\ toSlave' = toSlave
      BY <1>8, <2>2 DEF SendRequestChunk
    <3>2. 0 \in 0..MaxParts /\ peer.unsent[call] = 0
      BY <1>0, <2>2, BoundsAssumption DEF PeerRecords
    <3>3. peer' \in PeerRecords
      BY <1>0, <3>1, <3>2 DEF PeerRecords
    <3>4. PeerSound(peer')
      BY <1>0, <3>1, <3>2 DEF PeerRecords, PeerSound
    <3> QED
      BY <1>0, <1>8, <3>1, <3>3, <3>4 DEF SendRequestChunk
  <2> QED
    BY <2>1, <2>2
<1>9. ASSUME NEW call \in Calls,
             PyStopSending(call) \/ JsStopSending(call) \/ PyCallTimeout(call) \/ JsCallTimeout(call)
      PROVE  Typed
  <2>0. /\ UNCHANGED channelVars
        /\ \A p \in {ClearPending(peer), RejectPending(peer)} : p \in PeerRecords /\ PeerSound(p)
    BY <1>0, <1>9, ClearSound
       DEF PyStopSending, JsStopSending, PyCallTimeout, JsCallTimeout
  <2>1. CASE PyStopSending(call)
    <3> DEFINE p == ClearPending(peer)
    <3>1. /\ 0 \in 0..MaxParts /\ p \in PeerRecords /\ PeerSound(p)
      BY <2>0, BoundsAssumption
    <3>2. peer' = [p EXCEPT !.sending = peer.sending \ {call}, !.unsent[call] = 0, !.size[call] = 0,
                           !.state[call] = IF peer.state[call] = "open" THEN "rejected" ELSE peer.state[call]]
      BY <2>1 DEF PyStopSending
    <3> HIDE DEF p
    <3>3. peer' \in PeerRecords
      BY <1>0, <3>1, <3>2 DEF PeerRecords
    <3>4. PeerSound(peer')
      BY <3>1, <3>2 DEF PeerRecords, PeerSound
    <3> QED
      BY <1>0, <2>0, <3>3, <3>4 DEF channelVars
  <2>2. CASE JsStopSending(call)
    <3> DEFINE p == RejectPending(peer)
    <3>1. /\ 0 \in 0..MaxParts /\ p \in PeerRecords /\ PeerSound(p)
      BY <2>0, BoundsAssumption
    <3>2. peer' = [p EXCEPT !.sending = peer.sending \ {call}, !.unsent[call] = 0, !.size[call] = 0]
      BY <2>2 DEF JsStopSending
    <3> HIDE DEF p
    <3>3. peer' \in PeerRecords
      BY <1>0, <3>1, <3>2 DEF PeerRecords
    <3>4. PeerSound(peer')
      BY <3>1, <3>2 DEF PeerRecords, PeerSound
    <3> QED
      BY <1>0, <2>0, <3>3, <3>4 DEF channelVars
  <2>3. CASE PyCallTimeout(call)
    BY <1>0, <2>0, <2>3 DEF PyCallTimeout, PeerRecords, PeerSound, channelVars
  <2>4. CASE JsCallTimeout(call)
    BY <1>0, <2>0, <2>4 DEF JsCallTimeout, channelVars
  <2> QED
    BY <1>9, <2>1, <2>2, <2>3, <2>4
<1>10. ASSUME NEW call \in Calls, PyAckDrained(call) \/ JsAckDrained(call) \/ AckStuck(call)
       PROVE  Typed
  <2>0. /\ UNCHANGED channelVars
        /\ \A p \in {ClearPending(peer), RejectPending(peer)} : p \in PeerRecords /\ PeerSound(p)
        /\ \A c \in Calls, state \in {"resolved", "torn"} :
             Settle(peer, c, state) \in PeerRecords /\ PeerSound(Settle(peer, c, state))
    BY <1>0, <1>10, ClearSound
       DEF PyAckDrained, JsAckDrained, AckStuck
  <2>1. CASE PyAckDrained(call)
    BY <1>0, <2>0, <2>1 DEF PyAckDrained, PeerRecords, PeerSound, channelVars
  <2>2. CASE AckStuck(call)
    BY <1>0, <2>0, <2>2 DEF AckStuck, PeerRecords, PeerSound, channelVars
  <2>3. CASE JsAckDrained(call)
    <3> DEFINE whole == peer.response.next = peer.response.parts
               read == IF peer.response.call = NoCall THEN ClearPending(peer)
                       ELSE Settle(peer, peer.pending, IF whole THEN "resolved" ELSE "torn")
    <3>1. peer.response.call # NoCall => peer.pending \in Calls
      BY <1>0, CallFacts DEF PeerSound, PeerRecords, Responses, NoResponse
    <3>2. read \in PeerRecords /\ PeerSound(read)
      BY <2>0, <3>1
    <3>3. peer' = [read EXCEPT !.acking = peer.acking \ {call}]
      BY <2>3 DEF JsAckDrained
    <3> HIDE DEF read
    <3>4. peer' \in PeerRecords
      BY <1>0, <3>2, <3>3 DEF PeerRecords
    <3>5. PeerSound(peer')
      BY <3>2, <3>3 DEF PeerRecords, PeerSound
    <3> QED
      BY <1>0, <2>0, <3>4, <3>5 DEF channelVars
  <2> QED
    BY <1>10, <2>1, <2>2, <2>3
<1> QED
  BY MasterCases, <1>1, <1>2, <1>3, <1>4, <1>5, <1>6, <1>7, <1>8, <1>9, <1>10 DEF MasterStep
\* The queue of calls.
LEMMA QueueFacts ==
  /\ <<>> \in Queues
  /\ \A c \in Calls : Append(<<>>, c) = <<c>> /\ <<c>> \in Queues /\ <<c>>[1] = c
  /\ \A q \in Queues :
       /\ q \in Seq(Calls) /\ Len(q) <= 1
       /\ q # <<>> => Head(q) \in Calls /\ Head(q) = q[1] /\ Tail(q) = <<>> /\ q = <<q[1]>>
<1>1. \A c \in Calls : Append(<<>>, c) = <<c>> /\ <<c>> \in Queues
  BY DEF Queues
<1>2. ASSUME NEW c \in Calls
      PROVE  /\ <<c>> \in Seq(Calls) /\ Len(<<c>>) = 1 /\ Head(<<c>>) = c
             /\ <<c>>[1] = c /\ Tail(<<c>>) = <<>>
  OBVIOUS
<1>3. <<>> \in Seq(Calls) /\ Len(<<>>) = 0
  OBVIOUS
<1>4. ASSUME NEW q \in Queues
      PROVE  /\ q \in Seq(Calls) /\ Len(q) <= 1
             /\ q # <<>> => Head(q) \in Calls /\ Head(q) = q[1] /\ Tail(q) = <<>> /\ q = <<q[1]>>
  <2>1. CASE q = <<>>
    BY <1>3, <2>1
  <2>2. CASE q # <<>>
    <3>1. PICK c \in Calls : q = <<c>>
      BY <2>2 DEF Queues
    <3>2. q \in Seq(Calls) /\ Len(q) = 1 /\ Head(q) = c /\ q[1] = c /\ Tail(q) = <<>>
      BY <1>2, <3>1
    <3> QED
      BY <3>1, <3>2
  <2> QED
    BY <2>1, <2>2
<1>5. <<>> \in Queues
  BY DEF Queues
<1> QED
  BY <1>1, <1>2, <1>4, <1>5

LEMMA ServedFacts ==
  ASSUME NEW s \in SlaveRecords, SlaveSound(s)
  PROVE  /\ Served(s) \in SlaveRecords /\ SlaveSound(Served(s))
         /\ Served(s).phase = "idle" /\ Served(s).current = NoCall
         /\ ~Served(s).busy /\ Served(s).gone = s.gone
         /\ Served(s).queue = s.queue /\ Served(s).incoming = s.incoming
         /\ Served(s).handled = s.handled /\ Served(s).answered = s.answered
         /\ Served(s).refused = s.refused
<1>1. 0 \in 0..MaxParts
  BY BoundsAssumption
<1>2. Served(s) \in SlaveRecords
  BY <1>1, CallFacts DEF Served, SlaveRecords
<1> QED
  BY <1>1, <1>2 DEF Served, SlaveRecords, SlaveSound

\* The end of the job.
Ended(s) ==
  /\ s.phase = "ended" /\ s.queue = <<>> /\ s.incoming = NoIncoming
  /\ s.current = NoCall /\ ~s.busy
LEMMA EndJobFacts ==
  ASSUME TypeInv, NEW report \in {"result", "error", "cancelled"}, NEW frame \in MasterFrames,
         EndJob(report, frame)
  PROVE  /\ slave' \in SlaveRecords /\ SlaveSound(slave') /\ Ended(slave')
         /\ slave'.handled = slave.handled /\ slave'.answered = slave.answered
         /\ slave'.refused = slave.refused
         /\ link' = "down" /\ toSlave' = <<>> /\ toMaster' = Put(toMaster, <<frame>>)
<1>1. Served(slave) \in SlaveRecords /\ SlaveSound(Served(slave))
  BY ServedFacts DEF TypeInv
<1>2. slave' = [Served(slave) EXCEPT !.phase = "ended", !.report = report,
                                     !.queue = <<>>, !.incoming = NoIncoming]
  BY DEF EndJob
<1>3. slave' \in SlaveRecords
  BY <1>1, <1>2, QueueFacts, CallFacts DEF SlaveRecords
<1>4. /\ slave'.phase = "ended" /\ slave'.queue = <<>> /\ slave'.incoming = NoIncoming
      /\ slave'.current = Served(slave).current /\ slave'.busy = Served(slave).busy
      /\ slave'.left = Served(slave).left /\ slave'.parts = Served(slave).parts
  BY <1>1, <1>2 DEF SlaveRecords
<1>6. SlaveSound(slave') /\ Ended(slave')
  BY <1>1, <1>4, ServedFacts DEF SlaveSound, Ended, TypeInv
<1>5. /\ slave'.handled = slave.handled /\ slave'.answered = slave.answered
      /\ slave'.refused = slave.refused
  BY <1>1, <1>2, ServedFacts DEF SlaveRecords, TypeInv
<1> QED
  BY <1>3, <1>5, <1>6 DEF EndJob

\* Whatever ends the job.
Ending == \E report \in {"result", "error", "cancelled"}, frame \in MasterFrames :
            frame.kind \in {"error", "finished"} /\ EndJob(report, frame)

\* The steps of the slave that do not end its job.
AnswerStep ==
  /\ slave.phase = "answering"
  /\ \/ BuildAnswer
     \/ slave' = [slave EXCEPT !.prepared = FALSE] /\ UNCHANGED channelVars
ReadyStep ==
  /\ slave.phase = "waiting" /\ slave.ready
  /\ slave' = [slave EXCEPT !.phase = "idle"]
  /\ UNCHANGED channelVars
TakeStep ==
  /\ slave.phase = "idle" /\ slave.queue # <<>>
  /\ slave' = [slave EXCEPT !.phase = "taken", !.current = Head(slave.queue),
                            !.queue = Tail(slave.queue)]
  /\ UNCHANGED channelVars
FailStep ==
  /\ slave.phase = "running"
  /\ slave' = Served(slave)
  /\ toMaster' = Put(toMaster, <<Frame("error", slave.current)>>)
  /\ UNCHANGED <<link, toSlave>>
ReturnStep(parts, sound) ==
  /\ slave.phase = "running"
  /\ slave' = [slave EXCEPT !.phase = IF parts = 0 THEN "acking" ELSE "replying",
                            !.parts = parts, !.left = parts, !.acked = FALSE,
                            !.answered = slave.answered \cup {slave.current}]
  /\ toMaster' = Put(toMaster, <<Opening("result", slave.current, parts, sound)>>)
  /\ UNCHANGED <<link, toSlave>>
ChunkStep ==
  /\ slave.phase = "replying"
  /\ slave' = [slave EXCEPT !.left = slave.left - 1,
                            !.phase = IF slave.left = 1 THEN "acking" ELSE "replying"]
  /\ toMaster' = Put(toMaster, <<Chunk(slave.current, slave.parts - slave.left, slave.left = 1)>>)
  /\ UNCHANGED <<link, toSlave>>
CloseStep ==
  /\ \/ link = "down" /\ toSlave' = <<>>
     \/ link = "open" /\ toSlave' = toSlave
  /\ slave' = [slave EXCEPT !.gone = TRUE]
  /\ UNCHANGED <<link, toMaster>>

LEMMA SlaveCases ==
  ASSUME TypeInv, SlaveNext
  PROVE  \/ Ending \/ AnswerStep \/ ReadyStep \/ TakeStep \/ StartCall \/ FailStep
         \/ \E parts \in 0..MaxParts, sound \in BOOLEAN : ReturnStep(parts, sound)
         \/ ChunkStep \/ AckArrived \/ SlaveReceives \/ CloseStep
<1>1. /\ Frame("error", JobId) \in MasterFrames /\ Frame("finished", JobId) \in MasterFrames
      /\ Frame("error", JobId).kind = "error" /\ Frame("finished", JobId).kind = "finished"
  BY CallFacts, FrameTypes DEF Frame
<1>2. FailJob => Ending
  BY <1>1 DEF FailJob, Ending
<1>3. EndJob("result", Frame("finished", JobId)) => Ending
  BY <1>1 DEF Ending
<1>4. CancelJob => Ending
  BY <1>1 DEF CancelJob, Ending
<1>5. AnswerOffer => Ending \/ AnswerStep
  BY <1>2 DEF AnswerOffer, AnswerStep
<1>6. AwaitReady => Ending \/ ReadyStep
  BY <1>2 DEF AwaitReady, ReadyStep
<1>7. SessionTurn => Ending \/ TakeStep
  BY <1>2, <1>3 DEF SessionTurn, TakeStep
<1>8. HandlerFails => Ending \/ FailStep
  BY <1>2 DEF HandlerFails, FailStep
<1>9. ASSUME NEW parts \in 0..MaxParts, NEW sound \in BOOLEAN, HandlerReturns(parts, sound)
      PROVE  Ending \/ ReturnStep(parts, sound)
  BY <1>2, <1>9 DEF HandlerReturns, ReturnStep
<1>10. SendResultChunk => Ending \/ ChunkStep
  BY <1>2 DEF SendResultChunk, ChunkStep
<1>11. ResultBufferStuck \/ AckMissing => Ending
  BY <1>2 DEF ResultBufferStuck, AckMissing
<1>12. SlaveSeesClose(FALSE) \/ SlaveSeesClose("blip" \in Disturbances) => CloseStep
  BY DEF SlaveSeesClose, CloseStep
<1>13. SlaveStep => \/ Ending \/ AnswerStep \/ ReadyStep \/ TakeStep \/ StartCall
                    \/ ChunkStep \/ AckArrived \/ SlaveReceives \/ CloseStep
  BY <1>5, <1>6, <1>7, <1>10, <1>11, <1>12 DEF SlaveStep
<1>14. Handle => Ending \/ \E parts \in 0..MaxParts, sound \in BOOLEAN : ReturnStep(parts, sound)
  BY <1>9 DEF Handle
<1> QED
  BY <1>4, <1>8, <1>11, <1>12, <1>13, <1>14 DEF SlaveNext

LEMMA SlaveTyped ==
  ASSUME TypeInv, SlaveNext, UNCHANGED peer
  PROVE  TypeInv'
<1> DEFINE Typed == /\ link' \in {"none", "opening", "open", "down"}
                    /\ toSlave' \in Seq(SlaveFrames) /\ toMaster' \in Seq(MasterFrames)
                    /\ slave' \in SlaveRecords /\ SlaveSound(slave')
<1>0. /\ link \in {"none", "opening", "open", "down"}
      /\ toSlave \in Seq(SlaveFrames) /\ toMaster \in Seq(MasterFrames)
      /\ slave \in SlaveRecords /\ SlaveSound(slave)
      /\ <<>> \in Seq(SlaveFrames)
  BY DEF TypeInv
<1> SUFFICES Typed
  BY DEF TypeInv
<1>1. CASE Ending
  BY <1>0, <1>1, EndJobFacts, PutFacts DEF Ending
<1>2. CASE AnswerStep
  <2>1. slave' \in SlaveRecords
    <3>1. \/ slave' = [slave EXCEPT !.phase = "waiting"]
          \/ slave' = [slave EXCEPT !.prepared = FALSE]
      BY <1>2 DEF AnswerStep, BuildAnswer
    <3>2. /\ [slave EXCEPT !.phase = "waiting"] \in SlaveRecords
          /\ [slave EXCEPT !.prepared = FALSE] \in SlaveRecords
      BY <1>0 DEF SlaveRecords
    <3> QED
      BY <3>1, <3>2
  <2>2. SlaveSound(slave')
    BY <1>0, <1>2 DEF AnswerStep, BuildAnswer, SlaveRecords, SlaveSound
  <2> QED
    BY <1>0, <1>2, <2>1, <2>2 DEF AnswerStep, BuildAnswer, channelVars
<1>3. CASE ReadyStep
  BY <1>0, <1>3 DEF ReadyStep, SlaveRecords, SlaveSound, channelVars
<1>4. CASE TakeStep
  <2>1. slave.queue \in Queues /\ Head(slave.queue) \in Calls /\ Tail(slave.queue) = <<>>
    BY <1>0, <1>4, QueueFacts DEF TakeStep, SlaveRecords
  <2>2. slave' \in SlaveRecords
    BY <1>0, <1>4, <2>1, QueueFacts DEF TakeStep, SlaveRecords
  <2>3. SlaveSound(slave')
    BY <1>0, <1>4, <2>1 DEF TakeStep, SlaveRecords, SlaveSound
  <2> QED
    BY <1>0, <1>4, <2>2, <2>3 DEF TakeStep, channelVars
<1>5. CASE StartCall
  BY <1>0, <1>5 DEF StartCall, SlaveRecords, SlaveSound, channelVars
<1>6. CASE FailStep
  <2>1. slave' \in SlaveRecords /\ SlaveSound(slave')
    BY <1>0, <1>6, ServedFacts DEF FailStep
  <2>2. slave.current \in Calls
    BY <1>0, <1>6 DEF FailStep, SlaveSound
  <2>3. toMaster' \in Seq(MasterFrames)
    BY <1>0, <1>6, <2>2, FrameTypes, PutFacts DEF FailStep
  <2> QED
    BY <1>0, <1>6, <2>1, <2>3 DEF FailStep
<1>7. ASSUME NEW parts \in 0..MaxParts, NEW sound \in BOOLEAN, ReturnStep(parts, sound)
      PROVE  Typed
  <2>1. slave.current \in Calls
    BY <1>0, <1>7 DEF ReturnStep, SlaveSound
  <2>2. toMaster' \in Seq(MasterFrames)
    BY <1>0, <1>7, <2>1, FrameTypes, PutFacts DEF ReturnStep
  <2>3. slave' \in SlaveRecords
    BY <1>0, <1>7, <2>1 DEF ReturnStep, SlaveRecords
  <2>4. SlaveSound(slave')
    BY <1>0, <1>7, <2>1 DEF ReturnStep, SlaveRecords, SlaveSound
  <2> QED
    BY <1>0, <1>7, <2>2, <2>3, <2>4 DEF ReturnStep
<1>8. CASE ChunkStep
  <2>1. /\ slave.current \in Calls /\ slave.left \in 0..MaxParts /\ slave.parts \in 0..MaxParts
        /\ slave.left > 0 /\ slave.left <= slave.parts
    BY <1>0, <1>8 DEF ChunkStep, SlaveSound, SlaveRecords
  <2>2. /\ slave.parts - slave.left \in 0..(MaxParts - 1) /\ slave.left - 1 \in 0..MaxParts
        /\ (slave.left = 1) \in BOOLEAN
    BY <2>1, BoundsAssumption
  <2>3. toMaster' \in Seq(MasterFrames)
    BY <1>0, <1>8, <2>1, <2>2, FrameTypes, PutFacts DEF ChunkStep
  <2>4. slave' \in SlaveRecords
    BY <1>0, <1>8, <2>2 DEF ChunkStep, SlaveRecords
  <2>5. SlaveSound(slave')
    BY <1>0, <1>8, <2>1 DEF ChunkStep, SlaveRecords, SlaveSound
  <2> QED
    BY <1>0, <1>8, <2>3, <2>4, <2>5 DEF ChunkStep
<1>9. CASE AckArrived
  BY <1>0, <1>9, ServedFacts DEF AckArrived, channelVars
<1>10. CASE SlaveReceives
  <2> DEFINE frame == Head(toSlave)
  <2>1. frame \in SlaveFrames /\ toSlave' \in Seq(SlaveFrames) /\ link' = link
    BY <1>0, <1>10, TakeFacts DEF SlaveReceives
  <2>2. /\ frame.call \in Calls
        /\ frame.kind = "chunk" => frame.index \in 0..(MaxParts - 1)
    BY <2>1, SlaveFrameFacts
  <2>3. ASSUME frame.kind = "ready", slave' = [slave EXCEPT !.ready = TRUE], toMaster' = toMaster
        PROVE  Typed
    BY <1>0, <2>1, <2>3 DEF SlaveRecords, SlaveSound
  <2>4. ASSUME frame.kind = "finish", slave' = [slave EXCEPT !.finish = TRUE], toMaster' = toMaster
        PROVE  Typed
    BY <1>0, <2>1, <2>4 DEF SlaveRecords, SlaveSound
  <2>5. ASSUME frame.kind = "ack", TakeAck(frame) PROVE Typed
    BY <1>0, <2>1, <2>5 DEF TakeAck, SlaveRecords, SlaveSound
  <2>6. ASSUME frame.kind = "call", TakeCall(frame) PROVE Typed
    <3>1. CASE Refuse(frame.call)
      <4>1. toMaster' \in Seq(MasterFrames)
        BY <1>0, <2>2, <3>1, FrameTypes, PutFacts DEF Refuse
      <4>2. slave' \in SlaveRecords /\ SlaveSound(slave')
        BY <1>0, <2>2, <3>1 DEF Refuse, SlaveRecords, SlaveSound
      <4> QED
        BY <1>0, <2>1, <4>1, <4>2
    <3>2. CASE ~Refuse(frame.call)
      <4>1. /\ slave.queue = <<>> /\ slave.incoming = NoIncoming /\ toMaster' = toMaster
            /\ \/ slave' = [slave EXCEPT !.queue = Append(slave.queue, frame.call)]
               \/ slave' = [slave EXCEPT !.incoming = [call |-> frame.call, next |-> 0]]
        BY <2>6, <3>2 DEF TakeCall
      <4>2. /\ Append(slave.queue, frame.call) \in Queues
            /\ [call |-> frame.call, next |-> 0] \in [call : Calls \cup {NoCall}, next : 0..MaxParts]
        BY <2>2, <4>1, QueueFacts, BoundsAssumption
      <4>3. slave' \in SlaveRecords
        <5>1. /\ [slave EXCEPT !.queue = Append(slave.queue, frame.call)] \in SlaveRecords
              /\ [slave EXCEPT !.incoming = [call |-> frame.call, next |-> 0]] \in SlaveRecords
          BY <1>0, <4>2 DEF SlaveRecords
        <5> QED
          BY <4>1, <5>1
      <4>4. SlaveSound(slave')
        <5>1. CASE slave' = [slave EXCEPT !.queue = Append(slave.queue, frame.call)]
          BY <1>0, <4>1, <5>1 DEF SlaveRecords, SlaveSound
        <5>2. CASE slave' = [slave EXCEPT !.incoming = [call |-> frame.call, next |-> 0]]
          BY <1>0, <2>2, <4>1, <5>2 DEF SlaveRecords, SlaveSound
        <5> QED
          BY <4>1, <5>1, <5>2
      <4> QED
        BY <1>0, <2>1, <4>1, <4>3, <4>4
    <3> QED
      BY <3>1, <3>2
  <2>7. ASSUME frame.kind = "chunk", TakeChunk(frame) PROVE Typed
    <3>1. CASE slave.incoming = NoIncoming
      <4>1. toMaster' = Put(toMaster, <<Frame("error", JobId)>>) /\ slave' = slave
        BY <2>7, <3>1 DEF TakeChunk
      <4> QED
        BY <1>0, <2>1, <4>1, FrameTypes, CallFacts, PutFacts
    <3>2. CASE /\ slave.incoming # NoIncoming
               /\ toMaster' = Put(toMaster, <<Frame("error", slave.incoming.call)>>)
               /\ slave' = [slave EXCEPT !.incoming = NoIncoming]
      <4>1. slave.incoming.call \in Calls
        BY <1>0, <3>2 DEF SlaveSound
      <4>2. toMaster' \in Seq(MasterFrames)
        BY <1>0, <3>2, <4>1, FrameTypes, PutFacts
      <4>3. slave' \in SlaveRecords
        BY <1>0, <3>2, CallFacts DEF SlaveRecords
      <4>4. SlaveSound(slave')
        BY <1>0, <3>2 DEF SlaveRecords, SlaveSound
      <4> QED
        BY <1>0, <2>1, <4>2, <4>3, <4>4
    <3>3. CASE /\ slave.incoming # NoIncoming /\ toMaster' = toMaster
               /\ frame.call = slave.incoming.call /\ frame.index = slave.incoming.next
               /\ slave' = IF frame.final
                           THEN [slave EXCEPT !.incoming = NoIncoming,
                                              !.queue = Append(slave.queue, frame.call)]
                           ELSE [slave EXCEPT !.incoming.next = frame.index + 1]
      <4>1. slave.queue = <<>> /\ Append(slave.queue, frame.call) \in Queues
        BY <1>0, <2>2, <3>3, QueueFacts DEF SlaveSound
      <4>2. CASE frame.final
        <5>1. slave' \in SlaveRecords
          BY <1>0, <3>3, <4>1, <4>2, CallFacts DEF SlaveRecords
        <5>2. SlaveSound(slave')
          BY <1>0, <3>3, <4>2 DEF SlaveRecords, SlaveSound
        <5> QED
          BY <1>0, <2>1, <3>3, <5>1, <5>2
      <4>3. CASE ~frame.final
        <5>1. frame.index + 1 \in 0..MaxParts
          BY <2>2, <2>7, BoundsAssumption
        <5>2. slave' \in SlaveRecords
          BY <1>0, <3>3, <4>3, <5>1 DEF SlaveRecords
        <5>3. SlaveSound(slave')
          BY <1>0, <3>3, <4>1, <4>3 DEF SlaveRecords, SlaveSound
        <5> QED
          BY <1>0, <2>1, <3>3, <5>2, <5>3
      <4> QED
        BY <4>2, <4>3
    <3> QED
      BY <2>7, <3>1, <3>2, <3>3 DEF TakeChunk
  <2> QED
    BY <1>10, <2>3, <2>4, <2>5, <2>6, <2>7 DEF SlaveReceives
<1>11. CASE CloseStep
  BY <1>0, <1>11 DEF CloseStep, SlaveRecords, SlaveSound
<1> QED
  BY SlaveCases, <1>1, <1>2, <1>3, <1>4, <1>5, <1>6, <1>7, <1>8, <1>9, <1>10, <1>11
-----------------------------------------------------------------------------
(* What a step of the master may do to a session *)

\* JavaScript waits for an acknowledgement to leave the buffer: it will settle
\* whichever call is pending then.
Late == peer.sdk = "js" /\ peer.acking # {}

\* The result of the call is in hand: it has come before, or comes now.
Resulted(c) ==
  \/ peer.response.call = c
  \/ toMaster # <<>> /\ Head(toMaster).kind = "result" /\ Head(toMaster).call = c

\* Calls are only given up, or resolved once they are acknowledged or, too early,
\* when a late acknowledgement finds a part of their result.
Quiet ==
  /\ \/ toSlave' = toSlave
     \/ \E f \in SlaveFrames : f.kind \in {"chunk", "finish"} /\ toSlave' = Put(toSlave, <<f>>)
  /\ peer'.acking \subseteq peer.acking
  /\ \A c \in Calls :
       \/ peer'.state[c] = peer.state[c]
       \/ peer.state[c] = "open" /\ peer'.state[c] = "rejected"
       \/ peer.state[c] = "open" /\ peer'.state[c] = "resolved" /\ c \in peer.acking
       \/ /\ Late /\ c = peer.response.call
          /\ peer.state[c] = "open" /\ peer'.state[c] \in {"resolved", "torn"}

\* The pending call is acknowledged, and resolved or about to be.
Acks(call) ==
  /\ call = peer.pending /\ Resulted(call) /\ peer.up
  /\ toSlave' = Put(toSlave, <<Frame("ack", call)>>)
  /\ peer'.acking \subseteq peer.acking \cup {call}
  /\ peer'.acking = peer.acking \/ peer.sdk \in SlowAcks
  /\ \A c \in Calls :
       \/ peer'.state[c] = peer.state[c]
       \/ c = call /\ peer.state[c] = "open" /\ peer'.state[c] = "resolved"

\* What every step but MakeCall and SendReady leaves alone.
Steady ==
  /\ link' \in {link, "down"}
  /\ toMaster' = toMaster \/ toMaster' = <<>> \/ (toMaster # <<>> /\ toMaster' = Tail(toMaster))
  /\ peer'.issued = peer.issued /\ peer'.sdk = peer.sdk /\ (peer'.up => peer.up)
  /\ peer'.pending \in {peer.pending, NoCall}
  /\ peer'.response.call # NoCall => Resulted(peer'.response.call)

Calm == Steady /\ (Quiet \/ \E call \in Calls : Acks(call))

LEMMA AcknowledgeCalm ==
  ASSUME TypeInv, NEW p \in PeerRecords, NEW call \in Calls, Acknowledge(p),
         p.response.call = call, Resulted(call), call = peer.pending,
         p.sdk = peer.sdk, p.up = peer.up, p.issued = peer.issued, p.pending = peer.pending,
         p.state = peer.state, p.acking = peer.acking,
         toMaster # <<>>, toMaster' = Tail(toMaster), link' = link
  PROVE  Calm
<1>1. CASE ~Usable(p)
  <2>1. peer' = RejectPending(p) /\ toSlave' = toSlave
    BY <1>1 DEF Acknowledge
  <2>2. /\ Kept(p, peer')
        /\ \A c \in Calls : \/ peer'.state[c] = p.state[c]
                            \/ p.state[c] = "open" /\ peer'.state[c] = "rejected"
    BY <2>1, ClearKeeps
  <2>3. Quiet
    BY <2>1, <2>2 DEF Quiet, Kept
  <2>4. Steady
    BY <2>2 DEF Steady, Kept, NoResponse
  <2> QED
    BY <2>3, <2>4 DEF Calm
<1>2. CASE Usable(p)
  <2>1. toSlave' = Put(toSlave, <<Frame("ack", call)>>) /\ peer.up
    BY <1>2 DEF Acknowledge, Usable
  <2>2. CASE peer' = Settle(p, call, "resolved")
    <3>1. /\ Kept(p, peer')
          /\ \A c \in Calls : \/ peer'.state[c] = p.state[c]
                              \/ c = call /\ p.state[c] = "open" /\ peer'.state[c] = "resolved"
      BY <2>2, ClearKeeps
    <3>2. Acks(call)
      BY <2>1, <3>1 DEF Acks, Kept
    <3>3. Steady
      BY <3>1 DEF Steady, Kept, NoResponse
    <3> QED
      BY <3>2, <3>3 DEF Calm
  <2>3. CASE p.sdk \in SlowAcks /\ peer' = [p EXCEPT !.acking = p.acking \cup {call}]
    <3>1. /\ peer'.acking = peer.acking \cup {call} /\ peer'.state = peer.state
          /\ peer'.sdk = peer.sdk /\ peer'.up = peer.up /\ peer'.issued = peer.issued
          /\ peer'.pending = peer.pending /\ peer'.response.call = call
      BY <2>3 DEF PeerRecords
    <3>2. Acks(call)
      BY <2>1, <2>3, <3>1 DEF Acks
    <3>3. Steady
      BY <3>1 DEF Steady
    <3> QED
      BY <3>2, <3>3 DEF Calm
  <2> QED
    BY <1>2, <2>2, <2>3 DEF Acknowledge
<1> QED
  BY <1>1, <1>2

LEMMA MasterCalm ==
  ASSUME TypeInv, MasterNext
  PROVE  Calm \/ SendReady \/ \E parts \in 0..MaxParts : MakeCall(parts)
<1>0. /\ link \in {"none", "opening", "open", "down"}
      /\ toSlave \in Seq(SlaveFrames) /\ toMaster \in Seq(MasterFrames)
      /\ peer \in PeerRecords /\ PeerSound(peer) /\ peer.pending \in Calls \cup {NoCall}
  BY DEF TypeInv, PeerRecords
<1>1. ASSUME NEW p \in {ClearPending(peer), RejectPending(peer), RejectOpenWork(peer)}
      PROVE  /\ p \in PeerRecords /\ Kept(peer, p) /\ p.response.call = NoCall
             /\ \A c \in Calls : \/ p.state[c] = peer.state[c]
                                 \/ peer.state[c] = "open" /\ p.state[c] = "rejected"
  <2>1. p \in PeerRecords /\ Kept(peer, p)
    <3>1. CASE p = ClearPending(peer)
      BY <1>0, <3>1, ClearTyped, ClearKeeps
    <3>2. CASE p = RejectPending(peer)
      BY <1>0, <3>2, ClearTyped, ClearKeeps
    <3>3. CASE p = RejectOpenWork(peer)
      BY <1>0, <3>3, ClearTyped, ClearKeeps
    <3> QED
      BY <3>1, <3>2, <3>3
  <2>2. p.response.call = NoCall
    BY <2>1 DEF Kept, NoResponse
  <2>3. \A c \in Calls : \/ p.state[c] = peer.state[c]
                         \/ peer.state[c] = "open" /\ p.state[c] = "rejected"
    <3>1. CASE p = ClearPending(peer)
      BY <1>0, <3>1, ClearKeeps
    <3>2. CASE p \in {RejectPending(peer), RejectOpenWork(peer)}
      BY <1>0, <3>2, ClearKeeps
    <3> QED
      BY <3>1, <3>2
  <2> QED
    BY <2>1, <2>2, <2>3
\* The pending call is given up, perhaps with another field changed.
<1>2. ASSUME NEW p \in PeerRecords, Kept(peer, p), p.response.call = NoCall,
             \A c \in Calls : \/ p.state[c] = peer.state[c]
                              \/ peer.state[c] = "open" /\ p.state[c] = "rejected",
             peer'.issued = p.issued, peer'.sdk = p.sdk, peer'.up => p.up,
             peer'.pending = p.pending, peer'.response = p.response,
             peer'.acking \subseteq p.acking,
             \A c \in Calls : \/ peer'.state[c] = p.state[c]
                              \/ peer.state[c] = "open" /\ peer'.state[c] = "rejected",
             toSlave' = toSlave, link' \in {link, "down"},
             \/ toMaster' = toMaster \/ toMaster' = <<>>
             \/ toMaster # <<>> /\ toMaster' = Tail(toMaster)
      PROVE  Calm
  <2>1. Quiet
    BY <1>2 DEF Quiet, Kept
  <2>2. Steady
    BY <1>2 DEF Steady, Kept
  <2> QED
    BY <2>1, <2>2 DEF Calm
<1>3. CASE SendFinish
  <2>1. /\ peer'.state = peer.state /\ peer'.sdk = peer.sdk /\ peer'.up = peer.up
        /\ peer'.issued = peer.issued /\ peer'.pending = peer.pending
        /\ peer'.response = peer.response /\ peer'.acking = peer.acking
        /\ link' = link /\ toMaster' = toMaster
    BY <1>0, <1>3 DEF SendFinish, PeerRecords
  <2>2. /\ Frame("finish", JobId) \in SlaveFrames /\ Frame("finish", JobId).kind = "finish"
        /\ toSlave' = Put(toSlave, <<Frame("finish", JobId)>>)
    BY <1>3, FrameTypes, CallFacts DEF SendFinish, Frame
  <2> QED
    BY <2>1, <2>2 DEF Calm, Steady, Quiet, Resulted
<1>4. CASE FinishTimeout
  <2>1. /\ peer'.state = peer.state /\ peer'.sdk = peer.sdk /\ peer'.up = peer.up
        /\ peer'.issued = peer.issued /\ peer'.pending = peer.pending
        /\ peer'.response = peer.response /\ peer'.acking = peer.acking
        /\ link' = link /\ toMaster' = toMaster /\ toSlave' = toSlave
    BY <1>0, <1>4 DEF FinishTimeout, PeerRecords, channelVars
  <2> QED
    BY <2>1 DEF Calm, Steady, Quiet, Resulted
<1>5. CASE Close
  <2> DEFINE p == RejectPending(peer)
  <2>0. /\ peer' = [p EXCEPT !.closed = TRUE,
                             !.finish = IF peer.finish = "sent" THEN "failed" ELSE peer.finish]
        /\ toSlave' = toSlave /\ link' = "down" /\ toMaster' = <<>>
    BY <1>5 DEF Close
  <2>1. /\ p \in PeerRecords /\ Kept(peer, p) /\ p.response.call = NoCall
        /\ \A c \in Calls : \/ p.state[c] = peer.state[c]
                            \/ peer.state[c] = "open" /\ p.state[c] = "rejected"
    BY <1>1
  <2> HIDE DEF p
  <2>2. /\ peer'.issued = p.issued /\ peer'.sdk = p.sdk /\ peer'.up = p.up
        /\ peer'.pending = p.pending /\ peer'.response = p.response
        /\ peer'.acking = p.acking /\ peer'.state = p.state
    BY <2>0, <2>1 DEF PeerRecords
  <2> QED
    BY <1>2, <2>0, <2>1, <2>2
<1>6. CASE MasterSeesClose
  <2> DEFINE p == RejectOpenWork(peer)
  <2>0. peer' = [p EXCEPT !.up = FALSE] /\ toSlave' = toSlave /\ link' = link /\ toMaster' = <<>>
    BY <1>6 DEF MasterSeesClose
  <2>1. /\ p \in PeerRecords /\ Kept(peer, p) /\ p.response.call = NoCall
        /\ \A c \in Calls : \/ p.state[c] = peer.state[c]
                            \/ peer.state[c] = "open" /\ p.state[c] = "rejected"
    BY <1>1
  <2> HIDE DEF p
  <2>2. /\ peer'.issued = p.issued /\ peer'.sdk = p.sdk /\ ~peer'.up
        /\ peer'.pending = p.pending /\ peer'.response = p.response
        /\ peer'.acking = p.acking /\ peer'.state = p.state
    BY <2>0, <2>1 DEF PeerRecords
  <2> QED
    BY <1>2, <2>0, <2>1, <2>2
<1>7. CASE MasterReceives
  <2> DEFINE frame == Head(toMaster)
  <2>1. /\ frame \in MasterFrames /\ frame.call \in Calls /\ link' = link
        /\ toMaster # <<>> /\ toMaster' = Tail(toMaster)
    BY <1>0, <1>7, TakeFacts, MasterFrameFacts DEF MasterReceives
  <2>2. ASSUME NEW p \in {RejectPending(peer), RejectOpenWork(peer)}, peer' = p, toSlave' = toSlave
        PROVE  Calm
    BY <1>1, <1>2, <2>1, <2>2
  <2>3. CASE frame.kind = "result" /\ TakeResult(frame)
    <3>1. CASE frame.call # peer.pending
      BY <2>2, <2>3, <3>1 DEF TakeResult
    <3>2. CASE frame.call = peer.pending
      <4> DEFINE p == [peer EXCEPT !.response = [call |-> frame.call, next |-> 0,
                                                 parts |-> frame.parts, sound |-> frame.sound]]
      <4>1. [call |-> frame.call, next |-> 0, parts |-> frame.parts, sound |-> frame.sound]
              \in Responses
        BY <2>1, <2>3, MasterFrameFacts, BoundsAssumption DEF Responses
      <4>2. /\ p \in PeerRecords /\ p.response.call = frame.call
            /\ p.sdk = peer.sdk /\ p.up = peer.up /\ p.issued = peer.issued
            /\ p.pending = peer.pending /\ p.state = peer.state /\ p.acking = peer.acking
        BY <1>0, <4>1 DEF PeerRecords
      <4>3. Resulted(frame.call)
        BY <2>1, <2>3 DEF Resulted
      <4>4. Acknowledge(p) \/ (peer' = p /\ toSlave' = toSlave)
        BY <2>3, <3>2 DEF TakeResult
      <4> HIDE DEF p
      <4>5. CASE Acknowledge(p)
        BY <2>1, <3>2, <4>2, <4>3, <4>5, AcknowledgeCalm
      <4>6. CASE peer' = p /\ toSlave' = toSlave
        BY <2>1, <4>2, <4>3, <4>6 DEF Calm, Steady, Quiet
      <4> QED
        BY <4>4, <4>5, <4>6
    <3> QED
      BY <3>1, <3>2
  <2>4. CASE frame.kind = "chunk" /\ TakeResultChunk(frame)
    <3> DEFINE p == [peer EXCEPT !.response.next = frame.index + 1]
    <3>1. CASE peer' = peer /\ toSlave' = toSlave
      BY <2>1, <3>1 DEF Calm, Steady, Quiet, Resulted
    <3>2. CASE peer' = RejectPending(peer) /\ toSlave' = toSlave
      BY <2>2, <3>2
    <3>3. CASE /\ peer.response # NoResponse /\ frame.call = peer.pending
               /\ Acknowledge(p) \/ (peer' = p /\ toSlave' = toSlave)
      <4>1. frame.index + 1 \in 0..MaxParts /\ peer.response \in Responses
        BY <1>0, <2>1, <2>4, MasterFrameFacts, BoundsAssumption DEF PeerRecords
      <4>2. /\ p \in PeerRecords /\ p.response.call = peer.response.call
            /\ p.sdk = peer.sdk /\ p.up = peer.up /\ p.issued = peer.issued
            /\ p.pending = peer.pending /\ p.state = peer.state /\ p.acking = peer.acking
        BY <1>0, <4>1 DEF PeerRecords, Responses
      <4>3. peer.response.call = frame.call /\ Resulted(frame.call)
        BY <1>0, <3>3 DEF PeerSound, Resulted
      <4> HIDE DEF p
      <4>5. CASE Acknowledge(p)
        BY <2>1, <3>3, <4>2, <4>3, <4>5, AcknowledgeCalm
      <4>6. CASE peer' = p /\ toSlave' = toSlave
        BY <2>1, <4>2, <4>3, <4>6 DEF Calm, Steady, Quiet
      <4> QED
        BY <3>3, <4>5, <4>6
    <3> QED
      BY <2>4, <3>1, <3>2, <3>3 DEF TakeResultChunk
  <2>5. CASE frame.kind = "error" /\ TakeError(frame)
    BY <2>2, <2>5 DEF TakeError
  <2>6. CASE frame.kind = "finished" /\ toSlave' = toSlave
             /\ peer' = [peer EXCEPT !.finish = IF peer.finish = "sent" THEN "done" ELSE peer.finish]
    <3>1. /\ peer'.state = peer.state /\ peer'.sdk = peer.sdk /\ peer'.up = peer.up
          /\ peer'.issued = peer.issued /\ peer'.pending = peer.pending
          /\ peer'.response = peer.response /\ peer'.acking = peer.acking
      BY <1>0, <2>6 DEF PeerRecords
    <3> QED
      BY <2>1, <2>6, <3>1 DEF Calm, Steady, Quiet, Resulted
  <2> QED
    BY <1>7, <2>3, <2>4, <2>5, <2>6 DEF MasterReceives
<1>8. ASSUME NEW call \in Calls, SendRequestChunk(call) PROVE Calm
  <2>1. /\ \/ peer' = [peer EXCEPT !.unsent[call] = peer.unsent[call] - 1]
           \/ peer' = [peer EXCEPT !.sending = peer.sending \ {call}, !.size[call] = 0]
        /\ link' = link /\ toMaster' = toMaster
    BY <1>8 DEF SendRequestChunk
  <2>2. /\ peer'.state = peer.state /\ peer'.sdk = peer.sdk /\ peer'.up = peer.up
        /\ peer'.issued = peer.issued /\ peer'.pending = peer.pending
        /\ peer'.response = peer.response /\ peer'.acking = peer.acking
    BY <1>0, <2>1 DEF PeerRecords
  <2>3. \/ toSlave' = toSlave
        \/ \E f \in SlaveFrames : f.kind \in {"chunk", "finish"} /\ toSlave' = Put(toSlave, <<f>>)
    <3> DEFINE f == Chunk(call, peer.size[call] - peer.unsent[call], peer.unsent[call] = 1)
    <3>1. CASE peer.unsent[call] > 0
      <4>1. /\ peer.unsent[call] \in 0..MaxParts /\ peer.size[call] \in 0..MaxParts
            /\ peer.unsent[call] <= peer.size[call]
        BY <1>0 DEF PeerRecords, PeerSound
      <4>2. /\ peer.size[call] - peer.unsent[call] \in 0..(MaxParts - 1)
            /\ (peer.unsent[call] = 1) \in BOOLEAN
        BY <3>1, <4>1, BoundsAssumption
      <4>3. f \in SlaveFrames /\ f.kind = "chunk"
        BY <4>2, FrameTypes DEF Chunk
      <4>4. toSlave' = Put(toSlave, <<f>>)
        BY <1>8, <3>1 DEF SendRequestChunk
      <4> QED
        BY <4>3, <4>4
    <3> QED
      BY <1>8, <3>1 DEF SendRequestChunk
  <2> QED
    BY <2>1, <2>2, <2>3 DEF Calm, Steady, Quiet, Resulted
<1>9. ASSUME NEW call \in Calls,
             PyStopSending(call) \/ JsStopSending(call) \/ PyCallTimeout(call) \/ JsCallTimeout(call)
      PROVE  Calm
  <2>0. link' = link /\ toSlave' = toSlave /\ toMaster' = toMaster
    BY <1>9 DEF PyStopSending, JsStopSending, PyCallTimeout, JsCallTimeout, channelVars
  <2>1. CASE PyStopSending(call)
    <3> DEFINE p == ClearPending(peer)
    <3>1. /\ p \in PeerRecords /\ Kept(peer, p) /\ p.response.call = NoCall
          /\ p.state = peer.state
      BY <1>0, <1>1, ClearKeeps
    <3>2. peer' = [p EXCEPT !.sending = peer.sending \ {call}, !.unsent[call] = 0, !.size[call] = 0,
                            !.state[call] = IF peer.state[call] = "open" THEN "rejected"
                                                                         ELSE peer.state[call]]
      BY <2>1 DEF PyStopSending
    <3> HIDE DEF p
    <3>3. /\ peer'.issued = p.issued /\ peer'.sdk = p.sdk /\ peer'.up = p.up
          /\ peer'.pending = p.pending /\ peer'.response = p.response /\ peer'.acking = p.acking
          /\ \A c \in Calls : \/ peer'.state[c] = p.state[c]
                              \/ peer.state[c] = "open" /\ peer'.state[c] = "rejected"
      BY <1>0, <3>1, <3>2 DEF PeerRecords
    <3> QED
      BY <1>2, <2>0, <3>1, <3>3
  <2>2. CASE JsStopSending(call)
    <3> DEFINE p == RejectPending(peer)
    <3>1. /\ p \in PeerRecords /\ Kept(peer, p) /\ p.response.call = NoCall
          /\ \A c \in Calls : \/ p.state[c] = peer.state[c]
                              \/ peer.state[c] = "open" /\ p.state[c] = "rejected"
      BY <1>1
    <3>2. peer' = [p EXCEPT !.sending = peer.sending \ {call}, !.unsent[call] = 0, !.size[call] = 0]
      BY <2>2 DEF JsStopSending
    <3> HIDE DEF p
    <3>3. /\ peer'.issued = p.issued /\ peer'.sdk = p.sdk /\ peer'.up = p.up
          /\ peer'.pending = p.pending /\ peer'.response = p.response /\ peer'.acking = p.acking
          /\ peer'.state = p.state
      BY <3>1, <3>2 DEF PeerRecords
    <3> QED
      BY <1>2, <2>0, <3>1, <3>3
  <2>3. CASE PyCallTimeout(call)
    <3>1. CASE peer.pending = call
      <4> DEFINE p == ClearPending(peer)
      <4>1. /\ p \in PeerRecords /\ Kept(peer, p) /\ p.response.call = NoCall
            /\ p.state = peer.state
        BY <1>0, <1>1, ClearKeeps
      <4>2. peer' = [p EXCEPT !.state[call] = "rejected"] /\ peer.state[call] = "open"
        BY <2>3, <3>1 DEF PyCallTimeout, Open
      <4> HIDE DEF p
      <4>3. /\ peer'.issued = p.issued /\ peer'.sdk = p.sdk /\ peer'.up = p.up
            /\ peer'.pending = p.pending /\ peer'.response = p.response /\ peer'.acking = p.acking
            /\ \A c \in Calls : \/ peer'.state[c] = p.state[c]
                                \/ peer.state[c] = "open" /\ peer'.state[c] = "rejected"
        BY <1>0, <4>1, <4>2 DEF PeerRecords
      <4> QED
        BY <1>2, <2>0, <4>1, <4>3
    <3>2. CASE peer.pending # call
      <4>1. peer' = [peer EXCEPT !.state[call] = "rejected"] /\ peer.state[call] = "open"
        BY <2>3, <3>2 DEF PyCallTimeout, Open
      <4>2. /\ peer'.issued = peer.issued /\ peer'.sdk = peer.sdk /\ peer'.up = peer.up
            /\ peer'.pending = peer.pending /\ peer'.response = peer.response
            /\ peer'.acking = peer.acking
            /\ \A c \in Calls : \/ peer'.state[c] = peer.state[c]
                                \/ peer.state[c] = "open" /\ peer'.state[c] = "rejected"
        BY <1>0, <4>1 DEF PeerRecords
      <4> QED
        BY <2>0, <4>2 DEF Calm, Steady, Quiet, Resulted
    <3> QED
      BY <3>1, <3>2
  <2>4. CASE JsCallTimeout(call)
    <3> DEFINE p == RejectPending(peer)
    <3>1. /\ p \in PeerRecords /\ Kept(peer, p) /\ p.response.call = NoCall
          /\ \A c \in Calls : \/ p.state[c] = peer.state[c]
                              \/ peer.state[c] = "open" /\ p.state[c] = "rejected"
      BY <1>1
    <3>2. peer' = p
      BY <2>4 DEF JsCallTimeout
    <3> HIDE DEF p
    <3> QED
      BY <1>2, <2>0, <3>1, <3>2
  <2> QED
    BY <1>9, <2>1, <2>2, <2>3, <2>4
<1>10. ASSUME NEW call \in Calls, PyAckDrained(call) \/ JsAckDrained(call) \/ AckStuck(call)
       PROVE  Calm
  <2>0. link' = link /\ toSlave' = toSlave /\ toMaster' = toMaster
    BY <1>10 DEF PyAckDrained, JsAckDrained, AckStuck, channelVars
  <2>1. CASE PyAckDrained(call)
    <3> DEFINE p == Settle(peer, call, "resolved")
    <3>1. /\ p \in PeerRecords /\ Kept(peer, p) /\ p.response.call = NoCall
          /\ \A c \in Calls : \/ p.state[c] = peer.state[c]
                              \/ c = call /\ peer.state[c] = "open" /\ p.state[c] = "resolved"
      <4>1. p \in PeerRecords /\ Kept(peer, p)
        BY <1>0, ClearTyped, ClearKeeps
      <4>2. p.response.call = NoCall
        BY <4>1 DEF Kept, NoResponse
      <4> QED
        BY <1>0, <4>1, <4>2, ClearKeeps
    <3>2. peer' = [p EXCEPT !.acking = peer.acking \ {call}] /\ call \in peer.acking
      BY <2>1 DEF PyAckDrained
    <3> HIDE DEF p
    <3>3. /\ peer'.issued = p.issued /\ peer'.sdk = p.sdk /\ peer'.up = p.up
          /\ peer'.pending = p.pending /\ peer'.response = p.response
          /\ peer'.acking \subseteq peer.acking /\ peer'.state = p.state
      BY <3>1, <3>2 DEF PeerRecords
    <3>4. Quiet
      BY <2>0, <3>1, <3>2, <3>3 DEF Quiet
    <3>5. Steady
      BY <2>0, <3>1, <3>3 DEF Steady, Kept
    <3> QED
      BY <3>4, <3>5 DEF Calm
  <2>2. CASE JsAckDrained(call)
    <3> DEFINE whole == peer.response.next = peer.response.parts
               p == IF peer.response.call = NoCall THEN ClearPending(peer)
                    ELSE Settle(peer, peer.pending, IF whole THEN "resolved" ELSE "torn")
    <3>1. /\ p \in PeerRecords /\ Kept(peer, p) /\ p.response.call = NoCall
          /\ \A c \in Calls : \/ p.state[c] = peer.state[c]
                              \/ /\ c = peer.response.call /\ peer.state[c] = "open"
                                 /\ p.state[c] \in {"resolved", "torn"}
      <4>1. CASE peer.response.call = NoCall
        <5>1. p = ClearPending(peer)
          BY <4>1
        <5> HIDE DEF p
        <5>2. p \in PeerRecords /\ Kept(peer, p) /\ p.response.call = NoCall
          BY <1>1, <5>1
        <5>3. p.state = peer.state
          BY <1>0, <5>1, ClearKeeps
        <5> QED
          BY <5>2, <5>3
      <4>2. CASE peer.response.call # NoCall
        <5>1. peer.response.call = peer.pending /\ peer.pending \in Calls
          BY <1>0, <4>2 DEF PeerSound, NoResponse
        <5>2. PICK state \in {"resolved", "torn"} : p = Settle(peer, peer.pending, state)
          BY <4>2
        <5> HIDE DEF p
        <5>3. p \in PeerRecords /\ Kept(peer, p)
          BY <1>0, <5>1, <5>2, ClearTyped, ClearKeeps
        <5>4. p.response.call = NoCall
          BY <5>3 DEF Kept, NoResponse
        <5>5. \A c \in Calls : \/ p.state[c] = peer.state[c]
                               \/ c = peer.pending /\ peer.state[c] = "open" /\ p.state[c] = state
          BY <1>0, <5>1, <5>2, ClearKeeps
        <5> QED
          BY <5>1, <5>3, <5>4, <5>5
      <4> QED
        BY <4>1, <4>2
    <3>2. /\ peer' = [p EXCEPT !.acking = peer.acking \ {call}]
          /\ call \in peer.acking /\ peer.sdk = "js"
      BY <2>2 DEF JsAckDrained
    <3> HIDE DEF p
    <3>3. /\ peer'.issued = p.issued /\ peer'.sdk = p.sdk /\ peer'.up = p.up
          /\ peer'.pending = p.pending /\ peer'.response = p.response
          /\ peer'.acking \subseteq peer.acking /\ peer'.state = p.state
      BY <3>1, <3>2 DEF PeerRecords
    <3>4. Quiet
      BY <2>0, <3>1, <3>2, <3>3 DEF Quiet, Late
    <3>5. Steady
      BY <2>0, <3>1, <3>3 DEF Steady, Kept
    <3> QED
      BY <3>4, <3>5 DEF Calm
  <2>3. CASE AckStuck(call)
    <3> DEFINE p == RejectPending(peer)
    <3>1. /\ p \in PeerRecords /\ Kept(peer, p) /\ p.response.call = NoCall
          /\ \A c \in Calls : \/ p.state[c] = peer.state[c]
                              \/ peer.state[c] = "open" /\ p.state[c] = "rejected"
      BY <1>1
    <3>2. peer' = [p EXCEPT !.acking = peer.acking \ {call}]
      BY <2>3 DEF AckStuck
    <3> HIDE DEF p
    <3>3. /\ peer'.issued = p.issued /\ peer'.sdk = p.sdk /\ peer'.up = p.up
          /\ peer'.pending = p.pending /\ peer'.response = p.response
          /\ peer'.acking \subseteq p.acking /\ peer'.state = p.state
      BY <3>1, <3>2 DEF PeerRecords, Kept
    <3> QED
      BY <1>2, <2>0, <3>1, <3>3
  <2> QED
    BY <1>10, <2>1, <2>2, <2>3
<1> QED
  BY MasterCases, <1>3, <1>4, <1>5, <1>6, <1>7, <1>8, <1>9, <1>10 DEF MasterStep
-----------------------------------------------------------------------------
(* What a step of the slave may do to a session *)

LEMMA AppendFacts ==
  ASSUME NEW S, NEW q \in Seq(S), NEW f \in S
  PROVE  /\ Len(Append(q, f)) = Len(q) + 1 /\ Len(q) \in Nat
         /\ Append(q, f)[Len(q) + 1] = f
         /\ \A i \in 1..Len(q) : i \in 1..Len(Append(q, f)) /\ Append(q, f)[i] = q[i]
         /\ \A i \in 1..Len(Append(q, f)) : i \in 1..Len(q) \/ i = Len(q) + 1
OBVIOUS

\* A frame is put at the end or lost.
LEMMA PutCases ==
  ASSUME NEW S, NEW q \in Seq(S), NEW f \in S
  PROVE  Put(q, <<f>>) = q \/ (link = "open" /\ Put(q, <<f>>) = Append(q, f))
BY PutFacts

\* Nothing but the return of a handler answers a call.
NoAnswer ==
  /\ slave'.answered = slave.answered
  /\ \/ toMaster' = toMaster
     \/ \E f \in MasterFrames : f.kind # "result" /\ toMaster' = Put(toMaster, <<f>>)

\* What handling a frame leaves of the job.
SameCall ==
  /\ slave'.phase = slave.phase /\ slave'.current = slave.current
  /\ slave'.handled = slave.handled /\ slave'.answered = slave.answered

\* The frames of a call still being received come, or end it.
Passed ==
  /\ Head(toSlave).kind \notin {"call", "ack"}
  /\ slave'.queue = slave.queue /\ slave'.busy = slave.busy /\ slave'.refused = slave.refused
  /\ \/ slave'.incoming = NoIncoming
     \/ slave.incoming # NoIncoming /\ slave'.incoming.call = slave.incoming.call
Queued ==
  /\ Head(toSlave).kind = "chunk"
  /\ slave.incoming # NoIncoming /\ slave'.incoming = NoIncoming
  /\ slave'.queue = <<slave.incoming.call>>
  /\ slave'.busy = slave.busy /\ slave'.refused = slave.refused
Freed ==
  /\ Head(toSlave).kind = "ack"
  /\ slave'.queue = slave.queue /\ slave'.incoming = slave.incoming
  /\ slave'.refused = slave.refused
  /\ slave'.busy = (slave.busy /\ ~(/\ slave.phase \in {"replying", "acking"}
                                    /\ Head(toSlave).call = slave.current))
Refused ==
  /\ Head(toSlave).kind = "call"
  /\ slave.busy \/ slave.incoming # NoIncoming \/ slave.queue # <<>>
  /\ slave'.queue = slave.queue /\ slave'.incoming = slave.incoming /\ slave'.busy = slave.busy
  /\ slave'.refused = slave.refused \cup {Head(toSlave).call}
Accepted ==
  /\ Head(toSlave).kind = "call"
  /\ ~slave.busy /\ slave.incoming = NoIncoming /\ slave.queue = <<>>
  /\ \/ slave'.queue = <<Head(toSlave).call>> /\ slave'.incoming = NoIncoming
     \/ slave'.queue = <<>> /\ slave'.incoming.call = Head(toSlave).call
  /\ slave'.busy = slave.busy /\ slave'.refused = slave.refused

LEMMA ReceiveCases ==
  ASSUME TypeInv, SlaveReceives
  PROVE  /\ toSlave # <<>> /\ toSlave' = Tail(toSlave) /\ link' = link
         /\ Head(toSlave) \in SlaveFrames /\ Head(toSlave) = toSlave[1]
         /\ SameCall /\ NoAnswer
         /\ Passed \/ Queued \/ Freed \/ Refused \/ Accepted
<1> DEFINE frame == Head(toSlave)
           Shape == SameCall /\ NoAnswer /\ (Passed \/ Queued \/ Freed \/ Refused \/ Accepted)
<1>0. /\ toSlave \in Seq(SlaveFrames) /\ toMaster \in Seq(MasterFrames)
      /\ slave \in SlaveRecords /\ SlaveSound(slave)
  BY DEF TypeInv
<1>1. /\ toSlave # <<>> /\ toSlave' = Tail(toSlave) /\ link' = link
      /\ frame \in SlaveFrames /\ frame = toSlave[1] /\ frame.call \in Calls
      /\ frame.kind \in {"ready", "ack", "finish", "call", "chunk"}
  BY <1>0, TakeFacts, SlaveFrameFacts DEF SlaveReceives
<1>2. \A c \in Calls : /\ Frame("error", c) \in MasterFrames /\ Frame("error", c).kind # "result"
                       /\ JobId \in Calls
  BY FrameTypes, CallFacts DEF Frame
<1>3. ASSUME frame.kind \in {"ready", "finish"}, toMaster' = toMaster,
             \/ slave' = [slave EXCEPT !.ready = TRUE]
             \/ slave' = [slave EXCEPT !.finish = TRUE]
      PROVE  Shape
  <2>1. /\ SameCall /\ slave'.queue = slave.queue /\ slave'.busy = slave.busy
        /\ slave'.refused = slave.refused /\ slave'.incoming = slave.incoming
    BY <1>0, <1>3 DEF SameCall, SlaveRecords
  <2> QED
    BY <1>3, <2>1 DEF SameCall, NoAnswer, Passed
<1>4. ASSUME frame.kind = "ack", TakeAck(frame) PROVE Shape
  <2>1. CASE slave.phase \in {"replying", "acking"} /\ frame.call = slave.current
    <3>1. slave' = [slave EXCEPT !.acked = TRUE, !.busy = FALSE] /\ toMaster' = toMaster
      BY <1>4, <2>1 DEF TakeAck
    <3>2. /\ SameCall /\ slave'.queue = slave.queue /\ slave'.incoming = slave.incoming
          /\ slave'.refused = slave.refused /\ slave'.busy = FALSE
      BY <1>0, <3>1 DEF SameCall, SlaveRecords
    <3> QED
      BY <1>4, <2>1, <3>1, <3>2 DEF SameCall, NoAnswer, Freed
  <2>2. CASE ~(slave.phase \in {"replying", "acking"} /\ frame.call = slave.current)
    <3>1. slave' = slave /\ toMaster' = toMaster
      BY <1>4, <2>2 DEF TakeAck
    <3>2. slave.busy \in BOOLEAN
      BY <1>0 DEF SlaveRecords
    <3> QED
      BY <1>4, <2>2, <3>1, <3>2 DEF SameCall, NoAnswer, Freed
  <2> QED
    BY <2>1, <2>2
<1>5. ASSUME frame.kind = "call", TakeCall(frame) PROVE Shape
  <2>1. CASE slave.busy \/ slave.incoming # NoIncoming \/ slave.queue # <<>>
    <3>1. /\ slave' = [slave EXCEPT !.refused = slave.refused \cup {frame.call}]
          /\ toMaster' = Put(toMaster, <<Frame("error", frame.call)>>)
      BY <1>5, <2>1 DEF TakeCall, Refuse
    <3>2. /\ SameCall /\ slave'.queue = slave.queue /\ slave'.incoming = slave.incoming
          /\ slave'.busy = slave.busy /\ slave'.refused = slave.refused \cup {frame.call}
      BY <1>0, <3>1 DEF SameCall, SlaveRecords
    <3>3. NoAnswer
      BY <1>1, <1>2, <3>1, <3>2 DEF NoAnswer, SameCall
    <3> QED
      BY <1>5, <2>1, <3>2, <3>3 DEF Refused
  <2>2. CASE ~(slave.busy \/ slave.incoming # NoIncoming \/ slave.queue # <<>>)
    <3>1. /\ toMaster' = toMaster
          /\ \/ slave' = [slave EXCEPT !.queue = <<frame.call>>]
             \/ slave' = [slave EXCEPT !.incoming = [call |-> frame.call, next |-> 0]]
      BY <1>1, <1>5, <2>2, QueueFacts DEF TakeCall
    <3>2. CASE slave' = [slave EXCEPT !.queue = <<frame.call>>]
      <4>1. /\ SameCall /\ slave'.queue = <<frame.call>> /\ slave'.incoming = slave.incoming
            /\ slave'.busy = slave.busy /\ slave'.refused = slave.refused
        BY <1>0, <3>2 DEF SameCall, SlaveRecords
      <4> QED
        BY <1>5, <2>2, <3>1, <4>1 DEF SameCall, NoAnswer, Accepted
    <3>3. CASE slave' = [slave EXCEPT !.incoming = [call |-> frame.call, next |-> 0]]
      <4>1. /\ SameCall /\ slave'.queue = slave.queue /\ slave'.incoming.call = frame.call
            /\ slave'.busy = slave.busy /\ slave'.refused = slave.refused
        BY <1>0, <3>3 DEF SameCall, SlaveRecords
      <4> QED
        BY <1>5, <2>2, <3>1, <4>1 DEF SameCall, NoAnswer, Accepted
    <3> QED
      BY <3>1, <3>2, <3>3
  <2> QED
    BY <2>1, <2>2
<1>6. ASSUME frame.kind = "chunk", TakeChunk(frame) PROVE Shape
  <2>1. CASE slave.incoming = NoIncoming
    <3>1. toMaster' = Put(toMaster, <<Frame("error", JobId)>>) /\ slave' = slave
      BY <1>6, <2>1 DEF TakeChunk
    <3> QED
      BY <1>1, <1>2, <1>6, <2>1, <3>1 DEF SameCall, NoAnswer, Passed
  <2>2. CASE /\ slave.incoming # NoIncoming
             /\ toMaster' = Put(toMaster, <<Frame("error", slave.incoming.call)>>)
             /\ slave' = [slave EXCEPT !.incoming = NoIncoming]
    <3>1. /\ SameCall /\ slave'.queue = slave.queue /\ slave'.incoming = NoIncoming
          /\ slave'.busy = slave.busy /\ slave'.refused = slave.refused
      BY <1>0, <2>2 DEF SameCall, SlaveRecords
    <3>2. slave.incoming.call \in Calls
      BY <1>0, <2>2 DEF SlaveSound
    <3>3. NoAnswer
      BY <1>2, <2>2, <3>1, <3>2 DEF NoAnswer, SameCall
    <3> QED
      BY <1>6, <3>1, <3>3 DEF Passed
  <2>3. CASE /\ slave.incoming # NoIncoming /\ toMaster' = toMaster
             /\ frame.call = slave.incoming.call
             /\ slave' = IF frame.final
                         THEN [slave EXCEPT !.incoming = NoIncoming,
                                            !.queue = Append(slave.queue, frame.call)]
                         ELSE [slave EXCEPT !.incoming.next = frame.index + 1]
    <3>1. slave.queue = <<>> /\ Append(slave.queue, frame.call) = <<slave.incoming.call>>
      BY <1>0, <1>1, <2>3, QueueFacts DEF SlaveSound
    <3>2. CASE frame.final
      <4>1. /\ SameCall /\ slave'.queue = <<slave.incoming.call>> /\ slave'.incoming = NoIncoming
            /\ slave'.busy = slave.busy /\ slave'.refused = slave.refused
        BY <1>0, <2>3, <3>1, <3>2 DEF SameCall, SlaveRecords
      <4> QED
        BY <1>6, <2>3, <4>1 DEF SameCall, NoAnswer, Queued
    <3>3. CASE ~frame.final
      <4>1. /\ SameCall /\ slave'.queue = slave.queue
            /\ slave'.incoming.call = slave.incoming.call
            /\ slave'.busy = slave.busy /\ slave'.refused = slave.refused
        BY <1>0, <2>3, <3>3 DEF SameCall, SlaveRecords
      <4> QED
        BY <1>6, <2>3, <4>1 DEF SameCall, NoAnswer, Passed
    <3> QED
      BY <3>2, <3>3
  <2> QED
    BY <1>6, <2>1, <2>2, <2>3 DEF TakeChunk
<1> QED
  BY <1>1, <1>3, <1>4, <1>5, <1>6 DEF SlaveReceives

LEMMA SlaveAnswers ==
  ASSUME TypeInv, SlaveNext
  PROVE  NoAnswer \/ \E parts \in 0..MaxParts, sound \in BOOLEAN : ReturnStep(parts, sound)
<1>0. /\ toMaster \in Seq(MasterFrames) /\ slave \in SlaveRecords /\ SlaveSound(slave)
  BY DEF TypeInv
<1>1. CASE Ending
  BY <1>1, EndJobFacts DEF Ending, NoAnswer
<1>2. CASE AnswerStep
  <2>1. slave'.answered = slave.answered
    <3>1. \/ slave' = [slave EXCEPT !.phase = "waiting"]
          \/ slave' = [slave EXCEPT !.prepared = FALSE]
      BY <1>2 DEF AnswerStep, BuildAnswer
    <3> QED
      BY <1>0, <3>1 DEF SlaveRecords
  <2> QED
    BY <1>2, <2>1 DEF AnswerStep, BuildAnswer, channelVars, NoAnswer
<1>3. CASE ReadyStep
  BY <1>0, <1>3 DEF ReadyStep, SlaveRecords, channelVars, NoAnswer
<1>4. CASE TakeStep
  BY <1>0, <1>4 DEF TakeStep, SlaveRecords, channelVars, NoAnswer
<1>5. CASE StartCall
  BY <1>0, <1>5 DEF StartCall, SlaveRecords, channelVars, NoAnswer
<1>6. CASE FailStep
  <2>1. slave.current \in Calls
    BY <1>0, <1>6 DEF FailStep, SlaveSound
  <2>2. /\ Frame("error", slave.current) \in MasterFrames
        /\ Frame("error", slave.current).kind # "result"
    BY <2>1, FrameTypes DEF Frame
  <2> QED
    BY <1>0, <1>6, <2>2, ServedFacts DEF FailStep, NoAnswer
<1>7. CASE ChunkStep
  <2>1. /\ slave.current \in Calls /\ slave.left \in 0..MaxParts /\ slave.parts \in 0..MaxParts
        /\ slave.left > 0 /\ slave.left <= slave.parts
    BY <1>0, <1>7 DEF ChunkStep, SlaveSound, SlaveRecords
  <2>2. /\ slave.parts - slave.left \in 0..(MaxParts - 1) /\ (slave.left = 1) \in BOOLEAN
    BY <2>1, BoundsAssumption
  <2> DEFINE f == Chunk(slave.current, slave.parts - slave.left, slave.left = 1)
  <2>3. f \in MasterFrames
    BY <2>1, <2>2, FrameTypes
  <2>4. f.kind # "result"
    BY DEF Chunk
  <2>5. slave'.answered = slave.answered /\ toMaster' = Put(toMaster, <<f>>)
    BY <1>0, <1>7 DEF ChunkStep, SlaveRecords
  <2> QED
    BY <2>3, <2>4, <2>5 DEF NoAnswer
<1>8. CASE AckArrived
  BY <1>0, <1>8, ServedFacts DEF AckArrived, channelVars, NoAnswer
<1>9. CASE SlaveReceives
  BY <1>9, ReceiveCases
<1>10. CASE CloseStep
  BY <1>0, <1>10 DEF CloseStep, SlaveRecords, NoAnswer
<1> QED
  BY SlaveCases, <1>1, <1>2, <1>3, <1>4, <1>5, <1>6, <1>7, <1>8, <1>9, <1>10
-----------------------------------------------------------------------------
(* Calls are made one at a time *)

\* Before the channel opens nothing has been sent.
BeforeOpen ==
  link \in {"none", "opening"} => ~peer.up /\ peer.issued = 0 /\ toSlave = <<>>

OneAtATime ==
  /\ \A c \in Calls : c > peer.issued <=> peer.state[c] = "new"
  /\ \A c \in Calls : c < peer.issued => peer.state[c] # "open"
  /\ peer.pending \in {NoCall, peer.issued}

CallsInv == TypeInv /\ BeforeOpen /\ OneAtATime

\* What a new call is.
Made(parts) ==
  /\ peer.up /\ peer.issued + 1 \in Calls
  /\ peer.issued > 0 => peer.state[peer.issued] # "open"
  /\ link' = link /\ toMaster' = toMaster
  /\ toSlave' = Put(toSlave, <<Opening("call", peer.issued + 1, parts, TRUE)>>)
  /\ Opening("call", peer.issued + 1, parts, TRUE) \in SlaveFrames
  /\ peer'.issued = peer.issued + 1 /\ peer'.pending = peer.issued + 1
  /\ peer'.response = NoResponse /\ peer'.acking = peer.acking
  /\ peer'.sdk = peer.sdk /\ peer'.up = peer.up
  /\ peer'.state = [peer.state EXCEPT ![peer.issued + 1] = "open"]

LEMMA MakeCallFacts ==
  ASSUME TypeInv, NEW parts \in 0..MaxParts, MakeCall(parts)
  PROVE  Made(parts)
<1>0. peer \in PeerRecords
  BY DEF TypeInv
<1>1. peer.issued + 1 \in Calls
  BY <1>0, BoundsAssumption DEF MakeCall, PeerRecords, Calls
<1>2. Opening("call", peer.issued + 1, parts, TRUE) \in SlaveFrames
  BY <1>1, FrameTypes
<1>3. /\ peer'.issued = peer.issued + 1 /\ peer'.pending = peer.issued + 1
      /\ peer'.response = NoResponse /\ peer'.acking = peer.acking
      /\ peer'.sdk = peer.sdk /\ peer'.up = peer.up
  BY <1>0 DEF MakeCall, PeerRecords
<1>4. peer'.state = [peer.state EXCEPT ![peer.issued + 1] = "open"]
  BY <1>0 DEF MakeCall, PeerRecords
<1> QED
  BY <1>1, <1>2, <1>3, <1>4 DEF MakeCall, Made, Usable, CallerFree

\* What opening the channel is.
LEMMA SendReadyFacts ==
  ASSUME TypeInv, SendReady
  PROVE  /\ link = "opening" /\ link' = "open" /\ toMaster' = toMaster
         /\ toSlave' = <<Frame("ready", JobId)>>
         /\ peer'.issued = peer.issued /\ peer'.pending = peer.pending
         /\ peer'.response = peer.response /\ peer'.acking = peer.acking
         /\ peer'.sdk = peer.sdk /\ peer'.state = peer.state
BY DEF TypeInv, SendReady, PeerRecords

LEMMA InitCalls == Init => CallsInv
<1> SUFFICES ASSUME Init PROVE CallsInv
  OBVIOUS
<1>0. /\ link = "none" /\ toSlave = <<>> /\ toMaster = <<>> /\ PeerInit /\ SlaveInit
      /\ 0 \in 0..MaxParts /\ 0 \in 0..MaxCalls
  BY BoundsAssumption DEF Init
<1>1. peer \in PeerRecords /\ PeerSound(peer)
  BY <1>0, CallFacts DEF PeerInit, PeerRecords, PeerSound
<1>2. PICK prepared \in BOOLEAN :
        slave = [phase |-> "answering", prepared |-> prepared, ready |-> FALSE,
                 finish |-> FALSE, gone |-> FALSE, queue |-> <<>>,
                 incoming |-> NoIncoming, busy |-> FALSE, current |-> NoCall,
                 left |-> 0, parts |-> 0, acked |-> FALSE, report |-> "none",
                 handled |-> 0, answered |-> {}, refused |-> {}]
  BY <1>0 DEF SlaveInit
<1>3. 0 \in Calls \cup {NoCall}
  BY DEF NoCall
<1>4. slave \in SlaveRecords
  BY <1>0, <1>2, <1>3, CallFacts, QueueFacts DEF SlaveRecords
<1>5. SlaveSound(slave)
  BY <1>0, <1>2 DEF SlaveSound
<1>6. <<>> \in Seq(SlaveFrames) /\ <<>> \in Seq(MasterFrames)
  OBVIOUS
<1>7. TypeInv
  BY <1>0, <1>1, <1>4, <1>5, <1>6 DEF TypeInv
<1>8. BeforeOpen /\ OneAtATime
  BY <1>0, CallFacts DEF PeerInit, BeforeOpen, OneAtATime, Calls
<1> QED
  BY <1>7, <1>8 DEF CallsInv

LEMMA CallsKept ==
  ASSUME CallsInv, [Next]_vars
  PROVE  CallsInv'
<1>0. /\ TypeInv /\ BeforeOpen /\ OneAtATime
      /\ peer \in PeerRecords /\ slave \in SlaveRecords
      /\ toSlave \in Seq(SlaveFrames) /\ peer.issued \in 0..MaxCalls
  BY DEF CallsInv, TypeInv, PeerRecords
<1>1. CASE MasterNext /\ UNCHANGED slave
  <2>1. TypeInv'
    BY <1>0, <1>1, MasterTyped
  <2>2. CASE SendReady
    <3>1. /\ link' = "open" /\ peer'.issued = peer.issued /\ peer'.pending = peer.pending
          /\ peer'.acking = peer.acking /\ peer'.sdk = peer.sdk /\ peer'.state = peer.state
      BY <1>0, <2>2, SendReadyFacts
    <3> QED
      BY <1>0, <2>1, <3>1 DEF CallsInv, BeforeOpen, OneAtATime
  <2>3. ASSUME NEW parts \in 0..MaxParts, MakeCall(parts) PROVE CallsInv'
    <3>1. Made(parts)
      BY <1>0, <2>3, MakeCallFacts
    <3>2. BeforeOpen'
      BY <1>0, <3>1 DEF Made, BeforeOpen
    <3>3. OneAtATime'
      <4> DEFINE n == peer.issued + 1
      <4>1. /\ n \in Calls /\ peer'.issued = n /\ peer'.pending = n
            /\ peer'.state[n] = "open" /\ \A c \in Calls : c # n => peer'.state[c] = peer.state[c]
        BY <1>0, <3>1 DEF Made, PeerRecords
      <4>2. Calls \subseteq Nat /\ peer.issued \in Nat
        BY <1>0, CallFacts, BoundsAssumption
      <4>3. \A c \in Calls : (c > n <=> c > peer.issued /\ c # n) /\ (c < n <=> c < peer.issued \/ c = peer.issued)
        BY <4>2
      <4>4. \A c \in Calls : c > n <=> peer'.state[c] = "new"
        BY <1>0, <4>1, <4>2, <4>3 DEF OneAtATime
      <4>5. \A c \in Calls : c < n => peer'.state[c] # "open"
        <5> SUFFICES ASSUME NEW c \in Calls, c < n PROVE peer'.state[c] # "open"
          OBVIOUS
        <5>1. c # n /\ peer'.state[c] = peer.state[c]
          BY <4>1, <4>2
        <5>2. CASE c = peer.issued
          BY <3>1, <4>2, <5>1, <5>2 DEF Made, Calls
        <5>3. CASE c < peer.issued
          BY <1>0, <5>1, <5>3 DEF OneAtATime
        <5> QED
          BY <4>3, <5>2, <5>3
      <4> QED
        BY <4>1, <4>4, <4>5 DEF OneAtATime
    <3> QED
      BY <2>1, <3>2, <3>3 DEF CallsInv
  <2>4. CASE Calm
    <3>2. BeforeOpen'
      <4> SUFFICES ASSUME link' \in {"none", "opening"}
                   PROVE  ~peer'.up /\ peer'.issued = 0 /\ toSlave' = <<>>
        BY DEF BeforeOpen
      <4>1. link \in {"none", "opening"} /\ peer'.issued = 0 /\ ~peer.up /\ ~peer'.up
            /\ toSlave = <<>>
        BY <1>0, <2>4 DEF Calm, Steady, BeforeOpen
      <4>2. Quiet
        BY <2>4, <4>1 DEF Calm, Acks
      <4>3. toSlave' = toSlave
        BY <1>0, <4>1, <4>2, PutFacts DEF Quiet
      <4> QED
        BY <4>1, <4>3
    <3>3. \A c \in Calls : \/ peer'.state[c] = peer.state[c]
                           \/ /\ peer.state[c] = "open"
                              /\ peer'.state[c] \in {"rejected", "resolved", "torn"}
      BY <2>4 DEF Calm, Quiet, Acks
    <3>4. peer'.issued = peer.issued /\ peer'.pending \in {peer.pending, NoCall}
      BY <2>4 DEF Calm, Steady
    <3>5. OneAtATime'
      BY <1>0, <3>3, <3>4 DEF OneAtATime
    <3> QED
      BY <2>1, <3>2, <3>5 DEF CallsInv
  <2> QED
    BY <1>0, <1>1, <2>2, <2>3, <2>4, MasterCalm
<1>2. CASE SlaveNext /\ UNCHANGED peer
  <2>1. TypeInv'
    BY <1>0, <1>2, SlaveTyped
  <2>2. OneAtATime'
    BY <1>0, <1>2 DEF OneAtATime
  <2>3. /\ link' \in {"none", "opening"} => link \in {"none", "opening"}
        /\ toSlave' = toSlave \/ toSlave' = <<>> \/ toSlave # <<>>
    <3>1. CASE Ending
      BY <1>0, <3>1, EndJobFacts DEF Ending
    <3>2. CASE AnswerStep \/ ReadyStep \/ TakeStep \/ StartCall \/ FailStep \/ ChunkStep
               \/ AckArrived \/ CloseStep
      BY <3>2 DEF AnswerStep, BuildAnswer, ReadyStep, TakeStep, StartCall, FailStep,
                  ChunkStep, AckArrived, CloseStep, channelVars
    <3>3. ASSUME NEW parts \in 0..MaxParts, NEW sound \in BOOLEAN, ReturnStep(parts, sound)
          PROVE  link' = link /\ toSlave' = toSlave
      BY <3>3 DEF ReturnStep
    <3>4. CASE SlaveReceives
      BY <1>0, <3>4, ReceiveCases
    <3> QED
      BY <1>0, <1>2, <3>1, <3>2, <3>3, <3>4, SlaveCases
  <2>4. BeforeOpen'
    BY <1>0, <1>2, <2>3 DEF BeforeOpen
  <2> QED
    BY <2>1, <2>2, <2>4 DEF CallsInv
<1>3. CASE LoseLink
  BY <1>0, <1>3 DEF LoseLink, CallsInv, TypeInv, BeforeOpen, OneAtATime
<1>4. CASE UNCHANGED vars
  BY <1>0, <1>4 DEF vars, channelVars, CallsInv, TypeInv, BeforeOpen, OneAtATime
<1> QED
  BY <1>1, <1>2, <1>3, <1>4 DEF Next
-----------------------------------------------------------------------------
(* The steps of the job's own task, field by field *)

\* What a step of the task leaves of the frames it has handled.
Held ==
  /\ slave'.queue = slave.queue /\ slave'.incoming = slave.incoming
Closed ==
  Ended(slave') /\ slave'.handled = slave.handled /\ slave'.answered = slave.answered
Idling ==
  /\ \/ slave'.phase = slave.phase
     \/ slave.phase \in {"answering", "waiting"} /\ slave'.phase \in {"waiting", "idle"}
  /\ Held /\ slave'.current = slave.current /\ slave'.busy = slave.busy
  /\ slave'.handled = slave.handled /\ slave'.answered = slave.answered
Taking ==
  /\ slave.phase = "idle" /\ slave'.phase = "taken"
  /\ slave.queue # <<>> /\ slave'.queue = <<>> /\ slave'.current = slave.queue[1]
  /\ slave'.incoming = slave.incoming /\ slave'.busy = slave.busy
  /\ slave'.handled = slave.handled /\ slave'.answered = slave.answered
Starting ==
  /\ slave.phase = "taken" /\ slave'.phase = "running"
  /\ Held /\ slave'.current = slave.current /\ slave'.busy = TRUE
  /\ slave'.handled = slave.current /\ slave'.answered = slave.answered
Returning ==
  /\ slave.phase = "running" /\ slave'.phase \in {"replying", "acking"}
  /\ Held /\ slave'.current = slave.current /\ slave'.busy = slave.busy
  /\ slave'.handled = slave.handled
  /\ slave'.answered = slave.answered \cup {slave.current}
Sending ==
  /\ slave.phase = "replying" /\ slave'.phase \in {"replying", "acking"}
  /\ Held /\ slave'.current = slave.current /\ slave'.busy = slave.busy
  /\ slave'.handled = slave.handled /\ slave'.answered = slave.answered
Serving ==
  /\ slave.phase \in {"running", "acking"} /\ slave'.phase = "idle"
  /\ Held /\ slave'.current = NoCall /\ ~slave'.busy
  /\ slave'.handled = slave.handled /\ slave'.answered = slave.answered

Own ==
  /\ slave'.refused = slave.refused
  /\ link' \in {link, "down"} \/ (link = "none" /\ link' = "opening")
  /\ toSlave' = toSlave \/ (toSlave' = <<>> /\ link' = "down")
  /\ Closed \/ Idling \/ Taking \/ Starting \/ Returning \/ Sending \/ Serving

LEMMA SlaveMoves ==
  ASSUME TypeInv, SlaveNext
  PROVE  Own \/ SlaveReceives
<1>0. slave \in SlaveRecords /\ SlaveSound(slave)
  BY DEF TypeInv
<1>1. CASE Ending
  BY <1>1, EndJobFacts DEF Ending, Own, Closed
<1>2. CASE AnswerStep
  <2>1. CASE BuildAnswer
    BY <1>0, <1>2, <2>1 DEF AnswerStep, BuildAnswer, SlaveRecords, Own, Idling, Held
  <2>2. CASE slave' = [slave EXCEPT !.prepared = FALSE] /\ UNCHANGED channelVars
    BY <1>0, <2>2 DEF channelVars, SlaveRecords, Own, Idling, Held
  <2> QED
    BY <1>2, <2>1, <2>2 DEF AnswerStep
<1>3. CASE ReadyStep
  BY <1>0, <1>3 DEF ReadyStep, channelVars, SlaveRecords, Own, Idling, Held
<1>4. CASE TakeStep
  <2>1. slave.queue \in Queues /\ slave.queue # <<>>
    BY <1>0, <1>4 DEF TakeStep, SlaveRecords
  <2>2. Head(slave.queue) = slave.queue[1] /\ Tail(slave.queue) = <<>>
    BY <2>1, QueueFacts
  <2> QED
    BY <1>0, <1>4, <2>2 DEF TakeStep, channelVars, SlaveRecords, Own, Taking
<1>5. CASE StartCall
  BY <1>0, <1>5 DEF StartCall, channelVars, SlaveRecords, Own, Starting, Held
<1>6. CASE FailStep
  BY <1>0, <1>6, ServedFacts DEF FailStep, Own, Serving, Held
<1>7. ASSUME NEW parts \in 0..MaxParts, NEW sound \in BOOLEAN, ReturnStep(parts, sound)
      PROVE  Own
  <2>1. Returning
    BY <1>0, <1>7 DEF ReturnStep, SlaveRecords, Returning, Held
  <2>2. slave'.refused = slave.refused
    BY <1>0, <1>7 DEF ReturnStep, SlaveRecords
  <2> QED
    BY <1>7, <2>1, <2>2 DEF ReturnStep, Own
<1>8. CASE ChunkStep
  <2>1. Sending /\ slave'.refused = slave.refused
    BY <1>0, <1>8 DEF ChunkStep, SlaveRecords, Sending, Held
  <2> QED
    BY <1>8, <2>1 DEF ChunkStep, Own
<1>9. CASE AckArrived
  BY <1>0, <1>9, ServedFacts DEF AckArrived, channelVars, Own, Serving, Held
<1>10. CASE CloseStep
  BY <1>0, <1>10 DEF CloseStep, SlaveRecords, Own, Idling, Held
<1> QED
  BY SlaveCases, <1>1, <1>2, <1>3, <1>4, <1>5, <1>6, <1>7, <1>8, <1>9, <1>10
-----------------------------------------------------------------------------
(* A result is in the channel only when its handler has returned it *)

AnsweredFirst ==
  /\ \A i \in 1..Len(toMaster) :
       toMaster[i].kind = "result" => toMaster[i].call \in slave.answered
  /\ peer.response.call # NoCall => peer.response.call \in slave.answered
  /\ peer.acking \subseteq slave.answered
  /\ \A c \in Calls : peer.state[c] = "resolved" => c \in slave.answered

LEMMA ResultedAnswered ==
  ASSUME TypeInv, AnsweredFirst, NEW c, c # NoCall, Resulted(c)
  PROVE  c \in slave.answered
<1>1. toMaster \in Seq(MasterFrames)
  BY DEF TypeInv
<1>2. toMaster # <<>> => 1 \in 1..Len(toMaster) /\ Head(toMaster) = toMaster[1]
  BY <1>1, TakeFacts
<1> QED
  BY <1>2 DEF AnsweredFirst, Resulted

LEMMA AnsweredKept ==
  ASSUME CallsInv, AnsweredFirst, [Next]_vars
  PROVE  AnsweredFirst'
<1>0. /\ TypeInv /\ toMaster \in Seq(MasterFrames)
      /\ peer \in PeerRecords /\ peer.issued \in 0..MaxCalls
  BY DEF CallsInv, TypeInv, PeerRecords
<1>1. CASE MasterNext /\ UNCHANGED slave
  <2>1. CASE SendReady
    BY <1>0, <1>1, <2>1, SendReadyFacts DEF AnsweredFirst
  <2>2. ASSUME NEW parts \in 0..MaxParts, MakeCall(parts) PROVE AnsweredFirst'
    <3>1. Made(parts)
      BY <1>0, <2>2, MakeCallFacts
    <3>2. NoResponse.call = NoCall
      BY DEF NoResponse
    <3>3. \A c \in Calls : peer'.state[c] = "resolved" => peer.state[c] = "resolved"
      BY <1>0, <3>1 DEF Made, PeerRecords
    <3>4. toMaster' = toMaster /\ peer'.response.call = NoCall /\ peer'.acking = peer.acking
      BY <3>1, <3>2 DEF Made
    <3> QED
      BY <1>1, <3>3, <3>4 DEF AnsweredFirst
  <2>3. CASE Calm
    <3>1. \A i \in 1..Len(toMaster') :
            toMaster'[i].kind = "result" => toMaster'[i].call \in slave.answered
      <4>1. CASE toMaster' = toMaster
        BY <4>1 DEF AnsweredFirst
      <4>2. CASE toMaster' = <<>>
        BY <4>2
      <4>3. CASE toMaster # <<>> /\ toMaster' = Tail(toMaster)
        BY <1>0, <4>3, TakeFacts DEF AnsweredFirst
      <4> QED
        BY <2>3, <4>1, <4>2, <4>3 DEF Calm, Steady
    <3>2. peer'.response.call # NoCall => peer'.response.call \in slave.answered
      BY <1>0, <2>3, ResultedAnswered DEF Calm, Steady
    <3>3. /\ peer'.acking \subseteq slave.answered
          /\ \A c \in Calls : peer'.state[c] = "resolved" => c \in slave.answered
      <4>1. CASE Quiet
        BY <4>1, CallFacts DEF Quiet, AnsweredFirst
      <4>2. ASSUME NEW call \in Calls, Acks(call)
            PROVE  /\ peer'.acking \subseteq slave.answered
                   /\ \A c \in Calls : peer'.state[c] = "resolved" => c \in slave.answered
        <5>1. call \in slave.answered
          BY <1>0, <4>2, CallFacts, ResultedAnswered DEF Acks
        <5> QED
          BY <4>2, <5>1 DEF Acks, AnsweredFirst
      <4> QED
        BY <2>3, <4>1, <4>2 DEF Calm
    <3> QED
      BY <1>1, <3>1, <3>2, <3>3 DEF AnsweredFirst
  <2> QED
    BY <1>0, <1>1, <2>1, <2>2, <2>3, MasterCalm
<1>2. CASE SlaveNext /\ UNCHANGED peer
  <2>1. ASSUME slave.answered \subseteq slave'.answered,
               \/ toMaster' = toMaster
               \/ \E f \in MasterFrames : /\ toMaster' = Put(toMaster, <<f>>)
                                          /\ f.kind = "result" => f.call \in slave'.answered
        PROVE  AnsweredFirst'
    <3>1. \A i \in 1..Len(toMaster') :
            toMaster'[i].kind = "result" => toMaster'[i].call \in slave'.answered
      <4>1. CASE toMaster' = toMaster
        BY <2>1, <4>1 DEF AnsweredFirst
      <4>2. ASSUME NEW f \in MasterFrames, toMaster' = Append(toMaster, f),
                   f.kind = "result" => f.call \in slave'.answered
            PROVE  \A i \in 1..Len(toMaster') :
                     toMaster'[i].kind = "result" => toMaster'[i].call \in slave'.answered
        <5> SUFFICES ASSUME NEW i \in 1..Len(toMaster'), toMaster'[i].kind = "result"
                     PROVE  toMaster'[i].call \in slave'.answered
          OBVIOUS
        <5>1. CASE i \in 1..Len(toMaster)
          BY <1>0, <2>1, <4>2, <5>1, AppendFacts DEF AnsweredFirst
        <5>2. CASE i = Len(toMaster) + 1
          BY <1>0, <4>2, <5>2, AppendFacts
        <5> QED
          BY <1>0, <4>2, <5>1, <5>2, AppendFacts
      <4> QED
        BY <1>0, <2>1, <4>1, <4>2, PutCases
    <3> QED
      BY <1>2, <2>1, <3>1 DEF AnsweredFirst
  <2>2. CASE NoAnswer
    BY <2>1, <2>2 DEF NoAnswer
  <2>3. ASSUME NEW parts \in 0..MaxParts, NEW sound \in BOOLEAN, ReturnStep(parts, sound)
        PROVE  AnsweredFirst'
    <3>1. slave \in SlaveRecords /\ slave.current \in Calls
      BY <1>0, <2>3 DEF ReturnStep, TypeInv, SlaveSound
    <3>2. slave'.answered = slave.answered \cup {slave.current}
      BY <2>3, <3>1 DEF ReturnStep, SlaveRecords
    <3>3. /\ Opening("result", slave.current, parts, sound) \in MasterFrames
          /\ Opening("result", slave.current, parts, sound).call = slave.current
          /\ toMaster' = Put(toMaster, <<Opening("result", slave.current, parts, sound)>>)
      BY <2>3, <3>1, FrameTypes DEF Opening, ReturnStep
    <3> QED
      BY <2>1, <3>2, <3>3
  <2> QED
    BY <1>0, <1>2, <2>2, <2>3, SlaveAnswers
<1>3. CASE LoseLink
  BY <1>3 DEF LoseLink, AnsweredFirst
<1>4. CASE UNCHANGED vars
  BY <1>4 DEF vars, channelVars, AnsweredFirst
<1> QED
  BY <1>1, <1>2, <1>3, <1>4 DEF Next
-----------------------------------------------------------------------------
(* Calls are handled in the order in which they are made *)

InHand == slave.phase \in {"taken", "running", "replying", "acking"}
\* The calls at the slave are ones that were made, the waiting one later than the
\* one being served.
Ordered ==
  /\ slave.handled <= peer.issued /\ slave.current <= peer.issued
  /\ slave.incoming.call <= peer.issued
  /\ slave.queue # <<>> => /\ slave.queue[1] > slave.handled /\ slave.queue[1] > slave.current
                           /\ slave.queue[1] <= peer.issued
  /\ slave.incoming # NoIncoming => /\ slave.incoming.call > slave.handled
                                    /\ slave.incoming.call > slave.current
  /\ \A c \in slave.answered : c <= slave.handled
  /\ \A c \in slave.refused : c <= peer.issued
Serial ==
  /\ slave.phase = "taken" => slave.current > slave.handled
  /\ slave.phase \in {"running", "replying", "acking"} => slave.current = slave.handled
  /\ ~InHand => slave.current = NoCall
  /\ slave.phase = "running" => slave.current \notin slave.answered

Behind(s, c) ==
  /\ s.handled < c /\ s.current < c /\ s.incoming.call < c
  /\ s.queue # <<>> => s.queue[1] < c
\* The calls in the channel are later than those at the slave.
Coming ==
  /\ \A i \in 1..Len(toSlave) :
       toSlave[i].kind = "call" => Behind(slave, toSlave[i].call) /\ toSlave[i].call <= peer.issued
  /\ \A i, j \in 1..Len(toSlave) :
       i < j /\ toSlave[i].kind = "call" /\ toSlave[j].kind = "call"
         => toSlave[i].call < toSlave[j].call

InOrder == Ordered /\ Serial /\ Coming

LEMMA Numbers ==
  ASSUME TypeInv
  PROVE  /\ slave.handled \in Nat /\ slave.current \in Nat /\ slave.incoming.call \in Nat
         /\ peer.issued \in Nat
         /\ slave.queue # <<>> => slave.queue[1] \in Calls
         /\ slave.answered \subseteq Calls /\ slave.refused \subseteq Calls
         /\ \A i \in 1..Len(toSlave) : toSlave[i] \in SlaveFrames /\ toSlave[i].call \in Calls
         /\ Calls \subseteq Nat /\ NoCall = 0 /\ NoIncoming.call = 0
         /\ \A c \in Calls : c > 0
<1>0. slave \in SlaveRecords /\ peer \in PeerRecords /\ toSlave \in Seq(SlaveFrames)
  BY DEF TypeInv
<1>1. /\ Calls \subseteq Nat /\ NoCall = 0 /\ NoIncoming.call = 0
      /\ \A c \in Calls : c > 0
  BY CallFacts DEF NoCall, NoIncoming, Calls
<1>2. /\ slave.handled \in Calls \cup {NoCall} /\ slave.current \in Calls \cup {NoCall}
      /\ slave.incoming.call \in Calls \cup {NoCall} /\ peer.issued \in 0..MaxCalls
      /\ slave.answered \subseteq Calls /\ slave.refused \subseteq Calls
      /\ slave.queue \in Queues
  BY <1>0 DEF SlaveRecords, PeerRecords
<1>5. /\ slave.handled \in Nat /\ slave.current \in Nat /\ slave.incoming.call \in Nat
      /\ peer.issued \in Nat
  <2>1. \A c \in Calls \cup {NoCall} : c \in Nat
    BY <1>1
  <2>2. 0..MaxCalls \subseteq Nat
    BY BoundsAssumption
  <2> QED
    BY <1>2, <2>1, <2>2
<1>3. slave.queue # <<>> => slave.queue[1] \in Calls
  BY <1>2, QueueFacts
<1>4. \A i \in 1..Len(toSlave) : toSlave[i] \in SlaveFrames
  BY <1>0
<1> QED
  BY <1>1, <1>2, <1>3, <1>4, <1>5, SlaveFrameFacts

\* The frames a step of the master leaves in the channel, but for a call.
Grown(f) ==
  /\ f \in SlaveFrames /\ f.kind # "call"
  /\ link = "open" /\ toSlave' = Append(toSlave, f)

LEMMA CalmFrames ==
  ASSUME TypeInv, Calm
  PROVE  toSlave' = toSlave \/ \E f : Grown(f)
<1>0. toSlave \in Seq(SlaveFrames)
  BY DEF TypeInv
<1>1. ASSUME NEW f \in SlaveFrames, f.kind # "call", toSlave' = Put(toSlave, <<f>>)
      PROVE  toSlave' = toSlave \/ Grown(f)
  BY <1>0, <1>1, PutCases DEF Grown
<1>2. CASE Quiet
  BY <1>1, <1>2 DEF Quiet
<1>3. ASSUME NEW call \in Calls, Acks(call)
      PROVE  toSlave' = toSlave \/ \E f : Grown(f)
  <2>1. Frame("ack", call) \in SlaveFrames /\ Frame("ack", call).kind # "call"
    BY FrameTypes DEF Frame
  <2> QED
    BY <1>1, <1>3, <2>1 DEF Acks
<1> QED
  BY <1>2, <1>3 DEF Calm

\* More calls are made while the slave stands still.
LEMMA OrderedGrows ==
  ASSUME TypeInv, Ordered, Serial, UNCHANGED slave, peer'.issued \in Nat, peer'.issued >= peer.issued
  PROVE  Ordered' /\ Serial'
<1>1. Ordered'
  BY Numbers DEF Ordered
<1>2. Serial'
  BY DEF Serial, InHand
<1> QED
  BY <1>1, <1>2

LEMMA ComingGrows ==
  ASSUME TypeInv, Coming, UNCHANGED slave, peer'.issued \in Nat, peer'.issued >= peer.issued,
         toSlave' = toSlave \/ \E f : Grown(f)
  PROVE  Coming'
<1>0. toSlave \in Seq(SlaveFrames)
  BY DEF TypeInv
<1>1. CASE toSlave' = toSlave
  BY <1>1, Numbers DEF Coming, Behind
<1>2. ASSUME NEW f, Grown(f) PROVE Coming'
  <2>1. f \in SlaveFrames /\ f.kind # "call" /\ toSlave' = Append(toSlave, f)
    BY <1>2 DEF Grown
  <2>2. \A i \in 1..Len(toSlave') :
          toSlave'[i].kind = "call" => i \in 1..Len(toSlave) /\ toSlave'[i] = toSlave[i]
    BY <1>0, <2>1, AppendFacts
  <2>3. ASSUME NEW i \in 1..Len(toSlave'), toSlave'[i].kind = "call"
        PROVE  Behind(slave', toSlave'[i].call) /\ toSlave'[i].call <= peer'.issued
    <3>1. i \in 1..Len(toSlave) /\ toSlave'[i] = toSlave[i]
      BY <2>2, <2>3
    <3>2. Behind(slave, toSlave[i].call) /\ toSlave[i].call <= peer.issued
      BY <2>3, <3>1 DEF Coming
    <3>3. toSlave[i].call \in Nat /\ peer.issued \in Nat
      BY <3>1, Numbers
    <3> QED
      BY <3>1, <3>2, <3>3 DEF Behind
  <2>4. ASSUME NEW i \in 1..Len(toSlave'), NEW j \in 1..Len(toSlave'),
               i < j, toSlave'[i].kind = "call", toSlave'[j].kind = "call"
        PROVE  toSlave'[i].call < toSlave'[j].call
    BY <2>2, <2>4 DEF Coming
  <2> QED
    BY <2>3, <2>4 DEF Coming
<1> QED
  BY <1>1, <1>2

LEMMA OrderKeptByMaster ==
  ASSUME CallsInv, InOrder, MasterNext, UNCHANGED slave
  PROVE  InOrder'
<1>0. /\ TypeInv /\ BeforeOpen /\ toSlave \in Seq(SlaveFrames) /\ peer.issued \in Nat
      /\ Ordered /\ Serial /\ Coming
  BY Numbers DEF CallsInv, TypeInv, InOrder
<1>1. CASE SendReady
  <2>1. peer'.issued = peer.issued
    BY <1>0, <1>1, SendReadyFacts
  <2>2. toSlave' = <<Frame("ready", JobId)>> /\ Frame("ready", JobId).kind = "ready"
    BY <1>0, <1>1, SendReadyFacts DEF Frame
  <2>3. Ordered' /\ Serial'
    BY <1>0, <2>1, OrderedGrows
  <2>4. Coming'
    BY <2>2 DEF Coming
  <2> QED
    BY <2>3, <2>4 DEF InOrder
<1>2. ASSUME NEW parts \in 0..MaxParts, MakeCall(parts) PROVE InOrder'
  <2> DEFINE n == peer.issued + 1
             f == Opening("call", n, parts, TRUE)
  <2>1. Made(parts)
    BY <1>0, <1>2, MakeCallFacts
  <2>2. /\ peer'.issued = n /\ toSlave' = Put(toSlave, <<f>>) /\ f \in SlaveFrames
        /\ f.call = n /\ f.kind = "call"
    BY <2>1 DEF Made, Opening
  <2>3. Ordered' /\ Serial'
    BY <1>0, <2>2, OrderedGrows
  <2>4. Coming'
    <3>1. CASE toSlave' = toSlave
      BY <1>0, <2>2, <3>1, ComingGrows
    <3>2. CASE toSlave' = Append(toSlave, f)
      <4> HIDE DEF f
      <4>0. /\ Len(toSlave) \in Nat /\ toSlave'[Len(toSlave) + 1] = f
            /\ \A i \in 1..Len(toSlave') : i \in 1..Len(toSlave) \/ i = Len(toSlave) + 1
            /\ \A i \in 1..Len(toSlave) : toSlave'[i] = toSlave[i]
        BY <1>0, <2>2, <3>2, AppendFacts
      <4>1. Behind(slave', n)
        <5>1. /\ slave.handled \in Nat /\ slave.current \in Nat /\ slave.incoming.call \in Nat
              /\ slave.queue # <<>> => slave.queue[1] \in Nat
          BY <1>0, Numbers
        <5> QED
          BY <1>0, <5>1 DEF Ordered, Behind
      <4>2. ASSUME NEW i \in 1..Len(toSlave'), toSlave'[i].kind = "call"
            PROVE  Behind(slave', toSlave'[i].call) /\ toSlave'[i].call <= n
        <5>1. CASE i \in 1..Len(toSlave)
          <6>1. toSlave'[i] = toSlave[i] /\ toSlave[i].kind = "call"
            BY <4>0, <4>2, <5>1
          <6>2. Behind(slave, toSlave[i].call) /\ toSlave[i].call <= peer.issued
            BY <1>0, <5>1, <6>1 DEF Coming
          <6>3. toSlave[i].call \in Nat
            BY <1>0, <5>1, Numbers
          <6>4. Behind(slave', toSlave[i].call)
            BY <6>2
          <6> QED
            BY <1>0, <6>1, <6>2, <6>3, <6>4
        <5>2. CASE i = Len(toSlave) + 1
          BY <1>0, <2>2, <4>0, <4>1, <5>2
        <5> QED
          BY <4>0, <5>1, <5>2
      <4>3. ASSUME NEW i \in 1..Len(toSlave'), NEW j \in 1..Len(toSlave'),
                   i < j, toSlave'[i].kind = "call", toSlave'[j].kind = "call"
            PROVE  toSlave'[i].call < toSlave'[j].call
        <5>1. i \in 1..Len(toSlave) /\ toSlave'[i] = toSlave[i]
          BY <4>0, <4>3
        <5>2. CASE j \in 1..Len(toSlave)
          BY <1>0, <4>0, <4>3, <5>1, <5>2 DEF Coming
        <5>3. CASE j = Len(toSlave) + 1
          <6>1. toSlave[i].call <= peer.issued /\ toSlave[i].call \in Nat
            BY <1>0, <4>3, <5>1, Numbers DEF Coming
          <6> QED
            BY <1>0, <2>2, <4>0, <5>1, <5>3, <6>1
        <5> QED
          BY <4>0, <5>2, <5>3
      <4> QED
        BY <2>2, <4>2, <4>3 DEF Coming
    <3> QED
      BY <1>0, <2>2, <3>1, <3>2, PutCases
  <2> QED
    BY <2>3, <2>4 DEF InOrder
<1>3. CASE Calm
  <2>1. peer'.issued = peer.issued
    BY <1>3 DEF Calm, Steady
  <2>2. toSlave' = toSlave \/ \E f : Grown(f)
    BY <1>0, <1>3, CalmFrames
  <2> QED
    BY <1>0, <2>1, <2>2, OrderedGrows, ComingGrows DEF InOrder
<1> QED
  BY <1>0, <1>1, <1>2, <1>3, MasterCalm

LEMMA OrderKeptByTask ==
  ASSUME TypeInv, TypeInv', InOrder, Own, UNCHANGED peer
  PROVE  InOrder'
<1>0. Ordered /\ Serial /\ Coming /\ SlaveSound(slave) /\ slave' \in SlaveRecords
  BY DEF InOrder, TypeInv
<1>1. Ordered'
  <2>0. slave'.refused = slave.refused
    BY DEF Own
  <2>1. CASE Closed
    BY <1>0, <2>0, <2>1, Numbers DEF Closed, Ended, Ordered
  <2>2. CASE Idling \/ Sending
    BY <1>0, <2>0, <2>2, Numbers DEF Idling, Sending, Held, Ordered
  <2>3. CASE Taking
    <3>1. slave.incoming = NoIncoming
      BY <1>0, <2>3 DEF Taking, SlaveSound
    <3> QED
      BY <1>0, <2>0, <2>3, <3>1, Numbers DEF Taking, Ordered
  <2>4. CASE Starting
    <3>1. slave.current > slave.handled
      BY <1>0, <2>4 DEF Starting, Serial
    <3>2. \A c \in slave.answered : c <= slave.current
      BY <1>0, <3>1, Numbers DEF Ordered
    <3> QED
      BY <1>0, <2>0, <2>4, <3>1, <3>2, Numbers DEF Starting, Held, Ordered
  <2>5. CASE Returning
    <3>1. slave.current = slave.handled
      BY <1>0, <2>5 DEF Returning, Serial
    <3>2. \A c \in slave'.answered : c <= slave.handled
      BY <1>0, <2>5, <3>1, Numbers DEF Returning, Ordered
    <3> QED
      BY <1>0, <2>0, <2>5, <3>2, Numbers DEF Returning, Held, Ordered
  <2>6. CASE Serving
    BY <1>0, <2>0, <2>6, Numbers DEF Serving, Held, Ordered
  <2> QED
    BY <2>1, <2>2, <2>3, <2>4, <2>5, <2>6 DEF Own
<1>2. Serial'
  <2>1. CASE Closed
    BY <2>1 DEF Serial, InHand, Closed, Ended
  <2>2. CASE Idling
    BY <1>0, <2>2 DEF Serial, InHand, Idling
  <2>3. CASE Taking
    BY <1>0, <2>3 DEF Serial, InHand, Taking, Ordered
  <2>4. CASE Starting
    <3>1. slave.current \notin slave.answered
      BY <1>0, <2>4, Numbers DEF Starting, Ordered, Serial
    <3> QED
      BY <1>0, <2>4, <3>1 DEF Serial, InHand, Starting
  <2>5. CASE Returning \/ Sending \/ Serving
    BY <1>0, <2>5 DEF Serial, InHand, Returning, Sending, Serving
  <2> QED
    BY <2>1, <2>2, <2>3, <2>4, <2>5 DEF Own
<1>3. Coming'
  <2>1. CASE toSlave' = <<>>
    BY <2>1 DEF Coming
  <2>2. CASE toSlave' = toSlave
    <3> SUFFICES ASSUME NEW c \in Calls, Behind(slave, c) PROVE Behind(slave', c)
      BY <1>0, <2>2, Numbers DEF Coming
    <3>1. CASE Closed
      BY <3>1, Numbers DEF Behind, Closed, Ended
    <3>2. CASE ~Closed
      BY <3>2, Numbers DEF Behind, Own, Idling, Taking, Starting, Returning, Sending, Serving, Held
    <3> QED
      BY <3>1, <3>2
  <2> QED
    BY <2>1, <2>2 DEF Own
<1> QED
  BY <1>1, <1>2, <1>3 DEF InOrder

LEMMA OrderKeptByFrames ==
  ASSUME TypeInv, TypeInv', InOrder, SlaveReceives, UNCHANGED peer
  PROVE  InOrder'
<1> DEFINE frame == Head(toSlave)
<1>0. /\ Ordered /\ Serial /\ Coming /\ SlaveSound(slave) /\ SlaveSound(slave')
      /\ toSlave \in Seq(SlaveFrames)
  BY DEF InOrder, TypeInv
<1>1. /\ toSlave # <<>> /\ toSlave' = Tail(toSlave) /\ frame = toSlave[1]
      /\ frame \in SlaveFrames /\ frame.call \in Calls
      /\ SameCall /\ (Passed \/ Queued \/ Freed \/ Refused \/ Accepted)
  BY ReceiveCases, SlaveFrameFacts
<1>2. /\ 1 \in 1..Len(toSlave)
      /\ \A i \in 1..Len(toSlave') : i + 1 \in 1..Len(toSlave) /\ toSlave'[i] = toSlave[i + 1]
  BY <1>0, <1>1, TakeFacts
<1>3. frame.kind = "call" => Behind(slave, frame.call) /\ frame.call <= peer.issued
  BY <1>0, <1>1, <1>2 DEF Coming
<1>4. /\ slave'.queue # <<>> =>
           \/ slave'.queue = slave.queue
           \/ slave'.queue[1] = frame.call /\ frame.kind = "call"
           \/ slave'.queue[1] = slave.incoming.call /\ slave.incoming # NoIncoming
      /\ \/ slave'.incoming.call \in {0, slave.incoming.call}
         \/ slave'.incoming.call = frame.call /\ frame.kind = "call"
      /\ slave'.incoming # NoIncoming =>
           \/ slave.incoming # NoIncoming /\ slave'.incoming.call = slave.incoming.call
           \/ slave'.incoming.call = frame.call /\ frame.kind = "call"
  <2>0. NoIncoming.call = 0
    BY Numbers
  <2>1. CASE Passed
    BY <2>0, <2>1 DEF Passed
  <2>2. CASE Queued
    <3>1. <<slave.incoming.call>>[1] = slave.incoming.call
      OBVIOUS
    <3> QED
      BY <2>0, <2>2, <3>1 DEF Queued
  <2>3. CASE Freed \/ Refused
    BY <2>3 DEF Freed, Refused
  <2>4. CASE Accepted
    <3>1. <<frame.call>>[1] = frame.call
      OBVIOUS
    <3> QED
      BY <2>0, <2>4, <3>1 DEF Accepted
  <2> QED
    BY <1>1, <2>1, <2>2, <2>3, <2>4
<1>5. /\ slave'.refused \subseteq slave.refused \cup {frame.call}
      /\ slave'.refused # slave.refused => frame.kind = "call"
  BY <1>1 DEF Passed, Queued, Freed, Refused, Accepted
<1>6. Ordered'
  <2>1. \A c \in slave'.refused : c <= peer'.issued
    BY <1>0, <1>3, <1>5 DEF Ordered
  <2>2. slave'.incoming.call <= peer.issued
    BY <1>0, <1>3, <1>4, Numbers DEF Ordered
  <2>3. slave'.queue # <<>> =>
          /\ slave'.queue[1] > slave.handled /\ slave'.queue[1] > slave.current
          /\ slave'.queue[1] <= peer.issued
    BY <1>0, <1>1, <1>3, <1>4, Numbers DEF Ordered, Behind
  <2>4. slave'.incoming # NoIncoming =>
          slave'.incoming.call > slave.handled /\ slave'.incoming.call > slave.current
    BY <1>0, <1>1, <1>3, <1>4, Numbers DEF Ordered, Behind
  <2> QED
    BY <1>0, <1>1, <2>1, <2>2, <2>3, <2>4 DEF SameCall, Ordered
<1>7. Serial'
  BY <1>0, <1>1 DEF SameCall, Serial, InHand
<1>8. Coming'
  <2>1. ASSUME NEW i \in 1..Len(toSlave'), toSlave'[i].kind = "call"
        PROVE  Behind(slave', toSlave'[i].call) /\ toSlave'[i].call <= peer.issued
    <3> DEFINE c == toSlave[i + 1].call
    <3>1. /\ toSlave'[i] = toSlave[i + 1] /\ i + 1 \in 1..Len(toSlave) /\ c \in Calls
          /\ Behind(slave, c) /\ c <= peer.issued
      BY <1>0, <1>2, <2>1, Numbers DEF Coming
    <3>2. frame.kind = "call" => frame.call < c
      BY <1>0, <1>1, <1>2, <2>1, <3>1 DEF Coming
    <3>3. Behind(slave', c)
      BY <1>1, <1>4, <3>1, <3>2, Numbers DEF SameCall, Behind
    <3> QED
      BY <3>1, <3>3
  <2>2. ASSUME NEW i \in 1..Len(toSlave'), NEW j \in 1..Len(toSlave'),
               i < j, toSlave'[i].kind = "call", toSlave'[j].kind = "call"
        PROVE  toSlave'[i].call < toSlave'[j].call
    BY <1>0, <1>2, <2>2 DEF Coming
  <2> QED
    BY <2>1, <2>2 DEF Coming
<1> QED
  BY <1>6, <1>7, <1>8 DEF InOrder

LEMMA OrderKept ==
  ASSUME CallsInv, InOrder, [Next]_vars
  PROVE  InOrder'
<1>0. TypeInv /\ TypeInv'
  BY CallsKept DEF CallsInv
<1>1. CASE MasterNext /\ UNCHANGED slave
  BY <1>1, OrderKeptByMaster
<1>2. CASE SlaveNext /\ UNCHANGED peer
  BY <1>0, <1>2, SlaveMoves, OrderKeptByTask, OrderKeptByFrames
<1>3. CASE LoseLink
  BY <1>3 DEF LoseLink, InOrder, Ordered, Serial, InHand, Coming, Behind
<1>4. CASE UNCHANGED vars
  BY <1>4 DEF vars, channelVars, InOrder, Ordered, Serial, InHand, Coming, Behind
<1> QED
  BY <1>1, <1>2, <1>3, <1>4 DEF Next
-----------------------------------------------------------------------------
(* The guard is free when the call after an acknowledged one arrives *)

BusyServing == slave.busy => slave.phase \in {"running", "replying", "acking"}
Acked(c) == \E i \in 1..Len(toSlave) : toSlave[i] = Frame("ack", c)
Succeeded(c) == c \in Calls /\ peer.state[c] = "resolved"
\* The acknowledgement of a call whose master has moved on is under way while the
\* slave still waits for it,
AckSent ==
  slave.busy /\ link = "open" /\ (slave.current \in peer.acking \/ Succeeded(slave.current))
    => Acked(slave.current)
\* goes before the next call,
AckGoesFirst ==
  \A i \in 1..Len(toSlave) :
    /\ toSlave[i].kind = "call" /\ slave.busy
    /\ toSlave[i].call = slave.current + 1 /\ Succeeded(slave.current)
    => \E j \in 1..(i - 1) : toSlave[j] = Frame("ack", slave.current)
\* and acknowledges a result.
AcksAnswered ==
  \A i \in 1..Len(toSlave) : toSlave[i].kind = "ack" => toSlave[i].call \in slave.answered

\* This needs that JavaScript never waits for an acknowledgement to leave the buffer.
QuickJs == ~Late /\ \A c \in Calls : peer.state[c] # "torn"

Acknowledging == BusyServing /\ AckSent /\ AckGoesFirst /\ AcksAnswered /\ NoFalseBusy

SessionInv == CallsInv /\ AnsweredFirst /\ InOrder

LEMMA AckFrame ==
  ASSUME NEW c
  PROVE  Frame("ack", c).kind = "ack" /\ Frame("ack", c).call = c
BY DEF Frame

\* The call being handled, and no later one, may have been answered.
LEMMA StartedUnanswered ==
  ASSUME SessionInv, slave.phase = "taken"
  PROVE  slave.current \notin peer.acking /\ ~Succeeded(slave.current)
<1>1. slave.current \notin slave.answered
  BY Numbers DEF SessionInv, CallsInv, InOrder, Ordered, Serial
<1> QED
  BY <1>1 DEF SessionInv, AnsweredFirst, Succeeded

LEMMA QuickKept ==
  ASSUME "js" \notin SlowAcks, TypeInv, QuickJs, [Next]_vars
  PROVE  QuickJs'
<1>1. CASE MasterNext
  <2>1. CASE SendReady
    BY <2>1, SendReadyFacts DEF QuickJs, Late
  <2>2. ASSUME NEW parts \in 0..MaxParts, MakeCall(parts) PROVE QuickJs'
    <3>1. Made(parts)
      BY <2>2, MakeCallFacts
    <3>2. peer.state \in [Calls -> {"new", "open", "resolved", "torn", "rejected"}]
      BY DEF TypeInv, PeerRecords
    <3> QED
      BY <3>1, <3>2 DEF Made, QuickJs, Late
  <2>3. CASE Calm
    BY <2>3 DEF Calm, Steady, Quiet, Acks, QuickJs, Late
  <2> QED
    BY <1>1, <2>1, <2>2, <2>3, MasterCalm
<1>2. CASE UNCHANGED peer
  BY <1>2 DEF QuickJs, Late
<1> QED
  BY <1>1, <1>2 DEF Next, LoseLink, vars

LEMMA AcksKeptByMaster ==
  ASSUME SessionInv, QuickJs, Acknowledging, MasterNext, UNCHANGED slave
  PROVE  Acknowledging'
<1>0. /\ TypeInv /\ BeforeOpen /\ OneAtATime /\ AnsweredFirst
      /\ Ordered /\ Serial /\ Coming
      /\ BusyServing /\ AckSent /\ AckGoesFirst /\ AcksAnswered /\ NoFalseBusy
      /\ toSlave \in Seq(SlaveFrames) /\ peer \in PeerRecords
  BY DEF SessionInv, CallsInv, InOrder, TypeInv, Acknowledging
<1>1. BusyServing'
  BY <1>0 DEF BusyServing
\* A later call of the channel or a refused one leaves no earlier call open.
<1>2. \A c \in Nat : c + 1 <= peer.issued /\ c \in Calls => peer.state[c] # "open"
  BY <1>0, Numbers DEF OneAtATime
<1>3. CASE SendReady
  <2>1. /\ toSlave' = <<Frame("ready", JobId)>> /\ Frame("ready", JobId).kind = "ready"
        /\ link = "opening" /\ peer'.state = peer.state
    BY <1>0, <1>3, SendReadyFacts DEF Frame
  <2>2. Len(toSlave') = 1 /\ \A i \in 1..Len(toSlave') : toSlave'[i].kind = "ready"
    BY <2>1
  <2>3. ~slave.busy
    <3>1. slave.current <= 0
      BY <1>0, <2>1 DEF BeforeOpen, Ordered
    <3>2. slave.current \notin Calls
      BY <1>0, <3>1, Numbers
    <3> QED
      BY <1>0, <3>2 DEF BusyServing, TypeInv, SlaveSound
  <2> QED
    BY <1>0, <1>1, <2>1, <2>2, <2>3
       DEF Acknowledging, AckSent, AckGoesFirst, AcksAnswered, NoFalseBusy
<1>4. ASSUME NEW parts \in 0..MaxParts, MakeCall(parts) PROVE Acknowledging'
  <2> DEFINE n == peer.issued + 1
             f == Opening("call", n, parts, TRUE)
  <2>1. Made(parts)
    BY <1>0, <1>4, MakeCallFacts
  <2>2. /\ toSlave' = Put(toSlave, <<f>>) /\ f \in SlaveFrames /\ f.call = n /\ f.kind = "call"
        /\ link' = link /\ peer'.acking = peer.acking
    BY <2>1 DEF Made, Opening
  <2>3. \A c \in Calls : peer'.state[c] = "resolved" <=> c # n /\ peer.state[c] = "resolved"
    <3>1. /\ n \in Calls /\ peer.state[n] = "new"
      BY <1>0, <2>1, Numbers DEF Made, OneAtATime
    <3> QED
      BY <1>0, <2>1, <3>1 DEF Made, PeerRecords
  <2> HIDE DEF f
  <2>4. toSlave' = toSlave \/ (link = "open" /\ toSlave' = Append(toSlave, f))
    BY <1>0, <2>2, PutCases
  <2>5. /\ Len(toSlave) \in Nat
        /\ \A i \in 1..Len(toSlave) : i \in 1..Len(toSlave') /\ toSlave'[i] = toSlave[i]
        /\ \A i \in 1..Len(toSlave') :
             \/ i \in 1..Len(toSlave)
             \/ i = Len(toSlave) + 1 /\ toSlave'[i] = f /\ link = "open"
    <3>1. Len(toSlave) \in Nat
      BY <1>0
    <3>2. CASE toSlave' = toSlave
      BY <3>1, <3>2
    <3>3. CASE link = "open" /\ toSlave' = Append(toSlave, f)
      BY <1>0, <2>2, <3>1, <3>3, AppendFacts
    <3> QED
      BY <2>4, <3>2, <3>3
  <2>6. AckSent'
    <3>1. Succeeded(slave.current)' => Succeeded(slave.current)
      BY <2>3 DEF Succeeded
    <3> QED
      BY <1>0, <2>2, <2>5, <3>1 DEF AckSent, Acked
  <2>7. AckGoesFirst'
    <3> SUFFICES ASSUME NEW i \in 1..Len(toSlave'),
                        toSlave'[i].kind = "call", slave.busy,
                        toSlave'[i].call = slave.current + 1, Succeeded(slave.current)'
                 PROVE  \E j \in 1..(i - 1) : toSlave'[j] = Frame("ack", slave.current)
      BY DEF AckGoesFirst
    <3>1. Succeeded(slave.current)
      BY <2>3 DEF Succeeded
    <3>2. CASE i \in 1..Len(toSlave)
      <4>1. PICK j \in 1..(i - 1) : toSlave[j] = Frame("ack", slave.current)
        BY <1>0, <2>5, <3>1, <3>2 DEF AckGoesFirst
      <4> QED
        BY <2>5, <3>2, <4>1
    <3>3. CASE i = Len(toSlave) + 1 /\ link = "open"
      <4>1. PICK j \in 1..Len(toSlave) : toSlave[j] = Frame("ack", slave.current)
        BY <1>0, <3>1, <3>3 DEF AckSent, Acked
      <4> QED
        BY <2>5, <3>3, <4>1
    <3> QED
      BY <2>5, <3>2, <3>3
  <2>8. AcksAnswered'
    BY <1>0, <2>2, <2>5 DEF AcksAnswered
  <2>9. NoFalseBusy'
    <3> SUFFICES ASSUME NEW c \in slave.refused PROVE c > 1 /\ peer'.state[c - 1] # "resolved"
      BY DEF NoFalseBusy
    <3>1. c \in Calls /\ c > 1 /\ peer.state[c - 1] # "resolved"
      BY <1>0, Numbers DEF NoFalseBusy
    <3>2. c - 1 \in Calls
      BY <3>1, BoundsAssumption DEF Calls
    <3> QED
      BY <2>3, <3>1, <3>2
  <2> QED
    BY <1>1, <2>6, <2>7, <2>8, <2>9 DEF Acknowledging
<1>5. CASE Calm
  <2>1. toSlave' = toSlave \/ \E f : Grown(f)
    BY <1>0, <1>5, CalmFrames
  <2>2. /\ Len(toSlave) \in Nat
        /\ \A i \in 1..Len(toSlave) : i \in 1..Len(toSlave') /\ toSlave'[i] = toSlave[i]
        /\ \A i \in 1..Len(toSlave') :
             i \in 1..Len(toSlave) \/ toSlave'[i].kind # "call"
    <3>1. Len(toSlave) \in Nat
      BY <1>0
    <3>2. ASSUME NEW f, Grown(f)
          PROVE  /\ \A i \in 1..Len(toSlave) : i \in 1..Len(toSlave') /\ toSlave'[i] = toSlave[i]
                 /\ \A i \in 1..Len(toSlave') :
                      i \in 1..Len(toSlave) \/ toSlave'[i].kind # "call"
      BY <1>0, <3>2, AppendFacts DEF Grown
    <3> QED
      BY <2>1, <3>1, <3>2
  <2>3. link' \in {link, "down"}
    BY <1>5 DEF Calm, Steady
  <2>4. \A c \in Calls : peer'.state[c] = "resolved" => peer.state[c] \in {"resolved", "open"}
    BY <1>5 DEF Calm, Quiet, Acks
  <2>5. AckSent'
    <3> SUFFICES ASSUME slave.busy, link' = "open",
                        slave.current \in peer'.acking \/ Succeeded(slave.current)'
                 PROVE  Acked(slave.current)'
      BY DEF AckSent
    <3>1. link = "open"
      BY <2>3
    <3>2. Acked(slave.current) => Acked(slave.current)'
      BY <2>2 DEF Acked
    <3>3. CASE slave.current \in peer.acking \/ Succeeded(slave.current)
      BY <1>0, <3>1, <3>2, <3>3 DEF AckSent
    <3>4. CASE ~(slave.current \in peer.acking \/ Succeeded(slave.current))
      <4>1. ~Quiet
        BY <3>4 DEF Quiet, Succeeded, QuickJs
      <4>2. PICK call \in Calls : Acks(call)
        BY <1>5, <4>1 DEF Calm
      <4>3. call = slave.current
        BY <3>4, <4>2 DEF Acks, Succeeded
      <4>4. toSlave' = Append(toSlave, Frame("ack", call)) /\ Frame("ack", call) \in SlaveFrames
        BY <1>0, <3>1, <4>2, FrameTypes, PutFacts DEF Acks
      <4>5. /\ toSlave'[Len(toSlave) + 1] = Frame("ack", call)
            /\ Len(toSlave') = Len(toSlave) + 1 /\ Len(toSlave) \in Nat
        BY <1>0, <4>4, AppendFacts
      <4> QED
        BY <4>3, <4>5 DEF Acked
    <3> QED
      BY <3>3, <3>4
  <2>6. AckGoesFirst'
    <3> SUFFICES ASSUME NEW i \in 1..Len(toSlave'),
                        toSlave'[i].kind = "call", slave.busy,
                        toSlave'[i].call = slave.current + 1, Succeeded(slave.current)'
                 PROVE  \E j \in 1..(i - 1) : toSlave'[j] = Frame("ack", slave.current)
      BY DEF AckGoesFirst
    <3>1. i \in 1..Len(toSlave) /\ toSlave'[i] = toSlave[i]
      BY <2>2
    <3>2. slave.current + 1 <= peer.issued
      BY <1>0, <3>1 DEF Coming
    <3>3. peer.state[slave.current] # "open" /\ slave.current \in Calls
      BY <1>0, <1>2, <3>2, Numbers DEF Succeeded
    <3>4. Succeeded(slave.current)
      BY <2>4, <3>3 DEF Succeeded
    <3>5. PICK j \in 1..(i - 1) : toSlave[j] = Frame("ack", slave.current)
      BY <1>0, <3>1, <3>4 DEF AckGoesFirst
    <3> QED
      BY <2>2, <3>1, <3>5
  <2>7. AcksAnswered'
    <3>1. CASE Quiet
      <4>1. \A i \in 1..Len(toSlave') : i \in 1..Len(toSlave) \/ toSlave'[i].kind # "ack"
        <5>1. CASE toSlave' = toSlave
          BY <5>1
        <5>2. ASSUME NEW f \in SlaveFrames, f.kind \in {"chunk", "finish"}, toSlave' = Append(toSlave, f)
              PROVE  \A i \in 1..Len(toSlave') : i \in 1..Len(toSlave) \/ toSlave'[i].kind # "ack"
          BY <1>0, <5>2, AppendFacts
        <5> QED
          BY <1>0, <3>1, <5>1, <5>2, PutCases DEF Quiet
      <4> QED
        BY <1>0, <2>2, <4>1 DEF AcksAnswered
    <3>2. ASSUME NEW call \in Calls, Acks(call) PROVE AcksAnswered'
      <4>1. call \in slave.answered
        BY <1>0, <3>2, CallFacts, ResultedAnswered DEF Acks
      <4>2. Frame("ack", call) \in SlaveFrames /\ toSlave' = Put(toSlave, <<Frame("ack", call)>>)
        BY <3>2, FrameTypes DEF Acks
      <4>3. \A i \in 1..Len(toSlave') :
              i \in 1..Len(toSlave) \/ toSlave'[i] = Frame("ack", call)
        BY <1>0, <4>2, PutCases, AppendFacts
      <4> QED
        BY <1>0, <2>2, <4>1, <4>3, AckFrame DEF AcksAnswered
    <3> QED
      BY <1>5, <3>1, <3>2 DEF Calm
  <2>8. NoFalseBusy'
    <3> SUFFICES ASSUME NEW c \in slave.refused PROVE c > 1 /\ peer'.state[c - 1] # "resolved"
      BY DEF NoFalseBusy
    <3>1. c \in Calls /\ c > 1 /\ peer.state[c - 1] # "resolved" /\ c <= peer.issued
      BY <1>0, Numbers DEF NoFalseBusy, Ordered
    <3>2. c - 1 \in Calls /\ c - 1 \in Nat /\ (c - 1) + 1 = c
      BY <3>1, BoundsAssumption DEF Calls
    <3>3. peer.state[c - 1] # "open"
      BY <1>2, <3>1, <3>2
    <3> QED
      BY <2>4, <3>1, <3>2, <3>3
  <2> QED
    BY <1>1, <2>5, <2>6, <2>7, <2>8 DEF Acknowledging
<1> QED
  BY <1>0, <1>3, <1>4, <1>5, MasterCalm

LEMMA AcksKeptByTask ==
  ASSUME SessionInv, Acknowledging, Own, UNCHANGED peer
  PROVE  Acknowledging'
<1>0. /\ BusyServing /\ AckSent /\ AckGoesFirst /\ AcksAnswered /\ NoFalseBusy
  BY DEF Acknowledging
<1>1. BusyServing'
  BY <1>0 DEF BusyServing, Own, Closed, Ended, Idling, Taking, Starting, Returning, Sending, Serving
\* A guard that is taken is that of the same call, or of a call just started.
<1>2. slave'.busy =>
        /\ slave'.current = slave.current
        /\ slave.busy \/ (slave.current \notin peer.acking /\ ~Succeeded(slave.current))
  <2>1. CASE Starting
    BY <2>1, StartedUnanswered DEF Starting
  <2>2. CASE ~Starting
    BY <1>0, <2>2 DEF BusyServing, Own, Closed, Ended, Idling, Taking, Returning, Sending, Serving
  <2> QED
    BY <2>1, <2>2
<1>3. slave'.refused = slave.refused /\ slave.answered \subseteq slave'.answered
  BY DEF Own, Closed, Idling, Taking, Starting, Returning, Sending, Serving
<1>4. NoFalseBusy'
  BY <1>0, <1>3 DEF NoFalseBusy
<1>5. CASE toSlave' = <<>> /\ link' = "down"
  <2>1. Len(toSlave') = 0
    BY <1>5
  <2> QED
    BY <1>1, <1>4, <1>5, <2>1 DEF Acknowledging, AckSent, AckGoesFirst, AcksAnswered
<1>6. CASE toSlave' = toSlave
  <2>1. link' = "open" => link = "open"
    BY DEF Own
  <2>2. AckSent'
    BY <1>0, <1>2, <1>6, <2>1 DEF AckSent, Acked, Succeeded
  <2>3. AckGoesFirst'
    BY <1>0, <1>2, <1>6 DEF AckGoesFirst, Succeeded
  <2>4. AcksAnswered'
    BY <1>0, <1>3, <1>6 DEF AcksAnswered
  <2> QED
    BY <1>1, <1>4, <2>2, <2>3, <2>4 DEF Acknowledging
<1> QED
  BY <1>5, <1>6 DEF Own

LEMMA AcksKeptByFrames ==
  ASSUME SessionInv, Acknowledging, SlaveReceives, UNCHANGED peer
  PROVE  Acknowledging'
<1> DEFINE frame == Head(toSlave)
<1>0. /\ TypeInv /\ AnsweredFirst /\ Ordered /\ Serial /\ Coming
      /\ BusyServing /\ AckSent /\ AckGoesFirst /\ AcksAnswered /\ NoFalseBusy
      /\ toSlave \in Seq(SlaveFrames) /\ SlaveSound(slave)
  BY DEF SessionInv, CallsInv, InOrder, TypeInv, Acknowledging
<1>1. /\ toSlave # <<>> /\ toSlave' = Tail(toSlave) /\ frame = toSlave[1] /\ link' = link
      /\ frame \in SlaveFrames /\ frame.call \in Calls
      /\ SameCall /\ (Passed \/ Queued \/ Freed \/ Refused \/ Accepted)
  BY <1>0, ReceiveCases, SlaveFrameFacts
<1>2. /\ 1 \in 1..Len(toSlave) /\ Len(toSlave') = Len(toSlave) - 1 /\ Len(toSlave) \in Nat
      /\ \A i \in 1..Len(toSlave') : i + 1 \in 1..Len(toSlave) /\ toSlave'[i] = toSlave[i + 1]
  BY <1>0, <1>1, TakeFacts
<1>3. slave'.busy => slave.busy
  BY <1>1 DEF Passed, Queued, Freed, Refused, Accepted
\* The acknowledgement that comes frees the guard.
<1>4. frame = Frame("ack", slave.current) => ~slave'.busy
  <2> SUFFICES ASSUME frame = Frame("ack", slave.current), slave.busy PROVE ~slave'.busy
    BY <1>3
  <2>1. slave.current \in slave.answered
    BY <1>0, <1>1, <1>2, AckFrame DEF AcksAnswered
  <2>2. slave.phase \in {"replying", "acking"}
    BY <1>0, <2>1 DEF BusyServing, Serial
  <2>3. Freed
    BY <1>1, AckFrame DEF Passed, Queued, Refused, Accepted
  <2> QED
    BY <2>2, <2>3, AckFrame DEF Freed
<1>5. BusyServing'
  BY <1>0, <1>1, <1>3 DEF BusyServing, SameCall
<1>6. AckSent'
  <2> SUFFICES ASSUME slave'.busy, link = "open",
                      slave.current \in peer.acking \/ Succeeded(slave.current)
               PROVE  \E i \in 1..Len(toSlave') : toSlave'[i] = Frame("ack", slave.current)
    BY <1>1 DEF AckSent, Acked, Succeeded, SameCall
  <2>1. PICK i \in 1..Len(toSlave) : toSlave[i] = Frame("ack", slave.current)
    BY <1>0, <1>3 DEF AckSent, Acked
  <2>2. i # 1
    BY <1>1, <1>4, <2>1
  <2>3. i - 1 \in 1..Len(toSlave') /\ (i - 1) + 1 = i
    BY <1>2, <2>2
  <2> QED
    BY <1>2, <2>1, <2>3
<1>7. AckGoesFirst'
  <2> SUFFICES ASSUME NEW i \in 1..Len(toSlave'),
                      toSlave'[i].kind = "call", slave'.busy,
                      toSlave'[i].call = slave.current + 1, Succeeded(slave.current)
               PROVE  \E j \in 1..(i - 1) : toSlave'[j] = Frame("ack", slave.current)
    BY <1>1 DEF AckGoesFirst, Succeeded, SameCall
  <2>1. i + 1 \in 1..Len(toSlave) /\ toSlave'[i] = toSlave[i + 1]
    BY <1>2
  <2>2. PICK j \in 1..((i + 1) - 1) : toSlave[j] = Frame("ack", slave.current)
    BY <1>0, <1>3, <2>1 DEF AckGoesFirst
  <2>3. j # 1
    BY <1>1, <1>4, <2>2
  <2>4. j - 1 \in 1..(i - 1) /\ j - 1 \in 1..Len(toSlave') /\ (j - 1) + 1 = j
    BY <1>2, <2>3
  <2>5. toSlave'[j - 1] = toSlave[(j - 1) + 1]
    BY <1>2, <2>4
  <2>6. toSlave'[j - 1] = Frame("ack", slave.current)
    BY <2>2, <2>4, <2>5
  <2> QED
    BY <2>4, <2>6
<1>8. AcksAnswered'
  BY <1>0, <1>1, <1>2 DEF AcksAnswered, SameCall
<1>9. NoFalseBusy'
  <2>1. CASE ~Refused
    <3>1. slave'.refused = slave.refused
      BY <1>1, <2>1 DEF Passed, Queued, Freed, Accepted
    <3> QED
      BY <1>0, <3>1 DEF NoFalseBusy
  <2>2. CASE Refused
    <3> DEFINE c == frame.call
    <3>0. c \in Calls /\ c \in Nat /\ c > 0 /\ Behind(slave, c)
      BY <1>0, <1>1, <1>2, <2>2, Numbers DEF Refused, Coming
    <3>1. c # 1
      <4> SUFFICES ASSUME c = 1 PROVE FALSE
        OBVIOUS
      <4>1. slave.queue = <<>> /\ slave.incoming.call \notin Calls /\ slave.current \notin Calls
        BY <1>0, <3>0, Numbers DEF Behind
      <4> QED
        BY <1>0, <2>2, <4>1 DEF Refused, BusyServing, SlaveSound
    <3>2. ~Succeeded(c - 1)
      <4> SUFFICES ASSUME Succeeded(c - 1) PROVE FALSE
        OBVIOUS
      <4>1. c - 1 \in slave.answered
        BY <1>0 DEF AnsweredFirst, Succeeded
      <4>2. slave.handled = c - 1
        BY <1>0, <3>0, <4>1, Numbers DEF Ordered, Behind
      <4>3. slave.queue = <<>> /\ slave.incoming = NoIncoming
        BY <1>0, <3>0, <4>2, Numbers DEF Ordered, Behind
      <4>4. slave.busy /\ slave.current = c - 1
        BY <1>0, <2>2, <4>2, <4>3 DEF Refused, BusyServing, Serial
      <4>5. toSlave[1].kind = "call" /\ toSlave[1].call = slave.current + 1
        BY <1>1, <2>2, <3>0, <4>4 DEF Refused
      <4>6. \E j \in 1..(1 - 1) : toSlave[j] = Frame("ack", slave.current)
        BY <1>0, <1>2, <4>4, <4>5 DEF AckGoesFirst
      <4> QED
        BY <4>6
    <3>3. c - 1 \in Calls /\ c > 1
      BY <3>0, <3>1, BoundsAssumption DEF Calls
    <3>4. slave'.refused = slave.refused \cup {c} /\ peer.state[c - 1] # "resolved"
      BY <2>2, <3>2, <3>3 DEF Refused, Succeeded
    <3> QED
      BY <1>0, <3>3, <3>4 DEF NoFalseBusy
  <2> QED
    BY <2>1, <2>2
<1> QED
  BY <1>5, <1>6, <1>7, <1>8, <1>9 DEF Acknowledging

LEMMA AcksKept ==
  ASSUME SessionInv, QuickJs, Acknowledging, [Next]_vars
  PROVE  Acknowledging'
<1>1. CASE MasterNext /\ UNCHANGED slave
  BY <1>1, AcksKeptByMaster
<1>2. CASE SlaveNext /\ UNCHANGED peer
  BY <1>2, SlaveMoves, AcksKeptByTask, AcksKeptByFrames DEF SessionInv, CallsInv
<1>3. CASE LoseLink
  BY <1>3 DEF LoseLink, Acknowledging, BusyServing, AckSent, Acked, Succeeded, AckGoesFirst,
              AcksAnswered, NoFalseBusy
<1>4. CASE UNCHANGED vars
  BY <1>4 DEF vars, channelVars, Acknowledging, BusyServing, AckSent, Acked, Succeeded,
              AckGoesFirst, AcksAnswered, NoFalseBusy
<1> QED
  BY <1>1, <1>2, <1>3, <1>4 DEF Next
-----------------------------------------------------------------------------
(* The theorems *)

LEMMA InitSession ==
  ASSUME Init
  PROVE  SessionInv /\ QuickJs /\ Acknowledging
<1>0. CallsInv /\ toSlave = <<>> /\ toMaster = <<>> /\ Len(<<>>) = 0
  BY InitCalls DEF Init
<1>1. /\ peer.response = NoResponse /\ peer.acking = {} /\ peer.issued = 0
      /\ \A c \in Calls : peer.state[c] = "new"
  BY DEF Init, PeerInit
<1>2. /\ slave.phase = "answering" /\ slave.queue = <<>> /\ slave.incoming = NoIncoming
      /\ ~slave.busy /\ slave.current = 0 /\ slave.handled = 0
      /\ slave.answered = {} /\ slave.refused = {}
  BY DEF Init, SlaveInit, NoCall
<1>3. NoCall = 0 /\ NoIncoming.call = 0 /\ NoResponse.call = 0
  BY DEF NoCall, NoIncoming, NoResponse
<1>4. AnsweredFirst
  BY <1>0, <1>1, <1>3 DEF AnsweredFirst
<1>5. InOrder
  BY <1>0, <1>1, <1>2, <1>3 DEF InOrder, Ordered, Serial, InHand, Coming
<1>6. Acknowledging
  BY <1>0, <1>2 DEF Acknowledging, BusyServing, AckSent, AckGoesFirst, AcksAnswered, NoFalseBusy
<1>7. QuickJs
  BY <1>1 DEF QuickJs, Late
<1> QED
  BY <1>0, <1>4, <1>5, <1>6, <1>7 DEF SessionInv

LEMMA SessionKept ==
  ASSUME SessionInv, [Next]_vars
  PROVE  SessionInv'
BY CallsKept, AnsweredKept, OrderKept DEF SessionInv

LEMMA TypedIsTypeOK ==
  ASSUME TypeInv
  PROVE  TypeOK
<1>1. PeerTypeOK
  <2>1. peer \in PeerRecords
    BY DEF TypeInv
  <2> QED
    BY <2>1 DEF PeerRecords, PeerTypeOK, Responses
<1>2. SlaveTypeOK
  <2>1. slave \in SlaveRecords /\ slave.queue \in Queues
    BY DEF TypeInv, SlaveRecords
  <2>2. slave.queue \in Seq(Calls) /\ Len(slave.queue) <= 1
    BY <2>1, QueueFacts
  <2> QED
    BY <2>1, <2>2 DEF SlaveRecords, SlaveTypeOK
<1> QED
  BY <1>1, <1>2 DEF TypeInv, TypeOK

LEMMA TypesKept ==
  ASSUME TypeInv, [Next]_vars
  PROVE  TypeInv'
<1>1. CASE MasterNext /\ UNCHANGED slave
  BY <1>1, MasterTyped
<1>2. CASE SlaveNext /\ UNCHANGED peer
  BY <1>2, SlaveTyped
<1>3. CASE LoseLink
  BY <1>3 DEF LoseLink, TypeInv
<1>4. CASE UNCHANGED vars
  BY <1>4 DEF vars, channelVars, TypeInv
<1> QED
  BY <1>1, <1>2, <1>3, <1>4 DEF Next

\* Both ends of a session and the frames between them stay of their types, whichever
\* SDK the master uses and however slow its acknowledgements.
THEOREM SessionTyped == Spec => []TypeOK
<1>1. Init => TypeInv
  BY InitCalls DEF CallsInv
<1>2. TypeInv /\ [Next]_vars => TypeInv'
  BY TypesKept
<1>3. TypeInv => TypeOK
  BY TypedIsTypeOK
<1> QED
  BY <1>1, <1>2, <1>3, PTL DEF Spec

\* A call that follows a successful one is never refused as busy, as long as
\* JavaScript's acknowledgement leaves its buffer at once.
THEOREM BusyIsNeverFalse ==
  ASSUME "js" \notin SlowAcks
  PROVE  Spec => []NoFalseBusy
<1>1. Init => SessionInv /\ QuickJs /\ Acknowledging
  BY InitSession
<1>2. SessionInv /\ QuickJs /\ Acknowledging /\ [Next]_vars
        => (SessionInv /\ QuickJs /\ Acknowledging)'
  BY SessionKept, QuickKept, AcksKept DEF SessionInv, CallsInv
<1>3. Acknowledging => NoFalseBusy
  BY DEF Acknowledging
<1> QED
  BY <1>1, <1>2, <1>3, PTL DEF Spec
-----------------------------------------------------------------------------
(* The contract *)

\* A torn call counts as failed.
Outcome(state) ==
  [c \in Calls |-> CASE state[c] = "resolved" -> "ok"
                     [] state[c] \in {"rejected", "torn"} -> "failed"
                     [] OTHER -> state[c]]

\* The steps of the contract on the abstract state.
StepTo(out, h, a) ==
  \/ \E c \in Calls : /\ Outcome(peer.state)[c] = "new"
                      /\ \A d \in 1..(c - 1) : Outcome(peer.state)[d] \in {"ok", "failed"}
                      /\ out = [Outcome(peer.state) EXCEPT ![c] = "open"]
                      /\ h = slave.handled /\ a = slave.answered
  \/ \E c \in Calls : /\ slave.handled < c /\ Outcome(peer.state)[c] # "new" /\ h = c
                      /\ out = Outcome(peer.state) /\ a = slave.answered
  \/ \E c \in Calls : /\ c = slave.handled /\ c \notin slave.answered
                      /\ a = slave.answered \cup {c}
                      /\ out = Outcome(peer.state) /\ h = slave.handled
  \/ \E c \in Calls : /\ Outcome(peer.state)[c] = "open"
                      /\ \/ c \in slave.answered /\ out = [Outcome(peer.state) EXCEPT ![c] = "ok"]
                         \/ out = [Outcome(peer.state) EXCEPT ![c] = "failed"]
                      /\ h = slave.handled /\ a = slave.answered
  \/ out = Outcome(peer.state) /\ h = slave.handled /\ a = slave.answered

LEMMA LenientStep ==
  ASSUME StepTo(Outcome(peer'.state), slave'.handled, slave'.answered)
  PROVE  [Lenient!Next]_(Lenient!vars)
<1>1. Lenient!Calls = Calls
  BY DEF Lenient!Calls, Calls
<1> QED
  BY <1>1 DEF StepTo, Outcome, Lenient!Next, Lenient!Make, Lenient!Handle, Lenient!Answer,
     Lenient!Succeed, Lenient!GiveUp, Lenient!vars

\* Where no call is torn, the outcomes are those of ImplementsContract.
Strict(state) ==
  [c \in Calls |-> CASE state[c] = "resolved" -> "ok"
                     [] state[c] = "rejected" -> "failed"
                     [] OTHER -> state[c]]

LEMMA ContractStep ==
  ASSUME QuickJs, QuickJs', StepTo(Outcome(peer'.state), slave'.handled, slave'.answered)
  PROVE  [Contract!Next]_(Contract!vars)
<1>1. Contract!Calls = Calls
  BY DEF Contract!Calls, Calls
<1>2. Outcome(peer.state) = Strict(peer.state) /\ Outcome(peer'.state) = Strict(peer'.state)
  BY DEF QuickJs, Outcome, Strict
<1> QED
  BY <1>1, <1>2 DEF StepTo, Strict, Contract!Next, Contract!Make, Contract!Handle,
     Contract!Answer, Contract!Succeed, Contract!GiveUp, Contract!vars

LEMMA MasterRefines ==
  ASSUME SessionInv, SessionInv', MasterNext, UNCHANGED slave
  PROVE  StepTo(Outcome(peer'.state), slave'.handled, slave'.answered)
<1>0. /\ TypeInv /\ OneAtATime /\ AnsweredFirst'
      /\ peer \in PeerRecords /\ peer' \in PeerRecords /\ peer.issued \in Nat
      /\ Calls \subseteq Nat /\ Calls = 1..MaxCalls
  BY Numbers DEF SessionInv, CallsInv, TypeInv, Calls
<1>1. \A c \in Calls : peer.state[c] = "open" => c = peer.issued
  BY <1>0 DEF OneAtATime
<1>2. CASE SendReady
  BY <1>0, <1>2, SendReadyFacts DEF StepTo
<1>3. ASSUME NEW parts \in 0..MaxParts, MakeCall(parts)
      PROVE  StepTo(Outcome(peer'.state), slave'.handled, slave'.answered)
  <2> DEFINE n == peer.issued + 1
  <2>1. Made(parts) /\ n \in Calls
    BY <1>0, <1>3, MakeCallFacts DEF Made
  <2>2. peer.state[n] = "new"
    BY <1>0, <2>1 DEF OneAtATime
  <2>3. ASSUME NEW d \in 1..(n - 1) PROVE Outcome(peer.state)[d] \in {"ok", "failed"}
    <3>1. /\ d \in Calls /\ d \in Nat /\ d > 0 /\ ~(d > peer.issued)
          /\ d < peer.issued \/ d = peer.issued
      BY <1>0, <2>1, BoundsAssumption
    <3>2. peer.state[d] # "new"
      BY <1>0, <3>1 DEF OneAtATime
    <3>4. peer.state[d] # "open"
      BY <1>0, <2>1, <3>1 DEF OneAtATime, Made
    <3>3. peer.state[d] \in {"resolved", "rejected", "torn"}
      BY <1>0, <3>1, <3>2, <3>4 DEF PeerRecords
    <3> QED
      BY <3>1, <3>3 DEF Outcome
  <2>4. Outcome(peer.state)[n] = "new"
    BY <2>1, <2>2 DEF Outcome
  <2>5. Outcome(peer'.state) = [Outcome(peer.state) EXCEPT ![n] = "open"]
    <3>1. peer'.state = [peer.state EXCEPT ![n] = "open"] /\ DOMAIN peer.state = Calls
      BY <1>0, <2>1 DEF Made, PeerRecords
    <3> QED
      BY <2>1, <3>1 DEF Outcome
  <2> QED
    BY <1>3, <2>1, <2>3, <2>4, <2>5 DEF StepTo
<1>4. CASE Calm
  <2>1. \A c \in Calls : \/ peer'.state[c] = peer.state[c]
                         \/ c = peer.issued /\ peer.state[c] = "open"
                            /\ peer'.state[c] \in {"rejected", "resolved", "torn"}
    BY <1>1, <1>4 DEF Calm, Quiet, Acks
  <2>2. CASE \A c \in Calls : peer'.state[c] = peer.state[c]
    <3>1. Outcome(peer'.state) = Outcome(peer.state)
      BY <2>2 DEF Outcome
    <3> QED
      BY <3>1 DEF StepTo
  <2>3. ASSUME NEW c \in Calls, c = peer.issued, peer.state[c] = "open",
               peer'.state[c] \in {"rejected", "resolved", "torn"}
        PROVE  StepTo(Outcome(peer'.state), slave'.handled, slave'.answered)
    <3>1. \A d \in Calls : d # c => peer'.state[d] = peer.state[d]
      BY <2>1, <2>3
    <3>2. Outcome(peer.state)[c] = "open"
      BY <2>3 DEF Outcome
    <3>3. CASE peer'.state[c] \in {"rejected", "torn"}
      <4>1. Outcome(peer'.state) = [Outcome(peer.state) EXCEPT ![c] = "failed"]
        BY <2>3, <3>1, <3>3 DEF Outcome
      <4> QED
        BY <3>2, <4>1 DEF StepTo
    <3>4. CASE peer'.state[c] = "resolved"
      <4>1. Outcome(peer'.state) = [Outcome(peer.state) EXCEPT ![c] = "ok"]
        BY <2>3, <3>1, <3>4 DEF Outcome
      <4>2. c \in slave.answered
        BY <1>0, <3>4 DEF AnsweredFirst
      <4> QED
        BY <3>2, <4>1, <4>2 DEF StepTo
    <3> QED
      BY <2>3, <3>3, <3>4
  <2> QED
    BY <2>1, <2>2, <2>3
<1> QED
  BY <1>0, <1>2, <1>3, <1>4, MasterCalm

LEMMA SlaveRefines ==
  ASSUME SessionInv, SlaveNext, UNCHANGED peer
  PROVE  StepTo(Outcome(peer'.state), slave'.handled, slave'.answered)
<1>0. /\ TypeInv /\ OneAtATime /\ Ordered /\ Serial /\ SlaveSound(slave) /\ peer.issued \in Nat
      /\ Calls \subseteq Nat
  BY Numbers DEF SessionInv, CallsInv, InOrder, TypeInv
<1>1. CASE slave'.handled = slave.handled /\ slave'.answered = slave.answered
  BY <1>1 DEF StepTo
<1>2. CASE Starting
  <2> DEFINE c == slave.current
  <2>1. c \in Calls /\ slave.handled < c /\ c <= peer.issued
    BY <1>0, <1>2, Numbers DEF Starting, SlaveSound, Ordered, Serial
  <2>2. peer.state[c] # "new"
    <3>1. c \in Nat /\ peer.issued \in Nat
      BY <1>0, <2>1
    <3>2. ~(c > peer.issued)
      BY <2>1, <3>1
    <3> QED
      BY <1>0, <2>1, <3>2 DEF OneAtATime
  <2>3. Outcome(peer.state)[c] # "new"
    BY <2>1, <2>2 DEF Outcome
  <2> QED
    BY <1>2, <2>1, <2>3 DEF Starting, StepTo
<1>3. CASE Returning
  <2>1. /\ slave.current \in Calls /\ slave.current = slave.handled
        /\ slave.current \notin slave.answered
    BY <1>0, <1>3 DEF Returning, SlaveSound, Serial
  <2> QED
    BY <1>3, <2>1 DEF Returning, StepTo
<1>4. CASE SlaveReceives
  BY <1>0, <1>1, <1>4, ReceiveCases DEF SameCall
<1> QED
  BY <1>0, <1>1, <1>2, <1>3, <1>4, SlaveMoves
     DEF Own, Closed, Idling, Taking, Sending, Serving

LEMMA SessionRefines ==
  ASSUME SessionInv, [Next]_vars
  PROVE  StepTo(Outcome(peer'.state), slave'.handled, slave'.answered)
<1>1. CASE MasterNext /\ UNCHANGED slave
  BY <1>1, SessionKept, MasterRefines
<1>2. CASE SlaveNext /\ UNCHANGED peer
  BY <1>2, SlaveRefines
<1>3. CASE LoseLink \/ UNCHANGED vars
  BY <1>3 DEF LoseLink, vars, channelVars, StepTo
<1> QED
  BY <1>1, <1>2, <1>3 DEF Next

LEMMA InitContract ==
  ASSUME Init
  PROVE  Lenient!Init /\ Contract!Init
<1>1. /\ \A c \in Calls : peer.state[c] = "new"
      /\ slave.handled = 0 /\ slave.answered = {}
  BY DEF Init, PeerInit, SlaveInit
<1>2. Contract!Calls = Calls /\ Lenient!Calls = Calls
  BY DEF Contract!Calls, Lenient!Calls, Calls
<1> QED
  BY <1>1, <1>2 DEF Contract!Init, Lenient!Init

\* Calls are handled at most once, in order and one at a time, and are resolved with a
\* whole result only with that of their own handler, whatever is lost, late or given up,
\* whichever SDK the master uses and however slow its acknowledgements: all that a slow
\* acknowledgement of JavaScript can spoil is the call it tears.
THEOREM SessionFailsOnlyTorn == Spec => OnlyTornBreaksContract
<1>1. Init => SessionInv /\ Lenient!Init
  BY InitSession, InitContract
<1>2. SessionInv /\ [Next]_vars => SessionInv' /\ [Lenient!Next]_(Lenient!vars)
  BY SessionKept, SessionRefines, LenientStep
<1> QED
  BY <1>1, <1>2, PTL DEF Spec, OnlyTornBreaksContract, Lenient!Spec

\* Calls are handled at most once, in order and one at a time, and succeed only with the
\* result of their own handler, whatever is lost, late or given up, as long as
\* JavaScript's acknowledgement leaves its buffer at once.
THEOREM SessionImplementsContract ==
  ASSUME "js" \notin SlowAcks
  PROVE  Spec => ImplementsContract
<1>1. Init => SessionInv /\ QuickJs /\ Contract!Init
  BY InitSession, InitContract
<1>2. SessionInv /\ QuickJs /\ [Next]_vars => SessionInv' /\ QuickJs'
  BY SessionKept, QuickKept DEF SessionInv, CallsInv
<1>3. SessionInv /\ QuickJs /\ QuickJs' /\ [Next]_vars => [Contract!Next]_(Contract!vars)
  BY SessionRefines, ContractStep
<1> QED
  BY <1>1, <1>2, <1>3, PTL DEF Spec, ImplementsContract, Contract!Spec
=============================================================================
