----------------------------- MODULE JobChannel -----------------------------
(* The DataChannel of one job, between a master's job peer and the slave that *)
(* runs the job: ordered and reliable as long as it lasts.                    *)
EXTENDS Naturals, Sequences

CONSTANTS
    MaxCalls,   \* bound: calls a master makes over one session
    MaxParts    \* bound: binary frames (attachment chunks) of a call or a result

ASSUME BoundsAssumption == MaxCalls \in Nat \ {0} /\ MaxParts \in Nat

VARIABLES
    link,       \* "none" before the answer, then "opening", "open", "down"
    toSlave,    \* frames on their way to the slave
    toMaster    \* frames on their way to the master

channelVars == <<link, toSlave, toMaster>>

Calls == 1..MaxCalls
NoCall == 0

(* The first call of a session carries the id of its job (GpStationJobSession *)
(* call), so an error about the whole job names the first call.               *)
JobId == 1

Frame(kind, call) == [kind |-> kind, call |-> call]
Opening(kind, call, parts, sound) ==
    [kind |-> kind, call |-> call, parts |-> parts, sound |-> sound]
Chunk(call, index, final) ==
    [kind |-> "chunk", call |-> call, index |-> index, final |-> final]

(* Frames put on a channel that is down are lost. *)
Put(queue, frames) == IF link = "open" THEN queue \o frames ELSE queue
=============================================================================
