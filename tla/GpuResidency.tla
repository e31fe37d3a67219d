---------------------------- MODULE GpuResidency ----------------------------
(* The GPU leases of the AI slave (slaves/ai/app/gpu_residency.py) and the    *)
(* models its runtimes keep loaded (llm, sdxl and vision runtime.py). The     *)
(* slave serves one call at a time, so that calls meet only through            *)
(* cancellation: job.cancel ends the coroutine of a call, while the thread it *)
(* waits for (asyncio.to_thread) runs on.                                     *)
EXTENDS Naturals, FiniteSets, FiniteSetsExt

CONSTANTS
    Requests,     \* what calls ask for: [role, key, devices, exclusive]
    MaxGpuCalls,  \* bound: calls of the slave
    MaxGpuCancels \* bound: calls that are cancelled

(* _resolve_llm_lease_device_ids: a language model leases no device when it runs *)
(* on the CPU, its main one when it is not split, the devices its tensor split  *)
(* counts, or else all.                                                       *)
LlmDevices(config, deviceCount) ==
    IF ~config.useGpu \/ deviceCount = 0 THEN {}
    ELSE IF config.split = "none" THEN {config.mainGpu}
    ELSE IF config.tensors > 0 THEN 0..(config.tensors - 1)
    ELSE 0..(deviceCount - 1)

(* build_prompt_llm_config: name stands for all that model_key has.            *)
LlmRequest(config, deviceCount) ==
    [role |-> "llm", key |-> config.name, devices |-> LlmDevices(config, deviceCount),
     exclusive |-> TRUE]

Gpus == UNION {req.devices : req \in Requests}
Roles == {req.role : req \in Requests}
GpuCalls == 1..MaxGpuCalls

ASSUME RequestsAssumption ==
    /\ \A req \in Requests : /\ req.devices \subseteq Nat /\ IsFiniteSet(req.devices)
                             /\ req.role \notin {"none", "load", "use"}
    /\ \A a, b \in Requests : a.role = b.role => a.exclusive = b.exclusive
ASSUME GpuCallsAssumption == MaxGpuCalls \in Nat \ {0} /\ MaxGpuCancels \in Nat

VARIABLES
    gpuLock,  \* _gpu_locks: the call that holds the lock of a device, or 0
    loadedOn, \* _loaded_models_by_device: of each device, the calls that made its entries
    lease,    \* of each call: its request, step, the entries it evicts, its thread
    memory,   \* of each role, the request whose model is loaded, or Unloaded
    serves    \* the number of the last call

gpuVars == <<gpuLock, loadedOn, lease, memory, serves>>

Unloaded == [role |-> "none", key |-> "none", devices |-> {}, exclusive |-> FALSE]
Idle == [req |-> Unloaded, step |-> "idle", evict |-> {}, thread |-> "none", retried |-> FALSE]

GpuInit ==
    /\ gpuLock = [d \in Gpus |-> 0]
    /\ loadedOn = [d \in Gpus |-> {}]
    /\ lease = [c \in GpuCalls |-> Idle]
    /\ memory = [role \in Roles |-> Unloaded]
    /\ serves = 0

Step(c) == lease[c].step
Wants(c) == lease[c].req
HeldBy(c) == {d \in Gpus : gpuLock[d] = c}
Unlocked(c) == [d \in Gpus |-> IF gpuLock[d] = c THEN 0 ELSE gpuLock[d]]
Entries(c) == UNION {loadedOn[d] : d \in Wants(c).devices}
InProgress(c) == Step(c) \in {"locking", "evicting", "working", "making room"}

(* The next call, once the one before has returned or was cancelled; it is     *)
(* for a model on the devices the runtime resolves from its configuration.    *)
GpuCall ==
    /\ serves < MaxGpuCalls
    /\ serves # 0 => ~InProgress(serves)
    /\ serves' = serves + 1
    /\ \E req \in Requests :
          lease' = [lease EXCEPT ![serves'] = [Idle EXCEPT !.req = req, !.step = "locking"]]
    /\ UNCHANGED <<gpuLock, loadedOn, memory>>

(* __aenter__: the locks one after the other, lowest device first. *)
LockNext(c) ==
    /\ Step(c) = "locking"
    /\ HeldBy(c) # Wants(c).devices
    /\ LET d == Min(Wants(c).devices \ HeldBy(c)) IN
         gpuLock[d] = 0 /\ gpuLock' = [gpuLock EXCEPT ![d] = c]
    /\ UNCHANGED <<loadedOn, lease, memory, serves>>

(* A lease that spares the models that are not exclusive themselves. *)
BugConflict(c, e) ==
    /\ ~(Wants(e).role = Wants(c).role /\ Wants(e).key = Wants(c).key)
    /\ Wants(e).role = Wants(c).role \/ Wants(e).exclusive

(* What a lease evicts: another model of its role, and whatever cannot be on   *)
(* a device with it.                                                          *)
Conflict(c, e) ==
    /\ ~(Wants(e).role = Wants(c).role /\ Wants(e).key = Wants(c).key)
    /\ Wants(e).role = Wants(c).role \/ Wants(e).exclusive \/ Wants(c).exclusive

FindConflicts(c) ==
    /\ Step(c) = "locking"
    /\ HeldBy(c) = Wants(c).devices
    /\ lease' = [lease EXCEPT ![c].step = "evicting",
                              ![c].evict = {e \in Entries(c) : Conflict(c, e)}]
    /\ UNCHANGED <<gpuLock, loadedOn, memory, serves>>

(* release_loaded_model of one entry is given to a thread. *)
StartEviction(c) ==
    /\ Step(c) \in {"evicting", "making room"}
    /\ lease[c].thread = "none"
    /\ \E e \in lease[c].evict :
          lease' = [lease EXCEPT ![c].thread = Wants(e).role]
    /\ UNCHANGED <<gpuLock, loadedOn, memory, serves>>

(* The thread releases what its role has loaded, whichever lease loaded it;    *)
(* the coroutine, if it still waits, takes the entry off all its devices. A   *)
(* release that raises ends the lease and gives its locks back.               *)
Evicted(c) ==
    /\ lease[c].thread \in Roles
    /\ memory' = [memory EXCEPT ![lease[c].thread] = Unloaded]
    /\ \/ /\ Step(c) \in {"evicting", "making room"}
          /\ LET gone == {e \in lease[c].evict : Wants(e).role = lease[c].thread} IN
               \E e \in gone :
                  /\ loadedOn' = [d \in Gpus |-> loadedOn[d] \ {e}]
                  /\ lease' = [lease EXCEPT ![c].thread = "none", ![c].evict = @ \ {e}]
          /\ UNCHANGED gpuLock
       \/ /\ Step(c) \in {"evicting", "making room"}
          /\ lease' = [lease EXCEPT ![c].thread = "none", ![c].step = "over", ![c].evict = {}]
          /\ gpuLock' = Unlocked(c)
          /\ UNCHANGED loadedOn
       \/ /\ Step(c) = "cancelled"
          /\ lease' = [lease EXCEPT ![c].thread = "none"]
          /\ UNCHANGED <<loadedOn, gpuLock>>
    /\ UNCHANGED serves

(* Nothing is left to evict: the lease is entered, and the work given to a     *)
(* thread. The lock of the runtime is free by then: who holds it is served,   *)
(* and it is released with the coroutine.                                     *)
EnterLease(c) ==
    /\ Step(c) = "evicting" /\ lease[c].evict = {}
    /\ loadedOn' = [d \in Gpus |->
          IF d \in Wants(c).devices
          THEN {e \in loadedOn[d] : Wants(e).role # Wants(c).role} \cup {c}
          ELSE loadedOn[d]]
    /\ lease' = [lease EXCEPT ![c].step = "working", ![c].thread = "load"]
    /\ UNCHANGED <<gpuLock, memory, serves>>

(* The thread finds the model of its role, or replaces it: _get_*_locked. *)
LoadModel(c) ==
    /\ lease[c].thread = "load"
    /\ memory' = [memory EXCEPT ![Wants(c).role] = Wants(c)]
    /\ lease' = [lease EXCEPT ![c].thread = "use"]
    /\ UNCHANGED <<gpuLock, loadedOn, serves>>

(* The thread returns or raises, from the load of the model or from its use.  *)
ThreadEnds(c) ==
    /\ lease[c].thread \in {"load", "use"}
    /\ memory' = IF lease[c].thread = "load" /\ memory[Wants(c).role] # Wants(c)
                 THEN [memory EXCEPT ![Wants(c).role] = Unloaded] ELSE memory
    /\ IF Step(c) = "working"
       THEN /\ lease' = [lease EXCEPT ![c].thread = "none", ![c].step = "over"]
            /\ gpuLock' = Unlocked(c)
       ELSE /\ lease' = [lease EXCEPT ![c].thread = "none"]
            /\ UNCHANGED gpuLock
    /\ UNCHANGED <<loadedOn, serves>>

(* OutOfMemoryError of an image or vision model: evict_co_resident_models and  *)
(* a second try, if there was anything to evict.                              *)
OutOfMemory(c) ==
    /\ Step(c) = "working" /\ lease[c].thread \in {"load", "use"}
    /\ ~Wants(c).exclusive /\ ~lease[c].retried
    /\ LET others == {e \in Entries(c) : Wants(e).role # Wants(c).role /\ ~Wants(e).exclusive} IN
         /\ others # {}
         /\ lease' = [lease EXCEPT ![c].step = "making room", ![c].evict = others,
                                   ![c].thread = "none", ![c].retried = TRUE]
    /\ UNCHANGED <<gpuLock, loadedOn, memory, serves>>

TryAgain(c) ==
    /\ Step(c) = "making room" /\ lease[c].evict = {}
    /\ lease' = [lease EXCEPT ![c].step = "working", ![c].thread = "load"]
    /\ UNCHANGED <<gpuLock, loadedOn, memory, serves>>

(* job.cancel at an await: of a lock that is held, or of a thread. Only inside  *)
(* the lease does that give the locks back (__aexit__): while it is entered,  *)
(* CancelledError is not an Exception (gpu_residency.py:110).                 *)
GpuCancel(c) ==
    /\ Cardinality({b \in GpuCalls : Step(b) = "cancelled"}) < MaxGpuCancels
    /\ \/ /\ Step(c) = "locking" /\ HeldBy(c) # Wants(c).devices
          /\ gpuLock[Min(Wants(c).devices \ HeldBy(c))] # 0
       \/ InProgress(c) /\ lease[c].thread # "none"
    /\ gpuLock' = IF Step(c) \in {"working", "making room"} THEN Unlocked(c) ELSE gpuLock
    /\ lease' = [lease EXCEPT ![c].step = "cancelled", ![c].evict = {}]
    /\ UNCHANGED <<loadedOn, memory, serves>>

GpuNext ==
    \/ GpuCall
    \/ \E c \in GpuCalls :
          \/ LockNext(c) \/ FindConflicts(c) \/ StartEviction(c) \/ Evicted(c)
          \/ EnterLease(c) \/ LoadModel(c) \/ ThreadEnds(c) \/ OutOfMemory(c)
          \/ TryAgain(c) \/ GpuCancel(c)

GpuSpec == GpuInit /\ [][GpuNext]_gpuVars

GpuTypeOK ==
    /\ gpuLock \in [Gpus -> 0..MaxGpuCalls]
    /\ loadedOn \in [Gpus -> SUBSET GpuCalls]
    /\ memory \in [Roles -> Requests \cup {Unloaded}]
    /\ serves \in 0..MaxGpuCalls
    /\ lease \in [GpuCalls ->
          [req : Requests \cup {Unloaded},
           step : {"idle", "locking", "evicting", "working", "making room", "over", "cancelled"},
           evict : SUBSET GpuCalls,
           thread : Roles \cup {"none", "load", "use"}, retried : BOOLEAN]]

(* ---------------------------------------------------------------- properties *)

(* Whatever is cancelled and wherever, the table never has the language model  *)
(* beside another model on a device. As long as no call was cancelled under    *)
(* its thread the memory of the devices agrees with that ("An overlapping GPU  *)
(* LLM lease remains exclusive", slaves/README.md:54), also when an entry of   *)
(* the table is for a model that was replaced since, and a model in use stays *)
(* loaded.                                                                    *)
LlmIsAlone ==
    /\ \A d \in Gpus : \A e \in loadedOn[d] : Wants(e).exclusive => loadedOn[d] = {e}
    /\ (\A c \in GpuCalls : Step(c) # "cancelled") =>
        /\ \A r, s \in Roles :
              r # s /\ memory[r].exclusive => memory[r].devices \cap memory[s].devices = {}
        /\ \A c \in GpuCalls : lease[c].thread = "use" => memory[Wants(c).role] = Wants(c)
=============================================================================
