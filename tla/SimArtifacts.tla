---------------------------- MODULE SimArtifacts ----------------------------
(* What sim.run of a CAE run returns and sim.release takes back               *)
(* (SimulationApi, slaves/cae/app/runtime.py). A result is a graph of Python  *)
(* objects, each registered by its identity; a released object is emptied in  *)
(* place, and whoever else refers to it sees that. A simulation program has    *)
(* no try statement (program.py:12), so the first refusal ends it.            *)
EXTENDS Naturals, FiniteSets

CONSTANTS
    Kernels,    \* the kernels of the program's tasks, a subset of DOMAIN PlacesOf
    MaxSimRuns  \* bound: sim.run calls of the program

VARIABLES
    heap,       \* the objects returned so far, each with the objects in it
    emptied,    \* the objects that run.release has emptied
    releasable, \* _releasable
    provenance, \* _artifact_provenance
    revisions,  \* _state_revisions
    asked,      \* history: the values the program has released
    refused     \* the value at whose use the program failed, or NoValue

simVars == <<heap, emptied, releasable, provenance, revisions, asked, refused>>

(* An object is named by the sim.run that made it and its place in the result: *)
(* output is the result and its artifacts dict, ticks the tick lists to which  *)
(* both field outputs of the dc kernel refer (dc_current_density/solver.py).  *)
NoValue == <<0, "none">>
ArtifactPlaces == {"joule", "density", "temperature"}

(* The results of the kernels, which SimulationApi only calls.                *)
PlacesOf ==
    [dc |-> {"output", "joule", "density", "ticks", "jouleField", "densityField"},
     heat |-> {"output", "temperature", "field"},
     transient |-> {"output", "temperature", "field", "state", "stateField"}]
ASSUME KernelsAssumption == Kernels \subseteq DOMAIN PlacesOf /\ MaxSimRuns \in Nat

ItemsOf(place) ==
    CASE place = "output"      -> ArtifactPlaces \cup {"state"}
      [] place = "joule"       -> {"jouleField", "ticks"}
      [] place = "density"     -> {"densityField", "ticks"}
      [] place = "temperature" -> {"field"}
      [] place = "state"       -> {"stateField"}
      [] OTHER                 -> {}

SimCalls == Cardinality({v \in DOMAIN heap : v[2] = "output"})

(* The graph of a value: results are at most three objects deep.              *)
Contents(objects, value) ==
    LET below(values) == values \cup UNION {objects[v] : v \in values}
    IN  below(below({value}))
Whole(value) == Contents(heap, value) \cap emptied = {}

(* Objects are added, and what is known of the others stays. *)
And(known, new) ==
    [v \in DOMAIN known \cup DOMAIN new |-> IF v \in DOMAIN known THEN known[v] ELSE new[v]]

SimInit ==
    /\ heap = << >>
    /\ emptied = {} /\ releasable = {} /\ provenance = {} /\ asked = {}
    /\ revisions = << >>
    /\ refused = NoValue

Refuse(value) ==
    /\ refused' = value
    /\ UNCHANGED <<heap, emptied, releasable, provenance, revisions, asked>>

(* state_revision and _validate_inputs: by identity, not by content.          *)
LiveState(state) == state = NoValue \/ state \in DOMAIN revisions
LiveArtifact(artifact) ==
    artifact = NoValue \/ artifact \in provenance \cap releasable

(* A kernel that returns no state passes on the one it was given              *)
(* (registry.py:87).                                                          *)
ResultOf(kernel, state) ==
    [v \in {<<SimCalls + 1, place>> : place \in PlacesOf[kernel]} |->
        {<<SimCalls + 1, place>> : place \in ItemsOf(v[2]) \cap PlacesOf[kernel]}
          \cup IF v[2] = "output" /\ "state" \notin PlacesOf[kernel]
               THEN {state} \ {NoValue} ELSE {}]

(* Registering what is returned, but not what is inside it.                   *)
BugRegistered(objects) == {<<SimCalls + 1, "output">>} \cup objects[<<SimCalls + 1, "output">>]

(* _register_releasable: the whole graph, a state that was passed on included. *)
Registered(objects) == Contents(objects, <<SimCalls + 1, "output">>)

(* _register_state: a state keeps its revision as long as it is the same object. *)
StateRevisions(made) ==
    And(revisions, [v \in {w \in made : w[2] = "state"} |->
        Cardinality({w \in DOMAIN heap : w[2] = "state"}) + 1])

(* sim.run. Only the heat kernel has an input, of the type of joule; it looks  *)
(* at the contents, and so does the encoding of a record.                     *)
SimRun(kernel, state, input) ==
    /\ SimCalls < MaxSimRuns
    /\ IF ~LiveState(state) THEN Refuse(state)
       ELSE IF ~LiveArtifact(input) \/ (input # NoValue /\ ~Whole(input)) THEN Refuse(input)
       ELSE LET result == ResultOf(kernel, state) IN
            /\ heap' = And(heap, result)
            /\ releasable' = releasable \cup Registered(And(heap, result))
            /\ provenance' = provenance \cup {v \in DOMAIN result : v[2] \in ArtifactPlaces}
            /\ revisions' = StateRevisions(DOMAIN result)
            /\ UNCHANGED <<emptied, asked, refused>>

(* CaeRun.release: every object of the graph is emptied in place. *)
EmptiedWith(released) == emptied \cup released

(* sim.release, which checks the whole graph before run.release empties it.   *)
SimRelease(value) ==
    IF Contents(heap, value) \subseteq releasable
    THEN LET released == Contents(heap, value) IN
         /\ emptied' = EmptiedWith(released)
         /\ releasable' = releasable \ released
         /\ provenance' = provenance \ released
         /\ revisions' = [v \in DOMAIN revisions \ released |-> revisions[v]]
         /\ asked' = asked \cup {value}
         /\ UNCHANGED <<heap, refused>>
    ELSE Refuse(value)

(* sim.record of an artifact that cannot be encoded any more, and the check of *)
(* the state that simulate returns.                                           *)
RecordRefused(artifact) == ~Whole(artifact) /\ Refuse(artifact)
FinalStateRefused(state) == ~LiveState(state) /\ Refuse(state)

Values(places) == {v \in DOMAIN heap : v[2] \in places}

SimNext ==
    /\ refused = NoValue
    /\ \/ \E kernel \in Kernels, state \in Values({"state"}) \cup {NoValue},
             input \in Values({"joule"}) \cup {NoValue} :
             /\ input # NoValue => kernel = "heat"
             /\ SimRun(kernel, state, input)
       \/ \E value \in DOMAIN heap : SimRelease(value)
       \/ \E value \in Values(ArtifactPlaces) : RecordRefused(value)
       \/ \E value \in Values({"state"}) : FinalStateRefused(value)

SimSpec == SimInit /\ [][SimNext]_simVars

SimTypeOK ==
    /\ SimCalls <= MaxSimRuns
    /\ provenance \subseteq Values(ArtifactPlaces)
    /\ DOMAIN revisions \subseteq Values({"state"})
    /\ emptied \cup releasable \cup asked \subseteq DOMAIN heap
    /\ refused \in DOMAIN heap \cup {NoValue}

(* ---------------------------------------------------------------- properties *)

(* A program is refused a value only when it has released something that the   *)
(* value has in it or shares: in whatever order results are made, passed on as *)
(* states and released, the three tables of identities keep up with what is   *)
(* in memory (runtime.py:601-737).                                            *)
RefusalIsDeserved ==
    refused # NoValue =>
        \E x \in asked : Contents(heap, x) \cap Contents(heap, refused) # {}

(* What the messages of the code say (runtime.py:603, 614, 646, 715): a value that  *)
(* sim.run returned is accepted until it, a value around it or one inside it   *)
(* is released. The two field outputs of one dc task share their tick lists,  *)
(* so the release of one spoils the other: SharedTicks.cfg.                   *)
RefusalIsExplained ==
    refused # NoValue =>
        \E x \in asked : x \in Contents(heap, refused) \/ refused \in Contents(heap, x)
=============================================================================
