----------------------------- MODULE PartsProofs -----------------------------
(* Proofs about RunJob, for any number of runs, prewarms and connections, and  *)
(* about MCParts: the eight parts that share no state, side by side.          *)
EXTENDS MCParts, ServerProofs, SlaveProofs, LlmAnswerProofs, TLAPS

RunStates == Attempting \cup {"idle", "retrying", "closing", "session",
                              "done", "failed", "cancelled"}
RunEntries == [step : RunStates, attempt : 0..1, conn : Conns \cup {NoConn}, auto : BOOLEAN]

(* The steps at which the input of a run has not been sent.                   *)
Unsent == {"idle", "retrying", "offering", "creating", "answering", "connecting"}

(* What is true of a run: its input is out exactly once it calls, and a run    *)
(* that is under way has a connection.                                        *)
RunInPlace(one, count) ==
    /\ count <= 1
    /\ one.step \in Unsent => count = 0
    /\ one.step \in Attempting \cup {"closing"} => one.conn \in Conns

RunsTyped == run \in [Runs -> RunEntries] /\ inputs \in [Runs -> Nat]
RunInv == RunsTyped /\ \A r \in Runs : RunInPlace(run[r], inputs[r])

(* A step that changes one run.                                               *)
LEMMA OneRunMoves ==
  ASSUME RunInv, NEW r \in Runs, NEW new \in RunEntries, NEW count \in Nat,
         run' = [run EXCEPT ![r] = new], inputs' = [inputs EXCEPT ![r] = count],
         RunInPlace(new, count)
  PROVE  RunInv'
<1>1. RunsTyped'
  BY DEF RunInv, RunsTyped
<1>2. \A s \in Runs : /\ run'[s] = IF s = r THEN new ELSE run[s]
                      /\ inputs'[s] = IF s = r THEN count ELSE inputs[s]
  BY DEF RunInv, RunsTyped
<1> QED
  BY <1>1, <1>2 DEF RunInv

(* A step that changes one run and sends no input.                            *)
LEMMA OneRunMovesSilently ==
  ASSUME RunInv, NEW r \in Runs, NEW new \in RunEntries,
         run' = [run EXCEPT ![r] = new], inputs' = inputs,
         RunInPlace(new, inputs[r])
  PROVE  RunInv'
<1>1. inputs' = [inputs EXCEPT ![r] = inputs[r]] /\ inputs[r] \in Nat
  BY DEF RunInv, RunsTyped
<1> QED
  BY <1>1, OneRunMoves

LEMMA RunFacts ==
  ASSUME RunInv, NEW r \in Runs
  PROVE  /\ run[r] \in RunEntries /\ inputs[r] \in Nat /\ RunInPlace(run[r], inputs[r])
         /\ run[r].step \in RunStates /\ run[r].attempt \in 0..1 /\ run[r].auto \in BOOLEAN
         /\ run[r].conn \in Conns \cup {NoConn}
<1>1. run[r] \in RunEntries /\ inputs[r] \in Nat /\ RunInPlace(run[r], inputs[r])
  BY DEF RunInv, RunsTyped
<1> QED
  BY <1>1 DEF RunEntries

LEMMA BeginAttemptKeepsInv ==
  ASSUME RunInv, NEW r \in Runs, NEW attempt \in 0..1, NEW auto \in BOOLEAN,
         run[r].step \in Unsent, BeginAttempt(r, attempt, auto)
  PROVE  RunInv'
<1>1. PICK c \in Conns : run' = [run EXCEPT ![r] = [step |-> "offering", attempt |-> attempt,
                                                    conn |-> c, auto |-> auto]]
  BY DEF BeginAttempt, Taken
<1> DEFINE new == [step |-> "offering", attempt |-> attempt, conn |-> c, auto |-> auto]
<1>2. new \in RunEntries /\ new.step = "offering" /\ new.conn = c
  BY DEF RunEntries, RunStates, Attempting
<1>3. inputs[r] = 0 /\ inputs' = inputs
  BY RunFacts DEF BeginAttempt, Taken, RunInPlace
<1> HIDE DEF new
<1>4. RunInPlace(new, inputs[r])
  BY <1>2, <1>3 DEF RunInPlace
<1> QED
  BY <1>1, <1>2, <1>3, <1>4, OneRunMovesSilently DEF new

(* A run that goes to another step and keeps the rest.                        *)
LEMMA StepKeepsInv ==
  ASSUME RunInv, NEW r \in Runs, NEW next \in RunStates, NEW count \in Nat,
         run' = [run EXCEPT ![r].step = next], inputs' = [inputs EXCEPT ![r] = count],
         count <= 1, next \in Unsent => count = 0,
         next \in Attempting \cup {"closing"} => run[r].conn \in Conns
  PROVE  RunInv'
<1> DEFINE new == [run[r] EXCEPT !.step = next]
<1>1. run[r] \in RunEntries
  BY RunFacts
<1>2. new \in RunEntries /\ new.step = next /\ new.conn = run[r].conn
  BY <1>1 DEF RunEntries
<1>3. run' = [run EXCEPT ![r] = new]
  OBVIOUS
<1> HIDE DEF new
<1>4. RunInPlace(new, count)
  BY <1>2 DEF RunInPlace
<1> QED
  BY <1>2, <1>3, <1>4, OneRunMoves

LEMMA OverKeepsInv ==
  ASSUME RunInv, NEW r \in Runs, NEW next \in {"done", "failed", "cancelled"},
         run' = [run EXCEPT ![r] = [run[r] EXCEPT !.step = next, !.conn = NoConn]],
         inputs' = inputs
  PROVE  RunInv'
<1> DEFINE new == [run[r] EXCEPT !.step = next, !.conn = NoConn]
<1>1. run[r] \in RunEntries /\ inputs[r] <= 1
  BY RunFacts DEF RunInPlace
<1>2. next \in RunStates /\ next \notin Unsent /\ next \notin Attempting \cup {"closing"}
  BY DEF RunStates, Unsent, Attempting
<1>3. new \in RunEntries /\ new.step = next
  BY <1>1, <1>2 DEF RunEntries
<1> HIDE DEF new
<1>4. RunInPlace(new, inputs[r])
  BY <1>1, <1>2, <1>3 DEF RunInPlace
<1> QED
  BY <1>3, <1>4, OneRunMovesSilently DEF new

LEMMA AdvanceKeepsInv == ASSUME RunInv, NEW r \in Runs, Advance(r) PROVE RunInv'
<1>1. /\ inputs[r] \in Nat /\ RunInPlace(run[r], inputs[r])
      /\ inputs = [inputs EXCEPT ![r] = inputs[r]]
  BY RunFacts DEF RunInv, RunsTyped
<1>2. PICK hop \in {<<"offering", "creating">>, <<"creating", "answering">>,
                    <<"answering", "connecting">>, <<"connecting", "calling">>,
                    <<"calling", IF run[r].auto THEN "finishing" ELSE "session">>} :
         /\ run[r].step = hop[1]
         /\ run' = [run EXCEPT ![r].step = hop[2]]
         /\ inputs' = IF hop[2] = "calling" THEN [inputs EXCEPT ![r] = @ + 1] ELSE inputs
  BY DEF Advance
<1>3. hop[2] \in RunStates /\ hop[1] \in Attempting
  BY DEF RunStates, Attempting
<1>4. run[r].conn \in Conns
  BY <1>1, <1>2, <1>3 DEF RunInPlace
<1>5. CASE hop[2] = "calling"
  <2>1. hop[1] = "connecting"
    BY <1>5
  <2>2. inputs[r] = 0
    BY <1>1, <1>2, <2>1 DEF RunInPlace, Unsent
  <2>3. inputs' = [inputs EXCEPT ![r] = inputs[r] + 1] /\ inputs[r] + 1 = 1
    BY <1>2, <1>5, <2>2
  <2>4. run' = [run EXCEPT ![r].step = "calling"] /\ "calling" \in RunStates /\ "calling" \notin Unsent
    BY <1>2, <1>5 DEF RunStates, Attempting, Unsent
  <2>5. inputs[r] + 1 \in Nat /\ inputs[r] + 1 <= 1
    BY <2>2
  <2> QED
    BY <1>4, <2>3, <2>4, <2>5, StepKeepsInv
<1>6. CASE hop[2] # "calling"
  <2>1. hop[2] \in Unsent => hop[1] \in Unsent
    BY DEF Unsent
  <2>2. inputs' = [inputs EXCEPT ![r] = inputs[r]] /\ inputs[r] <= 1
        /\ (hop[2] \in Unsent => inputs[r] = 0)
    BY <1>1, <1>2, <1>6, <2>1 DEF RunInPlace
  <2> QED
    BY <1>1, <1>2, <1>3, <1>4, <2>2, StepKeepsInv
<1> QED
  BY <1>5, <1>6

LEMMA FailKeepsInv == ASSUME RunInv, NEW r \in Runs, Fail(r) PROVE RunInv'
<1>1. /\ inputs[r] \in Nat /\ RunInPlace(run[r], inputs[r]) /\ run[r].step \in Attempting
      /\ inputs = [inputs EXCEPT ![r] = inputs[r]]
  BY RunFacts DEF RunInv, RunsTyped, Fail
<1>2. run[r].conn \in Conns /\ inputs[r] <= 1
  BY <1>1 DEF RunInPlace
<1>3. CASE run[r].step = "calling"
  <2>1. run' = [run EXCEPT ![r].step = "closing"] /\ inputs' = inputs
    BY <1>3 DEF Fail
  <2>2. "closing" \in RunStates /\ "closing" \notin Unsent
    BY DEF RunStates, Unsent
  <2> QED
    BY <1>1, <1>2, <2>1, <2>2, StepKeepsInv
<1>4. CASE /\ run[r].step \notin {"calling", "finishing"}
           /\ run' = [run EXCEPT ![r].step = "retrying"] /\ inputs' = inputs
  <2>1. run[r].step \in Unsent /\ inputs[r] = 0
    BY <1>1, <1>4 DEF Attempting, Unsent, RunInPlace
  <2>2. "retrying" \in RunStates /\ "retrying" \notin Attempting \cup {"closing"}
    BY DEF RunStates, Attempting
  <2> QED
    BY <1>1, <1>2, <1>4, <2>1, <2>2, StepKeepsInv
<1>5. CASE End(r, "failed", Closed({run[r].conn}))
  BY <1>5, OverKeepsInv DEF End
<1> QED
  BY <1>3, <1>4, <1>5 DEF Fail

LEMMA RunInvHolds == RunSpec => []RunInv
<1>1. RunInit => RunInv
  <2> SUFFICES ASSUME RunInit PROVE RunInv
    OBVIOUS
  <2>1. RunsTyped
    BY DEF RunInit, RunsTyped, RunEntries, RunStates, NoConn
  <2>2. \A r \in Runs : run[r].step = "idle" /\ inputs[r] = 0
    BY DEF RunInit
  <2> QED
    BY <2>1, <2>2 DEF RunInv, RunInPlace, Unsent, Attempting
<1>2. RunInv /\ [RunNext]_runVars => RunInv'
  <2> SUFFICES ASSUME RunInv, [RunNext]_runVars PROVE RunInv'
    OBVIOUS
  <2>1. CASE run' = run /\ inputs' = inputs
    BY <2>1 DEF RunInv, RunsTyped
  <2>2. ASSUME NEW w \in Warmers, PyPrewarm(w) \/ PyClaim(w) PROVE RunInv'
    BY <2>1, <2>2 DEF PyPrewarm, PyClaim
  <2>3. ASSUME NEW c \in Conns, Gathered(c) PROVE RunInv'
    BY <2>1, <2>3 DEF Gathered
  <2>4. CASE PyClear \/ PyCloseClient \/ JsPrewarm \/ JsClear
    BY <2>1, <2>4 DEF PyClear, PyCloseClient, JsPrewarm, JsClear
  <2>5. ASSUME NEW r \in Runs, BeginRun(r) PROVE RunInv'
    BY <2>5, BeginAttemptKeepsInv DEF BeginRun, Unsent
  <2>6. ASSUME NEW r \in Runs, Advance(r) PROVE RunInv'
    BY <2>6, AdvanceKeepsInv
  <2>7. ASSUME NEW r \in Runs, Fail(r) PROVE RunInv'
    BY <2>7, FailKeepsInv
  <2>8. ASSUME NEW r \in Runs, Retry(r) PROVE RunInv'
    BY <2>8, BeginAttemptKeepsInv, RunFacts DEF Retry, Unsent
  <2>9. ASSUME NEW r \in Runs, Finish(r) \/ CleanUp(r) \/ PyCancelRun(r) PROVE RunInv'
    BY <2>9, OverKeepsInv DEF Finish, CleanUp, PyCancelRun, End
  <2>10. ASSUME NEW r \in Runs, CloseSession(r) PROVE RunInv'
    BY <2>10, OverKeepsInv DEF CloseSession
  <2>11. CASE UNCHANGED runVars
    BY <2>1, <2>11 DEF runVars
  <2> QED
    BY <2>2, <2>3, <2>4, <2>5, <2>6, <2>7, <2>8, <2>9, <2>10, <2>11 DEF RunNext, RunSteps
<1> QED
  BY <1>1, <1>2, PTL DEF RunSpec

(* A run sends its input in at most one attempt, for any number of runs,      *)
(* prewarms and connections (client.py:355, :388).                            *)
THEOREM InputsAreSentOnce == RunSpec => []InputSentOnce
<1>1. RunInv => InputSentOnce
  BY DEF RunInv, RunInPlace, InputSentOnce
<1> QED
  BY <1>1, RunInvHolds, PTL

(* ------------------------------------------------------------- connections *)

LEMMA ClosedIsClosed ==
  ASSUME NEW cs, NEW c \in cs, c \in Conns
  PROVE  Closed(cs)[c] \notin {"gathering", "open"}
BY DEF Closed

(* The end of a run leaves the connection it closed as it is: a refill of the  *)
(* cache takes one that nobody holds.                                         *)
LEMMA EndClosesConn ==
  ASSUME RunInv, NEW r \in Runs, NEW next, run[r].conn \in Conns,
         End(r, next, Closed({run[r].conn}))
  PROVE  peers'[run[r].conn] \notin {"gathering", "open"}
<1> DEFINE mine == run[r].conn
           conns == Closed({mine})
<1>1. conns[mine] \notin {"gathering", "open"} /\ mine \in Conns /\ mine \in Held
      /\ conns \in [Conns -> {conns[c] : c \in Conns}]
  BY ClosedIsClosed DEF Closed, Held
<1>2. CASE peers' = conns
  BY <1>1, <1>2
<1>3. ASSUME NEW c \in Conns, Fresh(c), peers' = [conns EXCEPT ![c] = "open"]
      PROVE  peers'[mine] \notin {"gathering", "open"}
  <2>1. c # mine
    BY <1>1, <1>3 DEF Fresh, Free
  <2> HIDE DEF conns
  <2> QED
    BY <1>1, <1>3, <2>1
<1>4. peers' = conns \/ \E c \in Conns : Fresh(c) /\ peers' = [conns EXCEPT ![c] = "open"]
  BY DEF End
<1> QED
  BY <1>2, <1>3, <1>4

(* A run that is given up or done with has closed its connection, wherever it  *)
(* was and whatever prewarming goes on (client.py:436).                       *)
THEOREM RunsCleanUp == RunSpec => RunCleansUp
<1> DEFINE Busy == Attempting \cup {"closing"}
           Clean(r) == run[r].step \in Busy /\ run'[r].step \notin Busy \cup {"session"}
                       => peers'[run[r].conn] \notin {"gathering", "open"}
<1>1. RunInv /\ [RunNext]_runVars => \A r \in Runs : Clean(r)
  <2> SUFFICES ASSUME RunInv, [RunNext]_runVars, NEW r \in Runs, run[r].step \in Busy,
                      run'[r].step \notin Busy \cup {"session"}
               PROVE  peers'[run[r].conn] \notin {"gathering", "open"}
    OBVIOUS
  <2>1. run[r].conn \in Conns /\ run \in [Runs -> RunEntries]
    BY RunFacts DEF RunInPlace, RunInv, RunsTyped
  <2>2. ~(run' = run)
    OBVIOUS
  <2>3. PICK s \in Runs : \/ BeginRun(s) \/ Advance(s) \/ Fail(s) \/ Retry(s) \/ Finish(s)
                          \/ CleanUp(s) \/ PyCancelRun(s) \/ CloseSession(s)
    BY <2>2 DEF RunNext, RunSteps, runVars, PyPrewarm, PyClaim, Gathered, PyClear,
                PyCloseClient, JsPrewarm, JsClear
  <2>4. CASE s # r
    <3>1. run'[r] = run[r]
      BY <2>1, <2>3, <2>4 DEF BeginRun, BeginAttempt, Taken, Advance, Fail, Retry, Finish, CleanUp,
                              PyCancelRun, CloseSession, End
    <3> QED
      BY <3>1
  <2>5. CASE s = r /\ (BeginRun(s) \/ Retry(s) \/ CloseSession(s))
    BY <2>5 DEF BeginRun, Retry, CloseSession, Attempting
  <2>6. CASE s = r /\ (Finish(s) \/ CleanUp(s) \/ PyCancelRun(s))
    BY <2>1, <2>6, EndClosesConn DEF Finish, CleanUp, PyCancelRun
  <2>7. CASE s = r /\ Advance(s)
    <3>1. PICK next \in Busy \cup {"session"} : run' = [run EXCEPT ![r].step = next]
      BY <2>7 DEF Advance, Attempting
    <3>2. run'[r].step = next
      BY <2>1, <3>1 DEF RunEntries
    <3> QED
      BY <3>1, <3>2
  <2>8. CASE s = r /\ Fail(s)
    <3>1. CASE run' = [run EXCEPT ![r].step = "closing"]
      BY <2>1, <3>1 DEF RunEntries
    <3>2. CASE peers' = Closed({run[r].conn})
      BY <2>1, <3>2, ClosedIsClosed
    <3>3. CASE End(r, "failed", Closed({run[r].conn}))
      BY <2>1, <3>3, EndClosesConn
    <3> QED
      BY <2>8, <3>1, <3>2, <3>3 DEF Fail
  <2> QED
    BY <2>3, <2>4, <2>5, <2>6, <2>7, <2>8
<1>2. RunInv /\ [RunNext]_runVars
      => [\A r \in Runs :
            /\ run[r].step \in Attempting \cup {"closing"}
            /\ run'[r].step \notin Attempting \cup {"closing", "session"}
            => peers'[run[r].conn] \notin {"gathering", "open"}]_runVars
  BY <1>1
<1> QED
  BY <1>2, RunInvHolds, PTL DEF RunSpec, RunCleansUp

(* ------------------------------------------------------------------- types *)

PeerStates == {"gathering", "open", "closed", "failed"}
WarmEntries == [step : {"idle", "due", "waiting", "over"}, task : Conns \cup {NoConn}]

(* The types of what the runs share: the client, the connections and the      *)
(* cache of prewarmed ones.                                                   *)
CacheTyped ==
    /\ client \in [sdk : ClientSdks, closed : BOOLEAN]
    /\ peers \in [Conns -> PeerStates]
    /\ spare \in Conns \cup {NoConn} /\ build \in Conns \cup {NoConn}
    /\ warm \in [Warmers -> WarmEntries]

LEMMA ClosedIsTyped ==
  ASSUME peers \in [Conns -> PeerStates], NEW cs
  PROVE  Closed(cs) \in [Conns -> PeerStates]
<1>1. \A c \in Conns : peers[c] \in PeerStates
  OBVIOUS
<1> QED
  BY <1>1 DEF Closed, PeerStates

LEMMA WarmCancelledIsTyped ==
  ASSUME warm \in [Warmers -> WarmEntries]
  PROVE  WarmCancelled \in [Warmers -> WarmEntries]
<1>1. [step |-> "over", task |-> NoConn] \in WarmEntries
  BY DEF WarmEntries
<1>2. \A w \in Warmers : warm[w] \in WarmEntries
  OBVIOUS
<1> QED
  BY <1>1, <1>2 DEF WarmCancelled

LEMMA EndKeepsTypes ==
  ASSUME CacheTyped, NEW r \in Runs, NEW next, NEW conns \in [Conns -> PeerStates],
         End(r, next, conns)
  PROVE  CacheTyped'
<1>1. client' = client /\ build' = build
  BY DEF End
<1>2. warm' \in [Warmers -> WarmEntries]
  <2>1. CASE warm' = warm
    BY <2>1 DEF CacheTyped
  <2>2. CASE warm' = [warm EXCEPT ![r].step = "due"]
    <3>1. warm[r] \in WarmEntries
      BY DEF CacheTyped, Warmers
    <3>2. [warm[r] EXCEPT !.step = "due"] \in WarmEntries
      BY <3>1 DEF WarmEntries
    <3> QED
      BY <2>2, <3>2 DEF CacheTyped
  <2> QED
    BY <2>1, <2>2 DEF End
<1>3. peers' \in [Conns -> PeerStates] /\ spare' \in Conns \cup {NoConn}
  <2>1. CASE peers' = conns /\ spare' = spare
    BY <2>1 DEF CacheTyped
  <2>2. ASSUME NEW c \in Conns, spare' = c, peers' = [conns EXCEPT ![c] = "open"]
        PROVE  peers' \in [Conns -> PeerStates] /\ spare' \in Conns \cup {NoConn}
    BY <2>2 DEF PeerStates
  <2>3. \/ peers' = conns /\ spare' = spare
        \/ \E c \in Conns : spare' = c /\ peers' = [conns EXCEPT ![c] = "open"]
    BY DEF End
  <2> QED
    BY <2>1, <2>2, <2>3
<1> QED
  BY <1>1, <1>2, <1>3 DEF CacheTyped

(* The connection of a run, or its task, becomes what an await makes of it.    *)
LEMMA PyPrewarmKeepsTypes ==
  ASSUME CacheTyped, NEW w \in Warmers, PyPrewarm(w)
  PROVE  CacheTyped'
<1>1. client' = client /\ warm[w] \in WarmEntries
  BY DEF PyPrewarm, CacheTyped
<1>2. CASE /\ warm' = [warm EXCEPT ![w].step = "over"]
           /\ UNCHANGED <<peers, spare, build>>
  <2>1. [warm[w] EXCEPT !.step = "over"] \in WarmEntries
    BY <1>1 DEF WarmEntries
  <2> QED
    BY <1>1, <1>2, <2>1 DEF CacheTyped
<1>3. CASE /\ spare' = NoConn
           /\ \/ UNCHANGED <<peers, build>>
              \/ \E c \in Conns : build' = c /\ peers' = [peers EXCEPT ![c] = "gathering"]
           /\ warm' = [warm EXCEPT ![w] = [step |-> "waiting", task |-> build']]
  <2>1. build' \in Conns \cup {NoConn}
    BY <1>3 DEF CacheTyped
  <2>2. [step |-> "waiting", task |-> build'] \in WarmEntries
    BY <2>1 DEF WarmEntries
  <2>3. peers' \in [Conns -> PeerStates]
    BY <1>3 DEF CacheTyped, PeerStates
  <2> QED
    BY <1>1, <1>3, <2>1, <2>2, <2>3 DEF CacheTyped
<1> QED
  BY <1>2, <1>3 DEF PyPrewarm

LEMMA PyClaimKeepsTypes ==
  ASSUME CacheTyped, NEW w \in Warmers, PyClaim(w)
  PROVE  CacheTyped'
<1>1. client' = client /\ warm[w] \in WarmEntries
  BY DEF PyClaim, CacheTyped
<1>2. warm[w].task \in Conns \cup {NoConn}
  BY <1>1 DEF WarmEntries
<1>3. build' \in Conns \cup {NoConn} /\ spare' \in Conns \cup {NoConn}
  BY <1>2 DEF PyClaim, CacheTyped
<1>4. peers' \in [Conns -> PeerStates]
  BY DEF PyClaim, CacheTyped, PeerStates
<1>5. [step |-> "over", task |-> NoConn] \in WarmEntries
  BY DEF WarmEntries
<1> QED
  BY <1>1, <1>3, <1>4, <1>5 DEF PyClaim, CacheTyped

LEMMA CacheStaysTyped ==
  ASSUME CacheTyped, [RunNext]_runVars
  PROVE  CacheTyped'
<1>1. ASSUME NEW w \in Warmers, PyPrewarm(w) \/ PyClaim(w) PROVE CacheTyped'
  BY <1>1, PyPrewarmKeepsTypes, PyClaimKeepsTypes
<1>2. ASSUME NEW c \in Conns, Gathered(c) PROVE CacheTyped'
  BY <1>2 DEF Gathered, CacheTyped, PeerStates
<1>3. CASE PyClear \/ PyCloseClient
  <2>1. /\ spare' = NoConn /\ build' = NoConn /\ warm' = WarmCancelled
        /\ \E cs : peers' = Closed(cs)
    BY <1>3 DEF PyClear, PyCloseClient
  <2>2. peers' \in [Conns -> PeerStates] /\ warm' \in [Warmers -> WarmEntries]
    BY <2>1, ClosedIsTyped, WarmCancelledIsTyped DEF CacheTyped
  <2>3. client' = client \/ client' = [client EXCEPT !.closed = TRUE]
    BY <1>3 DEF PyClear, PyCloseClient
  <2>4. client' \in [sdk : ClientSdks, closed : BOOLEAN]
    BY <2>3 DEF CacheTyped
  <2> QED
    BY <2>1, <2>2, <2>4 DEF CacheTyped
<1>4. CASE JsPrewarm
  BY <1>4 DEF JsPrewarm, CacheTyped, PeerStates
<1>5. CASE JsClear
  BY <1>5, ClosedIsTyped DEF JsClear, CacheTyped
<1>6. ASSUME NEW r \in Runs, NEW attempt, NEW auto, BeginAttempt(r, attempt, auto)
      PROVE  CacheTyped'
  BY <1>6 DEF BeginAttempt, CacheTyped, PeerStates
<1>7. ASSUME NEW r \in Runs, NEW next, NEW cs, End(r, next, Closed(cs)) PROVE CacheTyped'
  <2>1. Closed(cs) \in [Conns -> PeerStates]
    BY ClosedIsTyped DEF CacheTyped
  <2> QED
    BY <1>7, <2>1, EndKeepsTypes
<1>8. ASSUME NEW r \in Runs, Advance(r) PROVE CacheTyped'
  BY <1>8 DEF Advance, CacheTyped
<1>9. ASSUME NEW r \in Runs, Fail(r) PROVE CacheTyped'
  <2>1. CASE UNCHANGED <<client, peers, spare, build, warm, inputs>>
    BY <2>1 DEF CacheTyped
  <2>2. CASE /\ peers' = Closed({run[r].conn})
             /\ UNCHANGED <<client, spare, build, warm, inputs>>
    BY <2>2, ClosedIsTyped DEF CacheTyped
  <2> QED
    BY <1>7, <1>9, <2>1, <2>2 DEF Fail
<1>10. ASSUME NEW r \in Runs, CloseSession(r) PROVE CacheTyped'
  BY <1>10, ClosedIsTyped DEF CloseSession, CacheTyped
<1>11. CASE UNCHANGED runVars
  BY <1>11 DEF runVars, CacheTyped
<1>12. ASSUME NEW r \in Runs, BeginRun(r) \/ Retry(r) PROVE CacheTyped'
  BY <1>6, <1>12 DEF BeginRun, Retry
<1>13. ASSUME NEW r \in Runs, Finish(r) \/ CleanUp(r) \/ PyCancelRun(r) PROVE CacheTyped'
  BY <1>7, <1>13 DEF Finish, CleanUp, PyCancelRun
<1> QED
  BY <1>1, <1>2, <1>3, <1>4, <1>5, <1>8, <1>9, <1>10, <1>11, <1>12, <1>13 DEF RunNext, RunSteps

(* Every variable of run_job keeps its type, for any number of runs, prewarms  *)
(* and connections and either SDK: a run, a prewarm and the cache only ever   *)
(* refer to connections that the client made (client.py:228-261, :352).        *)
THEOREM RunTypesHold == RunSpec => []RunTypeOK
<1>1. RunInit => CacheTyped
  <2> SUFFICES ASSUME RunInit PROVE CacheTyped
    OBVIOUS
  <2>1. client \in [sdk : ClientSdks, closed : BOOLEAN]
    <3>1. client.closed = FALSE /\ client.sdk \in ClientSdks
          /\ client = [sdk |-> client.sdk, closed |-> client.closed]
      BY DEF RunInit
    <3>2. client.closed \in BOOLEAN
      BY <3>1, Zenon
    <3> QED
      BY <3>1, <3>2
  <2>2. warm \in [Warmers -> WarmEntries]
    <3>1. \A next \in {"due", "idle"} : [step |-> next, task |-> NoConn] \in WarmEntries
      BY DEF WarmEntries
    <3> QED
      BY <3>1 DEF RunInit
  <2> QED
    BY <2>1, <2>2 DEF RunInit, CacheTyped, PeerStates
<1>2. CacheTyped /\ [RunNext]_runVars => CacheTyped'
  BY CacheStaysTyped
<1>3. CacheTyped /\ RunInv => RunTypeOK
  BY DEF CacheTyped, RunInv, RunsTyped, RunEntries, RunStates, PeerStates, WarmEntries, RunTypeOK
<1> QED
  BY <1>1, <1>2, <1>3, RunInvHolds, PTL DEF RunSpec

(* ------------------------------------------- connections of one run each *)

(* No two runs, and no run and the cache, have the same connection.           *)
HoldersDiffer ==
    /\ \A r \in Runs : run[r].conn # NoConn => run[r].conn # spare
    /\ \A r, s \in Runs : r # s /\ run[r].conn = run[s].conn => run[r].conn = NoConn

LEMMA FreshIsNobodys ==
  ASSUME NEW c \in Conns, Fresh(c)
  PROVE  c # NoConn /\ c # spare /\ c # build /\ \A r \in Runs : run[r].conn # c
BY DEF Fresh, Free, Held, Conns, NoConn

(* A run that lets its connection go, whether or not the cache is refilled.    *)
LEMMA LettingGoKeeps ==
  ASSUME HoldersDiffer, RunInv, NEW r \in Runs, NEW next,
         run' = [run EXCEPT ![r] = [run[r] EXCEPT !.step = next, !.conn = NoConn]],
         spare' = spare \/ \E c \in Conns : Fresh(c) /\ spare' = c
  PROVE  HoldersDiffer'
<1>1. /\ run'[r].conn = NoConn
      /\ \A s \in Runs \ {r} : run'[s] = run[s]
  <2>1. run[r] \in RunEntries /\ run \in [Runs -> RunEntries]
    BY DEF RunInv, RunsTyped
  <2>2. [run[r] EXCEPT !.step = next, !.conn = NoConn].conn = NoConn
    BY <2>1 DEF RunEntries
  <2> QED
    BY <2>1, <2>2
<1>2. \A s \in Runs \ {r} : run[s].conn # NoConn => spare' # run[s].conn
  BY FreshIsNobodys DEF HoldersDiffer
<1> QED
  BY <1>1, <1>2 DEF HoldersDiffer

(* A run that goes to another step and keeps its connection.                  *)
LEMMA HoldingOnKeeps ==
  ASSUME HoldersDiffer, RunInv, NEW r \in Runs, NEW next,
         run' = [run EXCEPT ![r].step = next], spare' = spare
  PROVE  HoldersDiffer'
<1>1. \A s \in Runs : run'[s].conn = run[s].conn
  <2>1. run \in [Runs -> RunEntries] /\ run[r] \in RunEntries
    BY DEF RunInv, RunsTyped
  <2>2. [run[r] EXCEPT !.step = next].conn = run[r].conn
    BY <2>1 DEF RunEntries
  <2> QED
    BY <2>1, <2>2
<1> QED
  BY <1>1 DEF HoldersDiffer

LEMMA TakingKeeps ==
  ASSUME HoldersDiffer, RunInv, NEW r \in Runs, NEW attempt, NEW auto,
         BeginAttempt(r, attempt, auto)
  PROVE  HoldersDiffer'
<1>1. PICK c \in Conns : /\ Taken(c)
                         /\ run' = [run EXCEPT ![r] = [step |-> "offering", attempt |-> attempt,
                                                        conn |-> c, auto |-> auto]]
  BY DEF BeginAttempt
<1>2. c # NoConn /\ \A s \in Runs : run[s].conn # c
  BY <1>1, FreshIsNobodys DEF Taken, HoldersDiffer, Conns, NoConn
<1>3. run'[r].conn = c /\ \A s \in Runs \ {r} : run'[s] = run[s]
  BY <1>1 DEF RunInv, RunsTyped
<1>4. spare' = NoConn
  BY DEF BeginAttempt
<1> QED
  BY <1>2, <1>3, <1>4 DEF HoldersDiffer

LEMMA JsStepsKeepHolders ==
  ASSUME HoldersDiffer, RunInv, Js, [RunNext]_runVars
  PROVE  HoldersDiffer'
<1>0. ~Python
  BY DEF Js, Python
<1>1. CASE UNCHANGED <<run, spare>>
  BY <1>1 DEF HoldersDiffer
<1>2. CASE JsPrewarm \/ JsClear
  BY <1>2, FreshIsNobodys DEF JsPrewarm, JsClear, HoldersDiffer
<1>3. ASSUME NEW r \in Runs, BeginRun(r) \/ Retry(r) PROVE HoldersDiffer'
  BY <1>3, TakingKeeps DEF BeginRun, Retry
<1>4. ASSUME NEW r \in Runs, Advance(r) PROVE HoldersDiffer'
  <2>1. PICK next : run' = [run EXCEPT ![r].step = next] /\ spare' = spare
    BY <1>4 DEF Advance
  <2> QED
    BY <2>1, HoldingOnKeeps
<1>5. ASSUME NEW r \in Runs, NEW next, NEW conns, End(r, next, conns) PROVE HoldersDiffer'
  <2>1. run' = [run EXCEPT ![r] = [run[r] EXCEPT !.step = next, !.conn = NoConn]]
    BY <1>5 DEF End
  <2>2. spare' = spare \/ \E c \in Conns : Fresh(c) /\ spare' = c
    BY <1>5 DEF End
  <2> QED
    BY <2>1, <2>2, LettingGoKeeps
<1>6. ASSUME NEW r \in Runs, Fail(r) PROVE HoldersDiffer'
  <2>1. CASE End(r, "failed", Closed({run[r].conn}))
    BY <1>5, <2>1
  <2>2. ASSUME NEW next, run' = [run EXCEPT ![r].step = next], spare' = spare
        PROVE  HoldersDiffer'
    BY <2>2, HoldingOnKeeps
  <2> QED
    BY <1>6, <2>1, <2>2 DEF Fail
<1>7. ASSUME NEW r \in Runs, Finish(r) \/ CleanUp(r) \/ PyCancelRun(r) PROVE HoldersDiffer'
  BY <1>5, <1>7 DEF Finish, CleanUp, PyCancelRun
<1>8. ASSUME NEW r \in Runs, CloseSession(r) PROVE HoldersDiffer'
  <2>1. /\ run' = [run EXCEPT ![r] = [run[r] EXCEPT !.step = "done", !.conn = NoConn]]
        /\ spare' = spare
    BY <1>8 DEF CloseSession
  <2> QED
    BY <2>1, LettingGoKeeps
<1> QED
  BY <1>0, <1>1, <1>2, <1>3, <1>4, <1>6, <1>7, <1>8
     DEF RunNext, RunSteps, runVars, PyPrewarm, PyClaim, Gathered, PyClear, PyCloseClient

(* With the JavaScript client a prewarmed connection serves one run, for any    *)
(* number of runs and prewarms: prewarmJobConnection puts the connection into   *)
(* the cache before it waits for anything, and only one run takes it out       *)
(* (client.ts:108-124, :366). In the Python client a prewarm that was waiting   *)
(* may put back a connection that a run has taken: SharedConnection shows it.   *)
THEOREM JsConnectionServesOneRun == RunSpec => [](Js => ConnectionServesOneRun)
<1> DEFINE Apart == Js => HoldersDiffer
<1>1. RunInit => Apart
  BY DEF RunInit, HoldersDiffer
<1>2. RunInv /\ Apart /\ [RunNext]_runVars => Apart'
  <2> SUFFICES ASSUME RunInv, Apart, [RunNext]_runVars, Js' PROVE HoldersDiffer'
    OBVIOUS
  <2>1. Js
    <3>1. CASE client' = client
      BY <3>1 DEF Js
    <3>2. CASE PyCloseClient
      BY <3>2 DEF PyCloseClient, Python, Js
    <3> QED
      BY <3>1, <3>2 DEF RunNext, RunSteps, runVars, PyPrewarm, PyClaim, Gathered, PyClear,
         JsPrewarm, JsClear, BeginRun, BeginAttempt, Advance, Finish, Fail, CleanUp, Retry,
         PyCancelRun, CloseSession, End
  <2> QED
    BY <2>1, JsStepsKeepHolders
<1>3. Apart => (Js => ConnectionServesOneRun)
  BY DEF HoldersDiffer, ConnectionServesOneRun
<1> QED
  BY <1>1, <1>2, <1>3, RunInvHolds, PTL DEF RunSpec

(* --------------------------------------------------- the parts side by side *)

(* Of the parts that MCParts runs in one instance each behaves as if alone:    *)
(* what is proved of its own specification holds there.                       *)
LEMMA PartsAreAlone ==
  PartsSpec => /\ PollSpec /\ RunSpec /\ CaeSpec /\ SimSpec /\ GpuSpec /\ TokenSpec
               /\ KeysSpec /\ ChatSpec
<1>1. PartsInit => /\ PollInit /\ RunInit /\ CaeInit /\ SimInit /\ GpuInit /\ TokenInit
                   /\ KeysInit /\ ChatInit
  BY DEF PartsInit
<1>2. [PartsNext]_partsVars => /\ [PollNext]_pollVars /\ [RunNext]_runVars
                               /\ [CaeNextState]_caeVars /\ [SimNext]_simVars
                               /\ [GpuNext]_gpuVars /\ [TokenNext]_tokenVars
                               /\ [KeysNext]_keyVars /\ [ChatNext]_chatVars
  BY Zenon DEF PartsNext, partsVars
<1> QED
  BY <1>1, <1>2, PTL DEF PartsSpec, PollSpec, RunSpec, CaeSpec, SimSpec, GpuSpec, TokenSpec,
                         KeysSpec, ChatSpec

(* Every variable of the long polls, run_job, the CAE runs, the simulation, the *)
(* GPU residency, the sessions, the access keys and the chat stream keeps its   *)
(* type.                                                                      *)
THEOREM PartsTypesHold == PartsSpec => []PartsTypeOK
<1>1. /\ PollTypeOK /\ WaitersCounted /\ RunTypeOK /\ CaeTypeOK /\ SimTypeOK
      /\ GpuTypeOK /\ TokenTypeOK /\ KeysTypeOK /\ ChatTypeOK
      => PartsTypeOK
  BY DEF PartsTypeOK
<1> QED
  BY <1>1, PartsAreAlone, CountIsExact, RunTypesHold, CaeTypesHold, SimTypesHold, GpuTypesHold,
     TokenTypesHold, KeyTypesHold, ChatTypesHold, PTL
=============================================================================
