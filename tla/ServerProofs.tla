---------------------------- MODULE ServerProofs ----------------------------
(* The server's parts that stand apart from the jobs: the long polls for an   *)
(* answer, the sessions of the website, the access keys.                      *)
EXTENDS AnswerWait, SessionTokens, AccessKeys, FiniteSetTheorems, SequenceTheorems, TLAPS

(* The shared event of a job's long polls, for any number of polls. *)

\* A poll holds an event exactly while it reads and waits.
HoldsWhileWaiting ==
  \A p \in Polls : held[p] # NoEvent <=> step[p] \in {"read", "wait"}
\* All polls hold the one event of the dictionary.
HoldsEntry == \A p \in Polls : held[p] # NoEvent => held[p] = entry

WaitInv == PollTypeOK /\ HoldsWhileWaiting /\ HoldsEntry /\ WaitersCounted /\ NoLostWakeUp

\* The polls that hold an event are finitely many, at most all of them.
LEMMA HoldersFinite == /\ IsFiniteSet(Holders)
                       /\ Cardinality(Holders) \in 0..Cardinality(Polls)
<1>1. Holders \in SUBSET Polls
  BY DEF Holders
<1>2. /\ IsFiniteSet(Holders)
      /\ Cardinality(Holders) <= Cardinality(Polls)
  BY <1>1, PollsAssumption, FS_Subset
<1>3. Cardinality(Holders) \in Nat /\ Cardinality(Polls) \in Nat
  BY <1>2, PollsAssumption, FS_CardinalityType
<1> QED
  BY <1>2, <1>3

\* release_prepared_job_event takes exactly one poll out of the count, and
\* drops the event only with the last one.
LEMMA ReleaseCounts ==
  ASSUME WaitInv, NEW p \in Polls, step[p] \in {"read", "wait"}, Release(p)
  PROVE  /\ Holders' = Holders \ {p}
         /\ waiters' = Cardinality(Holders')
         /\ waiters' \in 0..Cardinality(Polls)
         /\ Holders' = {} => entry' = NoEvent
         /\ Holders' # {} => entry' = entry
         /\ entry' \in {entry, NoEvent}
<1>1. p \in Holders /\ held[p] = entry
  BY DEF WaitInv, HoldsWhileWaiting, HoldsEntry, Holders
<1>2. Holders' = Holders \ {p}
  BY DEF Holders, Release, WaitInv, PollTypeOK
<1>3. /\ IsFiniteSet(Holders')
      /\ Cardinality(Holders') = Cardinality(Holders) - 1
  BY <1>1, <1>2, HoldersFinite, FS_RemoveElement
<1>4. Cardinality(Holders') \in Nat /\ (Cardinality(Holders') = 0 <=> Holders' = {})
  BY <1>3, FS_CardinalityType, FS_EmptySet
<1>5. waiters = Cardinality(Holders) /\ waiters \in 0..Cardinality(Polls)
  BY DEF WaitInv, WaitersCounted, PollTypeOK
<1>6. waiters' = Cardinality(Holders')
  BY <1>3, <1>4, <1>5, HoldersFinite DEF Release
<1>7. waiters' \in 0..Cardinality(Polls)
  <2> DEFINE before == Cardinality(Holders)
             after == Cardinality(Holders')
             all == Cardinality(Polls)
  <2>1. after = before - 1 /\ after \in Nat /\ before \in 0..all /\ all \in Nat
    BY <1>3, <1>4, HoldersFinite, PollsAssumption, FS_CardinalityType
  <2> HIDE DEF before, after, all
  <2>2. after \in 0..all
    BY <2>1
  <2> QED
    BY <1>6, <2>2 DEF after, all
<1>8. Holders' = {} <=> waiters <= 1
  <2> DEFINE before == Cardinality(Holders)
             after == Cardinality(Holders')
  <2>1. /\ after = before - 1 /\ after \in Nat /\ before \in Nat
        /\ before = waiters /\ (after = 0 <=> Holders' = {})
    BY <1>3, <1>4, <1>5, HoldersFinite, FS_CardinalityType
  <2> HIDE DEF before, after
  <2> QED
    BY <2>1
<1>9. entry' = IF waiters <= 1 THEN NoEvent ELSE entry
  BY <1>1 DEF Release
<1> QED
  BY <1>2, <1>6, <1>7, <1>8, <1>9

\* A poll that releases its event leaves the others with theirs.
LEMMA ReleaseStep ==
  ASSUME WaitInv, NEW p \in Polls, step[p] \in {"read", "wait"}, Release(p),
         NEW s \in {"idle", "reread"}, step' = [step EXCEPT ![p] = s],
         UNCHANGED <<row, isSet>>
  PROVE  WaitInv'
<1>1. PollTypeOK'
  BY ReleaseCounts DEF WaitInv, PollTypeOK, Release, row
<1>2. \A q \in Polls : /\ held'[q] = IF q = p THEN NoEvent ELSE held[q]
                       /\ step'[q] = IF q = p THEN s ELSE step[q]
  BY DEF Release, WaitInv, PollTypeOK
<1>3. HoldsWhileWaiting'
  BY <1>2 DEF HoldsWhileWaiting, WaitInv
<1>4. HoldsEntry'
  <2> SUFFICES ASSUME NEW q \in Polls, held'[q] # NoEvent PROVE held'[q] = entry'
    BY DEF HoldsEntry
  <2>1. q # p /\ held[q] # NoEvent /\ held'[q] = held[q] /\ q \in Holders'
    BY <1>2 DEF Holders
  <2>2. entry' = entry
    BY <2>1, ReleaseCounts
  <2> QED
    BY <2>1, <2>2 DEF HoldsEntry, WaitInv
<1>5. WaitersCounted'
  BY ReleaseCounts DEF WaitersCounted
<1>6. NoLostWakeUp'
  <2> SUFFICES ASSUME NEW q \in Polls, step'[q] = "wait"
               PROVE  /\ held'[q] = entry'
                      /\ job' # "pending" => isSet'[held'[q]] \/ owing' > 0
    BY DEF NoLostWakeUp
  <2>1. q # p /\ step[q] = "wait" /\ held'[q] = held[q]
    BY <1>2
  <2>2. held'[q] # NoEvent
    BY <2>1 DEF WaitInv, HoldsWhileWaiting
  <2> QED
    BY <1>4, <2>1, <2>2 DEF NoLostWakeUp, HoldsEntry, WaitInv, row
<1> QED
  BY <1>1, <1>3, <1>4, <1>5, <1>6 DEF WaitInv

\* A poll that prepares joins the event or creates it.
LEMMA PrepareStep ==
  ASSUME WaitInv, NEW p \in Polls, Prepare(p)
  PROVE  WaitInv'
<1>1. step[p] = "idle" /\ held[p] = NoEvent /\ p \notin Holders
  BY DEF Prepare, WaitInv, HoldsWhileWaiting, Holders
<1>2. /\ entry' \in Events
      /\ entry # NoEvent => entry' = entry /\ isSet' = isSet
      /\ isSet' \in [Events -> BOOLEAN]
      /\ held' = [held EXCEPT ![p] = entry']
      /\ step' = [step EXCEPT ![p] = "read"]
      /\ UNCHANGED row
  BY DEF Prepare, WaitInv, PollTypeOK
<1>3. \A q \in Polls : /\ held'[q] = IF q = p THEN entry' ELSE held[q]
                       /\ step'[q] = IF q = p THEN "read" ELSE step[q]
  BY <1>2 DEF WaitInv, PollTypeOK
<1>4. entry = NoEvent => Holders = {}
  BY DEF WaitInv, HoldsEntry, Holders
<1>5. Holders' = Holders \cup {p}
  BY <1>2, <1>3, NoEventAssumption DEF Holders
<1>6. Cardinality(Holders') = Cardinality(Holders) + 1
  BY <1>1, <1>5, HoldersFinite, FS_AddElement
<1>7. Cardinality(Holders') \in 0..Cardinality(Polls)
  <2>1. Holders' \in SUBSET Polls
    BY DEF Holders
  <2> QED
    BY <2>1, PollsAssumption, FS_Subset, FS_CardinalityType
<1>8. waiters' = Cardinality(Holders')
  <2>1. CASE entry = NoEvent
    <3>1. waiters' = 1
      BY <2>1 DEF Prepare
    <3> QED
      BY <1>4, <1>6, <2>1, <3>1, FS_EmptySet
  <2>2. CASE entry # NoEvent
    BY <1>6, <2>2 DEF Prepare, WaitInv, WaitersCounted
  <2> QED
    BY <2>1, <2>2
<1>9. PollTypeOK'
  BY <1>2, <1>7, <1>8 DEF WaitInv, PollTypeOK, row
<1>10. HoldsWhileWaiting'
  BY <1>2, <1>3, NoEventAssumption DEF WaitInv, HoldsWhileWaiting
<1>11. HoldsEntry'
  BY <1>2, <1>3, <1>4 DEF WaitInv, HoldsEntry, Holders
<1>12. WaitersCounted'
  BY <1>5, <1>8 DEF WaitersCounted
<1>13. NoLostWakeUp'
  <2> SUFFICES ASSUME NEW q \in Polls, step'[q] = "wait"
               PROVE  /\ held'[q] = entry'
                      /\ job' # "pending" => isSet'[held'[q]] \/ owing' > 0
    BY DEF NoLostWakeUp
  <2>1. q # p /\ step[q] = "wait" /\ held'[q] = held[q]
    BY <1>3
  <2>2. held[q] # NoEvent /\ held[q] = entry /\ entry # NoEvent
    BY <2>1 DEF WaitInv, HoldsWhileWaiting, HoldsEntry
  <2> QED
    BY <1>2, <2>1, <2>2 DEF WaitInv, NoLostWakeUp, row
<1> QED
  BY <1>9, <1>10, <1>11, <1>12, <1>13 DEF WaitInv

LEMMA WaitInvStep == WaitInv /\ [PollNext]_pollVars => WaitInv'
<1> SUFFICES ASSUME WaitInv, [PollNext]_pollVars PROVE WaitInv'
  OBVIOUS
<1>1. ASSUME NEW s \in {"pending", "answered", "ended"}, Commit(s) PROVE WaitInv'
  <2>1. Holders' = Holders /\ PollTypeOK'
    BY <1>1, BoundsAssumption DEF Commit, Holders, WaitInv, PollTypeOK, table
  <2> QED
    BY <1>1, <2>1 DEF Commit, table, WaitInv, PollTypeOK, HoldsWhileWaiting, HoldsEntry,
      WaitersCounted, NoLostWakeUp
<1>2. ASSUME SetJobEvent PROVE WaitInv'
  <2>1. Holders' = Holders /\ PollTypeOK'
    BY <1>2, BoundsAssumption DEF SetJobEvent, Holders, WaitInv, PollTypeOK
  <2>2. NoLostWakeUp'
    <3> SUFFICES ASSUME NEW q \in Polls, step'[q] = "wait"
                 PROVE  held'[q] = entry' /\ isSet'[held'[q]]
      BY DEF NoLostWakeUp
    <3>1. /\ held'[q] = held[q] /\ entry' = entry /\ step[q] = "wait"
          /\ held[q] = entry /\ held[q] # NoEvent
      BY <1>2 DEF SetJobEvent, WaitInv, NoLostWakeUp, HoldsWhileWaiting
    <3> QED
      BY <1>2, <3>1 DEF SetJobEvent, WaitInv, PollTypeOK
  <2> QED
    BY <1>2, <2>1, <2>2 DEF SetJobEvent, WaitInv, HoldsWhileWaiting, HoldsEntry,
      WaitersCounted
<1>3. ASSUME NEW p \in Polls, Prepare(p) PROVE WaitInv'
  BY <1>3, PrepareStep
<1>4. ASSUME NEW p \in Polls, StartWait(p) PROVE WaitInv'
  <2>1. /\ Holders' = Holders /\ PollTypeOK'
        /\ \A q \in Polls : step'[q] = IF q = p THEN "wait" ELSE step[q]
    BY <1>4 DEF StartWait, Holders, WaitInv, PollTypeOK, row, table
  <2>2. UNCHANGED <<job, owing, entry, waiters, isSet, held>> /\ job = "pending" /\ step[p] = "read"
    BY <1>4 DEF StartWait, row, table
  <2>3. HoldsWhileWaiting' /\ HoldsEntry' /\ WaitersCounted'
    BY <2>1, <2>2 DEF WaitInv, HoldsWhileWaiting, HoldsEntry, WaitersCounted
  <2>4. NoLostWakeUp'
    BY <2>1, <2>2 DEF WaitInv, HoldsWhileWaiting, HoldsEntry, NoLostWakeUp
  <2> QED
    BY <2>1, <2>3, <2>4 DEF WaitInv
<1>5. ASSUME NEW p \in Polls, ReturnAtOnce(p) PROVE WaitInv'
  BY <1>5, ReleaseStep DEF ReturnAtOnce
<1>6. ASSUME NEW p \in Polls, Leave(p) PROVE WaitInv'
  BY <1>6, ReleaseStep DEF Leave
<1>7. ASSUME NEW p \in Polls, Reread(p) PROVE WaitInv'
  <2>1. /\ Holders' = Holders /\ PollTypeOK'
        /\ \A q \in Polls : step'[q] = IF q = p THEN "idle" ELSE step[q]
    BY <1>7 DEF Reread, Holders, WaitInv, PollTypeOK, row, table
  <2> QED
    BY <1>7, <2>1 DEF Reread, row, table, WaitInv, HoldsWhileWaiting, HoldsEntry,
      WaitersCounted, NoLostWakeUp
<1>8. CASE UNCHANGED pollVars
  <2>1. Holders' = Holders
    BY <1>8 DEF pollVars, Holders
  <2> QED
    BY <1>8, <2>1 DEF pollVars, row, table, WaitInv, PollTypeOK, HoldsWhileWaiting, HoldsEntry,
      WaitersCounted, NoLostWakeUp
<1> QED
  BY <1>1, <1>2, <1>3, <1>4, <1>5, <1>6, <1>7, <1>8 DEF PollNext, Poll, Wake, Timeout

LEMMA WaitInvInit == PollInit => WaitInv
<1> SUFFICES ASSUME PollInit PROVE WaitInv
  OBVIOUS
<1>1. Holders = {}
  BY DEF PollInit, Holders
<1>2. waiters = Cardinality(Holders)
  BY <1>1, FS_EmptySet DEF PollInit
<1>3. PollTypeOK
  BY <1>2, HoldersFinite, BoundsAssumption DEF PollInit, PollTypeOK
<1> QED
  BY <1>1, <1>2, <1>3 DEF PollInit, WaitInv, HoldsWhileWaiting, HoldsEntry, WaitersCounted,
    NoLostWakeUp

LEMMA WaitInvariant == PollSpec => []WaitInv
  BY WaitInvInit, WaitInvStep, PTL DEF PollSpec

\* RuntimeRegistry.job_event_waiters is the number of polls in
\* prepare_job_wait .. release_prepared_job_event, and the dictionaries are
\* empty when there is none, for any number of polls and writers.
THEOREM CountIsExact == PollSpec => [](PollTypeOK /\ WaitersCounted)
<1>1. WaitInv => PollTypeOK /\ WaitersCounted
  BY DEF WaitInv
<1> QED
  BY WaitInvariant, <1>1, PTL

\* No poll of wait_for_answer sleeps through a change committed after its
\* first read: the writer sets the very event it waits on.
THEOREM NoWakeUpIsLost == PollSpec => []NoLostWakeUp
<1>1. WaitInv => NoLostWakeUp
  BY DEF WaitInv
<1> QED
  BY WaitInvariant, <1>1, PTL

-----------------------------------------------------------------------------
(* A session, for any number of tabs and rotations, when the grace window remembers *)
(* as many tokens as there are other tabs. *)

StepNames == {"idle", "denied", "csrf", "refresh", "refreshed", "leaving"}
TabRecords == [step : StepNames, token : Nat, csrf : BOOLEAN, retry : BOOLEAN]
Reasons == {"no", "reuse", "inactive", "logout"}

TokensTyped ==
    /\ session \in [jti : Nat, grace : Seq(Nat), open : BOOLEAN, revoked : Reasons]
    /\ cookies \in [refresh : Nat, access : BOOLEAN]
    /\ tab \in [Tabs -> TabRecords]
    /\ slow \in BOOLEAN

AcceptedIn(one, token) == token = one.jti \/ (one.open /\ Contains(one.grace, token))
Accepted(token) == AcceptedIn(session, token)

(* The tabs that may still present a token before the access token expires    *)
(* again.                                                                     *)
PendingTabs == {t \in Tabs : \/ tab[t].step \in {"denied", "csrf", "refresh"}
                             \/ tab[t].step = "idle" /\ ~cookies.access}

Bearing(t) == tab[t].step = "refreshed" /\ tab[t].token # NoToken

(* The newest refresh token is in the browser, or in the one answer on its way *)
(* to it; the token that the browser has meanwhile is good for another tab.   *)
CookiePlace ==
    \/ /\ cookies.refresh = session.jti
       /\ \A t \in Tabs : ~Bearing(t)
    \/ /\ cookies.refresh < session.jti /\ session.open
       /\ \E t \in Tabs : /\ Bearing(t) /\ tab[t].token = session.jti
                          /\ \A s \in Tabs \ {t} : ~Bearing(s)
       /\ PendingTabs # {} => Accepted(cookies.refresh)

RequestsAccepted ==
    \A t \in Tabs : InFlight(t) => tab[t].token <= cookies.refresh /\ Accepted(tab[t].token)

GraceHasRoom == session.open => Len(session.grace) + Cardinality(PendingTabs) <= Cardinality(Tabs)

Sound == CookiePlace /\ RequestsAccepted /\ GraceHasRoom

(* Who is on the way out has ended the session.                               *)
LeavingIsRevoked == \A t \in Tabs : tab[t].step = "leaving" => session.revoked # "no"

TokensInv ==
    /\ TokensTyped /\ LeavingIsRevoked
    /\ slow \/ session.revoked # "no" \/ Sound
    /\ NoFalseReuse

(* ------------------------------------------------------------------ typing *)

LEMMA TabFields ==
  ASSUME TokensTyped, NEW t \in Tabs
  PROVE  /\ tab[t] \in TabRecords /\ tab[t].step \in StepNames /\ tab[t].token \in Nat
         /\ tab[t].csrf \in BOOLEAN /\ tab[t].retry \in BOOLEAN
<1>1. tab[t] \in TabRecords
  BY DEF TokensTyped
<1> QED
  BY <1>1 DEF TabRecords

LEMMA SharedFields ==
  ASSUME TokensTyped
  PROVE  /\ session.jti \in Nat /\ session.grace \in Seq(Nat) /\ session.open \in BOOLEAN
         /\ session.revoked \in Reasons
         /\ cookies.refresh \in Nat /\ cookies.access \in BOOLEAN
BY DEF TokensTyped

(* The record of a tab that moves.                                            *)
LEMMA MovedTab ==
  ASSUME TokensTyped, NEW t \in Tabs, NEW new \in TabRecords, tab' = [tab EXCEPT ![t] = new]
  PROVE  /\ tab' \in [Tabs -> TabRecords]
         /\ \A s \in Tabs : tab'[s] = IF s = t THEN new ELSE tab[s]
BY DEF TokensTyped

LEMMA IdleIsATab == ASSUME NEW csrf \in BOOLEAN
                    PROVE  /\ Resting(csrf) \in TabRecords /\ Resting(csrf).step = "idle"
                           /\ Resting(csrf).token = NoToken
BY DEF Resting, TabRecords, StepNames, NoToken

(* What rotation leaves in the window: the tokens it had and the one before,  *)
(* as long as there is room.                                                  *)
LEMMA RotationKeeps ==
  ASSUME TokensTyped, GraceHashes \in Nat, NEW token \in Nat
  PROVE  LET new == Rotated(token)
             old == IF session.open THEN session.grace ELSE <<>> IN
         /\ new \in [jti : Nat, grace : Seq(Nat), open : BOOLEAN, revoked : Reasons]
         /\ new.jti = token /\ new.open = TRUE /\ new.revoked = session.revoked
         /\ Len(new.grace) <= Len(old) + 1
         /\ Len(old) + 1 <= GraceHashes =>
               /\ Contains(new.grace, session.jti)
               /\ \A e : Contains(old, e) => Contains(new.grace, e)
<1> DEFINE old == IF session.open THEN session.grace ELSE <<>>
           all == IF Contains(old, session.jti) THEN old ELSE Append(old, session.jti)
           drop == IF Len(all) > GraceHashes THEN Len(all) - GraceHashes ELSE 0
           rest == SubSeq(all, drop + 1, Len(all))
           new == [session EXCEPT !.jti = token, !.open = TRUE, !.grace = rest]
<1>1. old \in Seq(Nat) /\ session.jti \in Nat
  BY SharedFields
<1>2. /\ all \in Seq(Nat) /\ Len(all) <= Len(old) + 1
      /\ Contains(all, session.jti) /\ \A e : Contains(old, e) => Contains(all, e)
  <2> HIDE DEF old
  <2>1. Len(old) \in Nat
    BY <1>1
  <2>2. CASE Contains(old, session.jti)
    BY <1>1, <2>1, <2>2
  <2>3. CASE ~Contains(old, session.jti)
    <3>1. /\ all = Append(old, session.jti) /\ all \in Seq(Nat) /\ Len(all) = Len(old) + 1
          /\ \A i \in 1..Len(old) : all[i] = old[i]
          /\ all[Len(old) + 1] = session.jti
      BY <1>1, <2>3, AppendProperties
    <3> HIDE DEF all
    <3>2. Contains(all, session.jti)
      BY <2>1, <3>1 DEF Contains
    <3>3. \A e : Contains(old, e) => Contains(all, e)
      BY <2>1, <3>1 DEF Contains
    <3> QED
      BY <2>1, <3>1, <3>2, <3>3
  <2> QED
    BY <2>2, <2>3
<1>3. rest \in Seq(Nat) /\ Len(rest) <= Len(old) + 1
      /\ (Len(old) + 1 <= GraceHashes => rest = all)
  <2> HIDE DEF old, all
  <2>1. Len(all) \in Nat /\ Len(old) \in Nat /\ drop \in 0..Len(all)
    BY <1>1, <1>2
  <2> HIDE DEF drop
  <2>2. rest \in Seq(Nat) /\ Len(rest) = Len(all) - drop
    BY <1>2, <2>1
  <2>3. Len(all) <= GraceHashes => drop = 0
    BY <2>1 DEF drop
  <2>4. drop = 0 => rest = all
    BY <1>2, <2>1
  <2> QED
    BY <1>2, <2>1, <2>2, <2>3, <2>4
<1> HIDE DEF old, all, drop, rest
<1>4. Rotated(token) = new
  BY DEF Rotated, old, all, drop, rest
<1>5. /\ new \in [jti : Nat, grace : Seq(Nat), open : BOOLEAN, revoked : Reasons]
      /\ new.jti = token /\ new.open = TRUE /\ new.revoked = session.revoked
      /\ new.grace = rest
  BY <1>3 DEF TokensTyped
<1> HIDE DEF new
<1> QED
  BY <1>2, <1>3, <1>4, <1>5 DEF old

(* ------------------------------------------------------------------- steps *)

LEMMA PendingIsFinite ==
  ASSUME IsFiniteSet(Tabs)
  PROVE  /\ IsFiniteSet(PendingTabs) /\ Cardinality(PendingTabs) \in Nat /\ Cardinality(Tabs) \in Nat
         /\ Cardinality(PendingTabs) <= Cardinality(Tabs)
<1>1. PendingTabs \in SUBSET Tabs
  BY DEF PendingTabs
<1> QED
  BY <1>1, FS_Subset, FS_CardinalityType

LEMMA PendingShrinks ==
  ASSUME IsFiniteSet(Tabs), PendingTabs' \subseteq PendingTabs
  PROVE  Cardinality(PendingTabs') \in Nat /\ Cardinality(PendingTabs') <= Cardinality(PendingTabs)
<1>1. IsFiniteSet(PendingTabs) /\ PendingTabs' \in SUBSET PendingTabs
  BY PendingIsFinite
<1>2. IsFiniteSet(PendingTabs') /\ Cardinality(PendingTabs') <= Cardinality(PendingTabs)
  BY <1>1, FS_Subset, Zenon
<1> QED
  BY <1>2, FS_CardinalityType, Zenon

(* A tab moves, brings nothing new to the browser and presents only what is    *)
(* accepted.                                                                  *)
LEMMA OneTabMoves ==
  ASSUME IsFiniteSet(Tabs), TokensTyped, Sound, NEW t \in Tabs, NEW new \in TabRecords,
         tab' = [tab EXCEPT ![t] = new], session' = session,
         cookies'.refresh = cookies.refresh,
         cookies'.access = cookies.access \/ cookies'.access = TRUE,
         ~Bearing(t), new.step = "refreshed" => new.token = NoToken,
         new.step \in {"csrf", "refresh"}
            => new.token <= cookies.refresh /\ Accepted(new.token),
         new.step \in {"denied", "csrf", "refresh"} => t \in PendingTabs,
         new.step = "idle" /\ ~cookies'.access => t \in PendingTabs
  PROVE  Sound'
<1>1. \A s \in Tabs : tab'[s] = IF s = t THEN new ELSE tab[s]
  BY MovedTab
<1>2. PendingTabs' \subseteq PendingTabs
  BY <1>1 DEF PendingTabs
<1>3. \A e : AcceptedIn(session', e) <=> Accepted(e)
  BY DEF Accepted
<1>4. \A s \in Tabs : Bearing(s)' <=> Bearing(s)
  BY <1>1 DEF Bearing
<1>5. CookiePlace'
  <2>1. PendingTabs' # {} => PendingTabs # {}
    BY <1>2
  <2>2. CASE cookies.refresh = session.jti /\ \A s \in Tabs : ~Bearing(s)
    BY <2>2, <1>4 DEF CookiePlace
  <2>3. CASE /\ cookies.refresh < session.jti /\ session.open
             /\ PendingTabs # {} => Accepted(cookies.refresh)
             /\ \E s \in Tabs : /\ Bearing(s) /\ tab[s].token = session.jti
                                /\ \A u \in Tabs \ {s} : ~Bearing(u)
    <3>1. PICK s \in Tabs : /\ Bearing(s) /\ tab[s].token = session.jti
                            /\ \A u \in Tabs \ {s} : ~Bearing(u)
      BY <2>3
    <3>2. s # t /\ tab'[s] = tab[s]
      BY <3>1, <1>1
    <3>3. Bearing(s)' /\ tab'[s].token = session'.jti
          /\ \A u \in Tabs \ {s} : ~Bearing(u)'
      BY <3>1, <3>2, <1>4
    <3>4. PendingTabs' # {} => Accepted(cookies.refresh)'
      BY <2>1, <2>3, <1>3 DEF Accepted
    <3> QED
      BY <2>3, <3>3, <3>4 DEF CookiePlace
  <2> QED
    BY <2>2, <2>3 DEF Sound, CookiePlace
<1>6. RequestsAccepted'
  BY <1>1, <1>3 DEF Sound, RequestsAccepted, InFlight, Accepted
<1>7. GraceHasRoom'
  <2>1. Len(session.grace) \in Nat
    BY SharedFields
  <2> QED
    BY <1>2, <2>1, PendingIsFinite, PendingShrinks DEF Sound, GraceHasRoom
<1> QED
  BY <1>5, <1>6, <1>7 DEF Sound

(* The answer with the newest token reaches the browser.                      *)
LEMMA BearerArrives ==
  ASSUME IsFiniteSet(Tabs), TokensTyped, Sound, NEW t \in Tabs, Bearing(t), Refreshed(t)
  PROVE  Sound'
<1> DEFINE new == Resting(TRUE)
<1>1. /\ tab[t].token = session.jti /\ cookies.refresh < session.jti
      /\ \A s \in Tabs \ {t} : ~Bearing(s)
  BY DEF Sound, CookiePlace
<1>2. new \in TabRecords /\ new.step = "idle"
  BY IdleIsATab
<1>3. /\ tab' = [tab EXCEPT ![t] = new] /\ session' = session
      /\ cookies'.refresh = session.jti /\ cookies'.access = TRUE
  BY <1>1 DEF Refreshed, Bearing
<1> HIDE DEF new
<1>4. \A s \in Tabs : tab'[s] = IF s = t THEN new ELSE tab[s]
  BY <1>2, <1>3, MovedTab
<1>5. PendingTabs' \subseteq PendingTabs
  BY <1>2, <1>3, <1>4 DEF PendingTabs
<1>6. CookiePlace'
  <2>1. \A s \in Tabs : ~Bearing(s)'
    BY <1>1, <1>2, <1>4 DEF Bearing
  <2> QED
    BY <1>3, <2>1 DEF CookiePlace
<1>7. RequestsAccepted'
  <2>1. ASSUME NEW s \in Tabs, InFlight(s)'
        PROVE  tab'[s].token <= cookies'.refresh /\ AcceptedIn(session', tab'[s].token)
    <3>1. s # t /\ tab'[s] = tab[s] /\ InFlight(s)
      BY <2>1, <1>2, <1>4 DEF InFlight
    <3>2. tab[s].token <= cookies.refresh /\ Accepted(tab[s].token)
      BY <3>1 DEF Sound, RequestsAccepted
    <3>3. tab[s].token \in Nat /\ cookies.refresh \in Nat /\ session.jti \in Nat
      BY TabFields, SharedFields
    <3> QED
      BY <1>1, <1>3, <3>1, <3>2, <3>3 DEF Accepted
  <2> QED
    BY <2>1 DEF RequestsAccepted, Accepted
<1>8. GraceHasRoom'
  <2>1. Len(session.grace) \in Nat
    BY SharedFields
  <2> QED
    BY <1>3, <1>5, <2>1, PendingIsFinite, PendingShrinks DEF Sound, GraceHasRoom
<1> QED
  BY <1>6, <1>7, <1>8 DEF Sound

(* A rotation: the tab that made it is no longer among those that may present  *)
(* a token, so that the window has room for the token before.                 *)
LEMMA RotationIsSound ==
  ASSUME IsFiniteSet(Tabs), GraceHashes \in Nat, GraceHashes + 1 >= Cardinality(Tabs),
         TokensTyped, Sound, NEW t \in Tabs, tab[t].step = "refresh", IsCurrent(tab[t].token),
         session' = Rotated(session.jti + 1), cookies' = cookies,
         tab' = [tab EXCEPT ![t].step = "refreshed", ![t].token = session.jti + 1]
  PROVE  Sound'
<1> DEFINE new == [tab[t] EXCEPT !.step = "refreshed", !.token = session.jti + 1]
           old == IF session.open THEN session.grace ELSE <<>>
<1>1. session.jti \in Nat /\ session.grace \in Seq(Nat) /\ session.open \in BOOLEAN
      /\ cookies.refresh \in Nat /\ tab[t] \in TabRecords
  BY SharedFields, TabFields
<1>2. tab' = [tab EXCEPT ![t] = new]
  OBVIOUS
<1>3. new \in TabRecords /\ new.step = "refreshed" /\ new.token = session.jti + 1
  <2>1. session.jti + 1 \in Nat /\ "refreshed" \in StepNames
    BY <1>1 DEF StepNames
  <2> QED
    BY <1>1, <2>1 DEF TabRecords
<1> HIDE DEF new
<1>4. \A s \in Tabs : tab'[s] = IF s = t THEN new ELSE tab[s]
  BY <1>2, <1>3, MovedTab
<1>5. /\ session'.jti = session.jti + 1 /\ session'.open = TRUE
      /\ session'.grace \in Seq(Nat) /\ Len(session'.grace) <= Len(old) + 1
      /\ Len(old) + 1 <= GraceHashes =>
            /\ Contains(session'.grace, session.jti)
            /\ \A e : Contains(old, e) => Contains(session'.grace, e)
  <2> HIDE DEF old
  <2>1. session.jti + 1 \in Nat
    BY <1>1
  <2> QED
    BY <2>1, RotationKeeps DEF old
<1>6. Len(old) \in Nat /\ Len(session'.grace) \in Nat
  BY <1>1, <1>5
<1>7. t \in PendingTabs /\ PendingTabs' \subseteq PendingTabs \ {t}
  BY <1>3, <1>4 DEF PendingTabs
<1>8. /\ Cardinality(PendingTabs') \in Nat /\ Cardinality(PendingTabs) \in Nat
      /\ Cardinality(Tabs) \in Nat /\ Cardinality(PendingTabs) <= Cardinality(Tabs)
      /\ Cardinality(PendingTabs') + 1 <= Cardinality(PendingTabs)
      /\ PendingTabs' # {} => Cardinality(PendingTabs') # 0
  <2>1. IsFiniteSet(PendingTabs \ {t}) /\ Cardinality(PendingTabs \ {t}) = Cardinality(PendingTabs) - 1
    BY <1>7, PendingIsFinite, FS_RemoveElement
  <2>2. IsFiniteSet(PendingTabs') /\ Cardinality(PendingTabs') <= Cardinality(PendingTabs \ {t})
    BY <1>7, <2>1, FS_Subset
  <2>3. Cardinality(PendingTabs') \in Nat /\ (PendingTabs' # {} => Cardinality(PendingTabs') # 0)
    BY <2>2, FS_CardinalityType, FS_EmptySet, Zenon
  <2> QED
    BY <2>1, <2>2, <2>3, PendingIsFinite
<1>9. Len(old) + Cardinality(PendingTabs) <= Cardinality(Tabs)
  BY <1>1, <1>8 DEF Sound, GraceHasRoom
<1>10. PendingTabs' # {} => Len(old) + 1 <= GraceHashes
  BY <1>6, <1>8, <1>9
<1>11. cookies.refresh = session.jti /\ \A s \in Tabs \ {t} : ~Bearing(s)
  <2>1. tab[t].token <= cookies.refresh /\ tab[t].token = session.jti
    BY DEF Sound, RequestsAccepted, InFlight, IsCurrent
  <2> QED
    BY <1>1, <2>1 DEF Sound, CookiePlace
<1>12. PendingTabs' # {} => AcceptedIn(session', session.jti)
  BY <1>5, <1>10 DEF AcceptedIn
<1>13. CookiePlace'
  <2>1. cookies'.refresh < session'.jti
    BY <1>1, <1>5, <1>11
  <2>2. Bearing(t)' /\ tab'[t].token = session'.jti
    <3>1. tab'[t] = new
      BY <1>4
    <3>2. session.jti + 1 # NoToken
      BY <1>1 DEF NoToken
    <3> QED
      BY <1>3, <1>5, <3>1, <3>2 DEF Bearing, NoToken
  <2>3. \A s \in Tabs \ {t} : ~Bearing(s)'
    BY <1>4, <1>11 DEF Bearing
  <2>4. PendingTabs' # {} => Accepted(cookies.refresh)'
    BY <1>11, <1>12 DEF Accepted
  <2> QED
    BY <1>5, <2>1, <2>2, <2>3, <2>4 DEF CookiePlace
<1>14. RequestsAccepted'
  <2>1. ASSUME NEW s \in Tabs, InFlight(s)'
        PROVE  tab'[s].token <= cookies'.refresh /\ AcceptedIn(session', tab'[s].token)
    <3>1. s # t /\ tab'[s] = tab[s] /\ InFlight(s) /\ s \in PendingTabs'
      BY <2>1, <1>3, <1>4 DEF InFlight, PendingTabs
    <3>2. tab[s].token <= cookies.refresh /\ Accepted(tab[s].token)
      BY <3>1 DEF Sound, RequestsAccepted
    <3>3. Contains(session'.grace, tab[s].token)
      BY <1>1, <1>5, <1>10, <3>1, <3>2 DEF Accepted, AcceptedIn
    <3> QED
      BY <1>5, <3>1, <3>2, <3>3 DEF AcceptedIn
  <2> QED
    BY <2>1 DEF RequestsAccepted, Accepted
<1>15. GraceHasRoom'
  BY <1>5, <1>6, <1>8, <1>9 DEF GraceHasRoom
<1> QED
  BY <1>13, <1>14, <1>15 DEF Sound

(* A step of a tab keeps the types; so do those that end it.                  *)
LEMMA StepRecord ==
  ASSUME TokensTyped, NEW t \in Tabs, NEW now \in StepNames
  PROVE  /\ [tab[t] EXCEPT !.step = now] \in TabRecords
         /\ [tab[t] EXCEPT !.step = now].step = now
         /\ [tab[t] EXCEPT !.step = now].token = tab[t].token
BY TabFields DEF TabRecords

LEMMA TokenRecord ==
  ASSUME TokensTyped, NEW t \in Tabs, NEW now \in StepNames, NEW token \in Nat
  PROVE  /\ [tab[t] EXCEPT !.step = now, !.token = token] \in TabRecords
         /\ [tab[t] EXCEPT !.step = now, !.token = token].step = now
         /\ [tab[t] EXCEPT !.step = now, !.token = token].token = token
BY TabFields DEF TabRecords

(* Whatever the answer of the server: the tab fails, the session is as it was *)
(* or revoked.                                                                *)
LEMMA FailureIsTyped ==
  ASSUME TokensTyped, NEW t \in Tabs, TabFails(t), cookies' = cookies, slow' \in BOOLEAN,
         session' = session \/ \E reason \in Reasons : Revoke(reason)
  PROVE  TokensTyped'
<1>1. Resting(tab[t].csrf) \in TabRecords
  BY TabFields, IdleIsATab
<1>2. tab' \in [Tabs -> TabRecords]
  BY <1>1, MovedTab DEF TabFails
<1>3. session' \in [jti : Nat, grace : Seq(Nat), open : BOOLEAN, revoked : Reasons]
  BY DEF Revoke, TokensTyped
<1> QED
  BY <1>2, <1>3 DEF TokensTyped

LEMMA FailureIsSound ==
  ASSUME IsFiniteSet(Tabs), TokensTyped, Sound, NEW t \in Tabs, TabFails(t), session' = session,
         cookies' = cookies, tab[t].step # "refreshed", t \in PendingTabs
  PROVE  Sound'
<1>1. Resting(tab[t].csrf) \in TabRecords /\ Resting(tab[t].csrf).step = "idle"
  BY TabFields, IdleIsATab
<1>2. tab' = [tab EXCEPT ![t] = Resting(tab[t].csrf)] /\ ~Bearing(t)
  BY DEF TabFails, Bearing
<1> QED
  BY <1>1, <1>2, OneTabMoves

(* ---------------------------------------------------------- every action *)

LEMMA TypesAreKept ==
  ASSUME TokensTyped, GraceHashes \in Nat, [TokenNext]_tokenVars
  PROVE  TokensTyped'
<1>1. CASE AccessExpires \/ GraceEnds
  BY <1>1 DEF AccessExpires, GraceEnds, TokensTyped
<1>2. CASE UNCHANGED tokenVars
  BY <1>2 DEF tokenVars, TokensTyped
<1>3. ASSUME NEW t \in Tabs, NEW now \in StepNames, Go(t, now),
             cookies' = cookies, slow' = slow,
             session' = session \/ \E reason \in Reasons : Revoke(reason)
      PROVE  TokensTyped'
  <2>1. tab' = [tab EXCEPT ![t] = [tab[t] EXCEPT !.step = now]]
    BY <1>3 DEF Go
  <2>2. tab' \in [Tabs -> TabRecords]
    BY <2>1, StepRecord, MovedTab
  <2>3. session' \in [jti : Nat, grace : Seq(Nat), open : BOOLEAN, revoked : Reasons]
    BY <1>3 DEF Revoke, TokensTyped
  <2> QED
    BY <1>3, <2>2, <2>3 DEF TokensTyped
<1>4. ASSUME NEW t \in Tabs, Denied(t) \/ Logout(t) PROVE TokensTyped'
  <2>1. {"denied", "leaving"} \subseteq StepNames /\ "logout" \in Reasons
    BY DEF StepNames, Reasons
  <2> QED
    BY <1>3, <1>4, <2>1 DEF Denied, Logout
<1>5. ASSUME NEW t \in Tabs, SendRequest(t) PROVE TokensTyped'
  <2>1. CASE TabFails(t)
    BY <1>5, <2>1, FailureIsTyped DEF SendRequest, TokensTyped
  <2>2. CASE \E now \in {"refresh", "csrf"} : SendCookie(t, now)
    <3>1. PICK now \in StepNames : SendCookie(t, now)
      BY <2>2 DEF StepNames
    <3>2. tab' \in [Tabs -> TabRecords]
      <4>1. tab' = [tab EXCEPT ![t] = [tab[t] EXCEPT !.step = now, !.token = cookies.refresh]]
        BY <3>1 DEF SendCookie
      <4> QED
        BY <4>1, TokenRecord, SharedFields, MovedTab
    <3> QED
      BY <1>5, <3>2 DEF SendRequest, TokensTyped
  <2> QED
    BY <1>5, <2>1, <2>2 DEF SendRequest
<1>6. ASSUME NEW t \in Tabs, Refreshed(t) PROVE TokensTyped'
  <2>1. Resting(TRUE) \in TabRecords
    BY IdleIsATab
  <2>2. tab' \in [Tabs -> TabRecords]
    BY <1>6, <2>1, MovedTab DEF Refreshed
  <2>3. cookies' \in [refresh : Nat, access : BOOLEAN]
    BY <1>6, TabFields, SharedFields DEF Refreshed
  <2> QED
    BY <1>6, <2>2, <2>3 DEF Refreshed, TokensTyped
<1>7. ASSUME NEW t \in Tabs, NetworkFails(t) \/ UserInactive(t) PROVE TokensTyped'
  <2>1. "inactive" \in Reasons /\ slow' \in BOOLEAN
    BY <1>7 DEF NetworkFails, UserInactive, Reasons, TokensTyped
  <2> QED
    BY <1>7, <2>1, FailureIsTyped DEF NetworkFails, UserInactive
<1>8. ASSUME NEW t \in Tabs, LoggedOut(t) PROVE TokensTyped'
  <2>1. Resting(tab[t].csrf) \in TabRecords
    BY TabFields, IdleIsATab
  <2> QED
    BY <1>8, <2>1, MovedTab DEF LoggedOut, TabFails, TokensTyped, NoToken
<1>9. ASSUME NEW t \in Tabs, Csrf(t) \/ CsrfExpired(t) PROVE TokensTyped'
  <2>1. CASE TabFails(t)
    <3>1. "reuse" \in Reasons /\ slow' \in BOOLEAN
      BY <1>9 DEF Csrf, CsrfExpired, Reasons, TokensTyped
    <3> QED
      BY <1>9, <2>1, <3>1, FailureIsTyped DEF Csrf, CsrfExpired
  <2>2. CASE ~TabFails(t)
    <3>1. \E new \in TabRecords : tab' = [tab EXCEPT ![t] = new]
      <4>1. CASE Csrf(t)
        <5>1. [tab[t] EXCEPT !.step = "denied", !.csrf = TRUE] \in TabRecords
          BY TabFields DEF TabRecords, StepNames
        <5>2. tab' = [tab EXCEPT ![t] = [tab[t] EXCEPT !.step = "denied", !.csrf = TRUE]]
          BY <2>2, <4>1 DEF Csrf
        <5> QED
          BY <5>1, <5>2
      <4>2. CASE CsrfExpired(t)
        <5> DEFINE new == [tab[t] EXCEPT !.step = "denied", !.csrf = FALSE, !.retry = FALSE]
        <5>1. new \in TabRecords
          BY TabFields DEF TabRecords, StepNames
        <5>2. tab' = [tab EXCEPT ![t] = new]
          BY <2>2, <4>2 DEF CsrfExpired
        <5> QED
          BY <5>1, <5>2
      <4> QED
        BY <1>9, <4>1, <4>2
    <3>2. tab' \in [Tabs -> TabRecords] /\ session' = session
      BY <1>9, <2>2, <3>1, MovedTab DEF Csrf, CsrfExpired
    <3> QED
      BY <1>9, <3>2 DEF Csrf, CsrfExpired, TokensTyped
  <2> QED
    BY <2>1, <2>2
<1>10. ASSUME NEW t \in Tabs, Refresh(t) PROVE TokensTyped'
  <2>1. CASE TabFails(t)
    <3>1. "reuse" \in Reasons /\ slow' \in BOOLEAN
      BY <1>10 DEF Refresh, Reasons, TokensTyped
    <3>2. CASE session' = session \/ Revoke("reuse")
      BY <1>10, <2>1, <3>1, <3>2, FailureIsTyped DEF Refresh
    <3>3. CASE session' = Rotated(session.jti + 1)
      <4>1. session.jti + 1 \in Nat
        BY SharedFields
      <4>2. session' \in [jti : Nat, grace : Seq(Nat), open : BOOLEAN, revoked : Reasons]
        BY <3>3, <4>1, RotationKeeps
      <4>3. tab' \in [Tabs -> TabRecords]
        BY <2>1, TabFields, IdleIsATab, MovedTab DEF TabFails
      <4> QED
        BY <1>10, <4>2, <4>3 DEF Refresh, TokensTyped
    <3> QED
      BY <1>10, <3>2, <3>3 DEF Refresh
  <2>2. CASE ~TabFails(t)
    <3>1. PICK token \in {NoToken, session.jti + 1} :
             tab' = [tab EXCEPT ![t].step = "refreshed", ![t].token = token]
      BY <1>10, <2>2 DEF Refresh
    <3>2. token \in Nat /\ session.jti + 1 \in Nat /\ "refreshed" \in StepNames
      BY SharedFields DEF NoToken, StepNames
    <3>3. tab' = [tab EXCEPT ![t] = [tab[t] EXCEPT !.step = "refreshed", !.token = token]]
      BY <3>1
    <3>4. tab' \in [Tabs -> TabRecords]
      BY <3>2, <3>3, TokenRecord, MovedTab
    <3>5. session' \in [jti : Nat, grace : Seq(Nat), open : BOOLEAN, revoked : Reasons]
      BY <1>10, <2>2, <3>2, RotationKeeps DEF Refresh, TokensTyped
    <3> QED
      BY <1>10, <3>4, <3>5 DEF Refresh, TokensTyped
  <2> QED
    BY <2>1, <2>2
<1> QED
  BY <1>1, <1>2, <1>4, <1>5, <1>6, <1>7, <1>8, <1>9, <1>10 DEF TokenNext, TabSteps

(* ------------------------------------------------------- the tokens there are *)

(* A token is one that a rotation made, wherever it is.                       *)
TokensMade ==
    /\ TokensTyped
    /\ session.jti \in Tokens /\ session.grace \in Seq(Tokens)
    /\ cookies.refresh \in Tokens \cup {NoToken}
    /\ \A t \in Tabs : tab[t].token \in Tokens \cup {NoToken}
    /\ expiries \in 0..MaxExpiries

LEMMA RotationOfMade ==
  ASSUME TokensMade, GraceHashes \in Nat, NEW token
  PROVE  Rotated(token).grace \in Seq(Tokens) /\ Rotated(token).jti = token
<1> DEFINE old == IF session.open THEN session.grace ELSE <<>>
           all == IF Contains(old, session.jti) THEN old ELSE Append(old, session.jti)
           drop == IF Len(all) > GraceHashes THEN Len(all) - GraceHashes ELSE 0
           rest == SubSeq(all, drop + 1, Len(all))
           new == [session EXCEPT !.jti = token, !.open = TRUE, !.grace = rest]
<1>1. old \in Seq(Tokens) /\ session.jti \in Tokens
  BY EmptySeq DEF TokensMade
<1>2. all \in Seq(Tokens) /\ Len(all) \in Nat
  <2> HIDE DEF old
  <2> QED
    BY <1>1, AppendProperties
<1>3. rest \in Seq(Tokens)
  <2> HIDE DEF old, all
  <2>1. drop \in 0..Len(all)
    BY <1>2
  <2> HIDE DEF drop
  <2>2. drop + 1 \in Int /\ Len(all) \in Int /\ \A i \in (drop + 1)..Len(all) : all[i] \in Tokens
    BY <1>2, <2>1
  <2> QED
    BY <2>2, SubSeqProperties
<1> HIDE DEF old, all, drop, rest
<1>4. Rotated(token) = new
  BY DEF Rotated, old, all, drop, rest
<1>5. new.jti = token /\ new.grace = rest
  BY DEF TokensMade, TokensTyped
<1> QED
  BY <1>3, <1>4, <1>5

(* A tab that keeps its token, forgets it, or is given one that there is.      *)
LEMMA TabKeepsMade ==
  ASSUME TokensMade, TokensTyped', NEW t \in Tabs, NEW new, tab' = [tab EXCEPT ![t] = new],
         new.token \in Tokens \cup {NoToken}, cookies' = cookies, session' = session,
         expiries' = expiries
  PROVE  TokensMade'
<1>1. \A s \in Tabs : tab'[s] = IF s = t THEN new ELSE tab[s]
  BY DEF TokensMade, TokensTyped
<1>2. \A s \in Tabs : tab'[s].token \in Tokens \cup {NoToken}
  BY <1>1 DEF TokensMade
<1> QED
  BY <1>2 DEF TokensMade

LEMMA MadeKept ==
  ASSUME TokensMade, GraceHashes \in Nat, [TokenNext]_tokenVars
  PROVE  TokensMade'
<1>0. /\ TokensTyped /\ TokensTyped' /\ tab \in [Tabs -> TabRecords]
      /\ \A t \in Tabs : tab[t].token \in Tokens \cup {NoToken}
      /\ MaxExpiries \in Nat /\ MaxTokens \in Nat
  BY TypesAreKept, TokenBoundsAssumption DEF TokensMade, TokensTyped
<1>1. \A csrf : Resting(csrf).token = NoToken
  BY DEF Resting
\* What the session can become, besides being revoked.
<1>2. ASSUME session' = session \/ (\E reason \in Reasons : Revoke(reason)) \/ GraceEnds
      PROVE  session'.jti \in Tokens /\ session'.grace \in Seq(Tokens)
  BY <1>0, <1>2 DEF Revoke, GraceEnds, TokensMade, TokensTyped
\* What a step does to the token of its tab.
<1>3. ASSUME NEW t \in Tabs, NEW new, tab' = [tab EXCEPT ![t] = new],
             new.token \in Tokens \cup {NoToken}
      PROVE  \A s \in Tabs : tab'[s].token \in Tokens \cup {NoToken}
  <2>1. \A s \in Tabs : tab'[s] = IF s = t THEN new ELSE tab[s]
    BY <1>0, <1>3
  <2> QED
    BY <1>0, <1>3, <2>1
<1>4. ASSUME NEW t \in Tabs, TabFails(t)
      PROVE  \A s \in Tabs : tab'[s].token \in Tokens \cup {NoToken}
  BY <1>1, <1>3, <1>4 DEF TabFails
<1>5. ASSUME NEW t \in Tabs, NEW now, Go(t, now)
      PROVE  \A s \in Tabs : tab'[s].token \in Tokens \cup {NoToken}
  <2> DEFINE new == [tab[t] EXCEPT !.step = now]
  <2>1. new.token = tab[t].token
    BY <1>0 DEF TabRecords
  <2>2. tab' = [tab EXCEPT ![t] = new]
    BY <1>5 DEF Go
  <2> HIDE DEF new
  <2> QED
    BY <1>0, <1>3, <2>1, <2>2
<1>6. CASE AccessExpires
  BY <1>0, <1>6 DEF AccessExpires, TokensMade, TokensTyped
<1>7. CASE GraceEnds
  BY <1>0, <1>2, <1>7 DEF GraceEnds, TokensMade
<1>8. CASE UNCHANGED tokenVars
  BY <1>0, <1>8 DEF tokenVars, TokensMade
<1>9. ASSUME NEW t \in Tabs, Denied(t) \/ Logout(t) PROVE TokensMade'
  <2>1. \A s \in Tabs : tab'[s].token \in Tokens \cup {NoToken}
    BY <1>5, <1>9 DEF Denied, Logout
  <2>2. session'.jti \in Tokens /\ session'.grace \in Seq(Tokens)
    BY <1>2, <1>9 DEF Denied, Logout, Reasons
  <2> QED
    BY <1>0, <1>9, <2>1, <2>2 DEF Denied, Logout, TokensMade
<1>10. ASSUME NEW t \in Tabs, SendRequest(t) PROVE TokensMade'
  <2>1. ASSUME NEW now, SendCookie(t, now)
        PROVE  \A s \in Tabs : tab'[s].token \in Tokens \cup {NoToken}
    <3> DEFINE new == [tab[t] EXCEPT !.step = now, !.token = cookies.refresh]
    <3>1. new.token = cookies.refresh /\ cookies.refresh \in Tokens \cup {NoToken}
      BY <1>0 DEF TabRecords, TokensMade
    <3>2. tab' = [tab EXCEPT ![t] = new]
      BY <2>1 DEF SendCookie
    <3> HIDE DEF new
    <3> QED
      BY <1>3, <3>1, <3>2
  <2>2. \A s \in Tabs : tab'[s].token \in Tokens \cup {NoToken}
    BY <1>4, <1>10, <2>1 DEF SendRequest
  <2> QED
    BY <1>0, <1>10, <2>2 DEF SendRequest, TokensMade
<1>11. ASSUME NEW t \in Tabs, Refreshed(t) PROVE TokensMade'
  <2>1. cookies'.refresh \in Tokens \cup {NoToken}
    BY <1>0, <1>11 DEF Refreshed, TokensMade
  <2>2. \A s \in Tabs : tab'[s].token \in Tokens \cup {NoToken}
    BY <1>1, <1>3, <1>11 DEF Refreshed
  <2> QED
    BY <1>0, <1>11, <2>1, <2>2 DEF Refreshed, TokensMade
<1>12. ASSUME NEW t \in Tabs, NetworkFails(t) \/ UserInactive(t) PROVE TokensMade'
  <2>1. session'.jti \in Tokens /\ session'.grace \in Seq(Tokens)
    BY <1>2, <1>12 DEF NetworkFails, UserInactive, Reasons
  <2> QED
    BY <1>0, <1>4, <1>12, <2>1 DEF NetworkFails, UserInactive, TokensMade
<1>13. ASSUME NEW t \in Tabs, LoggedOut(t) PROVE TokensMade'
  <2>1. cookies'.refresh = NoToken
    BY <1>13 DEF LoggedOut
  <2> QED
    BY <1>0, <1>4, <1>13, <2>1 DEF LoggedOut, TokensMade
<1>14. ASSUME NEW t \in Tabs, Csrf(t) \/ CsrfExpired(t) PROVE TokensMade'
  <2>1. session'.jti \in Tokens /\ session'.grace \in Seq(Tokens)
    BY <1>2, <1>14 DEF Csrf, CsrfExpired, Reasons
  <2>2. CASE ~TabFails(t)
    <3>1. PICK new \in {[tab[t] EXCEPT !.step = "denied", !.csrf = TRUE],
                        [tab[t] EXCEPT !.step = "denied", !.csrf = FALSE, !.retry = FALSE]} :
             tab' = [tab EXCEPT ![t] = new]
      BY <1>14, <2>2 DEF Csrf, CsrfExpired
    <3>2. new.token = tab[t].token
      BY <1>0 DEF TabRecords
    <3>3. \A s \in Tabs : tab'[s].token \in Tokens \cup {NoToken}
      BY <1>0, <1>3, <3>1, <3>2
    <3> QED
      BY <1>0, <1>14, <2>1, <3>3 DEF Csrf, CsrfExpired, TokensMade
  <2>3. CASE TabFails(t)
    BY <1>0, <1>4, <1>14, <2>1, <2>3 DEF Csrf, CsrfExpired, TokensMade
  <2> QED
    BY <2>2, <2>3
<1>15. ASSUME NEW t \in Tabs, Refresh(t) PROVE TokensMade'
  <2>1. session'.jti \in Tokens /\ session'.grace \in Seq(Tokens)
    <3>1. CASE session' = session \/ Revoke("reuse")
      BY <1>2, <3>1 DEF Reasons
    <3>2. CASE session' = Rotated(session.jti + 1) /\ session.jti < MaxTokens
      <4>1. session.jti + 1 \in Tokens
        BY <1>0, <3>2 DEF TokensMade, Tokens
      <4> QED
        BY <3>2, <4>1, RotationOfMade
    <3> QED
      BY <1>15, <3>1, <3>2 DEF Refresh
  <2>2. CASE ~TabFails(t)
    <3>1. PICK token \in Tokens \cup {NoToken} :
             tab' = [tab EXCEPT ![t].step = "refreshed", ![t].token = token]
      <4>1. session.jti < MaxTokens => session.jti + 1 \in Tokens
        BY <1>0 DEF TokensMade, Tokens
      <4> QED
        BY <1>15, <2>2, <4>1 DEF Refresh
    <3> DEFINE new == [tab[t] EXCEPT !.step = "refreshed", !.token = token]
    <3>2. new.token = token
      BY <1>0 DEF TabRecords
    <3>3. tab' = [tab EXCEPT ![t] = new]
      BY <3>1
    <3> HIDE DEF new
    <3>4. \A s \in Tabs : tab'[s].token \in Tokens \cup {NoToken}
      BY <1>3, <3>1, <3>2, <3>3
    <3> QED
      BY <1>0, <1>15, <2>1, <3>4 DEF Refresh, TokensMade
  <2>3. CASE TabFails(t)
    BY <1>0, <1>4, <1>15, <2>1, <2>3 DEF Refresh, TokensMade
  <2> QED
    BY <2>2, <2>3
<1> QED
  BY <1>6, <1>7, <1>8, <1>9, <1>10, <1>11, <1>12, <1>13, <1>14, <1>15 DEF TokenNext, TabSteps

LEMMA TokensStart == TokenInit => TokensMade
<1> SUFFICES ASSUME TokenInit PROVE TokensMade
  OBVIOUS
<1>1. Resting(FALSE) \in TabRecords /\ Resting(FALSE).token = NoToken
  BY IdleIsATab
<1>2. tab \in [Tabs -> TabRecords] /\ \A t \in Tabs : tab[t].token = NoToken
  BY <1>1 DEF TokenInit
<1>3. 1 \in Tokens /\ 0 \in 0..MaxExpiries /\ <<>> \in Seq(Tokens) /\ <<>> \in Seq(Nat)
  BY TokenBoundsAssumption, EmptySeq DEF Tokens
<1>4. /\ session \in [jti : Nat, grace : Seq(Nat), open : BOOLEAN, revoked : Reasons]
      /\ session.jti = 1 /\ session.grace = <<>>
      /\ cookies \in [refresh : Nat, access : BOOLEAN] /\ cookies.refresh = 1
      /\ slow \in BOOLEAN /\ expiries = 0
  BY <1>3 DEF TokenInit, Reasons
<1> QED
  BY <1>2, <1>3, <1>4 DEF TokensMade, TokensTyped

(* The tokens of a session, its tabs and its browser are those the server made *)
(* (for any number of tabs and whatever the window remembers).                *)
THEOREM TokenTypesHold == TokenSpec => []TokenTypeOK
<1>1. TokensMade => TokenTypeOK
  <2> SUFFICES ASSUME TokensMade PROVE TokenTypeOK
    OBVIOUS
  <2>1. tab \in [Tabs -> [step : StepNames, token : Tokens \cup {NoToken}, csrf : BOOLEAN,
                          retry : BOOLEAN]]
    BY DEF TokensMade, TokensTyped, TabRecords
  <2>2. cookies \in [refresh : Tokens \cup {NoToken}, access : BOOLEAN]
    BY DEF TokensMade, TokensTyped
  <2> QED
    BY <2>1, <2>2 DEF TokensMade, TokensTyped, TokenTypeOK, StepNames, Reasons
<1>2. GraceHashes \in Nat
  BY TokenBoundsAssumption
<1>3. TokensMade /\ [TokenNext]_tokenVars => TokensMade'
  BY <1>2, MadeKept
<1> QED
  BY <1>1, <1>3, TokensStart, PTL DEF TokenSpec

(* A session is not opened again, and slow is for ever.                       *)
LEMMA OnlyForward ==
  ASSUME TokensTyped, GraceHashes \in Nat, [TokenNext]_tokenVars
  PROVE  /\ slow => slow'
         /\ session'.revoked = "no" => session.revoked = "no"
         /\ session.revoked # "no" => session'.revoked = session.revoked
<1>1. session.revoked \in Reasons /\ session.jti + 1 \in Nat /\ slow \in BOOLEAN
  BY SharedFields DEF TokensTyped
<1>2. slow => slow'
  BY DEF TokenNext, TabSteps, tokenVars, AccessExpires, GraceEnds, Denied, SendRequest,
         Refreshed, NetworkFails, Csrf, CsrfExpired, Refresh, UserInactive, Logout,
         LoggedOut
<1>3. \/ session'.revoked = session.revoked
      \/ session.revoked = "no"
  <2>1. CASE session' = session
    BY <2>1
  <2>2. CASE GraceEnds
    BY <2>2 DEF GraceEnds, TokensTyped
  <2>3. ASSUME NEW t \in Tabs, Csrf(t) PROVE session' = session \/ session.revoked = "no"
    BY <1>1, <2>3 DEF Csrf
  <2>4. ASSUME NEW t \in Tabs, Refresh(t) PROVE session' = session \/ session.revoked = "no"
    BY <1>1, <2>4 DEF Refresh
  <2>5. ASSUME NEW t \in Tabs, UserInactive(t) \/ Logout(t)
        PROVE  session' = session \/ session.revoked = "no"
    BY <1>1, <2>5 DEF UserInactive, Logout
  <2>6. \/ session' = session
        \/ GraceEnds
        \/ \E t \in Tabs : Csrf(t) \/ Refresh(t) \/ UserInactive(t) \/ Logout(t)
    BY DEF TokenNext, TabSteps, tokenVars, AccessExpires, Denied, SendRequest, Refreshed,
           NetworkFails, CsrfExpired, LoggedOut
  <2> QED
    BY <2>1, <2>2, <2>3, <2>4, <2>5, <2>6
<1> QED
  BY <1>2, <1>3

(* A revocation for reuse is of a token that was not accepted.                *)
LEMMA ReuseIsDeserved ==
  ASSUME TokensTyped, Sound, session.revoked = "no", GraceHashes \in Nat,
         [TokenNext]_tokenVars
  PROVE  session'.revoked # "reuse"
<1>1. session.jti + 1 \in Nat
  BY SharedFields
<1>2. \A t \in Tabs : InFlight(t) => IsCurrent(tab[t].token) \/ InGrace(tab[t].token)
  BY DEF Sound, RequestsAccepted, Accepted, AcceptedIn, IsCurrent, InGrace
<1>3. CASE session' = session
  BY <1>3
<1>4. CASE GraceEnds
  BY <1>4 DEF GraceEnds, TokensTyped
<1>5. ASSUME NEW t \in Tabs, Csrf(t) PROVE session' = session
  BY <1>2, <1>5 DEF Csrf, InFlight
<1>6. ASSUME NEW t \in Tabs, Refresh(t) PROVE session'.revoked # "reuse"
  <2>1. session' = session \/ session' = Rotated(session.jti + 1)
    BY <1>2, <1>6 DEF Refresh, InFlight
  <2>2. CASE session' = Rotated(session.jti + 1)
    <3>1. session'.revoked = session.revoked
      BY <1>1, <2>2, RotationKeeps
    <3> QED
      BY <3>1
  <2> QED
    BY <2>1, <2>2
<1>7. ASSUME NEW t \in Tabs, UserInactive(t) PROVE session'.revoked = "inactive"
  BY <1>7 DEF UserInactive, Revoke, TokensTyped
<1>8. ASSUME NEW t \in Tabs, Logout(t) PROVE session'.revoked = "logout"
  BY <1>8 DEF Logout, Revoke, TokensTyped
<1>9. \/ session' = session
      \/ GraceEnds
      \/ \E t \in Tabs : Csrf(t) \/ Refresh(t) \/ UserInactive(t) \/ Logout(t)
  BY DEF TokenNext, TabSteps, tokenVars, AccessExpires, Denied, SendRequest, Refreshed,
         NetworkFails, CsrfExpired, LoggedOut
<1> QED
  BY <1>3, <1>4, <1>5, <1>6, <1>7, <1>8, <1>9

(* Outside the exchanges: time passes.                                        *)
LEMMA TimeIsSound ==
  ASSUME IsFiniteSet(Tabs), TokensTyped, Sound, AccessExpires \/ GraceEnds, ~slow'
  PROVE  Sound'
<1>1. CASE AccessExpires
  <2>1. /\ session' = session /\ tab' = tab /\ ~session.open
        /\ cookies'.refresh = cookies.refresh
    BY <1>1 DEF AccessExpires, TokensTyped
  <2>2. CookiePlace'
    BY <2>1 DEF Sound, CookiePlace, Bearing
  <2>3. RequestsAccepted'
    BY <2>1 DEF Sound, RequestsAccepted, InFlight, Accepted
  <2> QED
    BY <2>1, <2>2, <2>3 DEF Sound, GraceHasRoom
<1>2. CASE GraceEnds
  <2>1. /\ session'.jti = session.jti /\ ~session'.open /\ cookies' = cookies /\ tab' = tab
        /\ \A t \in Tabs : ~InFlight(t) /\ tab[t].step # "refreshed"
    BY <1>2 DEF GraceEnds, TokensTyped, Exchanging
  <2>2. CookiePlace'
    BY <2>1 DEF Sound, CookiePlace, Bearing
  <2>3. RequestsAccepted'
    BY <2>1 DEF RequestsAccepted, InFlight
  <2> QED
    BY <2>1, <2>2, <2>3 DEF Sound, GraceHasRoom
<1> QED
  BY <1>1, <1>2

LEMMA TabIsSound ==
  ASSUME IsFiniteSet(Tabs), GraceHashes \in Nat, GraceHashes + 1 >= Cardinality(Tabs),
         TokensTyped, LeavingIsRevoked, Sound, session.revoked = "no",
         session'.revoked = "no", ~slow', NEW t \in Tabs,
         \/ Denied(t) \/ TabSteps(t) \/ NetworkFails(t) \/ CsrfExpired(t)
         \/ UserInactive(t) \/ Logout(t) \/ LoggedOut(t)
  PROVE  Sound'
<1>1. /\ session.jti \in Nat /\ cookies.refresh \in Nat /\ session.jti + 1 \in Nat
      /\ tab[t].step \in StepNames /\ tab[t].token \in Nat
  BY SharedFields, TabFields
<1>2. InFlight(t) => IsCurrent(tab[t].token) \/ InGrace(tab[t].token)
  BY DEF Sound, RequestsAccepted, Accepted, AcceptedIn, IsCurrent, InGrace
<1>3. PendingTabs # {} => Accepted(cookies.refresh)
  <2>1. \A e : e = session.jti => Accepted(e)
    BY Zenon DEF Accepted, AcceptedIn
  <2>2. cookies.refresh = session.jti \/ (PendingTabs # {} => Accepted(cookies.refresh))
    BY DEF Sound, CookiePlace
  <2> QED
    BY <2>1, <2>2
<1>4. tab[t].step \in {"denied", "csrf", "refresh"} => t \in PendingTabs
  BY DEF PendingTabs
<1>5. CASE /\ TabFails(t) /\ session' = session /\ cookies' = cookies
           /\ tab[t].step \in {"denied", "csrf", "refresh"}
  BY <1>4, <1>5, FailureIsSound
<1>6. CASE Denied(t)
  <2> DEFINE new == [tab[t] EXCEPT !.step = "denied"]
  <2>1. new \in TabRecords /\ new.step = "denied"
    BY StepRecord DEF StepNames
  <2>2. /\ tab' = [tab EXCEPT ![t] = new] /\ session' = session /\ cookies' = cookies
        /\ t \in PendingTabs /\ ~Bearing(t)
    BY <1>6 DEF Denied, Go, PendingTabs, Bearing
  <2> HIDE DEF new
  <2> QED
    BY <2>1, <2>2, OneTabMoves
<1>7. CASE SendRequest(t)
  <2>1. CASE TabFails(t)
    BY <1>5, <1>7, <2>1 DEF SendRequest
  <2>2. ASSUME NEW now \in {"refresh", "csrf"}, SendCookie(t, now) PROVE Sound'
    <3> DEFINE new == [tab[t] EXCEPT !.step = now, !.token = cookies.refresh]
    <3>1. new \in TabRecords /\ new.step = now /\ new.token = cookies.refresh
      <4>1. now \in StepNames
        BY DEF StepNames
      <4> QED
        BY <1>1, <4>1, TabFields DEF TabRecords
    <3>2. /\ tab' = [tab EXCEPT ![t] = new] /\ session' = session /\ cookies' = cookies
          /\ t \in PendingTabs /\ ~Bearing(t)
      BY <1>4, <1>7, <2>2 DEF SendRequest, SendCookie, Bearing
    <3> HIDE DEF new
    <3>3. new.token <= cookies.refresh /\ Accepted(new.token)
      BY <1>1, <1>3, <3>1, <3>2
    <3> QED
      BY <3>1, <3>2, <3>3, OneTabMoves
  <2> QED
    BY <1>7, <2>1, <2>2 DEF SendRequest
<1>8. CASE Refreshed(t)
  <2>1. CASE Bearing(t)
    BY <1>8, <2>1, BearerArrives
  <2>2. CASE ~Bearing(t)
    <3> DEFINE new == Resting(TRUE)
    <3>1. new \in TabRecords /\ new.step = "idle"
      BY IdleIsATab
    <3>2. /\ tab' = [tab EXCEPT ![t] = new] /\ session' = session
          /\ cookies'.refresh = cookies.refresh /\ cookies'.access = TRUE
      BY <1>8, <2>2 DEF Refreshed, Bearing
    <3> HIDE DEF new
    <3> QED
      BY <2>2, <3>1, <3>2, OneTabMoves
  <2> QED
    BY <2>1, <2>2
<1>9. CASE NetworkFails(t)
  BY <1>5, <1>9 DEF NetworkFails, Exchanging, InFlight
<1>10. CASE Csrf(t) \/ CsrfExpired(t)
  <2>1. CASE TabFails(t)
    BY <1>2, <1>5, <1>10, <2>1 DEF Csrf, CsrfExpired, InFlight
  <2>2. CASE ~TabFails(t)
    <3> DEFINE passed == [tab[t] EXCEPT !.step = "denied", !.csrf = TRUE]
               again == [tab[t] EXCEPT !.step = "denied", !.csrf = FALSE, !.retry = FALSE]
    <3>1. /\ passed \in TabRecords /\ passed.step = "denied"
          /\ again \in TabRecords /\ again.step = "denied"
      BY TabFields DEF TabRecords, StepNames
    <3>2. /\ tab' = [tab EXCEPT ![t] = passed] \/ tab' = [tab EXCEPT ![t] = again]
          /\ session' = session /\ cookies' = cookies
          /\ t \in PendingTabs /\ ~Bearing(t)
      BY <1>4, <1>10, <2>2 DEF Csrf, CsrfExpired, Bearing
    <3> HIDE DEF passed, again
    <3>3. CASE tab' = [tab EXCEPT ![t] = passed]
      BY <3>1, <3>2, <3>3, OneTabMoves
    <3>4. CASE tab' = [tab EXCEPT ![t] = again]
      BY <3>1, <3>2, <3>4, OneTabMoves
    <3> QED
      BY <3>2, <3>3, <3>4
  <2> QED
    BY <2>1, <2>2
<1>11. CASE Refresh(t)
  <2>1. CASE IsCurrent(tab[t].token)
    BY <1>11, <2>1, RotationIsSound DEF Refresh
  <2>2. CASE ~IsCurrent(tab[t].token) /\ InGrace(tab[t].token)
    <3> DEFINE new == [tab[t] EXCEPT !.step = "refreshed", !.token = NoToken]
    <3>1. new \in TabRecords /\ new.step = "refreshed" /\ new.token = NoToken
      BY TokenRecord DEF StepNames, NoToken
    <3>2. /\ tab' = [tab EXCEPT ![t] = new] /\ session' = session /\ cookies' = cookies
          /\ ~Bearing(t)
      BY <1>11, <2>2 DEF Refresh, Bearing
    <3> HIDE DEF new
    <3> QED
      BY <3>1, <3>2, OneTabMoves
  <2> QED
    BY <1>2, <1>11, <2>1, <2>2 DEF Refresh, InFlight
<1>12. CASE UserInactive(t) \/ Logout(t)
  BY <1>12 DEF UserInactive, Logout, Revoke, TokensTyped
<1>13. ~LoggedOut(t)
  BY DEF LoggedOut, LeavingIsRevoked
<1> QED
  BY <1>6, <1>7, <1>8, <1>9, <1>10, <1>11, <1>12, <1>13 DEF TabSteps

LEMMA LeavingStaysRevoked ==
  ASSUME TokensTyped, LeavingIsRevoked, GraceHashes \in Nat, [TokenNext]_tokenVars
  PROVE  LeavingIsRevoked'
<1> SUFFICES ASSUME NEW s \in Tabs, tab'[s].step = "leaving", session'.revoked = "no"
             PROVE  FALSE
  BY DEF LeavingIsRevoked
<1>1. session.revoked = "no" /\ tab[s].step # "leaving"
  BY OnlyForward DEF LeavingIsRevoked
<1>2. tab \in [Tabs -> TabRecords]
  BY DEF TokensTyped
<1>3. ASSUME NEW t \in Tabs, Logout(t) PROVE FALSE
  BY <1>1, <1>3 DEF Logout, Revoke, TokensTyped
<1>4. ASSUME NEW t \in Tabs, NEW new \in TabRecords, tab' = [tab EXCEPT ![t] = new],
             new.step # "leaving"
      PROVE  FALSE
  BY <1>1, <1>2, <1>4
<1>5. CASE tab' = tab
  BY <1>1, <1>5
<1>6. ASSUME NEW t \in Tabs, TabFails(t) PROVE FALSE
  <2>1. Resting(tab[t].csrf) \in TabRecords /\ Resting(tab[t].csrf).step = "idle"
    BY TabFields, IdleIsATab
  <2> QED
    BY <1>4, <1>6, <2>1 DEF TabFails
<1>7. ASSUME NEW t \in Tabs, Refreshed(t) PROVE FALSE
  <2>1. Resting(TRUE) \in TabRecords /\ Resting(TRUE).step = "idle"
    BY IdleIsATab
  <2> QED
    BY <1>4, <1>7, <2>1 DEF Refreshed
<1>8. ASSUME NEW t \in Tabs,
             \/ Denied(t) \/ SendRequest(t) \/ Csrf(t) \/ Refresh(t) \/ CsrfExpired(t),
             ~TabFails(t)
      PROVE  FALSE
  <2>1. t # s => tab'[s] = tab[s]
    BY <1>2, <1>8 DEF Denied, SendRequest, SendCookie, Csrf, Refresh, CsrfExpired, Go
  <2>2. tab'[t].step # "leaving"
    BY <1>2, <1>8 DEF Denied, SendRequest, SendCookie, Csrf, Refresh, CsrfExpired, Go,
                      TabRecords
  <2> QED
    BY <1>1, <2>1, <2>2
<1>9. \/ tab' = tab
      \/ \E t \in Tabs :
            \/ Logout(t) \/ TabFails(t) \/ Refreshed(t)
            \/ Denied(t) \/ SendRequest(t) \/ Csrf(t) \/ Refresh(t) \/ CsrfExpired(t)
  BY DEF TokenNext, TabSteps, tokenVars, AccessExpires, GraceEnds, NetworkFails, UserInactive,
         LoggedOut
<1> QED
  BY <1>3, <1>5, <1>6, <1>7, <1>8, <1>9

LEMMA TokensInvHolds ==
  ASSUME IsFiniteSet(Tabs), GraceHashes + 1 >= Cardinality(Tabs)
  PROVE  TokenSpec => []TokensInv
<1>1. GraceHashes \in Nat
  BY TokenBoundsAssumption
<1>2. TokenInit => TokensInv
  <2> SUFFICES ASSUME TokenInit PROVE TokensInv
    OBVIOUS
  <2>1. Resting(FALSE) \in TabRecords /\ Resting(FALSE).step = "idle"
    BY IdleIsATab
  <2>2. TokensTyped
    <3>1. session \in [jti : Nat, grace : Seq(Nat), open : BOOLEAN, revoked : Reasons]
      BY DEF TokenInit, Reasons
    <3>2. cookies \in [refresh : Nat, access : BOOLEAN] /\ slow \in BOOLEAN
      BY DEF TokenInit
    <3>3. tab \in [Tabs -> TabRecords]
      BY <2>1 DEF TokenInit
    <3> QED
      BY <3>1, <3>2, <3>3 DEF TokensTyped
  <2>3. \A t \in Tabs : tab[t].step = "idle"
    BY <2>1 DEF TokenInit
  <2>4. CookiePlace /\ RequestsAccepted /\ GraceHasRoom
    BY <2>3 DEF TokenInit, CookiePlace, RequestsAccepted, GraceHasRoom, Bearing, InFlight
  <2> QED
    BY <2>2, <2>3, <2>4 DEF TokensInv, LeavingIsRevoked, Sound, NoFalseReuse, TokenInit
<1>3. TokensInv /\ [TokenNext]_tokenVars => TokensInv'
  <2> SUFFICES ASSUME TokensInv, [TokenNext]_tokenVars PROVE TokensInv'
    OBVIOUS
  <2>1. TokensTyped' /\ LeavingIsRevoked'
    BY <1>1, TypesAreKept, LeavingStaysRevoked DEF TokensInv
  <2>2. /\ slow => slow'
        /\ session'.revoked = "no" => session.revoked = "no"
        /\ session.revoked # "no" => session'.revoked = session.revoked
    BY <1>1, OnlyForward DEF TokensInv
  <2>3. ASSUME ~slow', session'.revoked = "no" PROVE Sound'
    <3>1. Sound /\ session.revoked = "no"
      BY <2>2, <2>3 DEF TokensInv
    <3>2. CASE AccessExpires \/ GraceEnds
      BY <2>3, <3>1, <3>2, TimeIsSound DEF TokensInv
    <3>3. ASSUME NEW t \in Tabs,
                 \/ Denied(t) \/ TabSteps(t) \/ NetworkFails(t) \/ CsrfExpired(t)
                 \/ UserInactive(t) \/ Logout(t) \/ LoggedOut(t)
          PROVE  Sound'
      BY <1>1, <2>3, <3>1, <3>3, TabIsSound DEF TokensInv
    <3>4. CASE UNCHANGED tokenVars
      BY <3>1, <3>4 DEF tokenVars, Sound, CookiePlace, RequestsAccepted, GraceHasRoom, Bearing,
                        PendingTabs, InFlight, Accepted
    <3> QED
      BY <3>2, <3>3, <3>4 DEF TokenNext
  <2>4. NoFalseReuse'
    <3>1. CASE session.revoked # "no"
      BY <2>2, <3>1 DEF TokensInv, NoFalseReuse
    <3>2. CASE session.revoked = "no" /\ slow
      BY <2>2, <3>2 DEF NoFalseReuse
    <3>3. CASE session.revoked = "no" /\ ~slow
      BY <1>1, <3>3, ReuseIsDeserved DEF TokensInv, NoFalseReuse
    <3> QED
      BY <3>1, <3>2, <3>3
  <2> QED
    BY <2>1, <2>3, <2>4 DEF TokensInv
<1> QED
  BY <1>2, <1>3, PTL DEF TokenSpec

(* Tabs that refresh at the same time never end their session, for any number  *)
(* of tabs and rotations, as long as the window remembers a token for each     *)
(* other tab (auth_session_service.py:52, :59).                               *)
THEOREM ReuseIsNeverFalse ==
  ASSUME IsFiniteSet(Tabs), GraceHashes + 1 >= Cardinality(Tabs)
  PROVE  TokenSpec => []NoFalseReuse
<1>1. TokensInv => NoFalseReuse
  BY DEF TokensInv
<1> QED
  BY <1>1, TokensInvHolds, PTL

(* Under the same condition the newest refresh token is in the browser or in   *)
(* the one answer that is on its way to it (auth.py:238).                      *)
THEOREM NewestTokenIsKept ==
  ASSUME IsFiniteSet(Tabs), GraceHashes + 1 >= Cardinality(Tabs)
  PROVE  TokenSpec => []BrowserHasNewestToken
<1>1. TokensInv => BrowserHasNewestToken
  BY DEF TokensInv, Sound, CookiePlace, Bearing, BrowserHasNewestToken
<1> QED
  BY <1>1, TokensInvHolds, PTL

-----------------------------------------------------------------------------
(* The rate limit, for any number of requests and keys and any limits. *)

(* Who has passed the limit has presented a key first, and once. *)
PassedOnce ==
    \A r \in AuthRequests :
       /\ auth[r].step # "new" => auth[r].key \in Keys
       /\ auth[r].step \in {"new", "owner"} => auth[r].at = Never

(* No trim loses a request that still counts. *)
Remembered ==
    \A k \in DOMAIN RateLimit, r \in AuthRequests :
       auth[r].key = k /\ auth[r].at # Never /\ auth[r].at > clock - Minute => r \in recent[k]

KeyRows == [status : {"none", "active", "expired", "revoked"}, scopes : SUBSET Scopes]
Steps == {"new", "owner", "principal", "served", "hello", "registered", "gone", "denied"}
AuthRecords == [step : Steps, key : Keys \cup {"none"}, at : 0..clock]

KeysInv == KeysTypeOK /\ PassedOnce /\ Remembered /\ RateIsLimited

Within(t) == {u \in 1..t : u > t - Minute}

LEMMA SomeRequestsFinite ==
  ASSUME NEW S \in SUBSET AuthRequests
  PROVE  IsFiniteSet(S) /\ Cardinality(S) \in Nat
BY KeysAssumption, FS_Subset, FS_CardinalityType

LEMMA FewerPass ==
  ASSUME NEW S, NEW T, NEW n \in Int, S \subseteq T, T \subseteq AuthRequests,
         Cardinality(T) <= n
  PROVE  Cardinality(S) <= n
<1>1. IsFiniteSet(T) /\ S \in SUBSET T
  BY SomeRequestsFinite
<1>2. Cardinality(S) <= Cardinality(T)
  BY <1>1, FS_Subset
<1>3. Cardinality(S) \in Nat /\ Cardinality(T) \in Nat
  BY SomeRequestsFinite
<1> QED
  BY <1>2, <1>3

LEMMA AuthFields ==
  ASSUME KeysTypeOK, NEW r \in AuthRequests
  PROVE  /\ auth[r].step \in {"new", "owner", "principal", "served", "hello", "registered", "gone", "denied"}
         /\ auth[r].key \in Keys \cup {"none"}
         /\ auth[r].at \in Nat /\ auth[r].at <= clock /\ clock \in Nat \ {0}
BY DEF KeysTypeOK

(* What a step does that lets nobody pass: requests keep their keys and times, *)
(* except that a new one may present a key.                                   *)
LEMMA NobodyPasses ==
  ASSUME KeysInv, KeysTypeOK', PassedOnce', clock' = clock,
         \A r \in AuthRequests :
            auth'[r].at = auth[r].at /\ (auth'[r].key = auth[r].key \/ auth[r].at = Never),
         \A k \in DOMAIN RateLimit : Kept(k) \subseteq recent'[k]
  PROVE  Remembered' /\ RateIsLimited'
<1>1. Remembered'
  <2> SUFFICES ASSUME NEW k \in DOMAIN RateLimit, NEW r \in AuthRequests,
                      auth'[r].key = k, auth'[r].at # Never, auth'[r].at > clock' - Minute
               PROVE  r \in recent'[k]
    BY DEF Remembered
  <2>1. r \in recent[k] /\ auth[r].at > clock - Minute
    BY DEF KeysInv, Remembered
  <2> QED
    BY <2>1 DEF Kept
<1>2. ASSUME NEW k \in DOMAIN RateLimit, NEW t \in 1..clock
      PROVE  PassedIn(k, Within(t))' = PassedIn(k, Within(t))
  BY AuthFields DEF PassedIn, Within, Never, KeysInv
<1> QED
  BY <1>1, <1>2 DEF KeysInv, RateIsLimited, Within, PassedIn

LEMMA TickKeepsLimit ==
  ASSUME KeysInv, Tick
  PROVE  KeysInv'
<1> USE DEF KeysInv
<1>1. KeysTypeOK'
  BY KeysAssumption DEF KeysTypeOK, Tick, checkVars
<1>2. PassedOnce' /\ Remembered'
  BY AuthFields, KeysAssumption DEF PassedOnce, Remembered, Tick, checkVars
<1>3. RateIsLimited'
  <2> SUFFICES ASSUME NEW k \in DOMAIN RateLimit, NEW t \in 1..clock',
                      PassedIn(k, Within(t))' # {}
               PROVE  Cardinality(PassedIn(k, Within(t))') <= RateLimit[k]
    BY DEF RateIsLimited, Within
  <2>1. /\ clock \in Nat \ {0} /\ clock' = clock + 1 /\ Minute \in Nat \ {0}
        /\ PassedIn(k, Within(t))' = PassedIn(k, Within(t)) /\ RateLimit[k] \in Int
    BY KeysAssumption DEF Tick, checkVars, PassedIn, Within, KeysTypeOK
  <2>2. CASE t \in 1..clock
    BY <2>1, <2>2 DEF RateIsLimited, Within
  <2>3. CASE t = clock + 1
    <3>1. PassedIn(k, Within(t)) \subseteq PassedIn(k, Within(clock))
      BY <2>1, <2>3, AuthFields DEF PassedIn, Within
    <3>2. PassedIn(k, Within(clock)) # {} /\ clock \in 1..clock
      BY <2>1, <3>1
    <3>3. Cardinality(PassedIn(k, Within(clock))) <= RateLimit[k]
      BY <3>2 DEF RateIsLimited, Within
    <3>4. PassedIn(k, Within(clock)) \subseteq AuthRequests
      BY DEF PassedIn
    <3> QED
      BY <2>1, <3>1, <3>3, <3>4, FewerPass
  <2> QED
    BY <2>1, <2>2, <2>3
<1> QED
  BY <1>1, <1>2, <1>3

(* One request is granted: it counts with the others of its minute. *)
LEMMA CheckOwnerKeepsLimit ==
  ASSUME KeysInv, NEW r \in AuthRequests, CheckOwner(r)
  PROVE  KeysInv'
<1> USE DEF KeysInv
<1> DEFINE k == auth[r].key
<1>1. /\ auth[r].step = "owner" /\ k \in Keys /\ auth[r].at = Never
      /\ clock' = clock /\ ownerActive' = ownerActive /\ keyRow' = keyRow
      /\ closing' = closing /\ due' = due /\ targets' = targets
  BY DEF CheckOwner, PassedOnce, checkVars
<1>2. /\ Trimmed(k) \in [Keys -> SUBSET AuthRequests]
      /\ \A j \in Keys : Kept(j) \subseteq Trimmed(k)[j]
      /\ SweepTime(k) \in 0..clock
  BY DEF Trimmed, Kept, SweepTime, KeysTypeOK
<1>3. CASE /\ auth' = [auth EXCEPT ![r].step = "denied"]
           /\ recent' \in [Keys -> SUBSET AuthRequests] /\ sweptAt' \in 0..clock
           /\ \A j \in Keys : Kept(j) \subseteq recent'[j]
  <2>1. KeysTypeOK'
    BY <1>1, <1>3 DEF KeysTypeOK
  <2>2. PassedOnce' /\ \A q \in AuthRequests : auth'[q].at = auth[q].at /\ auth'[q].key = auth[q].key
    BY <1>1, <1>3 DEF PassedOnce, KeysTypeOK
  <2> QED
    BY <1>1, <1>3, <2>1, <2>2, NobodyPasses, KeysAssumption
<1>4. CASE /\ ~Exceeds(k)
           /\ recent' = IF Limited(k) THEN [Trimmed(k) EXCEPT ![k] = @ \cup {r}] ELSE recent
           /\ auth' = [auth EXCEPT ![r].at = clock, ![r].step = "principal"]
           /\ sweptAt' = SweepTime(k)
  <2>1. KeysTypeOK'
    BY <1>1, <1>2, <1>4 DEF KeysTypeOK
  <2>2. PassedOnce'
    BY <1>1, <1>4 DEF PassedOnce, KeysTypeOK
  <2>3. /\ auth'[r].at = clock /\ auth'[r].key = k
        /\ \A q \in AuthRequests \ {r} : auth'[q] = auth[q]
    BY <1>4 DEF KeysTypeOK
  <2>4. /\ \A j \in Keys : Kept(j) \subseteq recent'[j]
        /\ k \in DOMAIN RateLimit => r \in recent'[k]
    BY <1>1, <1>2, <1>4 DEF Limited, Kept, KeysTypeOK
  <2>5. Remembered'
    <3> SUFFICES ASSUME NEW j \in DOMAIN RateLimit, NEW q \in AuthRequests,
                        auth'[q].key = j, auth'[q].at # Never, auth'[q].at > clock - Minute
                 PROVE  q \in recent'[j]
      BY <1>1 DEF Remembered
    <3>1. CASE q = r
      BY <3>1, <2>3, <2>4
    <3>2. CASE q # r
      BY <3>2, <2>3, <2>4, KeysAssumption DEF Remembered, Kept
    <3> QED
      BY <3>1, <3>2
  <2>6. RateIsLimited'
    <3> SUFFICES ASSUME NEW j \in DOMAIN RateLimit, NEW t \in 1..clock,
                        PassedIn(j, Within(t))' # {}
                 PROVE  Cardinality(PassedIn(j, Within(t))') <= RateLimit[j]
      BY <1>1 DEF RateIsLimited, Within
    <3>1. clock \in Nat \ {0} /\ Minute \in Nat \ {0} /\ RateLimit[j] \in Int
      BY KeysAssumption DEF KeysTypeOK
    <3>2. CASE j # k \/ t # clock
      <4>1. PassedIn(j, Within(t))' = PassedIn(j, Within(t))
        BY <1>1, <2>3, <3>1, <3>2 DEF PassedIn, Within, Never
      <4> QED
        BY <4>1 DEF RateIsLimited, Within
    <3>3. CASE j = k /\ t = clock
      <4>1. PassedIn(j, Within(t))' \subseteq Kept(k) \cup {r}
        BY <2>3, <3>1, <3>3, <1>1, AuthFields DEF PassedIn, Within, Remembered, Kept, Never
      <4>2. Kept(k) \subseteq AuthRequests
        BY <1>1 DEF Kept, KeysTypeOK
      <4>3. Cardinality(Kept(k)) < RateLimit[k]
        BY <1>4, <3>1, <3>3, <4>2, SomeRequestsFinite DEF Exceeds, Limited
      <4>4. Cardinality(Kept(k) \cup {r}) <= RateLimit[k]
        BY <3>1, <3>3, <4>2, <4>3, SomeRequestsFinite, FS_AddElement
      <4>5. Kept(k) \cup {r} \subseteq AuthRequests
        BY <4>2
      <4> QED
        BY <3>1, <3>3, <4>1, <4>4, <4>5, FewerPass
    <3> QED
      BY <3>2, <3>3
  <2> QED
    BY <2>1, <2>2, <2>5, <2>6
<1> QED
  BY <1>1, <1>2, <1>3, <1>4 DEF CheckOwner, KeysTypeOK, Kept

(* A step of authentication other than the limit, or of a launcher. *)
LEMMA AuthStepsKeepLimit ==
  ASSUME KeysInv,
         \/ \E r \in AuthRequests, k \in Keys : Present(r, k)
         \/ \E r \in AuthRequests : RequireScope(r)
         \/ \E r \in ControlSockets : Hello(r) \/ NoHello(r) \/ Disconnects(r) \/ Heartbeat(r)
         \/ \E k \in Keys : CloseLaunchers(k)
         \/ RevalidateTargets
  PROVE  KeysInv'
<1> USE DEF KeysInv
<1>1. /\ UNCHANGED <<clock, ownerActive, keyRow, recent, sweptAt>>
      /\ closing' \subseteq closing /\ due' \subseteq due /\ targets' \subseteq targets
  BY DEF Present, RequireScope, Hello, NoHello, Disconnects, Heartbeat, CloseLaunchers,
         RevalidateTargets, checkVars
<1>2. \A r \in ControlSockets : r \in AuthRequests
  BY DEF AuthRequests
<1>0. auth \in [AuthRequests -> AuthRecords]
  BY DEF KeysTypeOK, AuthRecords, Steps
<1>3. /\ auth' \in [AuthRequests -> AuthRecords]
      /\ \A r \in AuthRequests :
            /\ auth'[r].at = auth[r].at
            /\ \/ auth'[r].key = auth[r].key /\ (auth'[r].step = auth[r].step \/ {auth[r].step, auth'[r].step} \cap {"new", "owner"} = {})
               \/ auth[r].step = "new" /\ auth'[r].step # "new" /\ auth'[r].key \in Keys
  <2> USE <1>0
  <2>1. CASE \E r \in AuthRequests, k \in Keys : Present(r, k)
    BY <2>1 DEF AuthRecords, Steps, Present, KeysTypeOK
  <2>2. CASE \E r \in AuthRequests : RequireScope(r)
    <3> PICK r \in AuthRequests : RequireScope(r)
      BY <2>2
    <3>1. PICK next \in {"served", "hello", "denied"} : auth' = [auth EXCEPT ![r].step = next]
      BY DEF RequireScope
    <3>2. auth[r].step = "principal" /\ [auth[r] EXCEPT !.step = next] \in AuthRecords
      BY DEF RequireScope, AuthRecords, Steps
    <3> QED
      BY <3>1, <3>2 DEF AuthRecords
  <2>3. CASE \E r \in ControlSockets : Hello(r) \/ NoHello(r)
    <3> PICK r \in ControlSockets : Hello(r) \/ NoHello(r)
      BY <2>3
    <3>1. PICK next \in {"registered", "gone"} : auth' = [auth EXCEPT ![r].step = next]
      BY DEF Hello, NoHello
    <3>2. auth[r].step = "hello" /\ r \in AuthRequests /\ [auth[r] EXCEPT !.step = next] \in AuthRecords
      BY <1>2 DEF Hello, NoHello, AuthRecords, Steps
    <3> QED
      BY <3>1, <3>2 DEF AuthRecords
  <2>4. ASSUME NEW gone \in SUBSET Connected, auth' = Disconnected(gone)
        PROVE  <1>3
    <3>1. \A r \in AuthRequests : [auth[r] EXCEPT !.step = "gone"] \in AuthRecords
      BY DEF AuthRecords, Steps
    <3>2. \A r \in gone : auth[r].step = "registered"
      BY DEF Connected
    <3> QED
      BY <2>4, <3>1, <3>2 DEF Disconnected, AuthRecords
  <2>5. CASE \E r \in ControlSockets : Disconnects(r)
    BY <2>5, <2>4 DEF Disconnects
  <2>6. CASE \E r \in ControlSockets : Heartbeat(r)
    <3> PICK r \in Connected : auth' = auth \/ auth' = Disconnected({r})
      BY <2>6 DEF Heartbeat
    <3> QED
      BY <2>4
  <2>7. CASE \E k \in Keys : CloseLaunchers(k)
    BY <2>7, <2>4 DEF CloseLaunchers, LaunchersOf
  <2>8. CASE RevalidateTargets
    BY <2>8, <2>4 DEF RevalidateTargets
  <2> QED
    BY <2>1, <2>2, <2>3, <2>5, <2>6, <2>7, <2>8
<1>4. KeysTypeOK'
  BY <1>1, <1>3 DEF KeysTypeOK, AuthRecords, Steps
<1>5. PassedOnce'
  BY <1>3 DEF PassedOnce
<1>6. \A r \in AuthRequests :
         auth'[r].at = auth[r].at /\ (auth'[r].key = auth[r].key \/ auth[r].at = Never)
  BY <1>3 DEF PassedOnce
<1> QED
  BY <1>1, <1>4, <1>5, <1>6, NobodyPasses DEF Kept

(* A step that leaves requests and their times alone. *)
LEMMA OtherStepsKeepLimit ==
  ASSUME KeysInv,
         \/ \E k \in Keys : Expire(k) \/ \E scopes \in SUBSET Scopes : CreateKey(k, scopes)
         \/ \E revoked \in SUBSET Keys : RevokeKeys(revoked)
         \/ \E r \in ControlSockets : CheckIsDue(r)
         \/ DeactivateOwner \/ FindTargets \/ UNCHANGED keyVars
  PROVE  KeysInv'
<1> USE DEF KeysInv
<1>1. UNCHANGED <<clock, auth, recent, sweptAt>>
  BY DEF Expire, CreateKey, RevokeKeys, CheckIsDue, DeactivateOwner, FindTargets, keyVars, checkVars
<1>2. KeysTypeOK'
  <2>1. keyRow' \in [Keys -> KeyRows]
    <3>1. keyRow \in [Keys -> KeyRows]
      BY DEF KeysTypeOK, KeyRows
    <3>2. CASE UNCHANGED keyRow
      BY <3>1, <3>2
    <3>3. ASSUME NEW k \in Keys, Expire(k)
          PROVE  keyRow' \in [Keys -> KeyRows]
      BY <3>1, <3>3 DEF Expire, KeyRows
    <3>4. ASSUME NEW k \in Keys, NEW scopes \in SUBSET Scopes, CreateKey(k, scopes)
          PROVE  keyRow' \in [Keys -> KeyRows]
      <4>1. [NoRow EXCEPT !.status = "active", !.scopes = scopes] \in KeyRows
        BY DEF NoRow, KeyRows
      <4> QED
        BY <3>1, <3>4, <4>1 DEF CreateKey
    <3>5. ASSUME NEW revoked \in SUBSET Keys, RevokeKeys(revoked)
          PROVE  keyRow' \in [Keys -> KeyRows]
      <4>1. \A k \in Keys : [keyRow[k] EXCEPT !.status = "revoked"] \in KeyRows
        BY <3>1 DEF KeyRows
      <4> QED
        BY <3>1, <3>5, <4>1 DEF RevokeKeys
    <3> QED
      BY <3>2, <3>3, <3>4, <3>5 DEF CheckIsDue, DeactivateOwner, FindTargets, keyVars
  <2>2. ownerActive' \in BOOLEAN
    BY DEF KeysTypeOK, Expire, CreateKey, RevokeKeys, CheckIsDue, DeactivateOwner, FindTargets, keyVars
  <2>3. closing' \subseteq Keys /\ due' \cup targets' \subseteq ControlSockets
    BY DEF KeysTypeOK, Expire, CreateKey, RevokeKeys, CheckIsDue, DeactivateOwner, FindTargets,
           keyVars, checkVars
  <2> QED
    BY <1>1, <2>1, <2>2, <2>3 DEF KeysTypeOK, KeyRows
<1>3. PassedOnce'
  BY <1>1 DEF PassedOnce
<1>4. Remembered' /\ RateIsLimited'
  BY <1>1, <1>2, <1>3, NobodyPasses DEF Kept
<1> QED
  BY <1>2, <1>3, <1>4

LEMMA KeysInvHolds == KeysSpec => []KeysInv
<1>1. KeysInit => KeysInv
  <2> SUFFICES ASSUME KeysInit PROVE KeysInv
    OBVIOUS
  <2>1. KeysTypeOK /\ PassedOnce /\ Remembered
    BY DEF KeysInit, KeysTypeOK, PassedOnce, Remembered, Never, NoRow
  <2>2. \A k \in DOMAIN RateLimit, t \in 1..clock : PassedIn(k, Within(t)) = {}
    BY DEF KeysInit, PassedIn, Within, Never
  <2> QED
    BY <2>1, <2>2 DEF KeysInv, RateIsLimited, Within
<1>2. KeysInv /\ [KeysNext]_keyVars => KeysInv'
  BY TickKeepsLimit, CheckOwnerKeepsLimit, AuthStepsKeepLimit, OtherStepsKeepLimit DEF KeysNext
<1> QED
  BY <1>1, <1>2, PTL DEF KeysSpec

(* Every variable of the access keys keeps its type, for any number of keys,   *)
(* requests and sockets: no request was let in after now, and what the limit   *)
(* remembers are requests (auth.py:159-182).                                  *)
THEOREM KeyTypesHold == KeysSpec => []KeysTypeOK
<1>1. KeysInv => KeysTypeOK
  BY DEF KeysInv
<1> QED
  BY <1>1, KeysInvHolds, PTL

(* However requests interleave, clocks advance and sweeps trim, no minute ever *)
(* has more grants of a key than its limit (auth.py:159-182).                 *)
THEOREM RateStaysLimited == KeysSpec => []RateIsLimited
<1>1. KeysInv => RateIsLimited
  BY DEF KeysInv
<1> QED
  BY <1>1, KeysInvHolds, PTL
=============================================================================
