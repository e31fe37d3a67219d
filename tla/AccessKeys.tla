----------------------------- MODULE AccessKeys -----------------------------
(* The access keys of one user: how a request is authenticated and counted     *)
(* (server/app/auth.py), how keys are made and revoked, and how a launcher     *)
(* that came in with a key loses its control connection with it               *)
(* (access_key_service.py, state.py, routers/v1/launchers.py).                *)
EXTENDS Integers, FiniteSets

CONSTANTS
    HttpRequests,   \* requests of clients
    ControlSockets, \* connections of launchers
    Keys,           \* the rows of access_keys, once they exist
    RateLimit,      \* rate_limit_per_minute of the keys that have one
    Minute,         \* the 60 s of the limit, in ticks of the clock
    MaxClock        \* bound: ticks of the clock

AuthRequests == HttpRequests \cup ControlSockets

ASSUME KeysAssumption ==
    /\ IsFiniteSet(AuthRequests)
    /\ DOMAIN RateLimit \subseteq Keys /\ \A k \in DOMAIN RateLimit : RateLimit[k] \in Int
    /\ Minute \in Nat \ {0} /\ MaxClock \in Nat

VARIABLES
    clock,
    ownerActive, \* the user may use the site: User.status and User.role
    keyRow,      \* the rows: status and scopes
    auth,        \* each request: its step, its key and when it passed the limit
    recent,      \* _rate_limit_requests
    sweptAt,     \* _last_rate_limit_sweep_at
    closing,     \* revoked keys whose launchers are still to be closed
    due,         \* launchers whose last_access_key_check_at is 30 s old
    targets      \* what access_key_revalidation_targets returned to the dispatcher

checkVars == <<closing, due, targets>>
keyVars == <<clock, ownerActive, keyRow, auth, recent, sweptAt, checkVars>>

Never == 0
Scopes == {"client", "launcher"}
NoRow == [status |-> "none", scopes |-> {}]

KeysInit ==
    /\ clock = 1
    /\ ownerActive = TRUE
    /\ keyRow = [k \in Keys |-> NoRow]
    /\ auth = [r \in AuthRequests |-> [step |-> "new", key |-> "none", at |-> Never]]
    /\ recent = [k \in Keys |-> {}]
    /\ sweptAt = 0
    /\ closing = {} /\ due = {} /\ targets = {}

Connected == {r \in ControlSockets : auth[r].step = "registered"}
LaunchersOf(k) == {r \in Connected : auth[r].key = k}
Disconnected(gone) ==
    [r \in AuthRequests |-> IF r \in gone THEN [auth[r] EXCEPT !.step = "gone"] ELSE auth[r]]

(* ------------------------------------------------------------ rows and time *)

(* The clock, and what only depends on it: expires_at is reached, 30 s have    *)
(* passed since the key of a launcher was looked up.                          *)
Tick ==
    /\ clock < MaxClock
    /\ clock' = clock + 1
    /\ UNCHANGED <<ownerActive, keyRow, auth, recent, sweptAt, checkVars>>

Expire(k) ==
    /\ keyRow[k].status = "active"
    /\ keyRow' = [keyRow EXCEPT ![k].status = "expired"]
    /\ UNCHANGED <<clock, ownerActive, auth, recent, sweptAt, checkVars>>

CheckIsDue(r) ==
    /\ r \in Connected \ due
    /\ due' = due \cup {r}
    /\ UNCHANGED <<clock, ownerActive, keyRow, auth, recent, sweptAt, closing, targets>>

(* The row of the user, which another service changes. *)
DeactivateOwner ==
    /\ ownerActive
    /\ ownerActive' = FALSE
    /\ UNCHANGED <<clock, keyRow, auth, recent, sweptAt, checkVars>>

(* create_user_access_key, which refuses an inactive user and an empty scope.  *)
CreateKey(k, scopes) ==
    /\ keyRow[k].status = "none" /\ ownerActive /\ scopes # {}
    /\ keyRow' = [keyRow EXCEPT ![k] = [NoRow EXCEPT !.status = "active", !.scopes = scopes]]
    /\ UNCHANGED <<clock, ownerActive, auth, recent, sweptAt, checkVars>>

(* revoke_access_keys: one commit for the rows, then the launchers of one key  *)
(* after the other.                                                           *)
RevokeKeys(revoked) ==
    /\ revoked # {} /\ closing = {}
    /\ \A k \in revoked : keyRow[k].status # "none"
    /\ keyRow' = [k \in Keys |-> IF k \in revoked THEN [keyRow[k] EXCEPT !.status = "revoked"] ELSE keyRow[k]]
    /\ closing' = revoked
    /\ UNCHANGED <<clock, ownerActive, auth, recent, sweptAt, due, targets>>

CloseLaunchers(k) ==
    /\ k \in closing
    /\ closing' = closing \ {k}
    /\ auth' = Disconnected(LaunchersOf(k))
    /\ UNCHANGED <<clock, ownerActive, keyRow, recent, sweptAt, due, targets>>

(* ----------------------------------------------------------- authentication *)

(* authenticate_access_key up to the look-up of the user. *)
Present(r, k) ==
    /\ auth[r].step = "new"
    /\ auth' = [auth EXCEPT ![r].key = k,
                   ![r].step = IF keyRow[k].status = "active" THEN "owner" ELSE "denied"]
    /\ UNCHANGED <<clock, ownerActive, keyRow, recent, sweptAt, checkVars>>

(* The whole table is swept away with what is old in it. *)
BugKept(k) ==
    IF clock - sweptAt >= Minute THEN {}
    ELSE {r \in recent[k] : auth[r].at > clock - Minute}

(* What a trim leaves of a keyRow's requests: a minute counts, its start not. *)
Kept(k) == {r \in recent[k] : auth[r].at > clock - Minute}

(* enforce_access_key_rate_limit: no await between the reading of the clock    *)
(* and the append, so that the lock is always free. The sweep trims all keys. *)
Limited(k) == k \in DOMAIN RateLimit
Exceeds(k) == Limited(k) /\ Cardinality(Kept(k)) >= RateLimit[k]
Trimmed(k) ==
    IF ~Limited(k) \/ RateLimit[k] <= 0 THEN recent
    ELSE [j \in Keys |-> IF j = k \/ clock - sweptAt >= Minute THEN Kept(j) ELSE recent[j]]
SweepTime(k) ==
    IF Limited(k) /\ RateLimit[k] > 0 /\ clock - sweptAt >= Minute THEN clock ELSE sweptAt

(* The user is there; network policy and rate limit are decided in one go.     *)
CheckOwner(r) ==
    LET k == auth[r].key IN
    /\ auth[r].step = "owner"
    /\ \/ /\ auth' = [auth EXCEPT ![r].step = "denied"]
          /\ UNCHANGED <<recent, sweptAt>>
       \/ /\ ownerActive
          /\ sweptAt' = SweepTime(k)
          /\ IF Exceeds(k)
             THEN auth' = [auth EXCEPT ![r].step = "denied"] /\ recent' = Trimmed(k)
             ELSE /\ recent' = IF Limited(k) THEN [Trimmed(k) EXCEPT ![k] = @ \cup {r}]
                                             ELSE recent
                  /\ auth' = [auth EXCEPT ![r].at = clock, ![r].step = "principal"]
    /\ UNCHANGED <<clock, ownerActive, keyRow, checkVars>>

(* last_used_at has been written or not, which only its own sampling reads, and *)
(* the caller asks for its scope, which no key ever changes.                  *)
RequireScope(r) ==
    LET scopes == keyRow[auth[r].key].scopes IN
    /\ auth[r].step = "principal"
    /\ auth' = [auth EXCEPT ![r].step =
                   IF r \in HttpRequests /\ "client" \in scopes THEN "served"
                   ELSE IF r \in ControlSockets /\ "launcher" \in scopes THEN "hello"
                   ELSE "denied"]
    /\ UNCHANGED <<clock, ownerActive, keyRow, recent, sweptAt, checkVars>>

(* ---------------------------------------------------- launchers with a key *)

(* launcher_control after launcher.hello, or without one in its ten seconds.   *)
(* Nothing asks for the key again.                                            *)
Hello(r) ==
    /\ auth[r].step = "hello"
    /\ auth' = [auth EXCEPT ![r].step = "registered"]
    /\ UNCHANGED <<clock, ownerActive, keyRow, recent, sweptAt, checkVars>>
NoHello(r) ==
    /\ auth[r].step = "hello"
    /\ auth' = [auth EXCEPT ![r].step = "gone"]
    /\ UNCHANGED <<clock, ownerActive, keyRow, recent, sweptAt, checkVars>>

Disconnects(r) ==
    /\ r \in Connected
    /\ auth' = Disconnected({r})
    /\ UNCHANGED <<clock, ownerActive, keyRow, recent, sweptAt, checkVars>>

(* A look-up that forgets expires_at. *)
BugActiveLauncherKey(k) ==
    keyRow[k].status \in {"active", "expired"} /\ "launcher" \in keyRow[k].scopes /\ ownerActive

(* is_active_launcher_key, active_launcher_key_ids *)
ActiveLauncherKey(k) ==
    keyRow[k].status = "active" /\ "launcher" \in keyRow[k].scopes /\ ownerActive

(* A heartbeat when the key is due: heartbeat_actions, is_active_launcher_key   *)
(* and the policy violation.                                                  *)
Heartbeat(r) ==
    /\ r \in Connected \cap due
    /\ due' = due \ {r}
    /\ auth' = IF ActiveLauncherKey(auth[r].key) THEN auth ELSE Disconnected({r})
    /\ UNCHANGED <<clock, ownerActive, keyRow, recent, sweptAt, closing, targets>>

(* The dispatcher, every 30 s: access_key_revalidation_targets, one query for   *)
(* all of them, mark_access_keys_revalidated; the rest is JobOrchestrator's.  *)
FindTargets ==
    /\ targets = {} /\ due \cap Connected # {}
    /\ targets' = due \cap Connected
    /\ UNCHANGED <<clock, ownerActive, keyRow, auth, recent, sweptAt, closing, due>>
RevalidateTargets ==
    /\ targets # {}
    /\ due' = due \ targets
    /\ auth' = Disconnected({r \in targets \cap Connected : ~ActiveLauncherKey(auth[r].key)})
    /\ targets' = {}
    /\ UNCHANGED <<clock, ownerActive, keyRow, recent, sweptAt, closing>>

KeysNext ==
    \/ Tick \/ DeactivateOwner \/ FindTargets \/ RevalidateTargets
    \/ \E k \in Keys :
          \/ Expire(k) \/ CloseLaunchers(k)
          \/ \E scopes \in SUBSET Scopes : CreateKey(k, scopes)
          \/ \E r \in AuthRequests : Present(r, k)
    \/ \E revoked \in SUBSET Keys : RevokeKeys(revoked)
    \/ \E r \in AuthRequests : CheckOwner(r) \/ RequireScope(r)
    \/ \E r \in ControlSockets :
          Hello(r) \/ NoHello(r) \/ CheckIsDue(r) \/ Heartbeat(r) \/ Disconnects(r)

KeysSpec == KeysInit /\ [][KeysNext]_keyVars

(* 30 s pass, and the dispatcher comes round; no heartbeat need ever come. *)
KeysFairness ==
    /\ \A r \in ControlSockets : WF_keyVars(CheckIsDue(r))
    /\ WF_keyVars(FindTargets) /\ WF_keyVars(RevalidateTargets)

KeysTypeOK ==
    /\ clock \in Nat \ {0} /\ sweptAt \in 0..clock
    /\ ownerActive \in BOOLEAN
    /\ keyRow \in [Keys -> [status : {"none", "active", "expired", "revoked"}, scopes : SUBSET Scopes]]
    /\ auth \in [AuthRequests ->
          [step : {"new", "owner", "principal", "served", "hello", "registered", "gone", "denied"},
           key : Keys \cup {"none"}, at : 0..clock]]
    /\ recent \in [Keys -> SUBSET AuthRequests]
    /\ closing \subseteq Keys
    /\ due \cup targets \subseteq ControlSockets

(* ---------------------------------------------------------------- properties *)

(* rate_limit_per_minute, in every minute and not only in those that begin with *)
(* a request: whatever the trims and the sweeps of other keys take away, and    *)
(* however many requests stand between their row and their answer, a key is    *)
(* never granted more than its limit (auth.py:159-182).                       *)
PassedIn(k, minute) == {r \in AuthRequests : auth[r].key = k /\ auth[r].at \in minute}
RateIsLimited ==
    \A k \in DOMAIN RateLimit, t \in 1..clock :
        LET minute == {u \in 1..t : u > t - Minute} IN
        PassedIn(k, minute) # {} => Cardinality(PassedIn(k, minute)) <= RateLimit[k]

(* A launcher does not outlive its key: one that was authenticated before the   *)
(* key was revoked and registered after the launchers of the key were closed,  *)
(* or whose key has expired or whose owner is locked out, is found by the next *)
(* round of the dispatcher (job_orchestrator.py:331), even if it never sends a  *)
(* heartbeat.                                                                 *)
LauncherLosesKey ==
    \A k \in Keys :
        keyRow[k].status \in {"expired", "revoked"} \/ ~ownerActive
            ~> LaunchersOf(k) = {}
=============================================================================
