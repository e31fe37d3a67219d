---------------------------- MODULE SessionTokens ---------------------------
(* One web session: the rotation of its refresh token on the server           *)
(* (auth_session_service.py, routers/web/auth.py) and the tabs of one browser *)
(* that share its cookies (website/src/api/http.ts). Every tab refreshes on   *)
(* its own when a request of it is denied, all with the cookie of the moment. *)
EXTENDS Naturals, Sequences, SequencesExt

CONSTANTS
    Tabs,
    GraceHashes,  \* REFRESH_ROTATION_GRACE_HASH_LIMIT
    MaxTokens,    \* bound: rotations
    MaxExpiries   \* bound: how often the access token expires

ASSUME TokenBoundsAssumption ==
    {GraceHashes, MaxTokens, MaxExpiries} \subseteq Nat /\ MaxTokens # 0

VARIABLES
    session,  \* refresh_jti, the grace jtis, whether refresh_grace_until is ahead, revoked
    cookies,  \* the browser's refresh token, and whether its access token is valid
    tab,      \* of each tab: step, token of its request or response, CSRF token, retry_csrf
    expiries, \* how often the access token expired
    slow      \* a response was lost, or an exchange outlasted the grace window

tokenVars == <<session, cookies, tab, expiries, slow>>

NoToken == 0
Tokens == 1..MaxTokens

(* The module state of http.ts between two refreshes: csrfToken survives them. *)
Resting(csrf) == [step |-> "idle", token |-> NoToken, csrf |-> csrf, retry |-> TRUE]

TokenInit ==
    /\ session = [jti |-> 1, grace |-> <<>>, open |-> FALSE, revoked |-> "no"]
    /\ cookies = [refresh |-> 1, access |-> TRUE]
    /\ tab = [t \in Tabs |-> Resting(FALSE)]
    /\ expiries = 0 /\ slow = FALSE

InFlight(t) == tab[t].step \in {"csrf", "refresh"}
Exchanging(t) == InFlight(t) \/ tab[t].step = "refreshed"
Go(t, step) == tab' = [tab EXCEPT ![t].step = step]
SendCookie(t, step) == tab' = [tab EXCEPT ![t].step = step, ![t].token = cookies.refresh]
(* refreshPromise is reset: the next request that is denied refreshes again.   *)
TabFails(t) == tab' = [tab EXCEPT ![t] = Resting(tab[t].csrf)]

(* ------------------------------------------------------------- time passes *)

(* An access token outlives the grace window of the rotation that came with it. *)
AccessExpires ==
    /\ cookies.access /\ ~session.open /\ expiries < MaxExpiries
    /\ cookies' = [cookies EXCEPT !.access = FALSE]
    /\ expiries' = expiries + 1
    /\ UNCHANGED <<session, tab, slow>>

GraceEnds ==
    /\ session.open
    /\ session' = [session EXCEPT !.open = FALSE]
    /\ slow' = (slow \/ \E t \in Tabs : Exchanging(t))
    /\ UNCHANGED <<cookies, tab, expiries>>

(* ------------------------------------------------------------------ the tab *)

(* A request of the tab is answered with 401, and refreshAuth begins; it is a  *)
(* POST under /web/ and needs a CSRF token.                                   *)
Denied(t) ==
    /\ tab[t].step = "idle" /\ ~cookies.access
    /\ Go(t, "denied")
    /\ UNCHANGED <<session, cookies, expiries, slow>>

SendRequest(t) ==
    /\ tab[t].step = "denied"
    /\ IF cookies.refresh = NoToken THEN TabFails(t)
       ELSE SendCookie(t, IF tab[t].csrf THEN "refresh" ELSE "csrf")
    /\ UNCHANGED <<session, cookies, expiries, slow>>

(* The answer to the tab's refresh: its cookies take effect for every tab, and *)
(* the denied request is sent again; if it is denied once more, it fails.      *)
Refreshed(t) ==
    /\ tab[t].step = "refreshed"
    /\ cookies' = [refresh |-> IF tab[t].token = NoToken THEN cookies.refresh ELSE tab[t].token,
                   access |-> TRUE]
    /\ tab' = [tab EXCEPT ![t] = Resting(TRUE)]
    /\ UNCHANGED <<session, expiries, slow>>

(* A request or its answer is lost. One that reaches the server after its tab  *)
(* has given up is left out: as its answer is lost, it would make slow true.   *)
NetworkFails(t) ==
    /\ Exchanging(t)
    /\ TabFails(t)
    /\ slow' = (slow \/ tab[t].step = "refreshed")
    /\ UNCHANGED <<session, cookies, expiries>>

(* --------------------------------------------------------------- the server *)

Revoke(reason) == session' = [session EXCEPT !.revoked = reason]

(* validate_refresh_rotation; every refresh token of the server carries a jti.  *)
IsCurrent(token) == token = session.jti
InGrace(token) == session.open /\ Contains(session.grace, token)

(* GET /web/auth/csrf *)
Csrf(t) ==
    /\ tab[t].step = "csrf"
    /\ IF session.revoked # "no" THEN TabFails(t) /\ UNCHANGED session
       ELSE IF IsCurrent(tab[t].token) \/ InGrace(tab[t].token)
       THEN /\ tab' = [tab EXCEPT ![t].step = "denied", ![t].csrf = TRUE]
            /\ UNCHANGED session
       ELSE TabFails(t) /\ Revoke("reuse")
    /\ UNCHANGED <<cookies, expiries, slow>>

(* The CSRF token was too old: once, the tab asks for another one.            *)
CsrfExpired(t) ==
    /\ tab[t].step = "refresh"
    /\ IF tab[t].retry
       THEN tab' = [tab EXCEPT ![t].step = "denied", ![t].csrf = FALSE, ![t].retry = FALSE]
       ELSE TabFails(t)
    /\ UNCHANGED <<session, cookies, expiries, slow>>

(* rotate_refresh_jti: the window is that of its first rotation. *)
Rotated(token) ==
    LET old == IF session.open THEN session.grace ELSE <<>>
        all == IF Contains(old, session.jti) THEN old ELSE Append(old, session.jti)
        drop == IF Len(all) > GraceHashes THEN Len(all) - GraceHashes ELSE 0 IN
    [session EXCEPT !.jti = token, !.open = TRUE,
                    !.grace = SubSeq(all, drop + 1, Len(all))]

(* A grace window that keeps only the token before. *)
BugRefresh(t) ==
    /\ tab[t].step = "refresh"
    /\ IF session.revoked # "no" THEN TabFails(t) /\ UNCHANGED session
       ELSE IF IsCurrent(tab[t].token)
       THEN /\ session.jti < MaxTokens
            /\ session' = [Rotated(session.jti + 1) EXCEPT !.grace = <<session.jti>>]
            /\ tab' = [tab EXCEPT ![t].step = "refreshed", ![t].token = session.jti + 1]
       ELSE IF InGrace(tab[t].token)
       THEN /\ tab' = [tab EXCEPT ![t].step = "refreshed", ![t].token = NoToken]
            /\ UNCHANGED session
       ELSE TabFails(t) /\ Revoke("reuse")
    /\ UNCHANGED <<cookies, expiries, slow>>

(* A grace answer that sets the refresh cookie again. *)
BugRefreshCookie(t) ==
    /\ tab[t].step = "refresh"
    /\ IF session.revoked # "no" THEN TabFails(t) /\ UNCHANGED session
       ELSE IF IsCurrent(tab[t].token)
       THEN /\ session.jti < MaxTokens
            /\ session' = Rotated(session.jti + 1)
            /\ tab' = [tab EXCEPT ![t].step = "refreshed", ![t].token = session.jti + 1]
       ELSE IF InGrace(tab[t].token)
       THEN Go(t, "refreshed") /\ UNCHANGED session
       ELSE TabFails(t) /\ Revoke("reuse")
    /\ UNCHANGED <<cookies, expiries, slow>>

(* POST /web/auth/refresh, under the row lock of the session *)
Refresh(t) ==
    /\ tab[t].step = "refresh"
    /\ IF session.revoked # "no" THEN TabFails(t) /\ UNCHANGED session
       ELSE IF IsCurrent(tab[t].token)
       THEN /\ session.jti < MaxTokens
            /\ session' = Rotated(session.jti + 1)
            /\ tab' = [tab EXCEPT ![t].step = "refreshed", ![t].token = session.jti + 1]
       ELSE IF InGrace(tab[t].token)
       THEN /\ tab' = [tab EXCEPT ![t].step = "refreshed", ![t].token = NoToken]
            /\ UNCHANGED session
       ELSE TabFails(t) /\ Revoke("reuse")
    /\ UNCHANGED <<cookies, expiries, slow>>

(* The user is no longer active: csrf and refresh end the session. *)
UserInactive(t) ==
    /\ InFlight(t) /\ session.revoked = "no"
    /\ IsCurrent(tab[t].token) \/ InGrace(tab[t].token)
    /\ TabFails(t) /\ Revoke("inactive")
    /\ UNCHANGED <<cookies, expiries, slow>>

(* POST /web/auth/logout, whose token need not be the current one; its answer  *)
(* deletes the cookies.                                                       *)
Logout(t) ==
    /\ tab[t].step = "idle" /\ tab[t].csrf /\ cookies.refresh # NoToken
    /\ IF session.revoked = "no" THEN Revoke("logout") ELSE UNCHANGED session
    /\ Go(t, "leaving")
    /\ UNCHANGED <<cookies, expiries, slow>>

LoggedOut(t) ==
    /\ tab[t].step = "leaving"
    /\ cookies' = [refresh |-> NoToken, access |-> FALSE]
    /\ TabFails(t)
    /\ UNCHANGED <<session, expiries, slow>>

TabSteps(t) ==
    \/ SendRequest(t) \/ Refreshed(t) \/ Csrf(t) \/ Refresh(t)

TokenNext ==
    \/ AccessExpires \/ GraceEnds
    \/ \E t \in Tabs :
          \/ Denied(t) \/ TabSteps(t) \/ NetworkFails(t) \/ CsrfExpired(t)
          \/ UserInactive(t) \/ Logout(t) \/ LoggedOut(t)

TokenSpec == TokenInit /\ [][TokenNext]_tokenVars

TokenTypeOK ==
    /\ session.jti \in Tokens /\ session.grace \in Seq(Tokens)
    /\ session.open \in BOOLEAN /\ session.revoked \in {"no", "reuse", "inactive", "logout"}
    /\ cookies \in [refresh : Tokens \cup {NoToken}, access : BOOLEAN]
    /\ tab \in [Tabs -> [step : {"idle", "denied", "csrf", "refresh", "refreshed",
                                 "leaving"},
                         token : Tokens \cup {NoToken}, csrf : BOOLEAN, retry : BOOLEAN]]
    /\ expiries \in 0..MaxExpiries /\ slow \in BOOLEAN

(* ---------------------------------------------------------------- properties *)

(* Tabs that refresh at the same time never look like a stolen token: a        *)
(* session is revoked for reuse only after an answer was lost or an exchange   *)
(* was under way when the grace window closed (auth_session_service.py:52).   *)
NoFalseReuse == session.revoked = "reuse" => slow

(* The browser ends with the newest refresh token, whatever the order in which *)
(* the answers of its tabs arrive (the comment at auth.py:238-240).           *)
BrowserHasNewestToken ==
    \/ slow \/ session.revoked # "no"
    \/ \E t \in Tabs : tab[t].step = "refreshed" /\ tab[t].token # NoToken
    \/ cookies.refresh = session.jti
=============================================================================
