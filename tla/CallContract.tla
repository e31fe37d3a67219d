---------------------------- MODULE CallContract ----------------------------
(* What a job session promises its user: calls are made one at a time, the    *)
(* slave handles each at most once and in order, and a call succeeds only     *)
(* with the whole result of its own handler.                                  *)
EXTENDS Naturals

CONSTANT MaxCalls

VARIABLES
    outcome,    \* of each call: "new", "open", "ok" or "failed"
    handled,    \* the last call whose handler was started
    answered    \* the calls whose handler returned a result

vars == <<outcome, handled, answered>>

Calls == 1..MaxCalls

Init ==
    /\ outcome = [call \in Calls |-> "new"]
    /\ handled = 0
    /\ answered = {}

Make(call) ==
    /\ outcome[call] = "new"
    /\ \A earlier \in 1..(call - 1) : outcome[earlier] \in {"ok", "failed"}
    /\ outcome' = [outcome EXCEPT ![call] = "open"]
    /\ UNCHANGED <<handled, answered>>

(* A call its master has given up may still be handled. *)
Handle(call) ==
    /\ handled < call
    /\ outcome[call] # "new"
    /\ handled' = call
    /\ UNCHANGED <<outcome, answered>>

Answer(call) ==
    /\ call = handled
    /\ call \notin answered
    /\ answered' = answered \cup {call}
    /\ UNCHANGED <<outcome, handled>>

Succeed(call) ==
    /\ outcome[call] = "open"
    /\ call \in answered
    /\ outcome' = [outcome EXCEPT ![call] = "ok"]
    /\ UNCHANGED <<handled, answered>>

GiveUp(call) ==
    /\ outcome[call] = "open"
    /\ outcome' = [outcome EXCEPT ![call] = "failed"]
    /\ UNCHANGED <<handled, answered>>

Next ==
    \E call \in Calls :
        Make(call) \/ Handle(call) \/ Answer(call) \/ Succeed(call) \/ GiveUp(call)

Spec == Init /\ [][Next]_vars
=============================================================================
