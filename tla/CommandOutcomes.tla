--------------------------- MODULE CommandOutcomes ---------------------------
(***************************************************************************)
(* What an upstream transport promises to the callers of                   *)
(*     send(method, params, sessionId, {timeout_ms}): Promise              *)
(* whatever it runs on: a promise settles at most once, and it resolves    *)
(* only with a result that the peer gave to this very command.  A promise  *)
(* may be rejected at any time (timeout, closed connection, error answer). *)
(* WSUpstreamTransport, ReverseWSUpstreamTransport and NATSLink implement  *)
(* this specification.                                                     *)
(***************************************************************************)
CONSTANT Calls          \* one element per call of send()

VARIABLES
    outcome,            \* what the caller holds: its promise
    reply               \* what the peer has answered to the call's command

vars == <<outcome, reply>>

Outcomes == {"unsent", "waiting", "resolved", "rejected"}
Replies  == {"none", "result", "error"}
Settled  == {"resolved", "rejected"}

TypeOK ==
    /\ outcome \in [Calls -> Outcomes]
    /\ reply \in [Calls -> Replies]

Init ==
    /\ outcome = [c \in Calls |-> "unsent"]
    /\ reply = [c \in Calls |-> "none"]

Issue(c) ==
    /\ outcome[c] = "unsent"
    /\ outcome' = [outcome EXCEPT ![c] = "waiting"]
    /\ UNCHANGED reply

\* The peer answers a command it was sent, once, whether or not the caller
\* still waits for it.
Answer(c, r) ==
    /\ outcome[c] # "unsent"
    /\ reply[c] = "none"
    /\ reply' = [reply EXCEPT ![c] = r]
    /\ UNCHANGED outcome

Resolve(c) ==
    /\ outcome[c] = "waiting"
    /\ reply[c] = "result"
    /\ outcome' = [outcome EXCEPT ![c] = "resolved"]
    /\ UNCHANGED reply

\* One event (a closed connection) may reject several calls at once, and a
\* call may be rejected in the step that issues it.
Reject(S) ==
    /\ \A c \in S : outcome[c] \notin Settled
    /\ outcome' = [c \in Calls |-> IF c \in S THEN "rejected" ELSE outcome[c]]
    /\ UNCHANGED reply

Next ==
    \/ \E c \in Calls : Issue(c) \/ Resolve(c)
    \/ \E c \in Calls, r \in {"result", "error"} : Answer(c, r)
    \/ \E S \in SUBSET Calls : Reject(S)

Spec == Init /\ [][Next]_vars
=============================================================================
