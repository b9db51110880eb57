-------------------------- MODULE SessionContract --------------------------
(***************************************************************************)
(* What the remote-support gate promises of each session, with no word     *)
(* about calls, database rows or timers: which statuses follow which, under *)
(* which consent verdict, for a given policy.  It is the reducer of        *)
(* consent.ts seen from outside.  RemoteSession keeps it for a session as   *)
(* long as the session's verdicts come one at a time; from then on it is   *)
(* not bound to anything for that session.                                 *)
(***************************************************************************)
CONSTANTS
    Sessions

VARIABLES
    status,    \* status[s]: where session s stands
    verdict,   \* verdict[s]: what became of the consent question
    policy,    \* policy[s]: consentRequired and server, fixed at request time
    bound      \* the sessions for which the promises still bind

vars == <<status, verdict, policy, bound>>

Statuses == {"requested", "awaiting-consent", "active", "declined", "expired",
             "failed", "ended"}

Verdicts == {"pending", "accepted", "declined", "auto-accepted", "not-required"}

Policies == [consentRequired: BOOLEAN, server: BOOLEAN]

Init ==
    /\ status = [s \in Sessions |-> "requested"]
    /\ verdict = [s \in Sessions |-> "pending"]
    /\ policy \in [Sessions -> Policies]
    /\ bound = Sessions

Move(s, from, to, outcome) ==
    /\ s \in bound
    /\ status[s] \in from
    /\ status' = [status EXCEPT ![s] = to]
    /\ verdict' = [verdict EXCEPT ![s] = outcome]
    /\ UNCHANGED <<policy, bound>>

\* The person at the console is asked: only where the policy asks.
Prompt(s) ==
    /\ policy[s].consentRequired
    /\ Move(s, {"requested"}, "awaiting-consent", "pending")

\* Nobody to ask, or a policy that does not ask.
GoUnasked(s) == Move(s, {"requested"}, "active", "not-required")

Accept(s) == Move(s, {"awaiting-consent"}, "active", "accepted")

Decline(s) == Move(s, {"awaiting-consent"}, "declined", "declined")

\* Silence is consent on a server and refusal on a client PC.
ProceedUnanswered(s) ==
    /\ policy[s].server
    /\ Move(s, {"awaiting-consent"}, "active", "auto-accepted")

CancelUnanswered(s) ==
    /\ ~policy[s].server
    /\ Move(s, {"awaiting-consent"}, "expired", "pending")

Expire(s) == Move(s, {"requested"}, "expired", "pending")

Close(s) ==
    \E to \in {"ended", "failed"} :
        Move(s, {"requested", "awaiting-consent", "active"}, to, verdict[s])

\* The promises lapse for a session ...
Lapse(s) ==
    /\ s \in bound
    /\ bound' = bound \ {s}
    /\ UNCHANGED <<status, verdict, policy>>

\* ... and then its row may say anything, at any time.
Unbound(s) ==
    /\ s \notin bound
    /\ \E to \in Statuses, outcome \in Verdicts :
           /\ status' = [status EXCEPT ![s] = to]
           /\ verdict' = [verdict EXCEPT ![s] = outcome]
    /\ UNCHANGED <<policy, bound>>

Next ==
    \E s \in Sessions :
        \/ Prompt(s) \/ GoUnasked(s) \/ Accept(s) \/ Decline(s)
        \/ ProceedUnanswered(s) \/ CancelUnanswered(s)
        \/ Expire(s) \/ Close(s)
        \/ Lapse(s) \/ Unbound(s)

Spec == Init /\ [][Next]_vars

=============================================================================
