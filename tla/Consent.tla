------------------------------ MODULE Consent ------------------------------
(***************************************************************************)
(* The pure session and consent state machine of attended remote support   *)
(* (api/src/modules/remote/consent.ts): the gate between an operator's     *)
(* request and a desktop being watched.  It has no state of its own; the   *)
(* service stores the record it returns.                                   *)
(*                                                                         *)
(* Timestamps are held as ages, in clock units: how long ago the event     *)
(* happened, or Never for the null of a column not yet written.  The code  *)
(* only ever compares a difference with a limit, so an age carries         *)
(* everything it looks at.                                                 *)
(***************************************************************************)
EXTENDS Integers

CONSTANTS
    Users,          \* people who may be at the console
    NoUser,         \* nobody: a headless or logged-out console, or no name given
    AckTimeout,     \* agentAckTimeoutSec
    ConsentTimeout, \* consentTimeoutSec
    MaxSession,     \* maxSessionSec
    IdleTimeout     \* idleTimeoutSec

ASSUME TimeoutsAssumption ==
    /\ AckTimeout \in Nat \ {0}
    /\ ConsentTimeout \in Nat \ {0}
    /\ MaxSession \in Nat \ {0}
    /\ IdleTimeout \in Nat \ {0}

ASSUME NoUserAssumption == NoUser \notin Users

Never == -1

People == Users \cup {NoUser}

OpenStatus     == {"requested", "awaiting-consent", "active"}
TerminalStatus == {"ended", "declined", "expired", "failed"}
SessionStatus  == OpenStatus \cup TerminalStatus

Granted      == {"accepted", "auto-accepted", "not-required"}
ConsentState == Granted \cup {"pending", "declined"}

\* Why a session closed; the wording of endReason is left out.
EndReason == {"", "no-ack", "no-answer", "declined", "too-long", "idle",
              "operator", "agent-lost"}

SessionState == [status: SessionStatus, consent: ConsentState,
                 autoAccepted: BOOLEAN, consentUser: People,
                 endReason: EndReason]

SessionTimes == [requested: Nat, prompted: Nat \cup {Never},
                 started: Nat \cup {Never}, lastFrame: Nat \cup {Never}]

EventType == {"agent-ack", "user-accept", "user-decline", "tick",
              "operator-end", "agent-lost"}

\* consentRequired and server are snapshotted into the row at request time.
Policy == [consentRequired: BOOLEAN, server: BOOLEAN]

IsTerminal(status) == status \in TerminalStatus

InitialState == [status |-> "requested", consent |-> "pending",
                 autoAccepted |-> FALSE, consentUser |-> NoUser,
                 endReason |-> ""]

\* Zero is the smallest value consentSecondsLeft returns while a prompt is up;
\* Never stands for its null.
ConsentLeft(state, times) ==
    IF state.status # "awaiting-consent" \/ times.prompted = Never THEN Never
    ELSE IF times.prompted >= ConsentTimeout THEN 0
    ELSE ConsentTimeout - times.prompted

PromptExpired(state, times) == ConsentLeft(state, times) = 0

\* A slip: the ceiling measured from the last frame.
OverranSinceFrame(times) ==
    times.lastFrame # Never /\ times.lastFrame >= MaxSession

Overran(times) == times.started # Never /\ times.started >= MaxSession

\* Idle time runs from the last frame, or from the start if none ever came.
Idle(times) ==
    LET since == IF times.lastFrame # Never THEN times.lastFrame
                                            ELSE times.started
    IN  since # Never /\ since >= IdleTimeout

\* A slip: the policy not asked.
AfterAckUnasked(state, user, policy) ==
    [state EXCEPT !.status = "active", !.consent = "not-required",
                  !.autoAccepted = TRUE, !.consentUser = user]

\* No prompt is shown in unattended mode, nor to an empty console.
AfterAck(state, user, policy) ==
    IF policy.consentRequired /\ user # NoUser
    THEN [state EXCEPT !.status = "awaiting-consent", !.consent = "pending",
                       !.consentUser = user]
    ELSE [state EXCEPT !.status = "active", !.consent = "not-required",
                       !.autoAccepted = TRUE, !.consentUser = user]

\* A name given with the answer replaces the one the acknowledgement reported.
Answerer(state, user) == IF user = NoUser THEN state.consentUser ELSE user

AfterAccept(state, user) ==
    [state EXCEPT !.status = "active", !.consent = "accepted",
                  !.autoAccepted = FALSE, !.consentUser = Answerer(state, user)]

AfterDecline(state, user) ==
    [state EXCEPT !.status = "declined", !.consent = "declined",
                  !.autoAccepted = FALSE, !.consentUser = Answerer(state, user),
                  !.endReason = "declined"]

\* A slip: every target treated as a server.
AfterNoAnswerProceeds(state, policy) ==
    [state EXCEPT !.status = "active", !.consent = "auto-accepted",
                  !.autoAccepted = TRUE]

\* An unanswered prompt: a server proceeds, a client PC is cancelled.
AfterNoAnswer(state, policy) ==
    IF policy.server
    THEN [state EXCEPT !.status = "active", !.consent = "auto-accepted",
                       !.autoAccepted = TRUE]
    ELSE [state EXCEPT !.status = "expired", !.consent = "pending",
                       !.autoAccepted = FALSE, !.endReason = "no-answer"]

Closed(state, status, reason) ==
    [state EXCEPT !.status = status, !.endReason = reason]

AfterTick(state, times, policy) ==
    CASE state.status = "requested" /\ times.requested >= AckTimeout ->
            Closed(state, "expired", "no-ack")
      [] state.status = "awaiting-consent" /\ PromptExpired(state, times) ->
            AfterNoAnswer(state, policy)
      [] state.status = "active" /\ Overran(times) ->
            Closed(state, "ended", "too-long")
      [] state.status = "active" /\ ~Overran(times) /\ Idle(times) ->
            Closed(state, "ended", "idle")
      [] OTHER -> state

\* Events that do not apply to the current status leave it unchanged.
Reduce(state, event, user, times, policy) ==
    CASE IsTerminal(state.status) -> state
      [] event = "agent-ack" /\ state.status = "requested" ->
            AfterAck(state, user, policy)
      [] event = "user-accept" /\ state.status = "awaiting-consent" ->
            AfterAccept(state, user)
      [] event = "user-decline" /\ state.status = "awaiting-consent" ->
            AfterDecline(state, user)
      [] event = "tick" /\ ~IsTerminal(state.status) ->
            AfterTick(state, times, policy)
      [] event = "operator-end" /\ ~IsTerminal(state.status) ->
            Closed(state, "ended", "operator")
      [] event = "agent-lost" /\ ~IsTerminal(state.status) ->
            Closed(state, "failed", "agent-lost")
      [] OTHER -> state

MayStream(state) == state.status = "active"

\* What the audit sentences assert: which outcome, and whom they name.  The
\* sentence for not-required names nobody whatever consentUser holds.
AuditLine(state) ==
    [says |-> state.consent,
     names |-> IF state.consent = "not-required" THEN NoUser
                                                 ELSE state.consentUser]

EndLine(state) == [says |-> state.status, names |-> NoUser]

AuditFact == [says: ConsentState \cup SessionStatus, names: People]

=============================================================================
