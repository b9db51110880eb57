--------------------------- MODULE ChangeControl ---------------------------
(***************************************************************************)
(* Changes that need a second person: requests for approval                *)
(* (approvals.service.ts, created by approval-gate.service.ts) and         *)
(* Terraform jobs (catalog.service.ts, run by tf-runner/server.js).        *)
(*                                                                         *)
(* Every call reads its row, decides, acts on the outside world and then   *)
(* writes the row by id, with awaits between: two calls on one change may  *)
(* overlap, the API may restart in the middle, and it may stop listening   *)
(* to a Terraform run that goes on.  What fails may have gone half way, and *)
(* a setting that cannot be read counts as off.                            *)
(***************************************************************************)
EXTENDS Naturals, FiniteSets

CONSTANTS
    Requests, Jobs, Users,
    None,
    MaxAsked,    \* bound: changes asked for
    MaxOpen,     \* bound: calls under way at once
    MaxCalls,    \* bound: calls in all
    MaxFaults,   \* bound: restarts and time-outs
    MaxToggles   \* bound: changes of the maker-checker setting

Changes == Requests \cup Jobs
Open == 1 .. MaxOpen

ASSUME ChangeAssumption ==
    /\ Requests \cap Jobs = {} /\ None \notin Changes \cup Users
    /\ MaxAsked \in Nat
    /\ MaxOpen \in Nat /\ MaxCalls \in Nat /\ MaxFaults \in Nat /\ MaxToggles \in Nat

VARIABLES
    change,        \* [Changes -> the row: status, who asked, whether it expired]
    call,          \* [Open -> the call under way]
    makerChecker,  \* OrgSettings.makerChecker
    \* the outside world, observation and bounds
    effect,        \* [Changes -> successful executions; of a job, 1 if it stands]
    halfway,       \* changes of which a failed execution did or undid a part
    starters,      \* [Changes -> who had it executed, first or applied]
    everOff,       \* maker-checker has been off at some time
    unread,        \* changes checked while the setting could not be read
    troubled,      \* changes of which calls overlapped or were cut off
    spent

vars == <<change, call, makerChecker, effect, halfway, starters, everOff, unread,
          troubled, spent>>
happened == <<effect, halfway, starters, everOff, unread>>
world == <<happened, troubled>>

(***************************************************************************)
(* State.                                                                  *)
(***************************************************************************)
RequestStatus == {"none", "pending", "executed", "failed", "rejected", "expired"}
JobStatus == {"none", "planned", "pending_apply", "plan_failed", "applying", "applied", "apply_failed", "destroyed"}
Kinds == {"approve", "retry", "reject", "plan", "apply", "destroy"}
Idle == [kind |-> "none", of |-> None, by |-> None, pc |-> "idle", seen |-> "none", ok |-> FALSE]

Init ==
    /\ change = [c \in Changes |-> [status |-> "none", by |-> None, late |-> FALSE]]
    /\ call = [k \in Open |-> Idle]
    /\ makerChecker \in BOOLEAN
    /\ effect = [c \in Changes |-> 0] /\ halfway = {}
    /\ starters = [c \in Changes |-> {}]
    /\ everOff = ~makerChecker /\ unread = {} /\ troubled = {}
    /\ spent = [calls |-> 0, faults |-> 0, toggles |-> 0]

Spend(what, most) == spent[what] < most /\ spent' = [spent EXCEPT ![what] = @ + 1]
UnderWay(c) == \E k \in Open : call[k].of = c

\* A call arrives; it meets the others on the same change, if any.
Opens(k, what, c, u, pc) ==
    /\ call[k] = Idle /\ \A n \in 1 .. k - 1 : call[n] # Idle
    /\ Spend("calls", MaxCalls)
    /\ call' = [call EXCEPT ![k] = [kind |-> what, of |-> c, by |-> u, pc |-> pc, seen |-> change[c].status, ok |-> FALSE]]
    /\ troubled' = IF UnderWay(c) THEN troubled \cup {c} ELSE troubled

(***************************************************************************)
(* Asking.                                                                 *)
(***************************************************************************)
New(c) ==
    /\ change[c].status = "none"
    /\ Cardinality({d \in Changes : change[d].status # "none"}) < MaxAsked

\* gate.check(): the request is stored and nothing executed.
Ask(c, u) ==
    /\ c \in Requests /\ New(c)
    /\ change' = [change EXCEPT ![c].status = "pending", ![c].by = u]
    /\ UNCHANGED <<call, makerChecker, world, spent>>

\* plan() creates the job and has it planned.
Plan(k, c, u) ==
    /\ c \in Jobs /\ New(c)
    /\ Opens(k, "plan", c, u, "run")
    /\ change' = [change EXCEPT ![c].status = "planned", ![c].by = u]
    /\ UNCHANGED <<makerChecker, happened>>

\* A day goes by.
Expire(c) ==
    /\ c \in Requests /\ change[c].status # "none" /\ ~change[c].late
    /\ change' = [change EXCEPT ![c].late = TRUE]
    /\ UNCHANGED <<call, makerChecker, world, spent>>

(***************************************************************************)
(* Deciding: the row is read and the early returns taken.                  *)
(***************************************************************************)
\* A late request is marked expired instead of approved.
Approve(k, c, u) ==
    /\ change[c].status = "pending"
    /\ \/ /\ change[c].late
          /\ Opens(k, "approve", c, u, "expire")
       \/ /\ ~change[c].late
          /\ Opens(k, "approve", c, u, "check")
    /\ UNCHANGED <<change, makerChecker, happened>>

Reject(k, c, u) ==
    /\ change[c].status = "pending"
    /\ Opens(k, "reject", c, u, "save")
    /\ UNCHANGED <<change, makerChecker, happened>>

\* Mutant: whatever was decided on can be run again.
RetryableOnceDecided(status) == status \in {"failed", "executed"}
Retryable(status) == status = "failed"

\* No second approval for what was approved and failed.
Retry(k, c, u) ==
    /\ c \in Requests /\ Retryable(change[c].status)
    /\ Opens(k, "retry", c, u, "run")
    /\ UNCHANGED <<change, makerChecker, happened>>

Apply(k, c, u) ==
    /\ change[c].status = "pending_apply"
    /\ Opens(k, "apply", c, u, "check")
    /\ UNCHANGED <<change, makerChecker, happened>>

\* destroy() looks at no status.
Destroy(k, c, u) ==
    /\ c \in Jobs /\ change[c].status # "none"
    /\ Opens(k, "destroy", c, u, "run")
    /\ UNCHANGED <<change, makerChecker, happened>>

\* Mutant: the catalog forgets who planned.
OwnRequest(k) == call[k].of \in Requests /\ change[call[k].of].by = call[k].by
Own(k) == change[call[k].of].by = call[k].by

\* The setting is read after the row, as off if that fails; apply() then marks
\* the job.
Check(k) ==
    LET c == call[k].of IN
    /\ call[k].pc = "check"
    /\ \E read \in {makerChecker, FALSE} :
         /\ unread' = IF read = makerChecker THEN unread ELSE unread \cup {c}
         /\ IF read /\ Own(k)
            THEN call' = [call EXCEPT ![k] = Idle] /\ UNCHANGED starters
            ELSE /\ call' = [call EXCEPT ![k].pc = IF call[k].kind = "apply" THEN "mark" ELSE "run"]
                 /\ starters' = [starters EXCEPT ![c] = @ \cup {call[k].by}]
    /\ UNCHANGED <<change, makerChecker, effect, halfway, everOff, troubled, spent>>

Mark(k) ==
    /\ call[k].pc = "mark"
    /\ change' = [change EXCEPT ![call[k].of].status = "applying"]
    /\ call' = [call EXCEPT ![k].pc = "run"]
    /\ UNCHANGED <<makerChecker, world, spent>>

(***************************************************************************)
(* Executing.                                                              *)
(***************************************************************************)
\* A request is executed once more, an apply has the job stand, a destroy not.
After(what, c, ok) ==
    CASE what \in {"approve", "retry"} /\ ok -> effect[c] + 1
      [] what = "apply" /\ ok -> 1
      [] what = "destroy" /\ ok -> 0
      [] OTHER -> effect[c]

\* What fails may have done a part of it, or undone a part of what stood; an
\* apply or a destroy that succeeds makes up for the parts left before.
HalfwayAfter(what, c, ok) ==
    CASE what \in {"apply", "destroy"} /\ ok -> {halfway \ {c}}
      [] what \in {"approve", "retry", "apply"} /\ ~ok -> {halfway, halfway \cup {c}}
      [] what = "destroy" /\ ~ok /\ effect[c] > 0 -> {halfway, halfway \cup {c}}
      [] OTHER -> {halfway}

\* It ends; the call, if there still is one, writes the row next.
Executed(k) ==
    /\ call[k].pc \in {"run", "unheard"}
    /\ \E ok \in BOOLEAN :
         /\ call' = [call EXCEPT ![k] = IF @.pc = "run" THEN [@ EXCEPT !.pc = "save", !.ok = ok] ELSE Idle]
         /\ effect' = [effect EXCEPT ![call[k].of] = After(call[k].kind, call[k].of, ok)]
         /\ halfway' \in HalfwayAfter(call[k].kind, call[k].of, ok)
    /\ UNCHANGED <<change, makerChecker, starters, everOff, unread, troubled, spent>>

\* Mutant: only a success is written down.
StatusOfSuccess(k) ==
    IF ~call[k].ok THEN change[call[k].of].status
    ELSE CASE call[k].kind = "plan" -> "pending_apply" [] call[k].kind = "apply" -> "applied"
           [] call[k].kind = "destroy" -> "destroyed" [] OTHER -> "executed"

\* The new status, whatever the row says by now; a failed destroy puts back what it read.
Status(k) ==
    CASE call[k].kind \in {"approve", "retry"} -> IF call[k].ok THEN "executed" ELSE "failed"
      [] call[k].kind = "plan" -> IF call[k].ok THEN "pending_apply" ELSE "plan_failed"
      [] call[k].kind = "apply" -> IF call[k].ok THEN "applied" ELSE "apply_failed"
      [] call[k].kind = "destroy" -> IF call[k].ok THEN "destroyed" ELSE call[k].seen
      [] OTHER -> "rejected"

Save(k) ==
    /\ call[k].pc \in {"save", "expire"}
    /\ change' = [change EXCEPT ![call[k].of].status = IF call[k].pc = "expire" THEN "expired" ELSE Status(k)]
    /\ call' = [call EXCEPT ![k] = Idle]
    /\ UNCHANGED <<makerChecker, world, spent>>

(***************************************************************************)
(* Faults and the setting.                                                 *)
(***************************************************************************)
\* Ten minutes are over: the API hears no more of a Terraform run.
TimeOut(k) ==
    /\ call[k].pc = "run" /\ call[k].of \in Jobs /\ Spend("faults", MaxFaults)
    /\ call' = [call EXCEPT ![k].pc = "unheard"]
    /\ troubled' = troubled \cup {call[k].of}
    /\ UNCHANGED <<change, makerChecker, happened>>

\* A restart ends every call; what was being executed goes on by itself.
Restart ==
    /\ Spend("faults", MaxFaults)
    /\ call' = [k \in Open |-> IF call[k].pc \in {"run", "unheard"} THEN [call[k] EXCEPT !.pc = "unheard"] ELSE Idle]
    /\ troubled' = troubled \cup {c \in Changes : UnderWay(c)}
    /\ UNCHANGED <<change, makerChecker, happened>>

SetMakerChecker ==
    /\ Spend("toggles", MaxToggles)
    /\ makerChecker' = ~makerChecker
    /\ everOff' = TRUE
    /\ UNCHANGED <<change, call, effect, halfway, starters, unread, troubled>>

Next ==
    \/ \E c \in Changes, u \in Users :
         \/ Ask(c, u)
         \/ \E k \in Open : \/ Plan(k, c, u) \/ Approve(k, c, u) \/ Reject(k, c, u)
                            \/ Retry(k, c, u) \/ Apply(k, c, u) \/ Destroy(k, c, u)
    \/ \E c \in Changes : Expire(c)
    \/ \E k \in Open : Check(k) \/ Mark(k) \/ Executed(k) \/ Save(k) \/ TimeOut(k)
    \/ Restart \/ SetMakerChecker

Spec == Init /\ [][Next]_vars

(* Awaits come back and executions end; nobody has to ask or to decide. *)
FairSpec == Spec /\ \A k \in Open : WF_vars(Check(k) \/ Mark(k) \/ Executed(k) \/ Save(k))

(***************************************************************************)
(* Properties.                                                             *)
(***************************************************************************)
(* The variables keep their types. *)
TypeOK ==
    /\ change \in [Changes -> [status : RequestStatus \cup JobStatus, by : Users \cup {None}, late : BOOLEAN]]
    /\ \A c \in Changes : change[c].status \in IF c \in Jobs THEN JobStatus ELSE RequestStatus
    /\ call \in [Open -> [kind : Kinds \cup {"none"}, of : Changes \cup {None}, by : Users \cup {None},
                          pc : {"idle", "check", "mark", "run", "unheard", "save", "expire"},
                          seen : RequestStatus \cup JobStatus, ok : BOOLEAN]]
    /\ effect \in [Changes -> Nat] /\ halfway \subseteq Changes

(* "A DIFFERENT administrator must approve it": while maker-checker was never *)
(* off, what was executed was started by somebody else than asked for it,     *)
(* whatever calls overlapped, were cut off or retried.  Not so for a change    *)
(* checked while the setting could not be read, which the code takes for off. *)
FourEyes ==
    TypeOK /\ (~everOff => \A c \in Changes :
                  /\ c \notin unread => change[c].by \notin starters[c]
                  /\ effect[c] > 0 \/ c \in halfway => starters[c] # {})

(* The row tells what happened to a change whose calls never overlapped and   *)
(* were never cut off: it was carried out once if it says so, never if it     *)
(* failed, and not even in part if it waits, was turned down, expired or was  *)
(* destroyed.  What failed may have done or undone a part: only "failed" and   *)
(* "apply_failed", a success that was retried, and "applied" after a destroy   *)
(* that failed hide one.                                                      *)
OutcomeTold ==
    \A c \in Changes \ troubled :
        ~UnderWay(c) =>
            /\ c \in Requests => effect[c] = IF change[c].status = "executed" THEN 1 ELSE 0
            /\ c \in Jobs /\ change[c].status = "applied" => effect[c] = 1
            /\ c \in Jobs /\ change[c].status \in {"none", "planned", "pending_apply", "plan_failed", "destroyed"}
                 => effect[c] = 0
            /\ c \in halfway => change[c].status \in {"failed", "executed", "apply_failed", "applied"}

(* Again and again no such change is left half way: no job stays "planned" or *)
(* "applying" once nothing is under way.                                      *)
ChangesSettle ==
    []<>(\A c \in Changes \ troubled : ~UnderWay(c) /\ change[c].status \notin {"planned", "applying"})

=============================================================================
