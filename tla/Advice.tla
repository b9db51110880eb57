------------------------------- MODULE Advice -------------------------------
(***************************************************************************)
(* The feedback loop: the evaluation of a governance policy                *)
(* (policies.service.ts), the rules that turn its violations and the       *)
(* anomaly feed into proposals (optimization/rules.ts), and the proposals  *)
(* themselves, generated by a loop, applied and dismissed by admins        *)
(* (optimization.service.ts).                                              *)
(*                                                                         *)
(* One policy and one metric. Rows of the feed are levels in percent.      *)
(***************************************************************************)
EXTENDS Naturals, Sequences, FiniteSetsExt, SequencesExt

CONSTANTS
    Resources, Feeds,       \* what the feed may hold, [Resources -> levels]
    ViolationMin, AnomalyMin, GapMin, IdleMax, SpikeMin, \* DEFAULT_RULES
    ListLimit, OtherRows,   \* rows violations() lists, and newer rows of other policies
    Clock, Admins,          \* who runs evaluations: the interval, and admins
    MaxRecs, MaxEvals, MaxAdminCalls, MaxShifts \* bounds

ASSUME AdviceAssumption ==
    /\ IsFiniteSet(Resources) /\ Feeds \subseteq [Resources -> Seq(Nat)] /\ IdleMax < SpikeMin
    /\ ListLimit \in Nat /\ OtherRows \subseteq Nat
    /\ ViolationMin \in Nat \ {0} /\ AnomalyMin \in Nat \ {0} /\ GapMin \in Nat \ {0}

VARIABLES
    policy,    \* the Policy row: there, enabled, effect, violationCount
    bad,       \* the resources that break its rule now
    breaches,  \* [Resources -> PolicyViolation rows of the policy]
    feed,      \* [Resources -> recent rows of the anomaly feed]
    covered,   \* an enabled threshold rule has the metric
    flows,     \* resources a rightsizing workflow is named after
    recs,      \* OptimizationRecommendation
    gen,       \* the generate() under way
    act,       \* [actors -> evaluation or call under way]
    \* observation and bounds
    stale,     \* what the last evaluation of the present facts stored has since been
               \* overwritten by one of former facts, or none has finished
    single,    \* no two evaluations overlapped since one finished alone
    crossed,   \* proposals two admins handled at once, or whose apply broke off
    used

adviceVars == <<policy, bad, breaches, feed, covered, flows, recs, gen, act, stale, single, crossed, used>>

Actors == Admins \cup {Clock}
NoGen == [pc |-> "idle", found |-> {}]
\* late: the facts have changed since it read them; spoilt: an evaluation of
\* former facts has written since it purged.
NoAct == [pc |-> "idle", rec |-> 0, want |-> {}, late |-> FALSE, spoilt |-> FALSE, alone |-> FALSE]

AdviceInit ==
    /\ policy = [there |-> TRUE, enabled |-> TRUE, effect |-> "audit", count |-> 0]
    /\ bad \in SUBSET Resources /\ breaches = [r \in Resources |-> 0]
    /\ feed \in Feeds /\ covered = FALSE /\ flows = {}
    /\ recs = <<>> /\ gen = NoGen /\ act = [a \in Actors |-> NoAct]
    /\ stale = (bad # {}) /\ single = TRUE /\ crossed = {}
    /\ used = [evals |-> 0, calls |-> 0, shifts |-> 0]

Uses(what, most) == used[what] < most /\ used' = [used EXCEPT ![what] = @ + 1]

(***************************************************************************)
(* rules.ts: what the rows propose. A proposal is known by its key: the    *)
(* policy, the metric's rule, or the resource to rightsize.                *)
(***************************************************************************)
\* In tenths, rounded as round1() does.
Mean(s) == (20 * FoldLeft(LAMBDA n, x : n + x, 0, s) + Len(s)) \div (2 * Len(s))
Lowest(s) == Min({s[i] : i \in 1 .. Len(s)})

Shown == {r \in Resources : breaches[r] > 0}
RowCount(set) == MapThenSumSet(LAMBDA r : breaches[r], set)

\* violations() lists the newest rows of all policies: of this one all, or as
\* many as there is room for.
Listable(newer) ==
    IF RowCount(Resources) + newer <= ListLimit THEN {Shown}
    ELSE {set \in SUBSET Shown : Cardinality(set) + newer <= ListLimit \/ set = {}}

\* Mutant: violations are counted, not the resources they are of.
TightensByRows(listed) ==
    policy.there /\ policy.effect = "audit" /\ RowCount(listed) >= ViolationMin

Tightens(listed) ==
    policy.there /\ policy.effect = "audit" /\ Cardinality(listed) >= ViolationMin

Flagged == {r \in Resources : Len(feed[r]) >= AnomalyMin}
IdleOnes == {r \in Flagged : Mean(feed[r]) <= 10 * IdleMax}
Spiking == {r \in Flagged \ IdleOnes : Mean(feed[r]) >= 10 * SpikeMin}

\* The rows of the metric that are not idle ones.
Gaps == UNION {{<<r, i>> : i \in {j \in 1 .. Len(feed[r]) : feed[r][j] > IdleMax}} : r \in Resources}

\* The first proposal of a key wins: a spike's, in the order of the feed, or
\* that of the metric as a whole.
RuleLevels ==
    IF covered THEN {}
    ELSE IF Spiking # {} THEN {Lowest(feed[r]) : r \in Spiking}
    ELSE IF Cardinality(Gaps) >= GapMin THEN {Min({feed[g[1]][g[2]] : g \in Gaps})} ELSE {}

Candidates(listed) ==
    (IF Tightens(listed) THEN {"tighten"} ELSE {}) \cup (IF RuleLevels = {} THEN {} ELSE {"rule"}) \cup IdleOnes

(***************************************************************************)
(* generate(): single flight.                                              *)
(***************************************************************************)
Gather ==
    /\ gen = NoGen
    /\ \E newer \in OtherRows : \E listed \in Listable(newer) :
         /\ Candidates(listed) \ flows # {}
         /\ gen' = [pc |-> "screen", found |-> Candidates(listed) \ flows]
    /\ UNCHANGED <<policy, bad, breaches, feed, covered, flows, recs, act, stale, single, crossed, used>>

OnHold(i) == recs[i].status = "dismissed" /\ recs[i].cooling
Suppressed(k) == \E i \in 1 .. Len(recs) : recs[i].key = k /\ (recs[i].status = "pending" \/ OnHold(i))

Screen ==
    /\ gen.pc = "screen"
    /\ LET fresh == {k \in gen.found : ~Suppressed(k)} IN
       gen' = IF fresh = {} THEN NoGen ELSE [gen EXCEPT !.pc = "publish", !.found = fresh]
    /\ UNCHANGED <<policy, bad, breaches, feed, covered, flows, recs, act, stale, single, crossed, used>>

Proposal(k) == [key |-> k, status |-> "pending", cooling |-> FALSE, made |-> 0]

Publish ==
    /\ gen.pc = "publish" /\ Len(recs) + Cardinality(gen.found) <= MaxRecs
    /\ recs' = recs \o [n \in 1 .. Cardinality(gen.found) |-> Proposal(SetToSeq(gen.found)[n])]
    /\ gen' = NoGen
    /\ UNCHANGED <<policy, bad, breaches, feed, covered, flows, act, stale, single, crossed, used>>

(***************************************************************************)
(* evaluate(): reads policies and resources once, then replaces the rows.  *)
(***************************************************************************)
Evaluating(a) == act[a].pc \in {"purge", "file", "count"}
Replacing(a) == Evaluating(a) \/ act[a].pc = "erase"
\* The facts change under whoever has read them.
Outdated(b) == [a \in Actors |-> IF Evaluating(a) THEN [b[a] EXCEPT !.late = TRUE] ELSE b[a]]
\* An evaluation of former facts writes over what others have begun to store.
Spoils(a, b) ==
    [c \in Actors |-> IF c # a /\ act[c].pc \in {"file", "count"} THEN [b[c] EXCEPT !.spoilt = TRUE] ELSE b[c]]
Written(a, b) ==
    /\ act' = IF act[a].late THEN Spoils(a, b) ELSE b
    /\ stale' = (stale \/ act[a].late)
Crowded(b) == [a \in Actors |-> [b[a] EXCEPT !.alone = FALSE]]

Evaluate ==
    /\ act[Clock] = NoAct /\ Uses("evals", MaxEvals)
    /\ act' = [act EXCEPT ![Clock].pc = "read"]
    /\ UNCHANGED <<policy, bad, breaches, feed, covered, flows, recs, gen, stale, single, crossed>>

\* A disabled policy loses its rows.
Violations == IF policy.enabled THEN bad ELSE {}
Ended(a) == IF act[a].rec = 0 THEN NoAct ELSE [NoAct EXCEPT !.pc = "mark", !.rec = act[a].rec]

Read(a) ==
    /\ act[a].pc = "read"
    /\ LET others == {b \in Actors \ {a} : Evaluating(b)}
           alone == ~\E b \in Actors \ {a} : Replacing(b)
       IN  IF policy.there
           THEN /\ act' = [Crowded(act) EXCEPT ![a] =
                              [@ EXCEPT !.pc = "purge", !.want = Violations,
                                        !.late = FALSE, !.spoilt = FALSE, !.alone = alone]]
                /\ single' = (single /\ others = {})
           ELSE act' = [act EXCEPT ![a] = Ended(a)] /\ UNCHANGED single
    /\ UNCHANGED <<policy, bad, breaches, feed, covered, flows, recs, gen, stale, crossed, used>>

Purge(a) ==
    /\ act[a].pc = "purge"
    /\ breaches' = [r \in Resources |-> 0]
    /\ Written(a, [act EXCEPT ![a].pc = IF act[a].want = {} THEN "count" ELSE "file"])
    /\ UNCHANGED <<policy, bad, feed, covered, flows, recs, gen, single, crossed, used>>

File(a) ==
    /\ act[a].pc = "file"
    /\ breaches' = [r \in Resources |-> breaches[r] + IF r \in act[a].want THEN 1 ELSE 0]
    /\ Written(a, [act EXCEPT ![a].pc = "count"])
    /\ UNCHANGED <<policy, bad, feed, covered, flows, recs, gen, single, crossed, used>>

\* It throws when the policy has gone.
Count(a) ==
    /\ act[a].pc = "count"
    /\ IF policy.there
       THEN /\ policy' = [policy EXCEPT !.count = Cardinality(act[a].want)]
            /\ act' = [act EXCEPT ![a] = Ended(a)]
            /\ stale' = (act[a].late \/ (stale /\ act[a].spoilt))
            /\ UNCHANGED crossed
       ELSE /\ act' = [act EXCEPT ![a] = NoAct]
            /\ crossed' = crossed \cup ({act[a].rec} \ {0})
            /\ UNCHANGED <<policy, stale>>
    /\ single' = (single \/ act[a].alone)
    /\ UNCHANGED <<bad, breaches, feed, covered, flows, recs, gen, used>>

(***************************************************************************)
(* Policies as admins change them.                                         *)
(***************************************************************************)
EditPolicy(a, effect, enabled) ==
    /\ act[a] = NoAct /\ policy.there /\ Uses("calls", MaxAdminCalls)
    /\ <<effect, enabled>> # <<policy.effect, policy.enabled>>
    /\ policy' = [policy EXCEPT !.effect = effect, !.enabled = enabled]
    /\ LET shifts == enabled # policy.enabled
           next == [act EXCEPT ![a].pc = "read"]
       IN  act' = (IF shifts THEN Outdated(next) ELSE next) /\ stale' = (stale \/ shifts)
    /\ UNCHANGED <<bad, breaches, feed, covered, flows, recs, gen, single, crossed>>

\* remove(): its violations, then the policy.
RemovePolicy(a) ==
    /\ act[a] = NoAct /\ policy.there /\ Uses("calls", MaxAdminCalls)
    /\ breaches' = [r \in Resources |-> 0] /\ stale' = TRUE
    /\ act' = [Outdated(act) EXCEPT ![a].pc = "erase", ![a].alone = ~\E b \in Actors : Evaluating(b)]
    /\ UNCHANGED <<policy, bad, feed, covered, flows, recs, gen, single, crossed>>

ErasePolicy(a) ==
    /\ act[a].pc = "erase"
    /\ policy' = [policy EXCEPT !.there = FALSE]
    /\ act' = [Outdated(act) EXCEPT ![a] = NoAct]
    /\ stale' = IF policy.there THEN ~act[a].alone ELSE stale
    /\ UNCHANGED <<bad, breaches, feed, covered, flows, recs, gen, single, crossed, used>>

(***************************************************************************)
(* apply() and dismiss(): the proposal as read, then the change and the    *)
(* mark.                                                                   *)
(***************************************************************************)
Busy(i) == \E a \in Actors : act[a].rec = i
Crossing(i) == IF Busy(i) THEN crossed \cup {i} ELSE crossed
Answering(a, i, pc) ==
    /\ act[a] = NoAct /\ recs[i].status = "pending" /\ Uses("calls", MaxAdminCalls)
    /\ act' = [act EXCEPT ![a].pc = pc, ![a].rec = i]
    /\ crossed' = Crossing(i)
    /\ UNCHANGED <<policy, bad, breaches, feed, covered, flows, recs, gen, stale, single>>

ApplyProposal(a, i) == Answering(a, i, "change")
Decline(a, i) == Answering(a, i, "dismiss")

\* applyChange(): a tightened policy is evaluated before the call goes on.
Change(a) ==
    /\ act[a].pc = "change"
    /\ LET i == act[a].rec
           k == recs[i].key
           fails == k = "tighten" /\ ~policy.there
       IN  /\ policy' = IF k = "tighten" /\ ~fails THEN [policy EXCEPT !.effect = "alert"] ELSE policy
           /\ covered' = (covered \/ k = "rule")
           /\ flows' = IF k \in Resources THEN flows \cup {k} ELSE flows
           /\ recs' = IF fails THEN recs ELSE [recs EXCEPT ![i].made = @ + 1]
           /\ act' = IF fails THEN [act EXCEPT ![a] = NoAct]
                     ELSE [act EXCEPT ![a].pc = IF k = "tighten" THEN "read" ELSE "mark"]
    /\ UNCHANGED <<bad, breaches, feed, gen, stale, single, crossed, used>>

MarkApplied(a) ==
    /\ act[a].pc = "mark"
    /\ recs' = [recs EXCEPT ![act[a].rec].status = "applied"]
    /\ act' = [act EXCEPT ![a] = NoAct]
    /\ UNCHANGED <<policy, bad, breaches, feed, covered, flows, gen, stale, single, crossed, used>>

PutAway(a) ==
    /\ act[a].pc = "dismiss"
    /\ recs' = [recs EXCEPT ![act[a].rec].status = "dismissed", ![act[a].rec].cooling = TRUE]
    /\ act' = [act EXCEPT ![a] = NoAct]
    /\ UNCHANGED <<policy, bad, breaches, feed, covered, flows, gen, stale, single, crossed, used>>

(***************************************************************************)
(* What changes by itself, and the process.                                *)
(***************************************************************************)
Drift(set) ==
    /\ set # bad /\ Uses("shifts", MaxShifts)
    /\ bad' = set /\ stale' = TRUE /\ act' = Outdated(act)
    /\ UNCHANGED <<policy, breaches, feed, covered, flows, recs, gen, single, crossed>>

\* The detections grow too old to count, or others take their place.
FeedMoves(levels) ==
    /\ levels # feed /\ Uses("shifts", MaxShifts)
    /\ feed' = levels
    /\ UNCHANGED <<policy, bad, breaches, covered, flows, recs, gen, act, stale, single, crossed>>

\* An operator deletes or disables the rule the metric had.
RuleGoes ==
    /\ covered /\ Uses("shifts", MaxShifts) /\ covered' = FALSE
    /\ UNCHANGED <<policy, bad, breaches, feed, flows, recs, gen, act, stale, single, crossed>>

CooldownEnds(i) ==
    /\ recs[i].cooling /\ recs' = [recs EXCEPT ![i].cooling = FALSE]
    /\ UNCHANGED <<policy, bad, breaches, feed, covered, flows, gen, act, stale, single, crossed, used>>

ApiRestarts ==
    /\ Uses("shifts", MaxShifts)
    /\ act' = [a \in Actors |-> NoAct] /\ gen' = NoGen
    /\ stale' = (stale \/ \E a \in Actors : Evaluating(a))
    /\ crossed' = crossed \cup {act[a].rec : a \in {b \in Actors : act[b].rec # 0}}
    /\ UNCHANGED <<policy, bad, breaches, feed, covered, flows, recs, single>>

AdviceNext ==
    \/ Gather \/ Screen \/ Publish \/ Evaluate
    \/ \E a \in Actors : Read(a) \/ Purge(a) \/ File(a) \/ Count(a)
    \/ \E a \in Admins :
          \/ \E effect \in {"audit", "alert"}, enabled \in BOOLEAN : EditPolicy(a, effect, enabled)
          \/ RemovePolicy(a) \/ ErasePolicy(a) \/ Change(a) \/ MarkApplied(a) \/ PutAway(a)
          \/ \E i \in 1 .. Len(recs) : ApplyProposal(a, i) \/ Decline(a, i)
    \/ \E set \in SUBSET Resources : Drift(set)
    \/ \E levels \in Feeds : FeedMoves(levels)
    \/ RuleGoes \/ ApiRestarts
    \/ \E i \in 1 .. Len(recs) : CooldownEnds(i)

AdviceSpec == AdviceInit /\ [][AdviceNext]_adviceVars

(***************************************************************************)
(* Properties.                                                             *)
(***************************************************************************)
Expected == IF policy.there THEN Violations ELSE {}
Still == ~\E a \in Actors : Replacing(a)

\* An evaluation in flight shows a part of the violations, never a false one.
ViolationsTold ==
    /\ ~stale => Shown \subseteq Expected
    /\ ~stale /\ Still => Shown = Expected /\ (policy.there => policy.count = Cardinality(Expected))
    /\ single => \A r \in Resources : breaches[r] <= 1

\* Only as many resources as really break the policy tighten it, and they do if
\* all their rows are listed; a proposed rule would fire at an idle level only if
\* a resource that spikes was idle too.
CandidatesRight ==
    /\ \A newer \in OtherRows : \A listed \in Listable(newer) :
          /\ ~stale /\ Tightens(listed) => Cardinality(Expected) >= ViolationMin
          /\ ~stale /\ Still /\ policy.there /\ policy.effect = "audit"
               /\ RowCount(Resources) + newer <= ListLimit /\ Cardinality(Expected) >= ViolationMin
             => Tightens(listed)
    /\ gen.pc = "screen" => \A level \in RuleLevels : level > IdleMax \/ \E r \in Spiking : Lowest(feed[r]) = level

\* One open proposal of a kind; a dismissal sticks; a change is made once, and
\* by nothing but an apply.
ProposalsKept ==
    \A i \in 1 .. Len(recs) :
        LET rec == recs[i] IN
        /\ \A j \in 1 .. Len(recs) : rec.status = "pending" /\ recs[j].key = rec.key =>
              /\ recs[j].status = "pending" => i = j
              /\ OnHold(j) => j \in crossed
        /\ ~Busy(i) /\ i \notin crossed => rec.made = IF rec.status = "applied" THEN 1 ELSE 0

\* AdviceHonest: the loop proposes what is, once. When an evaluation of the
\* present facts has finished, the violations are the resources that break the
\* policy, and each once if it ran alone, until an evaluation that had read
\* former facts writes: nothing keeps that one from putting its rows back over
\* newer ones, and they stay until the next evaluation (policies.service.ts
\* :183-190). Nor is anything said until the next one when an evaluation was cut
\* off by a restart, of the rows of a policy removed under an evaluation, or of
\* breaches beyond the rows that are listed. A proposal rests
\* on enough of them; no key waits twice for an answer or returns while its
\* dismissal holds; what is applied was changed once and what is not was not,
\* unless two admins met at one proposal, the process went down between the
\* change and the mark, or the policy was removed under its evaluation
\* (policies.service.ts, optimization/rules.ts, optimization.service.ts).
AdviceHonest == ViolationsTold /\ CandidatesRight /\ ProposalsKept

=============================================================================
