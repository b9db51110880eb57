------------------------------ MODULE Detectors ------------------------------
(***************************************************************************)
(* The pure parts of aiops (detectors/, stats.ts, suppression.ts,          *)
(* correlation.ts) and the verdict on a failover (failover-metrics.ts):    *)
(* one question is put and answered.                                       *)
(*                                                                         *)
(* Values are integers. A median of an even number of values and what is   *)
(* measured from it are kept in halves and quarters, so nothing is         *)
(* rounded; the text of a finding and its severity are left out.           *)
(***************************************************************************)
EXTENDS Integers, Sequences, FiniteSetsExt, SequencesExt

CONSTANTS
    Hours, Week,                 \* 24 hours, 7 days
    Floor, MinCohort, ColdStart, \* DEFAULT_COST_CFG
    Base, Run,                   \* DEFAULT_BEHAVIOUR_CFG: window, kConsecutive
    Gap,                         \* DEFAULT_CORR_WINDOW_MS
    Values, MaxSeries,           \* bounds: samples and costs, and how many
    Providers, MaxAlerts, LastRaised \* bounds: the alerts correlated

ASSUME DetectorsAssumption ==
    /\ Hours \in Nat \ {0} /\ Week \in Nat \ {0} /\ Base \in Nat \ {0} /\ Run \in Nat \ {0}
    /\ Values \subseteq Nat /\ MaxSeries \in Nat

VARIABLES question, answer

pureVars == <<question, answer>>
Unanswered == <<>>

(***************************************************************************)
(* stats.ts.                                                               *)
(***************************************************************************)
Sorted(s) == SortSeq(s, LAMBDA a, b : a < b)
Distance(a, b) == IF a > b THEN a - b ELSE b - a

\* Twice the median.
Median2(s) ==
    IF s = <<>> THEN 0
    ELSE LET t == Sorted(s) mid == Len(s) \div 2
         IN  IF Len(s) % 2 = 1 THEN 2 * t[mid + 1] ELSE t[mid] + t[mid + 1]

\* Four times the median absolute deviation.
Mad4(s) == Median2([i \in 1 .. Len(s) |-> Distance(2 * s[i], Median2(s))])

\* |0.6745 (x - median) / mad| >= 3.5, and the cap of a flat baseline.
Surprising(x, s) ==
    LET off4 == 2 * Distance(2 * x, Median2(s))
    IN  IF Mad4(s) = 0 THEN off4 > 0 ELSE 6745 * off4 >= 35000 * Mad4(s)

(***************************************************************************)
(* The detectors.                                                          *)
(***************************************************************************)
\* detectCost(): the peers in the order they are met, the subject's own past.
DetectCost(running, cost, cohort, past) ==
    LET active == SelectSeq(cohort, LAMBDA c : c.running /\ c.cost >= Floor)
        costs == [i \in 1 .. Len(active) |-> active[i].cost]
    IN  running /\ \/ Len(active) >= MinCohort /\ Surprising(cost, costs)
                   \/ Len(past) >= ColdStart /\ Surprising(cost, past)

\* rollingMedianMad(): a sample against the window before it.
Breaches(s, i) == i > Base /\ Surprising(s[i], SubSeq(s, i - Base, i - 1))

\* Mutant: breaches are counted wherever they are.
DetectAnyBreaches(s) ==
    Len(s) >= Base + Run /\ Cardinality({i \in 1 .. Len(s) : Breaches(s, i)}) >= Run

\* detectBehaviour(): the run of breaches the series ends with.
DetectBehaviour(s) ==
    LET quiet == {i \in 1 .. Len(s) : ~Breaches(s, i)}
        run == Len(s) - (IF quiet = {} THEN 0 ELSE Max(quiet))
    IN  Len(s) >= Base + Run /\ run >= Run

(***************************************************************************)
(* suppression.ts.                                                         *)
(***************************************************************************)
DayOk(w, day) == w.days = {} \/ day \in w.days

\* Mutant: the morning after an overnight window is looked up by its own day.
InWindowSameDay(w, day, hour) ==
    /\ w.enabled /\ DayOk(w, day)
    /\ IF w.start < w.end THEN hour >= w.start /\ hour < w.end ELSE hour >= w.start \/ hour < w.end

InWindow(w, day, hour) ==
    /\ w.enabled
    /\ IF w.start < w.end THEN DayOk(w, day) /\ hour >= w.start /\ hour < w.end
       ELSE \/ hour >= w.start /\ DayOk(w, day)
            \/ hour < w.start /\ hour < w.end /\ DayOk(w, (day + Week - 1) % Week)

(***************************************************************************)
(* correlation.ts: alerts of one metric, a group grown while the next is   *)
(* close to the last.                                                      *)
(***************************************************************************)
Correlate(alerts) ==
    LET Grow(groups, a) ==
            IF groups # <<>> /\ a.at - Last(Last(groups)).at <= Gap
            THEN [groups EXCEPT ![Len(groups)] = Append(@, a)]
            ELSE Append(groups, <<a>>)
        clusters == FoldLeft(Grow, <<>>, SortSeq(alerts, LAMBDA a, b : a.at < b.at))
        Group(c) == [ids |-> {c[i].id : i \in 1 .. Len(c)},
                     cross |-> Cardinality({c[i].provider : i \in 1 .. Len(c)} \ {"unknown"}) >= 2,
                     span |-> Last(c).at - c[1].at]
    IN  {Group(clusters[i]) : i \in {j \in 1 .. Len(clusters) : Len(clusters[j]) >= 2}}

(***************************************************************************)
(* failover-metrics.ts.                                                    *)
(***************************************************************************)
DeriveOutcome(v) ==
    LET sick == v.checked /\ ~v.healthy
    IN  IF ~v.promoted \/ (v.block /\ ~v.primary) THEN "failed"
        ELSE IF sick \/ (v.block /\ ~v.upToDate) THEN "partial" ELSE "success"

(***************************************************************************)
(* Questions.                                                              *)
(***************************************************************************)
Series(n) == BoundedSeq(Values, n)
Peers == [running : BOOLEAN, cost : Values]
Windows == [start : 0 .. Hours - 1, end : 1 .. Hours, days : SUBSET (0 .. Week - 1), enabled : BOOLEAN]
Raised(ids) == [ids -> [at : 0 .. LastRaised, provider : Providers \cup {"unknown"}]]

OfWindows == [about : {"window"}, w : Windows, day : 0 .. Week - 1, hour : 0 .. Hours - 1]
OfCosts == [about : {"cost"}, running : BOOLEAN, cost : Values, cohort : BoundedSeq(Peers, MinCohort + 1), past : Series(ColdStart)]
OfSeries == [about : {"behaviour"}, series : Series(MaxSeries)]
OfAlerts ==
    UNION {{[about |-> "alerts", alerts |-> [i \in 1 .. n |-> [id |-> i, at |-> r[i].at, provider |-> r[i].provider]]] :
               r \in Raised(1 .. n)} : n \in 0 .. MaxAlerts}
OfFailovers ==
    [about : {"failover"}, v : [promoted : BOOLEAN, block : BOOLEAN, primary : BOOLEAN, upToDate : BOOLEAN,
                                checked : BOOLEAN, healthy : BOOLEAN]]
Questions == OfWindows \cup OfCosts \cup OfSeries \cup OfAlerts \cup OfFailovers

PureInit == question \in Questions /\ answer = Unanswered

Answer ==
    /\ answer = Unanswered
    /\ answer' = <<CASE question.about = "window" -> InWindow(question.w, question.day, question.hour)
                    [] question.about = "cost" -> DetectCost(question.running, question.cost, question.cohort, question.past)
                    [] question.about = "behaviour" -> DetectBehaviour(question.series)
                    [] question.about = "alerts" -> Correlate(question.alerts)
                    [] OTHER -> DeriveOutcome(question.v)>>
    /\ UNCHANGED question

PureSpec == PureInit /\ [][Answer]_pureVars

(***************************************************************************)
(* What the answers must be.                                               *)
(***************************************************************************)
\* A window is one span per declared day: it opens at its hour and lasts until
\* the next time its closing hour comes, into the next day if need be.
WindowRight(q, a) ==
    LET w == q.w
        lasts == IF w.start < w.end THEN w.end - w.start ELSE Hours - w.start + w.end
        Since(day) == (q.day * Hours + q.hour - (day * Hours + w.start) + Week * Hours) % (Week * Hours)
    IN  a <=> w.enabled /\ \E day \in 0 .. Week - 1 : DayOk(w, day) /\ Since(day) < lasts

\* Idle and stopped peers and the order of the others have no say; a resource
\* with little past and few peers is never flagged.
CostRight(q, a) ==
    LET awake == SelectSeq(q.cohort, LAMBDA c : c.running /\ c.cost >= Floor)
    IN  /\ a = DetectCost(q.running, q.cost, Reverse(awake), Reverse(q.past))
        /\ a => q.running /\ (Len(awake) >= MinCohort \/ Len(q.past) >= ColdStart)
        /\ a => \E c \in Range([i \in 1 .. Len(awake) |-> awake[i].cost]) \cup Range(q.past) : c # q.cost

\* Only a deviation that lasts is flagged, and the same one at any level.
BehaviourRight(q, a) ==
    LET s == q.series
    IN  /\ a <=> Len(s) >= Base + Run /\ \A i \in Len(s) - Run + 1 .. Len(s) : Breaches(s, i)
        /\ a = DetectBehaviour([i \in 1 .. Len(s) |-> s[i] + 7])
        /\ a => \A i \in Len(s) - Run + 1 .. Len(s) : \E j \in i - Base .. i - 1 : s[j] # s[i]

\* Two alerts are in one group if and only if no silence longer than the gap
\* lies between them.
CorrelationRight(q, a) ==
    LET n == Len(q.alerts)
        At(i) == q.alerts[i].at
        Silence(i, j) == \E from \in {At(k) : k \in 1 .. n} :
            /\ from >= At(i) /\ from < At(j)
            /\ \A k \in 1 .. n : At(k) <= from \/ At(k) > from + Gap
    IN  /\ \A i, j \in 1 .. n :
              i # j /\ At(i) <= At(j) => ((\E g \in a : {i, j} \subseteq g.ids) <=> ~Silence(i, j))
        /\ \A g, h \in a : g # h => g.ids \cap h.ids = {}
        /\ \A g \in a : g.cross <=> \E i, j \in g.ids :
              /\ q.alerts[i].provider # q.alerts[j].provider
              /\ "unknown" \notin {q.alerts[i].provider, q.alerts[j].provider}

\* Success is claimed only of a node that serves, and nothing of a promotion
\* that did not happen.
FailoverRight(q, a) ==
    LET v == q.v
    IN  /\ a = "success" => v.promoted /\ (v.block => v.primary /\ v.upToDate) /\ (v.checked => v.healthy)
        /\ a = "failed" <=> ~v.promoted \/ (v.block /\ ~v.primary)

\* DeclaredHours: declared load is hidden exactly while it was declared. A window
\* that crosses midnight holds on the declared evening and the morning after it,
\* also when that is the next week's, and at no other hour (suppression.ts).
DeclaredHours ==
    answer # Unanswered /\ question.about = "window" => WindowRight(question, answer[1])

\* DetectorsSound: the other answers are right. Idle peers never tip a cost verdict
\* and a new resource is not flagged for being new; a single spike is not a
\* behaviour; a correlated group is exactly the alerts with no long silence between
\* them; a failover that does not serve is not a success (detectors/,
\* correlation.ts, failover-metrics.ts).
DetectorsSound ==
    answer # Unanswered /\ question.about # "window" =>
        CASE question.about = "cost" -> CostRight(question, answer[1])
          [] question.about = "behaviour" -> BehaviourRight(question, answer[1])
          [] question.about = "alerts" -> CorrelationRight(question, answer[1])
          [] OTHER -> FailoverRight(question, answer[1])

=============================================================================
