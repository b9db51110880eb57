----------------------------- MODULE MCInsights -----------------------------
(***************************************************************************)
(* Four parts that read what the fleet reports, checked in one run: they   *)
(* share no state, so a behaviour is of one of them, the subject, and the  *)
(* others rest in one initial state, where their properties hold.          *)
(***************************************************************************)
EXTENDS Uptime, Detectors, Findings, Advice

VARIABLE subject

MCOf(a, b) == [r \in Resources |-> IF r = "r1" THEN a ELSE b]
\* A resource that spikes and was idle once; an idle one and a middling one.
Spiky == MCOf(<<4, 100, 100, 100, 100>>, <<50>>)
MCFeeds == {Spiky, MCOf(<<4, 4>>, <<50, 60>>)}

\* Admins are alike.
MCSymmetry == Permutations(Admins)

\* A subject that is not asked about rests; the advice begins with one feed.
UptimeRests == tz = (CHOOSE o \in Offsets : TRUE) /\ verdict = "none"
PureRests == question = [about |-> "none"] /\ answer = Unanswered

MCInit ==
    /\ subject \in {"uptime", "detectors", "findings", "advice"}
    /\ UpInit /\ FindInit /\ AdviceInit
    /\ IF subject = "detectors" THEN PureInit ELSE PureRests
    /\ subject # "uptime" => UptimeRests
    /\ feed = Spiky /\ bad = Resources

MCNext ==
    /\ \/ subject = "uptime" /\ UpNext /\ UNCHANGED <<pureVars, findVars, adviceVars>>
       \/ subject = "detectors" /\ Answer /\ UNCHANGED <<upVars, findVars, adviceVars>>
       \/ subject = "findings" /\ FindNext /\ UNCHANGED <<upVars, pureVars, adviceVars>>
       \/ subject = "advice" /\ AdviceNext /\ UNCHANGED <<upVars, pureVars, findVars>>
    /\ UNCHANGED subject

\* UptimeSound: of Uptime, its reports and day rows add up (uptime.ts,
\* uptime.service.ts).
UptimeSound == subject = "uptime" => UptimeTold

\* AnswersSound: of Detectors, what is told of costs, series, alerts and failovers
\* is right (aiops/detectors, correlation.ts, failover-metrics.ts).
AnswersSound == subject = "detectors" => DetectorsSound

=============================================================================
