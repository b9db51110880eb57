--------------------------- MODULE AlertingProofs ---------------------------
(***************************************************************************)
(* The alerting engine: the passes that raise and escalate alerts (module   *)
(* Alerting), then the log of what was delivered (module Delivery).         *)
(*                                                                         *)
(* None of the promises of OncePerCause is inductive: a pass decides in one *)
(* step and acts in a later one.  For each of them the invariant says what  *)
(* is known of the pass in between.  What it found absent still is; the row *)
(* it is to tell is its own and untold; a rule has fired once less than its *)
(* thing has come to be as it was before the event, as long as the rule may *)
(* still fire for it; and a tier that has run is marked on the row, or the  *)
(* pass that climbs the row will mark it.                                   *)
(***************************************************************************)
EXTENDS Alerting, Delivery, FiniteSetTheorems, WellFoundedInduction, TLAPS

(***************************************************************************)
(* What a pass has in hand.                                                *)
(***************************************************************************)
PassPcs == {"idle", "events", "rules", "scan", "fire", "raise", "deliver", "check", "create", "tell",
            "tiers", "climb"}
PassRow == [pc : PassPcs, rules : SUBSET Rules, up : SUBSET Things, left : SUBSET Things,
            thing : Things \cup {"none"}, fire : SUBSET Rules, items : SUBSET (Rules \X Things),
            queue : SUBSET (Nat \X (SUBSET Tiers) \X (SUBSET Tiers)), row : Nat, due : SUBSET Tiers,
            fired : SUBSET Tiers, step : 0 .. Steps, changed : BOOLEAN]

Typed ==
    /\ up \in [Things -> BOOLEAN] /\ hot \subseteq Vms /\ enabled \subseteq Rules
    /\ alerts \in Seq(RowType) /\ Len(alerts) <= MaxAlerts
    /\ prev \in [Things -> {"none", "up", "down"}]
    /\ sent \in [EventRules \X Things -> Nat] /\ changes \in [Things -> Nat]
    /\ overlapped \in BOOLEAN /\ reopened \in BOOLEAN
    /\ budget \in [change : Nat, click : Nat, fault : 0 .. MaxFaults]
    /\ pass \in [Passes -> PassRow]

\* A pass that delivers has a thing with rules to fire, one that creates or tells
\* has a machine and its rule, one that climbs has its row.
Placed(me, n) ==
    /\ me.row \in 0 .. n
    /\ me.pc \in {"deliver", "tell", "climb"} => me.row # 0
    /\ me.pc \in {"fire", "raise", "deliver"} =>
         me.thing \in me.left /\ me.fire # {} /\ me.fire \subseteq EventRules
    /\ me.pc \in {"raise", "deliver"} => \E r \in me.fire : me.items = {<<r, me.thing>>}
    /\ me.pc \in {"check", "create", "tell"} => me.items \subseteq Threshold \X Things
    /\ me.pc \in {"create", "tell"} => me.thing \in Things /\ \E r \in Threshold : me.fire = {r}
    /\ me.pc = "climb" => me.step # 0 /\ \A i \in me.queue : i[1] \in 1 .. n

\* Passes that do not overlap come one at a time.
OnePass ==
    ~overlapped => \A p, q \in Passes : pass[p].pc # "idle" /\ pass[q].pc # "idle" => p = q

PassesTell == Typed /\ (\A p \in Passes : Placed(pass[p], Len(alerts))) /\ OnePass

(***************************************************************************)
(* One open alert: what a pass has found absent still is.                  *)
(***************************************************************************)
MonitorsQuiet ==
    ~reopened => \A t \in Things : Kind[t] = "monitor" /\ up[t] => OpenOf(<<"monitor", t>>, t) = {}
StillAbsent(me) ==
    /\ me.pc = "raise" => \A r \in me.fire : me.items = {<<r, me.thing>>} => OpenOf(<<"event", On[r]>>, me.thing) = {}
    /\ me.pc = "create" => \A r \in me.fire : OpenOf(<<"rule", r>>, me.thing) = {}
OpenInv ==
    /\ MonitorsQuiet /\ OneOpenAlert
    /\ ~overlapped /\ ~reopened => \A p \in Passes : StillAbsent(pass[p])

(***************************************************************************)
(* Raised is told: who tells has the row, and nobody else has it.          *)
(***************************************************************************)
IsRule(a) == alerts[a].source \in {"rule"} \X Threshold
TellsOne ==
    \A p \in Passes :
        /\ pass[p].pc = "tell" => /\ IsRule(pass[p].row) /\ alerts[pass[p].row].told = 0
                                  /\ \A q \in Passes : pass[q].pc = "tell" /\ pass[q].row = pass[p].row => p = q
        /\ pass[p].pc = "deliver" => ~IsRule(pass[p].row)
ToldInv == TellsOne /\ RaisedIsTold

(***************************************************************************)
(* Events: how often a thing has come to be as it was before an event of a *)
(* rule, how often it has left that, and how often the rule has fired.     *)
(***************************************************************************)
Before(r) == IF On[r] = "vm_power_on" THEN "down" ELSE "up"
Came(r, t) == IF On[r] = "vm_power_on" THEN (changes[t] + 1) \div 2 ELSE changes[t] \div 2 + 1
Left(r, t) == IF On[r] = "vm_power_on" THEN changes[t] \div 2 ELSE (changes[t] + 1) \div 2
Delivers(me) == me.pc \in {"fire", "raise", "deliver"}
Scans(me) == me.pc = "scan" \/ Delivers(me)

\* The rule has fired for the transition under way, or does not.
Announced(r, t) == \E p \in Passes : Delivers(pass[p]) /\ pass[p].thing = t /\ r \notin pass[p].fire

Counted(r, t) ==
    /\ sent[<<r, t>>] <= Left(r, t)
    /\ prev[t] = Before(r) /\ ~Announced(r, t) => sent[<<r, t>>] < Came(r, t)
    /\ \A p \in Passes : Scans(pass[p]) /\ t \in pass[p].left =>
         /\ Seen(pass[p], t) = Before(r) => sent[<<r, t>>] < Came(r, t)
         /\ Seen(pass[p], t) # Before(r) /\ prev[t] = Before(r) /\ ~Announced(r, t) => sent[<<r, t>>] < Left(r, t)

Fires(me) ==
    Delivers(me) => \A r \in me.fire : prev[me.thing] = Before(r) /\ Seen(me, me.thing) # Before(r)

EventInv ==
    /\ \A t \in Things : up[t] <=> changes[t] % 2 = 0
    /\ Untroubled /\ ~overlapped => /\ \A p \in Passes : Fires(pass[p])
                                    /\ \A r \in EventRules, t \in Things : Counted(r, t)

(***************************************************************************)
(* Tiers: one that has run is marked, or the pass that ran it will.        *)
(***************************************************************************)
Climbs(p, a) == pass[p].pc = "climb" /\ pass[p].row = a
RanBy(p, t) ==
    \/ t \in pass[p].fired /\ pass[p].changed
    \/ t \in pass[p].due /\ pass[p].step > 1 /\ t = Lowest(pass[p].due)
RunsTell ==
    \A a \in DOMAIN alerts, t \in Tiers :
        /\ alerts[a].ran[t] <= 1
        /\ alerts[a].ran[t] = 1 => t \in alerts[a].fired \/ \E p \in Passes : Climbs(p, a) /\ RanBy(p, t)
ClimbTells(me) ==
    me.pc = "climb" =>
        /\ alerts[me.row].fired \subseteq me.fired /\ me.due \cap me.fired = {}
        /\ me.changed \/ me.fired = alerts[me.row].fired
        /\ me.due = {} => me.step = 1
        /\ \A i \in me.queue : /\ i[3] = alerts[i[1]].fired /\ i[2] \cap i[3] = {} /\ i[1] # me.row
                               /\ \A j \in me.queue : i[1] = j[1] => i = j
TierInv ==
    Untroubled /\ ~overlapped => RunsTell /\ \A p \in Passes : ClimbTells(pass[p])

AlertingInv == PassesTell /\ OpenInv /\ ToldInv /\ EventInv /\ TierInv

(***************************************************************************)
(* Bounds, rows and records.                                               *)
(***************************************************************************)
\* The bounds are numbers.
LEMMA AlertBounds ==
    /\ MaxTier \in Nat /\ Steps \in Nat \ {0} /\ PolicyAge \in Nat /\ MaxAge \in Nat
    /\ MaxAlerts \in Nat /\ MaxChanges \in Nat /\ MaxClicks \in Nat /\ MaxFaults \in Nat
  <1>1. MaxTier \in Nat /\ PolicyAge \in Nat
    BY AlertingAssumption DEF AlertingAssumption
  <1>2. MaxAge \in Nat
    BY <1>1 DEF MaxAge
  <1> QED
    BY <1>2, AlertingAssumption DEF AlertingAssumption

\* A fault is spent: from now on something has failed.
LEMMA FaultSpent ==
    ASSUME Typed, Spend("fault")
    PROVE  budget' \in [change : Nat, click : Nat, fault : 0 .. MaxFaults] /\ ~Untroubled'
  <1>1. MaxFaults \in Nat /\ budget \in [change : Nat, click : Nat, fault : 0 .. MaxFaults]
    BY AlertBounds DEF Typed
  <1>2. budget.fault \in 0 .. MaxFaults /\ budget.fault > 0
        /\ budget' = [budget EXCEPT !.fault = budget.fault - 1]
    BY <1>1 DEF Spend
  <1>3. budget.fault - 1 \in 0 .. MaxFaults /\ budget.fault - 1 # MaxFaults
    BY <1>1, <1>2
  <1>4. budget' \in [change : Nat, click : Nat, fault : 0 .. MaxFaults] /\ budget'.fault = budget.fault - 1
    BY <1>1, <1>2, <1>3
  <1> QED
    BY <1>3, <1>4 DEF Untroubled

\* A click or a change is spent, and nothing has failed by that.
LEMMA OtherSpent ==
    ASSUME Typed, Spend("click") \/ Spend("change")
    PROVE  /\ budget' \in [change : Nat, click : Nat, fault : 0 .. MaxFaults]
           /\ Untroubled' = Untroubled
  <1>1. budget \in [change : Nat, click : Nat, fault : 0 .. MaxFaults]
    BY DEF Typed
  <1>2. /\ budget' \in [change : Nat, click : Nat, fault : 0 .. MaxFaults]
        /\ budget'.fault = budget.fault
    BY <1>1 DEF Spend
  <1> QED
    BY <1>2 DEF Untroubled

\* A pass that rests.
LEMMA IdleIs ==
    /\ Idle \in PassRow /\ Idle.pc = "idle" /\ Idle.row = 0 /\ Idle.fire = {} /\ Idle.items = {}
    /\ Idle.queue = {} /\ Idle.due = {} /\ Idle.fired = {} /\ ~Idle.changed /\ Idle.step = 0
  <1>1. 0 \in 0 .. Steps
    BY AlertBounds
  <1> QED
    BY <1>1 DEF Idle, PassRow, PassPcs

\* One pass goes on, and the other stays where it is.
LEMMA Goes ==
    ASSUME Typed, NEW p \in Passes, NEW next \in PassRow, Go(p, next)
    PROVE  /\ pass' \in [Passes -> PassRow] /\ pass'[p] = next
           /\ \A q \in Passes : q # p => pass'[q] = pass[q]
  BY DEF Typed, Go

\* One row is written.
LEMMA RowWritten ==
    ASSUME Typed, NEW a \in 1 .. Len(alerts), NEW r \in RowType, alerts' = [alerts EXCEPT ![a] = r]
    PROVE  /\ alerts' \in Seq(RowType) /\ Len(alerts') = Len(alerts) /\ Len(alerts') <= MaxAlerts
           /\ alerts'[a] = r /\ \A b \in 1 .. Len(alerts) : b # a => alerts'[b] = alerts[b]
  BY DEF Typed

\* A row is added behind the others.
LEMMA RowAdded ==
    ASSUME Typed, NEW r \in RowType, alerts' = Append(alerts, r), Len(alerts) < MaxAlerts
    PROVE  /\ alerts' \in Seq(RowType) /\ Len(alerts') = Len(alerts) + 1 /\ Len(alerts') <= MaxAlerts
           /\ alerts'[Len(alerts) + 1] = r /\ \A b \in 1 .. Len(alerts) : alerts'[b] = alerts[b]
           /\ Len(alerts) \in Nat
  <1>1. Len(alerts) \in Nat /\ MaxAlerts \in Nat
    BY AlertBounds DEF Typed
  <1> QED
    BY <1>1 DEF Typed

\* All rows are written at once.
LEMMA RowsWritten ==
    ASSUME Typed, DOMAIN alerts' = DOMAIN alerts, NEW f, alerts' = [a \in DOMAIN alerts |-> f[a]],
           \A a \in 1 .. Len(alerts) : f[a] \in RowType
    PROVE  alerts' \in Seq(RowType) /\ Len(alerts') = Len(alerts) /\ Len(alerts') <= MaxAlerts
  <1>1. alerts \in Seq(RowType) /\ Len(alerts) \in Nat /\ DOMAIN alerts = 1 .. Len(alerts)
    BY DEF Typed
  <1>2. alerts' \in [1 .. Len(alerts) -> RowType]
    BY <1>1
  <1>3. alerts' \in Seq(RowType) /\ Len(alerts') = Len(alerts)
    BY <1>1, <1>2
  <1> QED
    BY <1>3 DEF Typed

\* The columns of a row.
LEMMA RowColumns ==
    ASSUME Typed, NEW a \in 1 .. Len(alerts)
    PROVE  /\ alerts[a] \in RowType /\ alerts[a].source \in Sources /\ alerts[a].thing \in Things
           /\ alerts[a].status \in {"active", "acknowledged", "resolved"} /\ alerts[a].age \in 0 .. MaxAge
           /\ alerts[a].fired \subseteq Tiers /\ alerts[a].escalated \in BOOLEAN
           /\ alerts[a].told \in 0 .. 2 /\ alerts[a].ran \in [Tiers -> 0 .. 2]
  <1>1. alerts[a] \in RowType
    BY DEF Typed
  <1> QED
    BY <1>1 DEF RowType

\* A new row.
LEMMA NewRow ==
    ASSUME NEW s \in Sources, NEW t \in Things
    PROVE  /\ Row(s, t) \in RowType /\ Row(s, t).source = s /\ Row(s, t).thing = t
           /\ Row(s, t).status = "active" /\ Row(s, t).told = 0 /\ Row(s, t).fired = {}
           /\ \A i \in Tiers : Row(s, t).ran[i] = 0
  <1>1. 0 \in 0 .. MaxAge /\ 0 \in 0 .. 2
    BY AlertBounds
  <1> QED
    BY <1>1 DEF Row, RowType

(***************************************************************************)
(* What each step does to the passes and the rows.                         *)
(***************************************************************************)
\* The tables a step of a pass may write keep their types.
Tables ==
    /\ alerts' \in Seq(RowType) /\ Len(alerts') <= MaxAlerts /\ Len(alerts) <= Len(alerts')
    /\ prev' \in [Things -> {"none", "up", "down"}] /\ sent' \in [EventRules \X Things -> Nat]
    /\ budget' \in [change : Nat, click : Nat, fault : 0 .. MaxFaults]

\* Rows that are added leave a pass in its place.
LEMMA PlacedLater ==
    ASSUME NEW me \in PassRow, NEW n \in Nat, NEW m \in Nat, n <= m, Placed(me, n)
    PROVE  Placed(me, m)
  <1>1. \A i \in 0 .. n : i \in 0 .. m
    OBVIOUS
  <1>2. \A i \in 1 .. n : i \in 1 .. m
    OBVIOUS
  <1> QED
    BY <1>1, <1>2 DEF Placed

\* A step of one pass.
LEMMA PassSteps ==
    ASSUME PassesTell, NEW p \in Passes, NEW next \in PassRow, Go(p, next), pass[p].pc # "idle",
           Same, Tables, Placed(next, Len(alerts'))
    PROVE  /\ PassesTell' /\ pass'[p] = next
           /\ \A q \in Passes : q # p => pass'[q] = pass[q]
  <1>1. Typed /\ Len(alerts) \in Nat
    BY DEF PassesTell, Typed
  <1>2. /\ pass' \in [Passes -> PassRow] /\ pass'[p] = next
        /\ \A q \in Passes : q # p => pass'[q] = pass[q]
    BY <1>1, Goes
  <1>3. Typed' /\ Len(alerts') \in Nat
    BY <1>1, <1>2 DEF Typed, Same, Tables
  <1>4. \A q \in Passes : Placed(pass'[q], Len(alerts'))
    <2> TAKE q \in Passes
    <2>1. CASE q = p
      BY <1>2, <2>1
    <2>2. CASE q # p
      <3>1. pass'[q] = pass[q] /\ Placed(pass[q], Len(alerts)) /\ pass[q] \in PassRow
        BY <1>1, <1>2, <2>2 DEF PassesTell, Typed
      <3> QED
        BY <1>1, <1>3, <3>1, PlacedLater DEF Tables
    <2> QED
      BY <2>1, <2>2
  <1>5. OnePass'
    BY <1>2 DEF PassesTell, OnePass, Same
  <1> QED
    BY <1>2, <1>3, <1>4, <1>5 DEF PassesTell

\* A step of the world or an operator.
LEMMA WorldSteps ==
    ASSUME PassesTell, UNCHANGED <<pass, sent, overlapped>>, Tables,
           up' \in [Things -> BOOLEAN], hot' \subseteq Vms, enabled' \subseteq Rules,
           changes' \in [Things -> Nat], reopened' \in BOOLEAN
    PROVE  PassesTell'
  <1>1. Typed /\ Len(alerts) \in Nat
    BY DEF PassesTell, Typed
  <1>2. Typed' /\ Len(alerts') \in Nat
    BY <1>1 DEF Typed, Tables
  <1>3. \A q \in Passes : Placed(pass'[q], Len(alerts'))
    <2> TAKE q \in Passes
    <2>1. pass'[q] = pass[q] /\ Placed(pass[q], Len(alerts)) /\ pass[q] \in PassRow
      BY <1>1 DEF PassesTell, Typed
    <2> QED
      BY <1>1, <1>2, <2>1, PlacedLater DEF Tables
  <1>4. OnePass'
    BY DEF PassesTell, OnePass
  <1> QED
    BY <1>2, <1>3, <1>4 DEF PassesTell

\* What a step leaves alone has its type.
LEMMA TablesStay ==
    ASSUME PassesTell, alerts' = alerts, prev' = prev \/ prev' \in [Things -> {"none", "up", "down"}],
           sent' = sent, UNCHANGED budget \/ Spend("click") \/ Spend("change") \/ Spend("fault")
    PROVE  Tables
  <1>1. Typed /\ Len(alerts) \in Nat
    BY DEF PassesTell, Typed
  <1>2. budget' \in [change : Nat, click : Nat, fault : 0 .. MaxFaults]
    BY <1>1, FaultSpent, OtherSpent DEF Typed
  <1> QED
    BY <1>1, <1>2 DEF Typed, Tables

LEMMA BeginDoes ==
    ASSUME PassesTell, NEW p \in Passes, Begin(p)
    PROVE  /\ PassesTell' /\ UNCHANGED <<up, alerts, prev, sent, changes, reopened>>
           /\ pass[p].pc = "idle" /\ pass'[p].pc = "events"
           /\ \A q \in Passes : q # p => pass'[q] = pass[q]
           /\ Untroubled' = Untroubled /\ (overlapped => overlapped')
  <1> DEFINE next == [Idle EXCEPT !.pc = "events", !.rules = enabled]
  <1>1. Typed /\ Len(alerts) \in Nat
    BY DEF PassesTell, Typed
  <1>2. next \in PassRow /\ next.pc = "events" /\ next.row = 0
    BY <1>1, IdleIs DEF PassRow, PassPcs, Typed
  <1>3. Go(p, next) /\ UNCHANGED <<up, hot, enabled, alerts, prev, sent, changes, reopened>>
        /\ (UNCHANGED budget \/ Spend("click")) /\ pass[p].pc = "idle"
        /\ overlapped' = (overlapped \/ \E q \in Passes : pass[q].pc # "idle")
    BY DEF Begin
  <1> HIDE DEF next
  <1>4. /\ pass' \in [Passes -> PassRow] /\ pass'[p] = next
        /\ \A q \in Passes : q # p => pass'[q] = pass[q]
    BY <1>1, <1>2, <1>3, Goes
  <1>5. Tables
    BY <1>3, TablesStay
  <1>6. Typed'
    BY <1>1, <1>3, <1>4, <1>5 DEF Typed, Tables
  <1>7. \A q \in Passes : Placed(pass'[q], Len(alerts'))
    <2>1. Placed(next, Len(alerts))
      BY <1>1, <1>2 DEF Placed
    <2> QED
      BY <1>3, <1>4, <2>1 DEF PassesTell
  <1>8. OnePass'
    BY <1>3, <1>4 DEF OnePass
  <1>9. Untroubled' = Untroubled
    BY <1>1, <1>3, OtherSpent DEF Untroubled
  <1> QED
    BY <1>2, <1>3, <1>4, <1>6, <1>7, <1>8, <1>9 DEF PassesTell

\* The tables are read: what is up is noted at once, or looked through.
Is(t) == IF up[t] THEN "up" ELSE "down"

LEMMA ReadTablesDoes ==
    ASSUME PassesTell, NEW p \in Passes, ReadTables(p)
    PROVE  /\ PassesTell' /\ UNCHANGED <<up, changes, overlapped, reopened, alerts, sent, budget>>
           /\ pass[p].pc = "events" /\ \A q \in Passes : q # p => pass'[q] = pass[q]
           /\ \/ pass'[p].pc = "rules" /\ \A t \in Things : prev'[t] = Is(t)
              \/ /\ pass'[p].pc = "scan" /\ prev' = prev
                 /\ pass'[p].left = Things /\ pass'[p].up = {t \in Things : up[t]}
  <1>1. Typed /\ Len(alerts) \in Nat /\ pass[p] \in PassRow /\ Placed(pass[p], Len(alerts))
    BY DEF PassesTell, Typed
  <1>2. /\ pass[p].pc = "events" /\ Same /\ UNCHANGED <<alerts, sent, budget>>
    BY DEF ReadTables
  <1>3. CASE /\ prev' = [t \in Things |-> Is(t)]
             /\ Go(p, [pass[p] EXCEPT !.pc = "rules"])
    <2> DEFINE next == [pass[p] EXCEPT !.pc = "rules"]
    <2>1. next \in PassRow /\ next.pc = "rules" /\ next.row = pass[p].row
      BY <1>1 DEF PassRow, PassPcs
    <2>2. Go(p, next)
      BY <1>3
    <2> HIDE DEF next
    <2>3. prev' \in [Things -> {"none", "up", "down"}] /\ \A t \in Things : prev'[t] = Is(t)
      BY <1>3 DEF Is
    <2>4. Tables
      BY <1>2, <2>3, TablesStay
    <2>5. Placed(next, Len(alerts'))
      BY <1>1, <1>2, <2>1 DEF Placed
    <2>6. /\ PassesTell' /\ pass'[p] = next
          /\ \A q \in Passes : q # p => pass'[q] = pass[q]
      BY <1>2, <2>1, <2>2, <2>4, <2>5, PassSteps
    <2> QED
      BY <1>2, <2>1, <2>3, <2>6 DEF Same
  <1>4. CASE /\ Go(p, [pass[p] EXCEPT !.pc = "scan", !.up = {t \in Things : up[t]}, !.left = Things])
             /\ UNCHANGED prev
    <2> DEFINE next == [pass[p] EXCEPT !.pc = "scan", !.up = {t \in Things : up[t]}, !.left = Things]
    <2>1. next \in PassRow /\ next.pc = "scan" /\ next.row = pass[p].row
          /\ next.left = Things /\ next.up = {t \in Things : up[t]}
      BY <1>1 DEF PassRow, PassPcs
    <2>2. Go(p, next)
      BY <1>4
    <2> HIDE DEF next
    <2>4. Tables
      BY <1>2, <1>4, TablesStay
    <2>5. Placed(next, Len(alerts'))
      BY <1>1, <1>2, <2>1 DEF Placed
    <2>6. /\ PassesTell' /\ pass'[p] = next
          /\ \A q \in Passes : q # p => pass'[q] = pass[q]
      BY <1>2, <2>1, <2>2, <2>4, <2>5, PassSteps
    <2> QED
      BY <1>2, <1>4, <2>1, <2>6 DEF Same
  <1> QED
    BY <1>3, <1>4 DEF ReadTables, Is

\* A thing is looked at: it is passed by, or its rules fire.
LEMMA ScanDoes ==
    ASSUME PassesTell, NEW p \in Passes, Scan(p)
    PROVE  /\ PassesTell' /\ UNCHANGED <<up, changes, overlapped, reopened, alerts, sent, budget>>
           /\ pass[p].pc = "scan" /\ \A q \in Passes : q # p => pass'[q] = pass[q]
           /\ pass'[p].up = pass[p].up
           /\ \E t \in pass[p].left :
                \/ /\ Firing(pass[p], t) = {} /\ prev' = [prev EXCEPT ![t] = Seen(pass[p], t)]
                   /\ pass'[p].pc = "scan" /\ pass'[p].left = pass[p].left \ {t}
                \/ /\ Firing(pass[p], t) # {} /\ prev' = prev /\ pass'[p].pc = "fire"
                   /\ pass'[p].left = pass[p].left
                   /\ pass'[p].thing = t /\ pass'[p].fire = Firing(pass[p], t)
  <1>1. Typed /\ Len(alerts) \in Nat /\ pass[p] \in PassRow /\ Placed(pass[p], Len(alerts))
    BY DEF PassesTell, Typed
  <1>2. /\ pass[p].pc = "scan" /\ Same /\ UNCHANGED <<alerts, sent, budget>>
    BY DEF Scan
  <1>3. PICK t \in pass[p].left :
           IF Firing(pass[p], t) = {}
           THEN /\ prev' = [prev EXCEPT ![t] = Seen(pass[p], t)]
                /\ Go(p, [pass[p] EXCEPT !.left = pass[p].left \ {t}])
           ELSE /\ Go(p, [pass[p] EXCEPT !.pc = "fire", !.thing = t, !.fire = Firing(pass[p], t)])
                /\ UNCHANGED prev
    BY DEF Scan
  <1>4. t \in Things /\ Firing(pass[p], t) \subseteq EventRules /\ Firing(pass[p], t) \subseteq Rules
    BY <1>1 DEF PassRow, Firing, Rules
  <1>5. CASE Firing(pass[p], t) = {}
    <2> DEFINE next == [pass[p] EXCEPT !.left = pass[p].left \ {t}]
    <2>1. next \in PassRow /\ next.pc = "scan" /\ next.row = pass[p].row
          /\ next.left = pass[p].left \ {t} /\ next.up = pass[p].up
      BY <1>1, <1>2 DEF PassRow, PassPcs
    <2>2. Go(p, next) /\ prev' = [prev EXCEPT ![t] = Seen(pass[p], t)]
      BY <1>3, <1>5
    <2> HIDE DEF next
    <2>3. prev' \in [Things -> {"none", "up", "down"}]
      BY <1>1, <2>2 DEF Typed, Seen
    <2>4. Tables
      BY <1>2, <2>3, TablesStay
    <2>5. Placed(next, Len(alerts'))
      BY <1>1, <1>2, <2>1 DEF Placed
    <2>6. /\ PassesTell' /\ pass'[p] = next
          /\ \A q \in Passes : q # p => pass'[q] = pass[q]
      BY <1>2, <2>1, <2>2, <2>4, <2>5, PassSteps
    <2> QED
      BY <1>2, <1>5, <2>1, <2>2, <2>6 DEF Same
  <1>6. CASE Firing(pass[p], t) # {}
    <2> DEFINE next == [pass[p] EXCEPT !.pc = "fire", !.thing = t, !.fire = Firing(pass[p], t)]
    <2>1. next \in PassRow /\ next.pc = "fire" /\ next.row = pass[p].row
          /\ next.left = pass[p].left /\ next.up = pass[p].up
          /\ next.thing = t /\ next.fire = Firing(pass[p], t)
      BY <1>1, <1>2, <1>4 DEF PassRow, PassPcs
    <2>2. Go(p, next) /\ prev' = prev
      BY <1>3, <1>6
    <2> HIDE DEF next
    <2>4. Tables
      BY <1>2, <2>2, TablesStay
    <2>5. Placed(next, Len(alerts'))
      BY <1>1, <1>2, <1>4, <1>6, <2>1 DEF Placed
    <2>6. /\ PassesTell' /\ pass'[p] = next
          /\ \A q \in Passes : q # p => pass'[q] = pass[q]
      BY <1>2, <2>1, <2>2, <2>4, <2>5, PassSteps
    <2> QED
      BY <1>2, <1>6, <2>1, <2>2, <2>6 DEF Same
  <1> QED
    BY <1>5, <1>6

\* A rule looks for its alert: it finds none, or one that no threshold rule raised.
LEMMA FindEventDoes ==
    ASSUME PassesTell, NEW p \in Passes, FindEvent(p)
    PROVE  /\ PassesTell' /\ UNCHANGED <<up, prev, changes, overlapped, reopened, alerts, sent, budget>>
           /\ pass[p].pc = "fire" /\ \A q \in Passes : q # p => pass'[q] = pass[q]
           /\ pass'[p].up = pass[p].up /\ pass'[p].left = pass[p].left
           /\ pass'[p].thing = pass[p].thing /\ pass'[p].fire = pass[p].fire
           /\ \E r \in pass[p].fire :
                /\ pass'[p].items = {<<r, pass[p].thing>>}
                /\ \/ /\ pass'[p].pc = "raise"
                      /\ OpenOf(<<"event", On[r]>>, pass[p].thing) = {}
                   \/ /\ pass'[p].pc = "deliver" /\ pass'[p].row \in DOMAIN alerts
                      /\ alerts[pass'[p].row].source[1] # "rule"
  <1>1. Typed /\ Len(alerts) \in Nat /\ pass[p] \in PassRow /\ Placed(pass[p], Len(alerts))
    BY DEF PassesTell, Typed
  <1>2. /\ pass[p].pc = "fire" /\ Same /\ UNCHANGED <<alerts, prev, sent, budget>>
    BY DEF FindEvent
  <1>3. PICK r \in pass[p].fire :
         \/ /\ Reusable(r, pass[p].thing) = {}
            /\ Go(p, [pass[p] EXCEPT !.pc = "raise", !.items = {<<r, pass[p].thing>>}])
         \/ \E a \in Reusable(r, pass[p].thing) :
                Go(p, [pass[p] EXCEPT !.pc = "deliver", !.items = {<<r, pass[p].thing>>}, !.row = a])
    BY DEF FindEvent
  <1>4. pass[p].thing \in Things /\ r \in EventRules /\ {<<r, pass[p].thing>>} \subseteq Rules \X Things
    BY <1>1, <1>2 DEF Placed, PassRow, Rules
  <1>5. Tables
    BY <1>2, TablesStay
  <1>6. CASE /\ Reusable(r, pass[p].thing) = {}
             /\ Go(p, [pass[p] EXCEPT !.pc = "raise", !.items = {<<r, pass[p].thing>>}])
    <2> DEFINE next == [pass[p] EXCEPT !.pc = "raise", !.items = {<<r, pass[p].thing>>}]
    <2>1. next \in PassRow /\ next.pc = "raise" /\ next.row = pass[p].row
          /\ next.left = pass[p].left /\ next.up = pass[p].up
          /\ next.thing = pass[p].thing /\ next.fire = pass[p].fire /\ next.items = {<<r, pass[p].thing>>}
      BY <1>1, <1>2, <1>4 DEF PassRow, PassPcs
    <2>2. Go(p, next)
      BY <1>6
    <2> HIDE DEF next
    <2>5. Placed(next, Len(alerts'))
      BY <1>1, <1>2, <1>3, <2>1 DEF Placed
    <2>6. /\ PassesTell' /\ pass'[p] = next
          /\ \A q \in Passes : q # p => pass'[q] = pass[q]
      BY <1>2, <1>5, <2>1, <2>2, <2>5, PassSteps
    <2>7. OpenOf(<<"event", On[r]>>, pass[p].thing) = {}
      BY <1>6 DEF Reusable
    <2> QED
      BY <1>2, <2>1, <2>6, <2>7 DEF Same
  <1>7. ASSUME NEW a \in Reusable(r, pass[p].thing),
               Go(p, [pass[p] EXCEPT !.pc = "deliver", !.items = {<<r, pass[p].thing>>}, !.row = a])
        PROVE  /\ PassesTell' /\ \A q \in Passes : q # p => pass'[q] = pass[q]
               /\ pass'[p].up = pass[p].up /\ pass'[p].left = pass[p].left
               /\ pass'[p].thing = pass[p].thing /\ pass'[p].fire = pass[p].fire
               /\ pass'[p].items = {<<r, pass[p].thing>>}
               /\ pass'[p].pc = "deliver" /\ pass'[p].row \in DOMAIN alerts
               /\ alerts[pass'[p].row].source[1] # "rule"
    <2> DEFINE next == [pass[p] EXCEPT !.pc = "deliver", !.items = {<<r, pass[p].thing>>}, !.row = a]
    <2>0. a \in 1 .. Len(alerts) /\ alerts[a].source[1] # "rule" /\ a \in Nat /\ a # 0
          /\ a \in DOMAIN alerts /\ a \in 0 .. Len(alerts)
      <3>1. \/ alerts[a].source = <<"monitor", pass[p].thing>>
            \/ alerts[a].source = <<"event", On[r]>>
        BY <1>7 DEF Reusable, OpenOf
      <3>2. a \in DOMAIN alerts
        BY <1>7 DEF Reusable, OpenOf
      <3>3. DOMAIN alerts = 1 .. Len(alerts)
        BY <1>1 DEF Typed
      <3> QED
        BY <1>1, <3>1, <3>2, <3>3
    <2>1. next \in PassRow /\ next.pc = "deliver" /\ next.row = a
          /\ next.left = pass[p].left /\ next.up = pass[p].up
          /\ next.thing = pass[p].thing /\ next.fire = pass[p].fire /\ next.items = {<<r, pass[p].thing>>}
      BY <1>1, <1>2, <1>4, <2>0 DEF PassRow, PassPcs
    <2>2. Go(p, next)
      BY <1>7
    <2> HIDE DEF next
    <2>5. Placed(next, Len(alerts'))
      BY <1>1, <1>2, <1>3, <2>0, <2>1 DEF Placed
    <2>6. /\ PassesTell' /\ pass'[p] = next
          /\ \A q \in Passes : q # p => pass'[q] = pass[q]
      BY <1>2, <1>5, <2>1, <2>2, <2>5, PassSteps
    <2> QED
      BY <2>0, <2>1, <2>6
  <1> QED
    BY <1>2, <1>3, <1>6, <1>7 DEF Same

\* The alert of the event is created.
LEMMA RaiseEventDoes ==
    ASSUME PassesTell, NEW p \in Passes, RaiseEvent(p)
    PROVE  /\ PassesTell' /\ UNCHANGED <<up, prev, changes, overlapped, reopened, sent, budget>>
           /\ pass[p].pc = "raise" /\ \A q \in Passes : q # p => pass'[q] = pass[q]
           /\ pass'[p].up = pass[p].up /\ pass'[p].left = pass[p].left
           /\ pass'[p].thing = pass[p].thing /\ pass'[p].fire = pass[p].fire
           /\ pass'[p].pc = "deliver" /\ pass'[p].row = Len(alerts) + 1
           /\ Len(alerts') = Len(alerts) + 1 /\ \A b \in 1 .. Len(alerts) : alerts'[b] = alerts[b]
           /\ \E r \in pass[p].fire : /\ pass[p].items = {<<r, pass[p].thing>>} /\ r \in EventRules
                                      /\ alerts'[Len(alerts) + 1] = Row(<<"event", On[r]>>, pass[p].thing)
           /\ pass[p].thing \in Things
  <1>1. Typed /\ Len(alerts) \in Nat /\ pass[p] \in PassRow /\ Placed(pass[p], Len(alerts))
    BY DEF PassesTell, Typed
  <1>2. /\ pass[p].pc = "raise" /\ Same /\ UNCHANGED <<prev, sent, budget>> /\ Len(alerts) < MaxAlerts
        /\ Go(p, [pass[p] EXCEPT !.pc = "deliver", !.row = Len(alerts) + 1])
    BY DEF RaiseEvent
  <1>3. PICK i \in pass[p].items : alerts' = Append(alerts, Row(<<"event", On[i[1]]>>, i[2]))
    BY DEF RaiseEvent
  <1>4. PICK r \in pass[p].fire : pass[p].items = {<<r, pass[p].thing>>}
    BY <1>1, <1>2 DEF Placed
  <1>5. r \in EventRules /\ pass[p].thing \in Things
    BY <1>1, <1>2 DEF Placed, PassRow
  <1>6. alerts' = Append(alerts, Row(<<"event", On[r]>>, pass[p].thing))
    BY <1>3, <1>4
  <1>7. Row(<<"event", On[r]>>, pass[p].thing) \in RowType
    <2>1. <<"event", On[r]>> \in Sources
      BY <1>5 DEF Sources
    <2> QED
      BY <1>5, <2>1, NewRow
  <1>8. /\ alerts' \in Seq(RowType) /\ Len(alerts') = Len(alerts) + 1 /\ Len(alerts') <= MaxAlerts
        /\ alerts'[Len(alerts) + 1] = Row(<<"event", On[r]>>, pass[p].thing)
        /\ \A b \in 1 .. Len(alerts) : alerts'[b] = alerts[b]
    BY <1>1, <1>2, <1>6, <1>7, RowAdded
  <1>9. Tables
    BY <1>1, <1>2, <1>8 DEF Tables, Typed
  <1> DEFINE next == [pass[p] EXCEPT !.pc = "deliver", !.row = Len(alerts) + 1]
  <1>14. Len(alerts) + 1 \in Nat
    BY <1>1
  <1>10. next \in PassRow /\ next.pc = "deliver" /\ next.row = Len(alerts) + 1
         /\ next.left = pass[p].left /\ next.up = pass[p].up
         /\ next.thing = pass[p].thing /\ next.fire = pass[p].fire /\ next.items = pass[p].items
    BY <1>1, <1>2, <1>14 DEF PassRow, PassPcs
  <1>11. Go(p, next)
    BY <1>2
  <1> HIDE DEF next
  <1>12. Placed(next, Len(alerts'))
    <2>1. next.row \in 0 .. Len(alerts') /\ next.row # 0
      BY <1>1, <1>8, <1>10
    <2> QED
      BY <1>1, <1>2, <1>4, <1>10, <2>1 DEF Placed
  <1>13. /\ PassesTell' /\ pass'[p] = next
         /\ \A q \in Passes : q # p => pass'[q] = pass[q]
    BY <1>2, <1>9, <1>10, <1>11, <1>12, PassSteps
  <1> QED
    BY <1>2, <1>4, <1>5, <1>8, <1>10, <1>13 DEF Same

\* A row is told once more, or gets another status, and nothing else.
ToldMore(a) ==
    /\ Len(alerts') = Len(alerts)
    /\ \A b \in 1 .. Len(alerts) :
         /\ alerts'[b].source = alerts[b].source /\ alerts'[b].thing = alerts[b].thing
         /\ alerts'[b].status = alerts[b].status /\ alerts'[b].fired = alerts[b].fired
         /\ alerts'[b].ran = alerts[b].ran
         /\ alerts'[b].told = IF b = a THEN Twice(alerts[b].told) ELSE alerts[b].told
StatusSet(a, s) ==
    /\ Len(alerts') = Len(alerts)
    /\ \A b \in 1 .. Len(alerts) :
         /\ alerts'[b].source = alerts[b].source /\ alerts'[b].thing = alerts[b].thing
         /\ alerts'[b].told = alerts[b].told /\ alerts'[b].fired = alerts[b].fired
         /\ alerts'[b].ran = alerts[b].ran
         /\ alerts'[b].status = IF b = a THEN s ELSE alerts[b].status

LEMMA ToldEdited ==
    ASSUME Typed, NEW a \in 1 .. Len(alerts), Len(alerts') = Len(alerts),
           alerts'[a] = [alerts[a] EXCEPT !.told = Twice(alerts[a].told)],
           \A b \in 1 .. Len(alerts) : b # a => alerts'[b] = alerts[b]
    PROVE  ToldMore(a)
  <1>1. alerts[a] \in RowType
    BY DEF Typed
  <1>2. /\ alerts'[a].source = alerts[a].source /\ alerts'[a].thing = alerts[a].thing
        /\ alerts'[a].status = alerts[a].status /\ alerts'[a].fired = alerts[a].fired
        /\ alerts'[a].ran = alerts[a].ran /\ alerts'[a].told = Twice(alerts[a].told)
    BY <1>1 DEF RowType
  <1> QED
    BY <1>2 DEF ToldMore

LEMMA StatusEdited ==
    ASSUME Typed, NEW a \in 1 .. Len(alerts), NEW s, Len(alerts') = Len(alerts),
           alerts'[a] = [alerts[a] EXCEPT !.status = s],
           \A b \in 1 .. Len(alerts) : b # a => alerts'[b] = alerts[b]
    PROVE  StatusSet(a, s)
  <1>1. alerts[a] \in RowType
    BY DEF Typed
  <1>2. /\ alerts'[a].source = alerts[a].source /\ alerts'[a].thing = alerts[a].thing
        /\ alerts'[a].status = s /\ alerts'[a].fired = alerts[a].fired
        /\ alerts'[a].ran = alerts[a].ran /\ alerts'[a].told = alerts[a].told
    BY <1>1 DEF RowType
  <1> QED
    BY <1>2 DEF StatusSet

\* The rule is delivered: the alert is told of it, and the last rule of a thing
\* is the end of its transition.
LEMMA DeliverEventDoes ==
    ASSUME PassesTell, NEW p \in Passes, DeliverEvent(p)
    PROVE  /\ PassesTell' /\ UNCHANGED <<up, changes, overlapped, reopened, budget>>
           /\ pass[p].pc = "deliver" /\ \A q \in Passes : q # p => pass'[q] = pass[q]
           /\ pass'[p].up = pass[p].up
           /\ pass[p].row \in 1 .. Len(alerts) /\ ToldMore(pass[p].row)
           /\ \E r \in pass[p].fire :
                /\ r \in EventRules /\ pass[p].thing \in Things
                /\ sent' = [sent EXCEPT ![<<r, pass[p].thing>>] = sent[<<r, pass[p].thing>>] + 1]
                /\ \/ /\ pass[p].fire = {r} /\ pass'[p].pc = "scan"
                      /\ prev' = [prev EXCEPT ![pass[p].thing] = Seen(pass[p], pass[p].thing)]
                      /\ pass'[p].left = pass[p].left \ {pass[p].thing}
                   \/ /\ prev' = prev /\ pass'[p].pc = "fire" /\ pass'[p].left = pass[p].left
                      /\ pass'[p].thing = pass[p].thing /\ pass'[p].fire = pass[p].fire \ {r}
  <1>1. Typed /\ Len(alerts) \in Nat /\ pass[p] \in PassRow /\ Placed(pass[p], Len(alerts))
    BY DEF PassesTell, Typed
  <1>2. /\ pass[p].pc = "deliver" /\ Same /\ UNCHANGED budget
        /\ alerts' = [alerts EXCEPT ![pass[p].row].told = Twice(@)]
    BY DEF DeliverEvent
  <1>3. PICK r \in pass[p].fire : pass[p].items = {<<r, pass[p].thing>>}
    BY <1>1, <1>2 DEF Placed
  <1>4. r \in EventRules /\ pass[p].thing \in Things /\ pass[p].row \in 1 .. Len(alerts)
    BY <1>1, <1>2 DEF Placed, PassRow
  <1> DEFINE i == <<r, pass[p].thing>>
  <1>5. /\ sent' = [sent EXCEPT ![i] = sent[i] + 1]
        /\ IF pass[p].fire = {r}
           THEN /\ prev' = [prev EXCEPT ![pass[p].thing] = Seen(pass[p], pass[p].thing)]
                /\ Go(p, [pass[p] EXCEPT !.pc = "scan", !.left = pass[p].left \ {pass[p].thing}, !.thing = "none",
                                         !.fire = {}, !.items = {}, !.row = 0])
           ELSE /\ Go(p, [pass[p] EXCEPT !.pc = "fire", !.fire = pass[p].fire \ {r}, !.items = {}, !.row = 0])
                /\ prev' = prev
    <2>1. PICK j \in pass[p].items :
         /\ sent' = [sent EXCEPT ![j] = sent[j] + 1]
         /\ IF pass[p].fire = {j[1]}
            THEN /\ prev' = [prev EXCEPT ![pass[p].thing] = Seen(pass[p], pass[p].thing)]
                 /\ Go(p, [pass[p] EXCEPT !.pc = "scan", !.left = pass[p].left \ {pass[p].thing}, !.thing = "none",
                                          !.fire = {}, !.items = {}, !.row = 0])
            ELSE /\ Go(p, [pass[p] EXCEPT !.pc = "fire", !.fire = pass[p].fire \ {j[1]}, !.items = {}, !.row = 0])
                 /\ prev' = prev
      BY DEF DeliverEvent
    <2>2. j = i /\ j[1] = r
      BY <1>3
    <2> QED
      BY <2>1, <2>2
  <1>6. sent' \in [EventRules \X Things -> Nat]
    BY <1>1, <1>4, <1>5 DEF Typed
  <1> HIDE DEF i
  <1> DEFINE a == pass[p].row
             row == [alerts[a] EXCEPT !.told = Twice(alerts[a].told)]
  <1>7. alerts[a] \in RowType
    BY <1>1, <1>4 DEF Typed
  <1>8. row \in RowType /\ alerts' = [alerts EXCEPT ![a] = row]
    <2>1. alerts[a].told \in 0 .. 2
      BY <1>7 DEF RowType
    <2>2. Twice(alerts[a].told) \in 0 .. 2
      BY <2>1 DEF Twice
    <2>3. row \in RowType
      BY <1>7, <2>2 DEF RowType
    <2>4. alerts' = [alerts EXCEPT ![a] = row]
      BY <1>2
    <2> QED
      BY <2>3, <2>4
  <1>9. /\ alerts' \in Seq(RowType) /\ Len(alerts') = Len(alerts) /\ Len(alerts') <= MaxAlerts
        /\ alerts'[a] = row /\ \A b \in 1 .. Len(alerts) : b # a => alerts'[b] = alerts[b]
    <2> HIDE DEF row, a
    <2> QED
      BY <1>1, <1>4, <1>8, RowWritten DEF a
  <1>14. ToldMore(a)
    <2> HIDE DEF a
    <2> QED
      BY <1>1, <1>4, <1>9, ToldEdited DEF a
  <1>10. prev' \in [Things -> {"none", "up", "down"}]
    BY <1>1, <1>4, <1>5 DEF Typed, Seen
  <1>11. Tables
    BY <1>1, <1>2, <1>6, <1>9, <1>10 DEF Tables, Typed
  <1>12. CASE pass[p].fire = {r}
    <2> DEFINE next == [pass[p] EXCEPT !.pc = "scan", !.left = pass[p].left \ {pass[p].thing}, !.thing = "none",
                                       !.fire = {}, !.items = {}, !.row = 0]
    <2>1. next \in PassRow /\ next.pc = "scan" /\ next.row = 0
          /\ next.left = pass[p].left \ {pass[p].thing} /\ next.up = pass[p].up
      BY <1>1 DEF PassRow, PassPcs
    <2>2. Go(p, next) /\ prev' = [prev EXCEPT ![pass[p].thing] = Seen(pass[p], pass[p].thing)]
      BY <1>5, <1>12
    <2> HIDE DEF next
    <2>5. Placed(next, Len(alerts'))
      BY <1>1, <1>9, <2>1 DEF Placed
    <2>6. /\ PassesTell' /\ pass'[p] = next
          /\ \A q \in Passes : q # p => pass'[q] = pass[q]
      BY <1>2, <1>11, <2>1, <2>2, <2>5, PassSteps
    <2> QED
      BY <1>2, <1>4, <1>5, <1>12, <1>14, <2>1, <2>2, <2>6 DEF Same, i
  <1>13. CASE pass[p].fire # {r}
    <2> DEFINE next == [pass[p] EXCEPT !.pc = "fire", !.fire = pass[p].fire \ {r}, !.items = {}, !.row = 0]
    <2>1. next \in PassRow /\ next.pc = "fire" /\ next.row = 0
          /\ next.left = pass[p].left /\ next.up = pass[p].up
          /\ next.thing = pass[p].thing /\ next.fire = pass[p].fire \ {r}
      BY <1>1 DEF PassRow, PassPcs
    <2>2. Go(p, next) /\ prev' = prev
      BY <1>5, <1>13
    <2> HIDE DEF next
    <2>5. Placed(next, Len(alerts'))
      <3>1. next.thing \in next.left /\ next.fire # {} /\ next.fire \subseteq EventRules
        BY <1>1, <1>2, <1>13, <2>1 DEF Placed
      <3> QED
        BY <1>1, <1>9, <2>1, <3>1 DEF Placed
    <2>6. /\ PassesTell' /\ pass'[p] = next
          /\ \A q \in Passes : q # p => pass'[q] = pass[q]
      BY <1>2, <1>11, <2>1, <2>2, <2>5, PassSteps
    <2> QED
      BY <1>2, <1>4, <1>5, <1>13, <1>14, <2>1, <2>2, <2>6 DEF Same, i
  <1> QED
    BY <1>12, <1>13

\* The machines are read: the pass is done with the events.
LEMMA ReadResourcesDoes ==
    ASSUME PassesTell, NEW p \in Passes, ReadResources(p)
    PROVE  /\ PassesTell' /\ UNCHANGED <<up, changes, overlapped, reopened, alerts, prev, sent, budget>>
           /\ pass[p].pc \in {"rules", "scan"} /\ \A q \in Passes : q # p => pass'[q] = pass[q]
           /\ pass'[p].pc = "check"
  <1>1. Typed /\ Len(alerts) \in Nat /\ pass[p] \in PassRow /\ Placed(pass[p], Len(alerts))
    BY DEF PassesTell, Typed
  <1> DEFINE next == [pass[p] EXCEPT !.pc = "check", !.up = {t \in Vms : up[t] /\ t \in hot},
                         !.items = (pass[p].rules \cap Threshold) \X {t \in Vms : up[t]}]
  <1>2. /\ pass[p].pc \in {"rules", "scan"} /\ Same /\ UNCHANGED <<alerts, prev, sent, budget>>
        /\ Go(p, next)
    BY DEF ReadResources
  <1>3. next \in PassRow /\ next.pc = "check" /\ next.row = pass[p].row
        /\ next.items \subseteq Threshold \X Things
    <2>1. (pass[p].rules \cap Threshold) \X {t \in Vms : up[t]} \subseteq Threshold \X Things
      BY DEF Vms
    <2>2. (pass[p].rules \cap Threshold) \X {t \in Vms : up[t]} \subseteq Rules \X Things
      BY <2>1 DEF Rules
    <2> QED
      BY <1>1, <2>1, <2>2 DEF PassRow, PassPcs, Vms
  <1> HIDE DEF next
  <1>4. Tables
    BY <1>2, TablesStay
  <1>5. Placed(next, Len(alerts'))
    BY <1>1, <1>2, <1>3 DEF Placed
  <1>6. /\ PassesTell' /\ pass'[p] = next
        /\ \A q \in Passes : q # p => pass'[q] = pass[q]
    BY <1>2, <1>3, <1>4, <1>5, PassSteps
  <1> QED
    BY <1>2, <1>3, <1>6 DEF Same

\* A machine and a rule are compared: an alert is to be created, one is resolved,
\* or nothing is to be done.
LEMMA CheckDoes ==
    ASSUME PassesTell, NEW p \in Passes, Check(p)
    PROVE  /\ PassesTell' /\ UNCHANGED <<up, changes, overlapped, reopened, prev, sent, budget>>
           /\ pass[p].pc = "check" /\ \A q \in Passes : q # p => pass'[q] = pass[q]
           /\ \/ /\ pass'[p].pc = "create" /\ alerts' = alerts
                 /\ \E r \in Threshold : /\ pass'[p].fire = {r}
                                         /\ OpenOf(<<"rule", r>>, pass'[p].thing) = {}
              \/ pass'[p].pc = "check" /\ alerts' = alerts
              \/ pass'[p].pc = "check" /\ \E a \in 1 .. Len(alerts) : StatusSet(a, "resolved")
  <1>1. Typed /\ Len(alerts) \in Nat /\ pass[p] \in PassRow /\ Placed(pass[p], Len(alerts))
    BY DEF PassesTell, Typed
  <1>2. /\ pass[p].pc = "check" /\ Same /\ UNCHANGED <<prev, sent, budget>>
    BY DEF Check
  <1>3. PICK i \in pass[p].items :
         \/ /\ OpenOf(<<"rule", i[1]>>, i[2]) = {}
            /\ Go(p, [pass[p] EXCEPT !.pc = "create", !.thing = i[2], !.fire = {i[1]}])
            /\ alerts' = alerts
         \/ /\ Go(p, [pass[p] EXCEPT !.items = pass[p].items \ {i}])
            /\ alerts' = alerts
         \/ /\ \E a \in OpenOf(<<"rule", i[1]>>, i[2]) : alerts' = [alerts EXCEPT ![a].status = "resolved"]
            /\ Go(p, [pass[p] EXCEPT !.items = pass[p].items \ {i}])
    BY DEF Check
  <1>4. i[1] \in Threshold /\ i[2] \in Things /\ i[1] \in Rules
    BY <1>1, <1>2 DEF Placed, Rules
  <1>5. CASE /\ OpenOf(<<"rule", i[1]>>, i[2]) = {}
             /\ Go(p, [pass[p] EXCEPT !.pc = "create", !.thing = i[2], !.fire = {i[1]}])
             /\ alerts' = alerts
    <2> DEFINE next == [pass[p] EXCEPT !.pc = "create", !.thing = i[2], !.fire = {i[1]}]
    <2>1. next \in PassRow /\ next.pc = "create" /\ next.row = pass[p].row
          /\ next.thing = i[2] /\ next.fire = {i[1]} /\ next.items = pass[p].items
      BY <1>1, <1>4 DEF PassRow, PassPcs
    <2>2. Go(p, next)
      BY <1>5
    <2> HIDE DEF next
    <2>3. Tables
      BY <1>2, <1>5, TablesStay
    <2>4. Placed(next, Len(alerts'))
      BY <1>1, <1>2, <1>4, <1>5, <2>1 DEF Placed
    <2>5. /\ PassesTell' /\ pass'[p] = next
          /\ \A q \in Passes : q # p => pass'[q] = pass[q]
      BY <1>2, <2>1, <2>2, <2>3, <2>4, PassSteps
    <2> QED
      BY <1>2, <1>4, <1>5, <2>1, <2>5 DEF Same
  <1>6. ASSUME Go(p, [pass[p] EXCEPT !.items = pass[p].items \ {i}]), Tables
        PROVE  /\ PassesTell' /\ pass'[p].pc = "check"
               /\ \A q \in Passes : q # p => pass'[q] = pass[q]
    <2> DEFINE next == [pass[p] EXCEPT !.items = pass[p].items \ {i}]
    <2>1. next \in PassRow /\ next.pc = "check" /\ next.row = pass[p].row
          /\ next.items = pass[p].items \ {i}
      BY <1>1, <1>2 DEF PassRow, PassPcs
    <2>2. Go(p, next)
      BY <1>6
    <2> HIDE DEF next
    <2>3. next.row \in 0 .. Len(alerts')
      <3>1. pass[p].row \in 0 .. Len(alerts) /\ Len(alerts) <= Len(alerts') /\ Len(alerts') \in Nat
        BY <1>1, <1>6 DEF Placed, Tables
      <3> QED
        BY <1>1, <2>1, <3>1
    <2>4. Placed(next, Len(alerts'))
      BY <1>1, <1>2, <2>1, <2>3 DEF Placed
    <2>5. /\ PassesTell' /\ pass'[p] = next
          /\ \A q \in Passes : q # p => pass'[q] = pass[q]
      BY <1>2, <1>6, <2>1, <2>2, <2>4, PassSteps
    <2> QED
      BY <2>1, <2>5
  <1>7. CASE /\ Go(p, [pass[p] EXCEPT !.items = pass[p].items \ {i}])
             /\ alerts' = alerts
    <2>1. Tables
      BY <1>2, <1>7, TablesStay
    <2> QED
      BY <1>2, <1>6, <1>7, <2>1 DEF Same
  <1>8. CASE /\ \E a \in OpenOf(<<"rule", i[1]>>, i[2]) : alerts' = [alerts EXCEPT ![a].status = "resolved"]
             /\ Go(p, [pass[p] EXCEPT !.items = pass[p].items \ {i}])
    <2>1. PICK a \in OpenOf(<<"rule", i[1]>>, i[2]) : alerts' = [alerts EXCEPT ![a].status = "resolved"]
      BY <1>8
    <2>2. a \in 1 .. Len(alerts) /\ alerts[a] \in RowType
      BY <1>1 DEF OpenOf, Typed
    <2> DEFINE row == [alerts[a] EXCEPT !.status = "resolved"]
    <2>3. row \in RowType /\ alerts' = [alerts EXCEPT ![a] = row]
      BY <2>1, <2>2 DEF RowType
    <2>4. /\ alerts' \in Seq(RowType) /\ Len(alerts') = Len(alerts) /\ Len(alerts') <= MaxAlerts
          /\ alerts'[a] = row /\ \A b \in 1 .. Len(alerts) : b # a => alerts'[b] = alerts[b]
      <3> HIDE DEF row
      <3> QED
        BY <1>1, <2>2, <2>3, RowWritten
    <2>5. Tables
      BY <1>1, <1>2, <2>4 DEF Tables, Typed
    <2>6. StatusSet(a, "resolved")
      BY <1>1, <2>2, <2>4, StatusEdited
    <2> QED
      BY <1>2, <1>6, <1>8, <2>2, <2>5, <2>6 DEF Same
  <1> QED
    BY <1>3, <1>5, <1>7, <1>8

\* The alert of a threshold rule is created.
LEMMA CreateDoes ==
    ASSUME PassesTell, NEW p \in Passes, Create(p)
    PROVE  /\ PassesTell' /\ UNCHANGED <<up, changes, overlapped, reopened, prev, sent, budget>>
           /\ pass[p].pc = "create" /\ \A q \in Passes : q # p => pass'[q] = pass[q]
           /\ pass'[p].pc = "tell" /\ pass'[p].row = Len(alerts) + 1
           /\ Len(alerts') = Len(alerts) + 1 /\ \A b \in 1 .. Len(alerts) : alerts'[b] = alerts[b]
           /\ pass[p].thing \in Things
           /\ \E r \in Threshold : /\ pass[p].fire = {r}
                                   /\ alerts'[Len(alerts) + 1] = Row(<<"rule", r>>, pass[p].thing)
  <1>1. Typed /\ Len(alerts) \in Nat /\ pass[p] \in PassRow /\ Placed(pass[p], Len(alerts))
    BY DEF PassesTell, Typed
  <1>2. /\ pass[p].pc = "create" /\ Same /\ UNCHANGED <<prev, sent, budget>> /\ Len(alerts) < MaxAlerts
        /\ Go(p, [pass[p] EXCEPT !.pc = "tell", !.row = Len(alerts) + 1])
    BY DEF Create
  <1>3. PICK r \in Threshold : pass[p].fire = {r}
    BY <1>1, <1>2 DEF Placed
  <1>4. pass[p].thing \in Things
    BY <1>1, <1>2 DEF Placed
  <1>5. alerts' = Append(alerts, Row(<<"rule", r>>, pass[p].thing))
    BY <1>3 DEF Create
  <1>6. Row(<<"rule", r>>, pass[p].thing) \in RowType
    <2>1. <<"rule", r>> \in Sources
      BY <1>3 DEF Sources
    <2> QED
      BY <1>4, <2>1, NewRow
  <1>7. /\ alerts' \in Seq(RowType) /\ Len(alerts') = Len(alerts) + 1 /\ Len(alerts') <= MaxAlerts
        /\ alerts'[Len(alerts) + 1] = Row(<<"rule", r>>, pass[p].thing)
        /\ \A b \in 1 .. Len(alerts) : alerts'[b] = alerts[b]
    BY <1>1, <1>2, <1>5, <1>6, RowAdded
  <1>8. Tables
    BY <1>1, <1>2, <1>7 DEF Tables, Typed
  <1>9. Len(alerts) + 1 \in Nat
    BY <1>1
  <1> DEFINE next == [pass[p] EXCEPT !.pc = "tell", !.row = Len(alerts) + 1]
  <1>10. next \in PassRow /\ next.pc = "tell" /\ next.row = Len(alerts) + 1
         /\ next.thing = pass[p].thing /\ next.fire = pass[p].fire /\ next.items = pass[p].items
    BY <1>1, <1>2, <1>9 DEF PassRow, PassPcs
  <1>11. Go(p, next)
    BY <1>2
  <1> HIDE DEF next
  <1>12. Placed(next, Len(alerts'))
    <2>1. next.row \in 0 .. Len(alerts') /\ next.row # 0
      BY <1>1, <1>7, <1>10
    <2> QED
      BY <1>1, <1>2, <1>10, <2>1 DEF Placed
  <1>13. /\ PassesTell' /\ pass'[p] = next
         /\ \A q \in Passes : q # p => pass'[q] = pass[q]
    BY <1>2, <1>8, <1>10, <1>11, <1>12, PassSteps
  <1> QED
    BY <1>2, <1>3, <1>4, <1>7, <1>10, <1>13 DEF Same

\* The alert just created is told, once more.
LEMMA TellDoes ==
    ASSUME PassesTell, NEW p \in Passes, Tell(p)
    PROVE  /\ PassesTell' /\ UNCHANGED <<up, changes, overlapped, reopened, prev, sent, budget>>
           /\ pass[p].pc = "tell" /\ \A q \in Passes : q # p => pass'[q] = pass[q]
           /\ pass'[p].pc = "check"
           /\ pass[p].row \in 1 .. Len(alerts) /\ ToldMore(pass[p].row)
  <1>1. Typed /\ Len(alerts) \in Nat /\ pass[p] \in PassRow /\ Placed(pass[p], Len(alerts))
    BY DEF PassesTell, Typed
  <1> DEFINE a == pass[p].row
             row == [alerts[a] EXCEPT !.told = Twice(alerts[a].told)]
             next == [pass[p] EXCEPT !.pc = "check", !.items = pass[p].items \ (pass[p].fire \X {pass[p].thing}),
                                     !.thing = "none", !.fire = {}, !.row = 0]
  <1>2. /\ pass[p].pc = "tell" /\ Same /\ UNCHANGED <<prev, sent, budget>> /\ Go(p, next)
        /\ alerts' = [alerts EXCEPT ![a] = row]
    BY DEF Tell
  <1>3. a \in 1 .. Len(alerts) /\ alerts[a] \in RowType
    BY <1>1, <1>2 DEF Placed, Typed
  <1>4. row \in RowType
    <2>1. alerts[a].told \in 0 .. 2
      BY <1>3 DEF RowType
    <2>2. Twice(alerts[a].told) \in 0 .. 2
      BY <2>1 DEF Twice
    <2> QED
      BY <1>3, <2>2 DEF RowType
  <1>5. /\ alerts' \in Seq(RowType) /\ Len(alerts') = Len(alerts) /\ Len(alerts') <= MaxAlerts
        /\ alerts'[a] = row /\ \A b \in 1 .. Len(alerts) : b # a => alerts'[b] = alerts[b]
    <2> HIDE DEF row, a, next
    <2> QED
      BY <1>1, <1>2, <1>3, <1>4, RowWritten
  <1>6. Tables
    BY <1>1, <1>2, <1>5 DEF Tables, Typed
  <1>7. next \in PassRow /\ next.pc = "check" /\ next.row = 0
        /\ next.items \subseteq pass[p].items
    BY <1>1 DEF PassRow, PassPcs
  <1> HIDE DEF next
  <1>8. Placed(next, Len(alerts'))
    BY <1>1, <1>2, <1>5, <1>7 DEF Placed
  <1>9. /\ PassesTell' /\ pass'[p] = next
        /\ \A q \in Passes : q # p => pass'[q] = pass[q]
    BY <1>2, <1>6, <1>7, <1>8, PassSteps
  <1>10. ToldMore(a)
    <2> HIDE DEF a
    <2> QED
      BY <1>1, <1>3, <1>5, ToldEdited DEF a
  <1> QED
    BY <1>2, <1>3, <1>7, <1>9, <1>10 DEF Same

(***************************************************************************)
(* Escalation.                                                             *)
(***************************************************************************)
\* The lowest tier due is one of them.
LEMMA LowestIs ==
    ASSUME NEW S \in SUBSET Tiers, S # {}
    PROVE  Lowest(S) \in S
  <1>1. S \subseteq Nat
    BY DEF Tiers
  <1>2. PICK m \in S : \A k \in S : <<k, m>> \notin OpToRel(<, Nat)
    BY <1>1, WFMin, NatLessThanWellFounded
  <1>3. \A k \in S : ~(k < m)
    BY <1>1, <1>2 DEF OpToRel
  <1>4. \A k \in S : m <= k
    BY <1>1, <1>3
  <1> QED
    BY <1>4 DEF Lowest

\* A fault may be spent, and none is taken back.
LEMMA TroubleStays ==
    ASSUME Typed, UNCHANGED budget \/ Spend("fault")
    PROVE  /\ budget' \in [change : Nat, click : Nat, fault : 0 .. MaxFaults]
           /\ Untroubled' => Untroubled
  <1>1. CASE UNCHANGED budget
    BY <1>1 DEF Typed, Untroubled
  <1>2. CASE Spend("fault")
    BY <1>2, FaultSpent
  <1> QED
    BY <1>1, <1>2

\* The columns that escalation leaves alone.
AsBefore ==
    /\ Len(alerts') = Len(alerts)
    /\ \A a \in 1 .. Len(alerts) :
         /\ alerts'[a].source = alerts[a].source /\ alerts'[a].thing = alerts[a].thing
         /\ alerts'[a].status = alerts[a].status /\ alerts'[a].told = alerts[a].told

\* The policies write which alerts they escalated, and nothing of the tiers.
LEMMA PoliciesDoes ==
    ASSUME PassesTell, NEW p \in Passes, Policies(p)
    PROVE  /\ PassesTell' /\ UNCHANGED <<up, changes, overlapped, reopened, prev, sent>>
           /\ pass[p].pc = "check" /\ \A q \in Passes : q # p => pass'[q] = pass[q]
           /\ pass'[p].pc = "tiers" /\ AsBefore /\ (Untroubled' => Untroubled)
           /\ \A a \in 1 .. Len(alerts) : alerts'[a].fired = alerts[a].fired /\ alerts'[a].ran = alerts[a].ran
  <1>1. Typed /\ Len(alerts) \in Nat /\ pass[p] \in PassRow /\ Placed(pass[p], Len(alerts))
    BY DEF PassesTell, Typed
  <1> DEFINE next == [Idle EXCEPT !.pc = "tiers"]
  <1>2. /\ pass[p].pc = "check" /\ Same /\ UNCHANGED <<prev, sent>> /\ Go(p, next)
        /\ UNCHANGED budget \/ Spend("fault")
    BY DEF Policies
  <1>3. PICK taken :
           alerts' = [a \in DOMAIN alerts |->
                        IF a \in taken THEN [alerts[a] EXCEPT !.escalated = TRUE] ELSE alerts[a]]
    BY DEF Policies
  <1> DEFINE f == [a \in DOMAIN alerts |->
                     IF a \in taken THEN [alerts[a] EXCEPT !.escalated = TRUE] ELSE alerts[a]]
  <1>4. DOMAIN alerts = 1 .. Len(alerts) /\ \A a \in 1 .. Len(alerts) : alerts[a] \in RowType
    BY <1>1 DEF Typed
  <1>5. \A a \in 1 .. Len(alerts) :
           /\ f[a] \in RowType /\ f[a].source = alerts[a].source /\ f[a].thing = alerts[a].thing
           /\ f[a].status = alerts[a].status /\ f[a].told = alerts[a].told
           /\ f[a].fired = alerts[a].fired /\ f[a].ran = alerts[a].ran
    BY <1>4 DEF RowType
  <1>6. alerts' = f /\ f = [a \in DOMAIN alerts |-> f[a]] /\ DOMAIN f = DOMAIN alerts
    BY <1>3
  <1> HIDE DEF f, next
  <1>7. alerts' \in Seq(RowType) /\ Len(alerts') = Len(alerts) /\ Len(alerts') <= MaxAlerts
    BY <1>1, <1>5, <1>6, RowsWritten
  <1>8. budget' \in [change : Nat, click : Nat, fault : 0 .. MaxFaults] /\ (Untroubled' => Untroubled)
    BY <1>1, <1>2, TroubleStays
  <1>9. Tables
    BY <1>1, <1>2, <1>7, <1>8 DEF Tables, Typed
  <1>10. next \in PassRow /\ next.pc = "tiers" /\ next.row = 0
    BY IdleIs DEF next, PassRow, PassPcs
  <1>11. Placed(next, Len(alerts'))
    BY <1>1, <1>7, <1>10 DEF Placed
  <1>12. /\ PassesTell' /\ pass'[p] = next
         /\ \A q \in Passes : q # p => pass'[q] = pass[q]
    BY <1>2, <1>9, <1>10, <1>11, PassSteps
  <1> QED
    BY <1>2, <1>5, <1>6, <1>7, <1>8, <1>10, <1>12 DEF Same, AsBefore

\* The next alert of the queue is taken, or the pass is over.
Queues == SUBSET (Nat \X (SUBSET Tiers) \X (SUBSET Tiers))
Taken(p, i, queue) ==
    /\ pass'[p].pc = "climb" /\ pass'[p].row = i[1] /\ pass'[p].due = i[2] /\ pass'[p].fired = i[3]
    /\ pass'[p].queue = queue \ {i} /\ pass'[p].step = 1 /\ ~pass'[p].changed

LEMMA TakeDoes ==
    ASSUME PassesTell, NEW p \in Passes, NEW queue \in Queues, \A i \in queue : i[1] \in 1 .. Len(alerts'),
           Take(p, queue), pass[p].pc # "idle", Same, Tables
    PROVE  /\ PassesTell' /\ \A q \in Passes : q # p => pass'[q] = pass[q]
           /\ pass'[p].pc = "idle" \/ \E i \in queue : Taken(p, i, queue)
  <1>1. Typed /\ Len(alerts) \in Nat /\ pass[p] \in PassRow /\ Placed(pass[p], Len(alerts))
    BY DEF PassesTell, Typed
  <1>2. Len(alerts') \in Nat
    BY DEF Tables
  <1>3. CASE Go(p, Idle)
    <2>1. Placed(Idle, Len(alerts'))
      BY <1>2, IdleIs DEF Placed
    <2>2. /\ PassesTell' /\ pass'[p] = Idle
          /\ \A q \in Passes : q # p => pass'[q] = pass[q]
      BY <1>3, <2>1, IdleIs, PassSteps
    <2> QED
      BY <2>2, IdleIs
  <1>4. ASSUME NEW i \in queue,
               Go(p, [Idle EXCEPT !.pc = "climb", !.row = i[1], !.due = i[2], !.fired = i[3],
                                             !.queue = queue \ {i}, !.step = 1])
        PROVE  /\ PassesTell' /\ \A q \in Passes : q # p => pass'[q] = pass[q]
               /\ Taken(p, i, queue)
    <2> DEFINE next == [Idle EXCEPT !.pc = "climb", !.row = i[1], !.due = i[2], !.fired = i[3],
                                             !.queue = queue \ {i}, !.step = 1]
    <2>1. i \in Nat \X (SUBSET Tiers) \X (SUBSET Tiers) /\ 1 \in 0 .. Steps
      BY AlertBounds DEF Queues
    <2>2. /\ next \in PassRow /\ next.pc = "climb" /\ next.row = i[1] /\ next.due = i[2]
          /\ next.fired = i[3] /\ next.queue = queue \ {i} /\ next.step = 1 /\ ~next.changed
      BY <2>1, AlertBounds DEF Queues, PassRow, PassPcs, Idle
    <2>3. Go(p, next)
      BY <1>4
    <2> HIDE DEF next
    <2>4. next.row \in 0 .. Len(alerts') /\ next.row # 0
      BY <1>2, <2>2
    <2>5. Placed(next, Len(alerts'))
      BY <2>2, <2>4 DEF Placed
    <2>6. /\ PassesTell' /\ pass'[p] = next
          /\ \A q \in Passes : q # p => pass'[q] = pass[q]
      BY <2>2, <2>3, <2>5, PassSteps
    <2> QED
      BY <2>2, <2>6 DEF Taken
  <1> QED
    BY <1>3, <1>4 DEF Take

\* The open alerts are read, each with the tiers due and the tiers it has run.
LEMMA ReadOpenDoes ==
    ASSUME PassesTell, NEW p \in Passes, ReadOpen(p)
    PROVE  /\ PassesTell' /\ UNCHANGED <<up, changes, overlapped, reopened, alerts, prev, sent, budget>>
           /\ pass[p].pc = "tiers" /\ \A q \in Passes : q # p => pass'[q] = pass[q]
           /\ \/ pass'[p].pc = "idle"
              \/ \E queue \in Queues :
                   /\ \E i \in queue : Taken(p, i, queue)
                   /\ \A i \in queue : /\ i[1] \in 1 .. Len(alerts) /\ i[3] = alerts[i[1]].fired
                                       /\ i[2] \cap i[3] = {}
                   /\ \A i, j \in queue : i[1] = j[1] => i = j
  <1>1. Typed /\ Len(alerts) \in Nat /\ pass[p] \in PassRow /\ Placed(pass[p], Len(alerts))
    BY DEF PassesTell, Typed
  <1> DEFINE Unfired(a) == {t \in Tiers \ alerts[a].fired : alerts[a].age >= t}
             open == {a \in DOMAIN alerts : Open(a) /\ Unfired(a) # {}}
             queue == {<<a, Unfired(a), alerts[a].fired>> : a \in open}
  <1>2. /\ pass[p].pc = "tiers" /\ Same /\ UNCHANGED <<alerts, prev, sent, budget>>
        /\ Take(p, queue)
    BY DEF ReadOpen
  <1>3. \A a \in open : a \in 1 .. Len(alerts) /\ a \in Nat /\ alerts[a].fired \subseteq Tiers
    <2> TAKE a \in open
    <2>1. a \in 1 .. Len(alerts)
      BY <1>1 DEF Typed
    <2> QED
      BY <1>1, <2>1, RowColumns
  <1>4. \A a : Unfired(a) \subseteq Tiers /\ Unfired(a) \cap alerts[a].fired = {}
    OBVIOUS
  <1> HIDE DEF open, Unfired
  <1>5. queue \in Queues
    BY <1>3, <1>4 DEF Queues
  <1>6. /\ \A i \in queue : /\ i[1] \in 1 .. Len(alerts) /\ i[3] = alerts[i[1]].fired
                            /\ i[2] \cap i[3] = {}
        /\ \A i, j \in queue : i[1] = j[1] => i = j
    BY <1>3, <1>4
  <1> HIDE DEF queue
  <1>7. Tables
    BY <1>2, TablesStay
  <1>8. \A i \in queue : i[1] \in 1 .. Len(alerts')
    BY <1>2, <1>6
  <1>9. /\ PassesTell' /\ \A q \in Passes : q # p => pass'[q] = pass[q]
        /\ pass'[p].pc = "idle" \/ \E i \in queue : Taken(p, i, queue)
    BY <1>2, <1>5, <1>7, <1>8, TakeDoes
  <1> QED
    BY <1>2, <1>5, <1>6, <1>9 DEF Same

\* A step of the lowest tier due runs, and the last one is the end of the tier.
LEMMA RunStepDoes ==
    ASSUME PassesTell, NEW p \in Passes, RunStep(p)
    PROVE  /\ PassesTell' /\ UNCHANGED <<up, changes, overlapped, reopened, prev, sent, budget>>
           /\ pass[p].pc = "climb" /\ \A q \in Passes : q # p => pass'[q] = pass[q]
           /\ pass'[p].pc = "climb" /\ pass'[p].row = pass[p].row /\ pass'[p].queue = pass[p].queue
           /\ pass[p].row \in 1 .. Len(alerts) /\ AsBefore /\ pass[p].step \in Nat /\ pass[p].step # 0
           /\ \A b \in 1 .. Len(alerts) : /\ alerts'[b].fired = alerts[b].fired
                                          /\ b # pass[p].row => alerts'[b].ran = alerts[b].ran
           /\ \E tier \in pass[p].due :
                /\ tier = Lowest(pass[p].due)
                /\ alerts'[pass[p].row].ran =
                     IF pass[p].step = 1
                     THEN [alerts[pass[p].row].ran EXCEPT ![tier] = Twice(alerts[pass[p].row].ran[tier])]
                     ELSE alerts[pass[p].row].ran
                /\ \/ /\ pass'[p].step = pass[p].step + 1 /\ pass'[p].due = pass[p].due
                      /\ pass'[p].fired = pass[p].fired /\ pass'[p].changed = pass[p].changed
                   \/ /\ pass'[p].step = 1 /\ pass'[p].due = pass[p].due \ {tier}
                      /\ pass'[p].fired = pass[p].fired \cup {tier} /\ pass'[p].changed
  <1>1. Typed /\ Len(alerts) \in Nat /\ pass[p] \in PassRow /\ Placed(pass[p], Len(alerts))
    BY DEF PassesTell, Typed
  <1> DEFINE tier == Lowest(pass[p].due)
             a == pass[p].row
             more == [pass[p] EXCEPT !.step = pass[p].step + 1]
             ends == [pass[p] EXCEPT !.step = 1, !.due = pass[p].due \ {tier}, !.fired = pass[p].fired \cup {tier},
                                     !.changed = TRUE]
             row == [alerts[a] EXCEPT !.ran = [alerts[a].ran EXCEPT ![tier] = Twice(alerts[a].ran[tier])]]
  <1>2. /\ pass[p].pc = "climb" /\ pass[p].due # {} /\ Same /\ UNCHANGED <<prev, sent, budget>>
        /\ Go(p, IF pass[p].step < Steps THEN more ELSE ends)
        /\ alerts' = IF pass[p].step = 1 THEN [alerts EXCEPT ![a] = row] ELSE alerts
    BY DEF RunStep
  <1>3. tier \in pass[p].due /\ tier \in Tiers /\ pass[p].due \subseteq Tiers
    BY <1>1, <1>2, LowestIs DEF PassRow
  <1>4. /\ a \in 1 .. Len(alerts) /\ alerts[a] \in RowType /\ pass[p].step \in 0 .. Steps /\ pass[p].step # 0
        /\ Steps \in Nat \ {0}
    BY <1>1, <1>2, AlertBounds DEF Placed, Typed, PassRow
  <1> HIDE DEF tier
  <1>5. /\ row \in RowType /\ row.source = alerts[a].source /\ row.thing = alerts[a].thing
        /\ row.status = alerts[a].status /\ row.told = alerts[a].told /\ row.fired = alerts[a].fired
        /\ row.ran = [alerts[a].ran EXCEPT ![tier] = Twice(alerts[a].ran[tier])]
    <2>1. alerts[a].ran \in [Tiers -> 0 .. 2]
      BY <1>4 DEF RowType
    <2>2. Twice(alerts[a].ran[tier]) \in 0 .. 2
      BY <1>3, <2>1 DEF Twice
    <2>3. [alerts[a].ran EXCEPT ![tier] = Twice(alerts[a].ran[tier])] \in [Tiers -> 0 .. 2]
      BY <2>1, <2>2
    <2> QED
      BY <1>4, <2>3 DEF RowType
  <1>6. more \in PassRow \/ ~(pass[p].step < Steps)
    BY <1>1, <1>4 DEF PassRow
  <1>7. ends \in PassRow
    <2>1. 1 \in 0 .. Steps /\ pass[p].due \ {tier} \subseteq Tiers /\ pass[p].fired \cup {tier} \subseteq Tiers
      BY <1>1, <1>3, <1>4 DEF PassRow
    <2> QED
      BY <1>1, <2>1 DEF PassRow
  <1>8. /\ more.pc = "climb" /\ more.row = a /\ more.queue = pass[p].queue /\ more.step = pass[p].step + 1
        /\ more.due = pass[p].due /\ more.fired = pass[p].fired /\ more.changed = pass[p].changed
        /\ ends.pc = "climb" /\ ends.row = a /\ ends.queue = pass[p].queue /\ ends.step = 1
        /\ ends.due = pass[p].due \ {tier} /\ ends.fired = pass[p].fired \cup {tier} /\ ends.changed
    BY <1>1, <1>2 DEF PassRow
  <1> HIDE DEF more, ends, row, a
  <1>9. /\ alerts' \in Seq(RowType) /\ Len(alerts') = Len(alerts) /\ Len(alerts') <= MaxAlerts
        /\ \A b \in 1 .. Len(alerts) : b # a => alerts'[b] = alerts[b]
        /\ alerts'[a] = IF pass[p].step = 1 THEN row ELSE alerts[a]
    <2>1. CASE pass[p].step = 1
      <3>1. alerts' = [alerts EXCEPT ![a] = row]
        BY <1>2, <2>1
      <3>2. /\ alerts' \in Seq(RowType) /\ Len(alerts') = Len(alerts) /\ Len(alerts') <= MaxAlerts
            /\ alerts'[a] = row /\ \A b \in 1 .. Len(alerts) : b # a => alerts'[b] = alerts[b]
        BY <1>1, <1>4, <1>5, <3>1, RowWritten
      <3> QED
        BY <2>1, <3>2
    <2>2. CASE pass[p].step # 1
      BY <1>1, <1>2, <2>2 DEF Typed
    <2> QED
      BY <2>1, <2>2
  <1>10. Tables
    BY <1>1, <1>2, <1>9 DEF Tables, Typed
  <1>11. AsBefore /\ \A b \in 1 .. Len(alerts) : alerts'[b].fired = alerts[b].fired
    BY <1>4, <1>5, <1>9 DEF AsBefore
  <1>12. ASSUME NEW next \in PassRow, Go(p, next), next.pc = "climb", next.row = a,
                next.queue = pass[p].queue, next.step # 0
         PROVE  /\ PassesTell' /\ pass'[p] = next
                /\ \A q \in Passes : q # p => pass'[q] = pass[q]
    <2>1. Placed(next, Len(alerts'))
      BY <1>1, <1>2, <1>4, <1>9, <1>12 DEF Placed, a
    <2> QED
      BY <1>2, <1>10, <1>12, <2>1, PassSteps
  <1>13. pass[p].step + 1 # 0 /\ pass[p].step \in Nat
    BY <1>4
  <1>16. /\ \A b \in 1 .. Len(alerts) : b # a => alerts'[b].ran = alerts[b].ran
         /\ alerts'[a].ran = IF pass[p].step = 1
                             THEN [alerts[a].ran EXCEPT ![tier] = Twice(alerts[a].ran[tier])]
                             ELSE alerts[a].ran
    BY <1>5, <1>9
  <1>17. UNCHANGED <<up, changes, overlapped, reopened, prev, sent, budget>>
    BY <1>2 DEF Same
  <1>18. tier = Lowest(pass[p].due)
    BY DEF tier
  <1>14. CASE pass[p].step < Steps
    <2>1. Go(p, more) /\ more \in PassRow
      BY <1>2, <1>6, <1>14
    <2>2. /\ PassesTell' /\ pass'[p] = more
          /\ \A q \in Passes : q # p => pass'[q] = pass[q]
      BY <1>8, <1>12, <1>13, <2>1
    <2> QED
      BY <1>2, <1>3, <1>4, <1>8, <1>11, <1>13, <1>16, <1>17, <1>18, <2>2 DEF a
  <1>15. CASE ~(pass[p].step < Steps)
    <2>1. Go(p, ends)
      BY <1>2, <1>15
    <2>2. /\ PassesTell' /\ pass'[p] = ends
          /\ \A q \in Passes : q # p => pass'[q] = pass[q]
      BY <1>7, <1>8, <1>12, <2>1
    <2> QED
      BY <1>2, <1>3, <1>4, <1>8, <1>11, <1>13, <1>16, <1>17, <1>18, <2>2 DEF a
  <1> QED
    BY <1>14, <1>15

\* The tiers that ran are marked, or that fails.
LEMMA MarkFiredDoes ==
    ASSUME PassesTell, NEW p \in Passes, MarkFired(p)
    PROVE  /\ PassesTell' /\ UNCHANGED <<up, changes, overlapped, reopened, prev, sent>>
           /\ pass[p].pc = "climb" /\ pass[p].due = {} /\ \A q \in Passes : q # p => pass'[q] = pass[q]
           /\ pass'[p].pc = "idle" \/ \E i \in pass[p].queue : Taken(p, i, pass[p].queue)
           /\ (Untroubled' => Untroubled) /\ AsBefore /\ pass[p].row \in 1 .. Len(alerts)
           /\ \A b \in 1 .. Len(alerts) : /\ alerts'[b].ran = alerts[b].ran
                                          /\ b # pass[p].row => alerts'[b].fired = alerts[b].fired
           /\ \/ ~Untroubled'
              \/ ~pass[p].changed /\ alerts'[pass[p].row].fired = alerts[pass[p].row].fired
              \/ pass[p].changed /\ alerts'[pass[p].row].fired = pass[p].fired
  <1>1. Typed /\ Len(alerts) \in Nat /\ pass[p] \in PassRow /\ Placed(pass[p], Len(alerts))
    BY DEF PassesTell, Typed
  <1> DEFINE a == pass[p].row
             row == [alerts[a] EXCEPT !.fired = pass[p].fired, !.escalated = TRUE]
  <1>2. /\ pass[p].pc = "climb" /\ pass[p].due = {} /\ Same /\ UNCHANGED <<prev, sent>>
        /\ Take(p, pass[p].queue) /\ (UNCHANGED budget \/ Spend("fault"))
        /\ \/ ~pass[p].changed /\ alerts' = alerts /\ UNCHANGED budget
           \/ pass[p].changed /\ alerts' = [alerts EXCEPT ![a] = row] /\ UNCHANGED budget
           \/ Spend("fault") /\ alerts' = alerts
    BY DEF MarkFired
  <1>3. a \in 1 .. Len(alerts) /\ alerts[a] \in RowType
    BY <1>1, <1>2 DEF Placed, Typed
  <1>4. /\ row \in RowType /\ row.source = alerts[a].source /\ row.thing = alerts[a].thing
        /\ row.status = alerts[a].status /\ row.told = alerts[a].told /\ row.fired = pass[p].fired
        /\ row.ran = alerts[a].ran
    <2>1. pass[p].fired \in SUBSET Tiers
      BY <1>1 DEF PassRow
    <2> QED
      BY <1>3, <2>1 DEF RowType
  <1> HIDE DEF row, a
  <1>5. /\ alerts' \in Seq(RowType) /\ Len(alerts') = Len(alerts) /\ Len(alerts') <= MaxAlerts
        /\ \A b \in 1 .. Len(alerts) : b # a => alerts'[b] = alerts[b]
        /\ \/ ~pass[p].changed /\ alerts'[a] = alerts[a]
           \/ pass[p].changed /\ alerts'[a] = row
           \/ Spend("fault") /\ alerts'[a] = alerts[a]
    <2>1. CASE alerts' = alerts /\ (~pass[p].changed \/ Spend("fault"))
      BY <1>1, <2>1 DEF Typed
    <2>2. CASE alerts' = [alerts EXCEPT ![a] = row] /\ pass[p].changed
      BY <1>1, <1>3, <1>4, <2>2, RowWritten
    <2> QED
      BY <1>2, <2>1, <2>2
  <1>6. budget' \in [change : Nat, click : Nat, fault : 0 .. MaxFaults] /\ (Untroubled' => Untroubled)
    BY <1>1, <1>2, TroubleStays
  <1>7. Spend("fault") => ~Untroubled'
    BY <1>1, FaultSpent
  <1>8. Tables
    BY <1>1, <1>2, <1>5, <1>6 DEF Tables, Typed
  <1>9. pass[p].queue \in Queues /\ \A i \in pass[p].queue : i[1] \in 1 .. Len(alerts')
    BY <1>1, <1>2, <1>5 DEF Placed, PassRow, Queues
  <1>10. /\ PassesTell' /\ \A q \in Passes : q # p => pass'[q] = pass[q]
         /\ pass'[p].pc = "idle" \/ \E i \in pass[p].queue : Taken(p, i, pass[p].queue)
    BY <1>2, <1>8, <1>9, TakeDoes
  <1>11. AsBefore /\ \A b \in 1 .. Len(alerts) : alerts'[b].ran = alerts[b].ran
    BY <1>3, <1>4, <1>5 DEF AsBefore
  <1> QED
    BY <1>2, <1>3, <1>4, <1>5, <1>6, <1>7, <1>10, <1>11 DEF Same, a

(***************************************************************************)
(* Faults, restarts, the operator and the world.                           *)
(***************************************************************************)
\* A call fails: the pass climbs on, goes on with the rules, or ends.
LEMMA FaultDoes ==
    ASSUME PassesTell, NEW p \in Passes, StepFails(p) \/ PassFails(p)
    PROVE  /\ PassesTell' /\ UNCHANGED <<up, changes, overlapped, reopened, alerts, prev, sent>> /\ ~Untroubled'
           /\ \A q \in Passes : q # p => pass'[q] = pass[q]
           /\ pass'[p].pc \in {"climb", "idle", "rules"}
  <1>1. Typed /\ Len(alerts) \in Nat /\ pass[p] \in PassRow /\ Placed(pass[p], Len(alerts))
    BY DEF PassesTell, Typed
  <1>2. /\ Same /\ UNCHANGED <<alerts, prev, sent>> /\ Spend("fault") /\ pass[p].pc # "idle"
    BY DEF StepFails, PassFails
  <1>3. Tables
    BY <1>2, TablesStay
  <1>4. \E next \in PassRow : /\ Go(p, next) /\ Placed(next, Len(alerts'))
                              /\ next.pc \in {"climb", "idle", "rules"}
    <2>1. CASE StepFails(p)
      <3> DEFINE next == [pass[p] EXCEPT !.step = 1, !.due = pass[p].due \ {Lowest(pass[p].due)}]
      <3>1. Go(p, next) /\ pass[p].pc = "climb"
        BY <2>1 DEF StepFails
      <3>2. 1 \in 0 .. Steps /\ pass[p].due \ {Lowest(pass[p].due)} \subseteq Tiers
        BY <1>1, AlertBounds DEF PassRow
      <3>3. next \in PassRow /\ next.pc = "climb" /\ next.row = pass[p].row /\ next.step = 1
            /\ next.queue = pass[p].queue
        BY <1>1, <3>1, <3>2 DEF PassRow
      <3> HIDE DEF next
      <3>4. Placed(next, Len(alerts'))
        BY <1>1, <1>2, <3>1, <3>3 DEF Placed
      <3> QED
        BY <3>1, <3>3, <3>4
    <2>2. CASE PassFails(p)
      <3> DEFINE next == [Idle EXCEPT !.pc = "rules", !.rules = pass[p].rules]
      <3>1. Go(p, next) \/ Go(p, Idle)
        BY <2>2 DEF PassFails
      <3>2. next \in PassRow /\ next.pc = "rules" /\ next.row = 0
        BY <1>1, IdleIs DEF PassRow, PassPcs
      <3> HIDE DEF next
      <3>3. Placed(next, Len(alerts')) /\ Placed(Idle, Len(alerts'))
        BY <1>1, <1>2, <3>2, IdleIs DEF Placed
      <3> QED
        BY <3>1, <3>2, <3>3, IdleIs
    <2> QED
      BY <1>2, <2>1, <2>2
  <1>5. PICK next \in PassRow : /\ Go(p, next) /\ Placed(next, Len(alerts'))
                                /\ next.pc \in {"climb", "idle", "rules"}
    BY <1>4
  <1>6. /\ PassesTell' /\ pass'[p] = next
        /\ \A q \in Passes : q # p => pass'[q] = pass[q]
    BY <1>2, <1>3, <1>5, PassSteps
  <1>7. ~Untroubled'
    BY <1>1, <1>2, FaultSpent
  <1> QED
    BY <1>2, <1>5, <1>6, <1>7 DEF Same

\* The API comes back with no pass under way and nothing seen.
LEMMA RestartDoes ==
    ASSUME PassesTell, Restart
    PROVE  /\ PassesTell' /\ UNCHANGED <<up, changes, overlapped, reopened, alerts, sent>> /\ ~Untroubled'
           /\ \A p \in Passes : pass'[p].pc = "idle"
  <1>1. Typed /\ Len(alerts) \in Nat
    BY DEF PassesTell, Typed
  <1>2. /\ Same /\ UNCHANGED <<alerts, sent>> /\ Spend("fault")
        /\ pass' = [p \in Passes |-> Idle] /\ prev' = [t \in Things |-> "none"]
    BY DEF Restart
  <1>3. /\ ~Untroubled' /\ budget' \in [change : Nat, click : Nat, fault : 0 .. MaxFaults]
    BY <1>1, <1>2, FaultSpent
  <1>4. pass' \in [Passes -> PassRow] /\ \A p \in Passes : pass'[p] = Idle
    BY <1>2, IdleIs
  <1>5. Typed'
    BY <1>1, <1>2, <1>3, <1>4 DEF Typed, Same
  <1>6. Placed(Idle, Len(alerts'))
    BY <1>1, <1>2, IdleIs DEF Placed
  <1> QED
    BY <1>2, <1>3, <1>4, <1>5, <1>6, IdleIs DEF Same, PassesTell, OnePass

\* A rule is switched, or a metric moves: neither the rows nor a pass change.
LEMMA SwitchDoes ==
    ASSUME PassesTell, (\E r \in Rules : SwitchRule(r)) \/ (\E t \in Vms : Heat(t))
    PROVE  /\ PassesTell' /\ UNCHANGED <<up, alerts, prev, pass, sent, changes, overlapped, reopened>>
           /\ Untroubled' = Untroubled
  <1>1. Typed /\ Len(alerts) \in Nat
    BY DEF PassesTell, Typed
  <1>2. /\ UNCHANGED <<up, alerts, prev, pass, sent, changes, overlapped, reopened>>
        /\ hot' \subseteq Vms /\ enabled' \subseteq Rules
        /\ Spend("click") \/ Spend("change")
    BY <1>1 DEF SwitchRule, Heat, Typed
  <1>3. Tables
    BY <1>2, TablesStay
  <1>4. Untroubled' = Untroubled
    BY <1>1, <1>2, OtherSpent
  <1>5. PassesTell'
    BY <1>1, <1>2, <1>3, WorldSteps DEF Typed
  <1> QED
    BY <1>2, <1>4, <1>5

\* The operator sets the status of an alert.
LEMMA StatusDoes ==
    ASSUME PassesTell, NEW a \in DOMAIN alerts, Acknowledge(a) \/ Resolve(a)
    PROVE  /\ PassesTell' /\ UNCHANGED <<up, prev, pass, sent, changes, overlapped>>
           /\ Untroubled' = Untroubled /\ a \in 1 .. Len(alerts)
           /\ \/ StatusSet(a, "resolved") /\ reopened' = reopened
              \/ StatusSet(a, "acknowledged") /\ reopened' = (reopened \/ ~Open(a))
  <1>1. Typed /\ Len(alerts) \in Nat /\ a \in 1 .. Len(alerts)
    BY DEF PassesTell, Typed
  <1>2. alerts[a] \in RowType
    BY <1>1 DEF Typed
  <1>3. PICK s \in {"resolved", "acknowledged"} :
          /\ alerts' = [alerts EXCEPT ![a].status = s]
          /\ \/ s = "resolved" /\ reopened' = reopened
             \/ s = "acknowledged" /\ reopened' = (reopened \/ ~Open(a))
    BY DEF Acknowledge, Resolve, Same
  <1>4. /\ UNCHANGED <<up, hot, enabled, prev, pass, sent, changes, overlapped>> /\ Spend("click")
    BY DEF Acknowledge, Resolve, Same
  <1> DEFINE row == [alerts[a] EXCEPT !.status = s]
  <1>5. row \in RowType /\ alerts' = [alerts EXCEPT ![a] = row]
    BY <1>2, <1>3 DEF RowType
  <1>6. /\ alerts' \in Seq(RowType) /\ Len(alerts') = Len(alerts) /\ Len(alerts') <= MaxAlerts
        /\ alerts'[a] = row /\ \A b \in 1 .. Len(alerts) : b # a => alerts'[b] = alerts[b]
    <2> HIDE DEF row
    <2> QED
      BY <1>1, <1>5, RowWritten
  <1>7. /\ budget' \in [change : Nat, click : Nat, fault : 0 .. MaxFaults]
        /\ Untroubled' = Untroubled
    BY <1>1, <1>4, OtherSpent
  <1>8. Tables
    BY <1>1, <1>4, <1>6, <1>7 DEF Tables, Typed
  <1>9. reopened' \in BOOLEAN
    BY <1>1, <1>3 DEF Typed
  <1>10. PassesTell'
    BY <1>1, <1>4, <1>8, <1>9, WorldSteps DEF Typed
  <1>11. StatusSet(a, s)
    BY <1>1, <1>6, StatusEdited
  <1> QED
    BY <1>1, <1>3, <1>4, <1>7, <1>10, <1>11

\* Alerts grow older.
LEMMA AgeDoes ==
    ASSUME PassesTell, Age
    PROVE  /\ PassesTell' /\ UNCHANGED <<up, prev, pass, sent, changes, overlapped, reopened, budget>>
           /\ AsBefore
           /\ \A a \in 1 .. Len(alerts) : alerts'[a].fired = alerts[a].fired /\ alerts'[a].ran = alerts[a].ran
  <1>1. Typed /\ Len(alerts) \in Nat
    BY DEF PassesTell, Typed
  <1> DEFINE f == [a \in DOMAIN alerts |->
                    IF alerts[a].age < MaxAge THEN [alerts[a] EXCEPT !.age = @ + 1] ELSE alerts[a]]
  <1>2. Same /\ UNCHANGED <<prev, pass, sent, budget>> /\ alerts' = f
    BY DEF Age
  <1>3. DOMAIN alerts = 1 .. Len(alerts) /\ \A a \in 1 .. Len(alerts) : alerts[a] \in RowType
    BY <1>1 DEF Typed
  <1>4. \A a \in 1 .. Len(alerts) :
           /\ f[a] \in RowType /\ f[a].source = alerts[a].source /\ f[a].thing = alerts[a].thing
           /\ f[a].status = alerts[a].status /\ f[a].told = alerts[a].told
           /\ f[a].fired = alerts[a].fired /\ f[a].ran = alerts[a].ran
    <2> TAKE a \in 1 .. Len(alerts)
    <2>1. alerts[a] \in RowType /\ alerts[a].age \in 0 .. MaxAge /\ MaxAge \in Nat
      BY <1>3, AlertBounds DEF RowType
    <2>2. alerts[a].age < MaxAge => alerts[a].age + 1 \in 0 .. MaxAge
      BY <2>1
    <2> QED
      BY <1>3, <2>1, <2>2 DEF RowType
  <1>5. f = [a \in DOMAIN alerts |-> f[a]] /\ DOMAIN f = DOMAIN alerts
    OBVIOUS
  <1> HIDE DEF f
  <1>6. alerts' \in Seq(RowType) /\ Len(alerts') = Len(alerts) /\ Len(alerts') <= MaxAlerts
    BY <1>1, <1>2, <1>4, <1>5, RowsWritten
  <1>7. Tables
    BY <1>1, <1>2, <1>6 DEF Tables, Typed
  <1>8. PassesTell'
    BY <1>1, <1>2, <1>7, WorldSteps DEF Typed, Same
  <1> QED
    BY <1>2, <1>4, <1>6, <1>8 DEF Same, AsBefore

\* A thing goes down or comes back, and its monitor raises or resolves its alert.
LEMMA FlipDoes ==
    ASSUME PassesTell, NEW t \in Things, Flip(t)
    PROVE  /\ PassesTell' /\ UNCHANGED <<prev, pass, sent, overlapped, reopened>>
           /\ up' = [up EXCEPT ![t] = ~up[t]] /\ changes' = [changes EXCEPT ![t] = changes[t] + 1]
           /\ Untroubled' = Untroubled
           /\ \/ /\ Kind[t] = "monitor" /\ up[t]
                 /\ Len(alerts') = Len(alerts) + 1 /\ \A b \in 1 .. Len(alerts) : alerts'[b] = alerts[b]
                 /\ alerts'[Len(alerts) + 1] = Row(<<"monitor", t>>, t)
              \/ /\ ~(Kind[t] = "monitor" /\ up[t]) /\ Len(alerts') = Len(alerts)
                 /\ \A a \in 1 .. Len(alerts) :
                      IF alerts[a].source = <<"monitor", t>>
                      THEN alerts'[a] = [alerts[a] EXCEPT !.status = "resolved"] ELSE alerts'[a] = alerts[a]
  <1>1. Typed /\ Len(alerts) \in Nat
    BY DEF PassesTell, Typed
  <1> DEFINE f == [a \in DOMAIN alerts |-> IF alerts[a].source = <<"monitor", t>>
                                           THEN [alerts[a] EXCEPT !.status = "resolved"] ELSE alerts[a]]
  <1>2. /\ UNCHANGED <<hot, enabled, prev, pass, sent, overlapped, reopened>> /\ Spend("change")
        /\ up' = [up EXCEPT ![t] = ~up[t]] /\ changes' = [changes EXCEPT ![t] = changes[t] + 1]
        /\ \/ /\ Kind[t] = "monitor" /\ up[t] /\ Len(alerts) < MaxAlerts
              /\ alerts' = Append(alerts, Row(<<"monitor", t>>, t))
           \/ ~(Kind[t] = "monitor" /\ up[t]) /\ alerts' = f
    BY DEF Flip
  <1>3. up' \in [Things -> BOOLEAN] /\ changes' \in [Things -> Nat]
    BY <1>1, <1>2 DEF Typed
  <1>4. /\ budget' \in [change : Nat, click : Nat, fault : 0 .. MaxFaults]
        /\ Untroubled' = Untroubled
    BY <1>1, <1>2, OtherSpent
  <1>5. ASSUME alerts' \in Seq(RowType) /\ Len(alerts') <= MaxAlerts /\ Len(alerts) <= Len(alerts')
        PROVE  PassesTell'
    <2>1. Tables
      BY <1>1, <1>2, <1>4, <1>5 DEF Tables, Typed
    <2> QED
      BY <1>1, <1>2, <1>3, <2>1, WorldSteps DEF Typed
  <1>6. CASE /\ Kind[t] = "monitor" /\ up[t] /\ Len(alerts) < MaxAlerts
             /\ alerts' = Append(alerts, Row(<<"monitor", t>>, t))
    <2>1. <<"monitor", t>> \in Sources
      BY DEF Sources
    <2>2. Row(<<"monitor", t>>, t) \in RowType
      BY <2>1, NewRow
    <2>3. /\ alerts' \in Seq(RowType) /\ Len(alerts') = Len(alerts) + 1 /\ Len(alerts') <= MaxAlerts
          /\ alerts'[Len(alerts) + 1] = Row(<<"monitor", t>>, t)
          /\ \A b \in 1 .. Len(alerts) : alerts'[b] = alerts[b]
      BY <1>1, <1>6, <2>2, RowAdded
    <2>4. Len(alerts) <= Len(alerts')
      BY <1>1, <2>3
    <2> QED
      BY <1>2, <1>4, <1>5, <1>6, <2>3, <2>4
  <1>7. CASE ~(Kind[t] = "monitor" /\ up[t]) /\ alerts' = f
    <2>1. DOMAIN alerts = 1 .. Len(alerts) /\ \A a \in 1 .. Len(alerts) : alerts[a] \in RowType
      BY <1>1 DEF Typed
    <2>2. \A a \in 1 .. Len(alerts) :
            /\ f[a] \in RowType
            /\ IF alerts[a].source = <<"monitor", t>>
               THEN f[a] = [alerts[a] EXCEPT !.status = "resolved"] ELSE f[a] = alerts[a]
      BY <2>1 DEF RowType
    <2>3. f = [a \in DOMAIN alerts |-> f[a]] /\ DOMAIN f = DOMAIN alerts
      OBVIOUS
    <2> HIDE DEF f
    <2>4. alerts' \in Seq(RowType) /\ Len(alerts') = Len(alerts) /\ Len(alerts') <= MaxAlerts
      BY <1>1, <1>7, <2>2, <2>3, RowsWritten
    <2> QED
      BY <1>1, <1>2, <1>4, <1>5, <1>7, <2>2, <2>4
  <1> QED
    BY <1>2, <1>6, <1>7

(***************************************************************************)
(* One open alert.                                                         *)
(***************************************************************************)
\* No row is opened.
NoneOpened ==
    /\ Len(alerts') = Len(alerts)
    /\ \A a \in 1 .. Len(alerts) : /\ alerts'[a].source = alerts[a].source /\ alerts'[a].thing = alerts[a].thing
                                   /\ alerts'[a].status # "resolved" => alerts[a].status # "resolved"

LEMMA OpenQuiet ==
    ASSUME PassesTell, PassesTell', OpenInv, NoneOpened, overlapped => overlapped', reopened => reopened',
           UNCHANGED up \/ MonitorsQuiet', \A q \in Passes : pass'[q] = pass[q] \/ StillAbsent(pass'[q])
    PROVE  OpenInv'
  <1>1. Typed /\ Typed' /\ DOMAIN alerts = 1 .. Len(alerts) /\ DOMAIN alerts' = 1 .. Len(alerts)
    BY DEF PassesTell, Typed, NoneOpened
  <1>2. \A a \in DOMAIN alerts' : /\ a \in DOMAIN alerts /\ alerts'[a].source = alerts[a].source
                                  /\ alerts'[a].thing = alerts[a].thing
                                  /\ alerts'[a].status # "resolved" => alerts[a].status # "resolved"
    BY <1>1 DEF NoneOpened
  <1>3. \A s, t : {a \in DOMAIN alerts : /\ alerts[a].status # "resolved" /\ alerts[a].source = s
                                         /\ alerts[a].thing = t} = {} =>
                  {a \in DOMAIN alerts' : /\ alerts'[a].status # "resolved" /\ alerts'[a].source = s
                                          /\ alerts'[a].thing = t} = {}
    BY <1>2
  <1>4. MonitorsQuiet'
    <2>1. CASE UNCHANGED up
      <3> SUFFICES ASSUME ~reopened', NEW t \in Things, Kind[t] = "monitor", up'[t]
                   PROVE  {a \in DOMAIN alerts' : /\ alerts'[a].status # "resolved"
                                                  /\ alerts'[a].source = <<"monitor", t>>
                                                  /\ alerts'[a].thing = t} = {}
        BY DEF MonitorsQuiet, OpenOf, Open
      <3>1. {a \in DOMAIN alerts : /\ alerts[a].status # "resolved" /\ alerts[a].source = <<"monitor", t>>
                                   /\ alerts[a].thing = t} = {}
        BY <2>1 DEF OpenInv, MonitorsQuiet, OpenOf, Open
      <3> QED
        BY <1>3, <3>1
    <2> QED
      BY <2>1
  <1>5. OneOpenAlert'
    <2>1. ASSUME ~overlapped', ~reopened', NEW a \in DOMAIN alerts', NEW b \in DOMAIN alerts',
                 alerts'[a].status # "resolved", alerts'[b].status # "resolved",
                 alerts'[a].source = alerts'[b].source, alerts'[a].thing = alerts'[b].thing
          PROVE  a = b
      BY <1>2, <2>1 DEF OpenInv, OneOpenAlert, Open
    <2> QED
      BY <2>1 DEF OneOpenAlert, Open
  <1>6. ASSUME ~overlapped', ~reopened', NEW q \in Passes
        PROVE  StillAbsent(pass[q])'
    <2>1. PICK me : me = pass'[q]
      OBVIOUS
    <2>2. StillAbsent(me)
      BY <1>6, <2>1 DEF OpenInv
    <2>3. StillAbsent(me)'
      <3>1. ASSUME me.pc = "raise", NEW r \in me.fire, me.items = {<<r, me.thing>>}
            PROVE  {a \in DOMAIN alerts' : /\ alerts'[a].status # "resolved"
                                           /\ alerts'[a].source = <<"event", On[r]>>
                                           /\ alerts'[a].thing = me.thing} = {}
        <4>1. {a \in DOMAIN alerts : /\ alerts[a].status # "resolved"
                                     /\ alerts[a].source = <<"event", On[r]>>
                                     /\ alerts[a].thing = me.thing} = {}
          BY <2>2, <3>1 DEF StillAbsent, OpenOf, Open
        <4> QED
          BY <1>3, <4>1
      <3>2. ASSUME me.pc = "create", NEW r \in me.fire
            PROVE  {a \in DOMAIN alerts' : /\ alerts'[a].status # "resolved"
                                           /\ alerts'[a].source = <<"rule", r>>
                                           /\ alerts'[a].thing = me.thing} = {}
        <4>1. {a \in DOMAIN alerts : /\ alerts[a].status # "resolved"
                                     /\ alerts[a].source = <<"rule", r>>
                                     /\ alerts[a].thing = me.thing} = {}
          BY <2>2, <3>2 DEF StillAbsent, OpenOf, Open
        <4> QED
          BY <1>3, <4>1
      <3> QED
        BY <3>1, <3>2 DEF StillAbsent, OpenOf, Open
    <2> QED
      BY <2>1, <2>3 DEF StillAbsent, OpenOf, Open
  <1> QED
    BY <1>4, <1>5, <1>6 DEF OpenInv

\* A row is added for what had none open; nobody else waits to add one.
LEMMA OpenAdded ==
    ASSUME PassesTell, PassesTell', OpenInv, UNCHANGED <<overlapped, reopened>>,
           NEW s \in Sources, NEW t \in Things,
           Len(alerts') = Len(alerts) + 1, \A b \in 1 .. Len(alerts) : alerts'[b] = alerts[b],
           alerts'[Len(alerts) + 1] = Row(s, t),
           ~overlapped /\ ~reopened => OpenOf(s, t) = {},
           \/ UNCHANGED up /\ s[1] # "monitor"
           \/ s = <<"monitor", t>> /\ up' = [up EXCEPT ![t] = FALSE],
           ~overlapped /\ ~reopened =>
             \A q \in Passes : \/ pass'[q].pc \notin {"raise", "create"}
                               \/ pass'[q] = pass[q] /\ s = <<"monitor", t>>
    PROVE  OpenInv'
  <1>1. Typed /\ Typed' /\ DOMAIN alerts = 1 .. Len(alerts) /\ DOMAIN alerts' = 1 .. Len(alerts) + 1
        /\ Len(alerts) \in Nat
    BY DEF PassesTell, Typed
  <1> DEFINE new == Len(alerts) + 1
  <1>2. /\ \A a \in DOMAIN alerts : a \in DOMAIN alerts' /\ a # new /\ alerts'[a] = alerts[a]
        /\ \A a \in DOMAIN alerts' : a = new \/ a \in DOMAIN alerts
        /\ new \in DOMAIN alerts'
    BY <1>1
  <1>3. alerts'[new].source = s /\ alerts'[new].thing = t /\ alerts'[new].status = "active"
    BY NewRow
  <1> HIDE DEF new
  <1>4. \A s2, t2 : (s2 # s \/ t2 # t) /\ {a \in DOMAIN alerts : /\ alerts[a].status # "resolved" /\ alerts[a].source = s2
                                         /\ alerts[a].thing = t2} = {} =>
                  {a \in DOMAIN alerts' : /\ alerts'[a].status # "resolved" /\ alerts'[a].source = s2
                                          /\ alerts'[a].thing = t2} = {}
    BY <1>2, <1>3
  <1>5. MonitorsQuiet'
    <2> SUFFICES ASSUME ~reopened', NEW u \in Things, Kind[u] = "monitor", up'[u]
                 PROVE  {a \in DOMAIN alerts' : /\ alerts'[a].status # "resolved"
                                                /\ alerts'[a].source = <<"monitor", u>>
                                                /\ alerts'[a].thing = u} = {}
      BY DEF MonitorsQuiet, OpenOf, Open
    <2>1. up[u] /\ (<<"monitor", u>> # s \/ u # t)
      BY <1>1 DEF Typed
    <2>2. {a \in DOMAIN alerts : /\ alerts[a].status # "resolved" /\ alerts[a].source = <<"monitor", u>>
                                 /\ alerts[a].thing = u} = {}
      BY <2>1 DEF OpenInv, MonitorsQuiet, OpenOf, Open
    <2>3. PICK s2 : s2 = <<"monitor", u>>
      OBVIOUS
    <2> QED
      BY <1>4, <2>1, <2>2, <2>3
  <1>6. OneOpenAlert'
    <2>1. ASSUME ~overlapped', ~reopened', NEW a \in DOMAIN alerts', NEW b \in DOMAIN alerts',
                 alerts'[a].status # "resolved", alerts'[b].status # "resolved",
                 alerts'[a].source = alerts'[b].source, alerts'[a].thing = alerts'[b].thing
          PROVE  a = b
      <3>1. \A c \in DOMAIN alerts : ~(alerts[c].status # "resolved" /\ alerts[c].source = s /\ alerts[c].thing = t)
        BY <2>1 DEF OpenOf, Open
      <3>2. CASE a = new \/ b = new
        BY <1>2, <1>3, <2>1, <3>1, <3>2
      <3>3. CASE a # new /\ b # new
        BY <1>2, <2>1, <3>3 DEF OpenInv, OneOpenAlert, Open
      <3> QED
        BY <3>2, <3>3
    <2> QED
      BY <2>1 DEF OneOpenAlert, Open
  <1>7. ASSUME ~overlapped', ~reopened', NEW q \in Passes
        PROVE  StillAbsent(pass[q])'
    <2>1. PICK me : me = pass'[q]
      OBVIOUS
    <2>2. CASE me.pc \notin {"raise", "create"}
      BY <2>1, <2>2 DEF StillAbsent
    <2>3. CASE me = pass[q] /\ s = <<"monitor", t>>
      <3>0. StillAbsent(me)
        BY <1>7, <2>3 DEF OpenInv
      <3>1. ASSUME me.pc = "raise", NEW r \in me.fire, me.items = {<<r, me.thing>>}
            PROVE  {a \in DOMAIN alerts' : /\ alerts'[a].status # "resolved"
                                           /\ alerts'[a].source = <<"event", On[r]>>
                                           /\ alerts'[a].thing = me.thing} = {}
        <4>1. {a \in DOMAIN alerts : /\ alerts[a].status # "resolved"
                                     /\ alerts[a].source = <<"event", On[r]>>
                                     /\ alerts[a].thing = me.thing} = {}
          BY <3>0, <3>1 DEF StillAbsent, OpenOf, Open
        <4>2. PICK s2 : s2 = <<"event", On[r]>>
          OBVIOUS
        <4>3. s2 # s
          BY <2>3, <4>2
        <4> QED
          BY <1>2, <1>3, <4>1, <4>2, <4>3
      <3>2. ASSUME me.pc = "create", NEW r \in me.fire
            PROVE  {a \in DOMAIN alerts' : /\ alerts'[a].status # "resolved"
                                           /\ alerts'[a].source = <<"rule", r>>
                                           /\ alerts'[a].thing = me.thing} = {}
        <4>1. {a \in DOMAIN alerts : /\ alerts[a].status # "resolved"
                                     /\ alerts[a].source = <<"rule", r>>
                                     /\ alerts[a].thing = me.thing} = {}
          BY <3>0, <3>2 DEF StillAbsent, OpenOf, Open
        <4>2. PICK s2 : s2 = <<"rule", r>>
          OBVIOUS
        <4>3. s2 # s
          BY <2>3, <4>2
        <4> QED
          BY <1>2, <1>3, <4>1, <4>2, <4>3
      <3> QED
        BY <2>1, <3>1, <3>2 DEF StillAbsent, OpenOf, Open
    <2> QED
      BY <1>7, <2>1, <2>2, <2>3
  <1> QED
    BY <1>5, <1>6, <1>7 DEF OpenInv

\* The steps of a pass keep one alert open for one thing.
LEMMA PassesOpenOnce ==
    ASSUME PassesTell, OpenInv, NEW p \in Passes, Begin(p) \/ Step(p) \/ StepFails(p) \/ PassFails(p)
    PROVE  OpenInv'
  <1>1. ASSUME PassesTell', NoneOpened, UNCHANGED <<up, reopened>>, overlapped => overlapped',
               \A q \in Passes : q # p => pass'[q] = pass[q], StillAbsent(pass'[p])
        PROVE  OpenInv'
    BY <1>1, OpenQuiet
  <1>2. alerts' = alerts => NoneOpened
    BY DEF NoneOpened
  <1>3. AsBefore => NoneOpened
    BY DEF AsBefore, NoneOpened
  <1>4. pass'[p].pc \notin {"raise", "create"} => StillAbsent(pass'[p])
    BY DEF StillAbsent
  <1>20. Typed
    BY DEF PassesTell
  <1>5. CASE Begin(p)
    BY <1>1, <1>2, <1>4, <1>5, BeginDoes
  <1>6. CASE ReadTables(p)
    BY <1>1, <1>2, <1>4, <1>6, ReadTablesDoes
  <1>7. CASE Scan(p)
    BY <1>1, <1>2, <1>4, <1>7, ScanDoes
  <1>8. CASE FindEvent(p)
    <2>1. StillAbsent(pass'[p])
      <3>1. PICK r \in pass[p].fire :
                /\ pass'[p].items = {<<r, pass[p].thing>>}
                /\ \/ /\ pass'[p].pc = "raise"
                      /\ OpenOf(<<"event", On[r]>>, pass[p].thing) = {}
                   \/ pass'[p].pc = "deliver"
        BY <1>8, FindEventDoes
      <3>2. pass'[p].thing = pass[p].thing
        BY <1>8, FindEventDoes
      <3>3. PICK me : me = pass'[p]
        OBVIOUS
      <3>4. me.items = {<<r, me.thing>>} /\ (me.pc = "raise" => OpenOf(<<"event", On[r]>>, me.thing) = {})
            /\ me.pc \in {"raise", "deliver"}
        BY <3>1, <3>2, <3>3
      <3>5. \A e \in me.fire : me.items = {<<e, me.thing>>} => e = r
        <4> SUFFICES ASSUME NEW e, me.items = {<<e, me.thing>>} PROVE e = r
          OBVIOUS
        <4>1. <<e, me.thing>> \in {<<r, me.thing>>}
          BY <3>4
        <4>2. <<e, me.thing>> = <<r, me.thing>>
          BY <4>1
        <4> QED
          BY <4>2
      <3>6. StillAbsent(me)
        BY <3>4, <3>5 DEF StillAbsent
      <3> QED
        BY <3>3, <3>6
    <2> QED
      BY <1>1, <1>2, <1>8, <2>1, FindEventDoes
  <1>9. CASE RaiseEvent(p)
    <2>1. /\ PassesTell' /\ UNCHANGED <<up, overlapped, reopened>> /\ pass[p].pc = "raise"
          /\ pass'[p].pc = "deliver" /\ \A q \in Passes : q # p => pass'[q] = pass[q]
          /\ Len(alerts') = Len(alerts) + 1 /\ \A b \in 1 .. Len(alerts) : alerts'[b] = alerts[b]
          /\ pass[p].thing \in Things
      BY <1>9, RaiseEventDoes
    <2>2. PICK r \in pass[p].fire : /\ pass[p].items = {<<r, pass[p].thing>>} /\ r \in EventRules
                                    /\ alerts'[Len(alerts) + 1] = Row(<<"event", On[r]>>, pass[p].thing)
      BY <1>9, RaiseEventDoes
    <2>3. <<"event", On[r]>> \in Sources
      BY <2>2 DEF Sources
    <2>4. ~overlapped /\ ~reopened => OpenOf(<<"event", On[r]>>, pass[p].thing) = {}
      BY <2>1, <2>2 DEF OpenInv, StillAbsent
    <2>5. ~overlapped => \A q \in Passes : pass'[q].pc \notin {"raise", "create"}
      BY <2>1 DEF PassesTell, OnePass
    <2>6. PICK s : s = <<"event", On[r]>>
      OBVIOUS
    <2>7. PICK t : t = pass[p].thing
      OBVIOUS
    <2>8. s[1] # "monitor" /\ s \in Sources /\ t \in Things
      BY <2>1, <2>3, <2>6, <2>7
    <2>9. alerts'[Len(alerts) + 1] = Row(s, t) /\ (~overlapped /\ ~reopened => OpenOf(s, t) = {})
      BY <2>2, <2>4, <2>6, <2>7
    <2> QED
      BY <2>1, <2>5, <2>8, <2>9, OpenAdded
  <1>10. CASE DeliverEvent(p)
    <2>1. NoneOpened
      BY <1>10, <1>20, DeliverEventDoes DEF NoneOpened, ToldMore
    <2> QED
      BY <1>1, <1>4, <1>10, <2>1, DeliverEventDoes
  <1>11. CASE ReadResources(p)
    BY <1>1, <1>2, <1>4, <1>11, ReadResourcesDoes
  <1>12. CASE Check(p)
    <2>1. NoneOpened
      BY <1>2, <1>12, <1>20, CheckDoes DEF NoneOpened, StatusSet
    <2>2. StillAbsent(pass'[p])
      BY <1>4, <1>12, CheckDoes DEF StillAbsent
    <2> QED
      BY <1>1, <1>12, <2>1, <2>2, CheckDoes
  <1>13. CASE Create(p)
    <2>1. /\ PassesTell' /\ UNCHANGED <<up, overlapped, reopened>> /\ pass[p].pc = "create"
          /\ pass'[p].pc = "tell" /\ \A q \in Passes : q # p => pass'[q] = pass[q]
          /\ Len(alerts') = Len(alerts) + 1 /\ \A b \in 1 .. Len(alerts) : alerts'[b] = alerts[b]
          /\ pass[p].thing \in Things
      BY <1>13, CreateDoes
    <2>2. PICK r \in Threshold : /\ pass[p].fire = {r}
                                 /\ alerts'[Len(alerts) + 1] = Row(<<"rule", r>>, pass[p].thing)
      BY <1>13, CreateDoes
    <2>3. <<"rule", r>> \in Sources
      BY <2>2 DEF Sources
    <2>4. ~overlapped /\ ~reopened => OpenOf(<<"rule", r>>, pass[p].thing) = {}
      BY <2>1, <2>2 DEF OpenInv, StillAbsent
    <2>5. ~overlapped => \A q \in Passes : pass'[q].pc \notin {"raise", "create"}
      BY <2>1 DEF PassesTell, OnePass
    <2>6. PICK s : s = <<"rule", r>>
      OBVIOUS
    <2>7. PICK t : t = pass[p].thing
      OBVIOUS
    <2>8. s[1] # "monitor" /\ s \in Sources /\ t \in Things
      BY <2>1, <2>3, <2>6, <2>7
    <2>9. alerts'[Len(alerts) + 1] = Row(s, t) /\ (~overlapped /\ ~reopened => OpenOf(s, t) = {})
      BY <2>2, <2>4, <2>6, <2>7
    <2> QED
      BY <2>1, <2>5, <2>8, <2>9, OpenAdded
  <1>14. CASE Tell(p)
    <2>1. NoneOpened
      BY <1>14, <1>20, TellDoes DEF NoneOpened, ToldMore
    <2> QED
      BY <1>1, <1>4, <1>14, <2>1, TellDoes
  <1>15. CASE Policies(p)
    BY <1>1, <1>3, <1>4, <1>15, PoliciesDoes
  <1>16. CASE ReadOpen(p)
    <2>1. pass'[p].pc \in {"idle", "climb"}
      BY <1>16, ReadOpenDoes DEF Taken
    <2> QED
      BY <1>1, <1>2, <1>4, <1>16, <2>1, ReadOpenDoes
  <1>17. CASE RunStep(p)
    BY <1>1, <1>3, <1>4, <1>17, RunStepDoes
  <1>18. CASE MarkFired(p)
    <2>1. pass'[p].pc \in {"idle", "climb"}
      BY <1>18, MarkFiredDoes DEF Taken
    <2> QED
      BY <1>1, <1>3, <1>4, <1>18, <2>1, MarkFiredDoes
  <1>19. CASE StepFails(p) \/ PassFails(p)
    BY <1>1, <1>2, <1>4, <1>19, FaultDoes
  <1> QED
    BY <1>5, <1>6, <1>7, <1>8, <1>9, <1>10, <1>11, <1>12, <1>13, <1>14, <1>15, <1>16, <1>17, <1>18, <1>19
    DEF Step

\* So do the operator and the world.
LEMMA WorldOpensOnce ==
    ASSUME PassesTell, OpenInv,
           \/ \E a \in DOMAIN alerts : Acknowledge(a) \/ Resolve(a)
           \/ \E r \in Rules : SwitchRule(r)
           \/ \E t \in Things : Flip(t)
           \/ \E t \in Vms : Heat(t)
           \/ Age \/ Restart
    PROVE  OpenInv'
  <1>1. ASSUME NEW a \in DOMAIN alerts, Acknowledge(a) \/ Resolve(a)
        PROVE  OpenInv'
    <2>1. CASE reopened'
      BY <2>1 DEF OpenInv, MonitorsQuiet, OneOpenAlert
    <2>2. CASE ~reopened'
      <3>1. NoneOpened
        <4>1. Typed
          BY DEF PassesTell
        <4> QED
          BY <1>1, <2>2, <4>1, StatusDoes DEF NoneOpened, Open, StatusSet
      <3>2. reopened => reopened'
        BY <1>1, StatusDoes
      <3> QED
        BY <1>1, <3>1, <3>2, StatusDoes, OpenQuiet
    <2> QED
      BY <2>1, <2>2
  <1>2. CASE (\E r \in Rules : SwitchRule(r)) \/ (\E t \in Vms : Heat(t))
    <2>1. NoneOpened
      BY <1>2, SwitchDoes DEF NoneOpened
    <2> QED
      BY <1>2, <2>1, SwitchDoes, OpenQuiet
  <1>3. ASSUME NEW t \in Things, Flip(t)
        PROVE  OpenInv'
    <2>1. /\ PassesTell' /\ UNCHANGED <<prev, pass, sent, overlapped, reopened>>
          /\ up' = [up EXCEPT ![t] = ~up[t]]
          /\ \/ /\ Kind[t] = "monitor" /\ up[t]
                /\ Len(alerts') = Len(alerts) + 1 /\ \A b \in 1 .. Len(alerts) : alerts'[b] = alerts[b]
                /\ alerts'[Len(alerts) + 1] = Row(<<"monitor", t>>, t)
             \/ /\ ~(Kind[t] = "monitor" /\ up[t]) /\ Len(alerts') = Len(alerts)
                /\ \A a \in 1 .. Len(alerts) :
                     IF alerts[a].source = <<"monitor", t>>
                     THEN alerts'[a] = [alerts[a] EXCEPT !.status = "resolved"] ELSE alerts'[a] = alerts[a]
      BY <1>3, FlipDoes
    <2>2. CASE /\ Kind[t] = "monitor" /\ up[t]
               /\ Len(alerts') = Len(alerts) + 1 /\ \A b \in 1 .. Len(alerts) : alerts'[b] = alerts[b]
               /\ alerts'[Len(alerts) + 1] = Row(<<"monitor", t>>, t)
      <3>1. PICK s : s = <<"monitor", t>>
        OBVIOUS
      <3>2. s \in Sources
        BY <3>1 DEF Sources
      <3>3. ~overlapped /\ ~reopened => OpenOf(s, t) = {}
        BY <2>2, <3>1 DEF OpenInv, MonitorsQuiet
      <3>4. up' = [up EXCEPT ![t] = FALSE]
        BY <2>1, <2>2
      <3>5. alerts'[Len(alerts) + 1] = Row(s, t)
        BY <2>2, <3>1
      <3> QED
        BY <2>1, <2>2, <3>1, <3>2, <3>3, <3>4, <3>5, OpenAdded
    <2>3. CASE /\ ~(Kind[t] = "monitor" /\ up[t]) /\ Len(alerts') = Len(alerts)
               /\ \A a \in 1 .. Len(alerts) :
                    IF alerts[a].source = <<"monitor", t>>
                    THEN alerts'[a] = [alerts[a] EXCEPT !.status = "resolved"] ELSE alerts'[a] = alerts[a]
      <3>1. Typed /\ Typed' /\ DOMAIN alerts = 1 .. Len(alerts) /\ DOMAIN alerts' = 1 .. Len(alerts)
            /\ \A a \in 1 .. Len(alerts) : alerts[a] \in RowType
        BY <2>1, <2>3 DEF PassesTell, Typed
      <3>2. \A a \in 1 .. Len(alerts) :
              /\ alerts'[a].source = alerts[a].source /\ alerts'[a].thing = alerts[a].thing
              /\ alerts'[a].status # "resolved" => alerts'[a] = alerts[a] /\ alerts[a].source # <<"monitor", t>>
        BY <2>3, <3>1 DEF RowType
      <3>3. NoneOpened
        BY <2>3, <3>2 DEF NoneOpened
      <3>4. MonitorsQuiet'
        <4> SUFFICES ASSUME ~reopened', NEW u \in Things, Kind[u] = "monitor", up'[u]
                     PROVE  {a \in DOMAIN alerts' : /\ alerts'[a].status # "resolved"
                                                    /\ alerts'[a].source = <<"monitor", u>>
                                                    /\ alerts'[a].thing = u} = {}
          BY DEF MonitorsQuiet, OpenOf, Open
        <4>1. CASE u = t
          BY <3>1, <3>2, <4>1
        <4>2. CASE u # t
          <5>1. up[u]
            BY <2>1, <3>1, <4>2 DEF Typed
          <5>2. {a \in DOMAIN alerts : /\ alerts[a].status # "resolved" /\ alerts[a].source = <<"monitor", u>>
                                       /\ alerts[a].thing = u} = {}
            BY <2>1, <5>1 DEF OpenInv, MonitorsQuiet, OpenOf, Open
          <5> QED
            BY <3>1, <3>2, <5>2
        <4> QED
          BY <4>1, <4>2
      <3> QED
        BY <2>1, <3>3, <3>4, OpenQuiet
    <2> QED
      BY <2>1, <2>2, <2>3
  <1>4. CASE Age
    <2>1. NoneOpened
      BY <1>4, AgeDoes DEF NoneOpened, AsBefore
    <2> QED
      BY <1>4, <2>1, AgeDoes, OpenQuiet
  <1>5. CASE Restart
    <2>1. NoneOpened
      BY <1>5, RestartDoes DEF NoneOpened
    <2>2. \A q \in Passes : StillAbsent(pass'[q])
      BY <1>5, RestartDoes DEF StillAbsent
    <2> QED
      BY <1>5, <2>1, <2>2, RestartDoes, OpenQuiet
  <1> QED
    BY <1>1, <1>2, <1>3, <1>4, <1>5

(***************************************************************************)
(* What a threshold rule raises is told.                                   *)
(***************************************************************************)
\* No alert of a threshold rule is raised or told, and who tells goes on, or failed.
LEMMA ToldQuiet ==
    ASSUME PassesTell, PassesTell', ToldInv, Untroubled' => Untroubled, Len(alerts) <= Len(alerts'),
           \A a \in 1 .. Len(alerts) : /\ alerts'[a].source = alerts[a].source
                                       /\ IsRule(a) => alerts'[a].told = alerts[a].told,
           \A a \in 1 .. Len(alerts') : a \in 1 .. Len(alerts) \/ alerts'[a].source[1] # "rule",
           \A q \in Passes : \/ pass'[q].pc \notin {"tell", "deliver"} \/ pass'[q] = pass[q]
                             \/ pass'[q].pc = "deliver" /\ alerts'[pass'[q].row].source[1] # "rule",
           \A q \in Passes : pass[q].pc = "tell" => pass'[q] = pass[q] \/ ~Untroubled'
    PROVE  ToldInv'
  <1>1. Typed /\ DOMAIN alerts = 1 .. Len(alerts) /\ DOMAIN alerts' = 1 .. Len(alerts') /\ Len(alerts) \in Nat
        /\ Len(alerts') \in Nat
    BY DEF PassesTell, Typed
  <1>2. ASSUME NEW q \in Passes, pass[q].pc \in {"tell", "deliver"}
        PROVE  pass[q].row \in 1 .. Len(alerts)
    BY <1>1, <1>2 DEF PassesTell, Placed
  <1>3. TellsOne'
    <2> SUFFICES ASSUME NEW p \in Passes
                 PROVE  /\ pass'[p].pc = "tell" =>
                             /\ alerts'[pass'[p].row].source \in {"rule"} \X Threshold
                             /\ alerts'[pass'[p].row].told = 0
                             /\ \A q \in Passes : pass'[q].pc = "tell" /\ pass'[q].row = pass'[p].row => p = q
                        /\ pass'[p].pc = "deliver" => ~(alerts'[pass'[p].row].source \in {"rule"} \X Threshold)
      BY DEF TellsOne, IsRule
    <2>1. CASE pass'[p].pc = "tell"
      <3>1. pass'[p] = pass[p] /\ pass[p].pc = "tell" /\ pass[p].row \in 1 .. Len(alerts)
        BY <1>2, <2>1
      <3>2. /\ IsRule(pass[p].row) /\ alerts[pass[p].row].told = 0
            /\ \A q \in Passes : pass[q].pc = "tell" /\ pass[q].row = pass[p].row => p = q
        BY <3>1 DEF ToldInv, TellsOne
      <3>3. \A q \in Passes : pass'[q].pc = "tell" => pass'[q] = pass[q]
        OBVIOUS
      <3> QED
        BY <2>1, <3>1, <3>2, <3>3 DEF IsRule
    <2>2. CASE pass'[p].pc = "deliver"
      <3>1. CASE pass'[p] = pass[p]
        <4>1. pass[p].row \in 1 .. Len(alerts) /\ ~IsRule(pass[p].row)
          BY <1>2, <2>2, <3>1 DEF ToldInv, TellsOne
        <4> QED
          BY <2>2, <3>1, <4>1 DEF IsRule
      <3>2. CASE alerts'[pass'[p].row].source[1] # "rule"
        BY <2>2, <3>2
      <3> QED
        BY <2>2, <3>1, <3>2
    <2> QED
      BY <2>1, <2>2
  <1>4. RaisedIsTold'
    <2> SUFFICES ASSUME Untroubled', NEW a \in 1 .. Len(alerts'), alerts'[a].source \in {"rule"} \X Threshold
                 PROVE  \/ alerts'[a].told = 1
                        \/ alerts'[a].told = 0 /\ \E p \in Passes : pass'[p].pc = "tell" /\ pass'[p].row = a
      BY <1>1 DEF RaisedIsTold
    <2>1. a \in 1 .. Len(alerts) /\ IsRule(a)
      <3>1. alerts'[a].source[1] = "rule"
        OBVIOUS
      <3> QED
        BY <3>1 DEF IsRule
    <2>2. \/ alerts[a].told = 1
          \/ alerts[a].told = 0 /\ \E p \in Passes : pass[p].pc = "tell" /\ pass[p].row = a
      BY <1>1, <2>1 DEF ToldInv, RaisedIsTold, IsRule
    <2> QED
      BY <2>1, <2>2
  <1> QED
    BY <1>3, <1>4 DEF ToldInv

\* What is created is told by who created it.
LEMMA CreateIsTold ==
    ASSUME PassesTell, ToldInv, NEW p \in Passes, Create(p)
    PROVE  ToldInv'
  <1>1. Typed /\ Typed' /\ DOMAIN alerts = 1 .. Len(alerts) /\ DOMAIN alerts' = 1 .. Len(alerts')
        /\ Len(alerts) \in Nat
    BY CreateDoes DEF PassesTell, Typed
  <1> DEFINE new == Len(alerts) + 1
  <1>2. /\ UNCHANGED budget /\ pass'[p].pc = "tell" /\ pass'[p].row = new
        /\ \A q \in Passes : q # p => pass'[q] = pass[q]
        /\ Len(alerts') = new /\ \A b \in 1 .. Len(alerts) : alerts'[b] = alerts[b]
        /\ pass[p].pc = "create"
    BY CreateDoes
  <1>3. alerts'[new].source \in {"rule"} \X Threshold /\ alerts'[new].told = 0
    <2>1. PICK r \in Threshold : alerts'[new] = Row(<<"rule", r>>, pass[p].thing)
      BY CreateDoes
    <2>2. <<"rule", r>> \in Sources /\ <<"rule", r>> \in {"rule"} \X Threshold /\ pass[p].thing \in Things
      BY CreateDoes DEF Sources
    <2>3. PICK s : s = <<"rule", r>>
      OBVIOUS
    <2> QED
      BY <2>1, <2>2, <2>3, NewRow
  <1>4. \A q \in Passes : pass[q].row \in 0 .. Len(alerts) /\ pass[q].row # new
    BY <1>1 DEF PassesTell, Placed
  <1>5. \A q \in Passes : pass[q].pc \in {"tell", "deliver"} => pass[q].row \in 1 .. Len(alerts)
    BY <1>1 DEF PassesTell, Placed
  <1>6. 1 .. Len(alerts') = 1 .. Len(alerts) \cup {new}
    BY <1>1, <1>2
  <1>9. new \notin 1 .. Len(alerts)
    BY <1>1
  <1> HIDE DEF new
  <1>7. TellsOne'
    <2> SUFFICES ASSUME NEW q \in Passes
                 PROVE  /\ pass'[q].pc = "tell" =>
                             /\ alerts'[pass'[q].row].source \in {"rule"} \X Threshold
                             /\ alerts'[pass'[q].row].told = 0
                             /\ \A o \in Passes : pass'[o].pc = "tell" /\ pass'[o].row = pass'[q].row => q = o
                        /\ pass'[q].pc = "deliver" => ~(alerts'[pass'[q].row].source \in {"rule"} \X Threshold)
      BY DEF TellsOne, IsRule
    <2>1. CASE q = p
      BY <1>2, <1>3, <1>4, <2>1
    <2>2. CASE q # p
      <3>1. pass'[q] = pass[q] /\ (pass[q].pc \in {"tell", "deliver"} => alerts'[pass[q].row] = alerts[pass[q].row])
        BY <1>2, <1>5, <2>2
      <3>2. /\ pass[q].pc = "tell" => /\ IsRule(pass[q].row) /\ alerts[pass[q].row].told = 0
                                      /\ \A o \in Passes : pass[o].pc = "tell" /\ pass[o].row = pass[q].row => q = o
            /\ pass[q].pc = "deliver" => ~IsRule(pass[q].row)
        BY DEF ToldInv, TellsOne
      <3> QED
        BY <1>2, <1>4, <2>2, <3>1, <3>2 DEF IsRule
    <2> QED
      BY <2>1, <2>2
  <1>8. RaisedIsTold'
    <2> SUFFICES ASSUME Untroubled', NEW a \in 1 .. Len(alerts'), alerts'[a].source \in {"rule"} \X Threshold
                 PROVE  \/ alerts'[a].told = 1
                        \/ alerts'[a].told = 0 /\ \E q \in Passes : pass'[q].pc = "tell" /\ pass'[q].row = a
      BY <1>1 DEF RaisedIsTold
    <2>1. CASE a = new
      BY <1>2, <1>3, <2>1
    <2>2. CASE a \in 1 .. Len(alerts)
      <3>1. \/ alerts[a].told = 1
            \/ alerts[a].told = 0 /\ \E q \in Passes : pass[q].pc = "tell" /\ pass[q].row = a
        BY <1>1, <1>2, <2>2 DEF ToldInv, RaisedIsTold, Untroubled
      <3> QED
        BY <1>2, <2>2, <3>1
    <2> QED
      BY <1>6, <2>1, <2>2
  <1> QED
    BY <1>7, <1>8 DEF ToldInv

\* Who tells has told.
LEMMA TellHasTold ==
    ASSUME PassesTell, ToldInv, NEW p \in Passes, Tell(p)
    PROVE  ToldInv'
  <1>1. Typed /\ Typed' /\ DOMAIN alerts = 1 .. Len(alerts) /\ DOMAIN alerts' = 1 .. Len(alerts')
        /\ Len(alerts) \in Nat
    BY TellDoes DEF PassesTell, Typed
  <1> DEFINE mine == pass[p].row
  <1>2. /\ UNCHANGED budget /\ pass'[p].pc = "check" /\ pass[p].pc = "tell"
        /\ \A q \in Passes : q # p => pass'[q] = pass[q]
        /\ mine \in 1 .. Len(alerts) /\ ToldMore(mine)
    BY TellDoes
  <1>3. /\ IsRule(mine) /\ alerts[mine].told = 0
        /\ \A q \in Passes : pass[q].pc = "tell" /\ pass[q].row = mine => p = q
    BY <1>2 DEF ToldInv, TellsOne
  <1> HIDE DEF mine
  <1>4. /\ Len(alerts') = Len(alerts) /\ alerts'[mine].told = 1
        /\ \A b \in 1 .. Len(alerts) : /\ alerts'[b].source = alerts[b].source
                                       /\ b # mine => alerts'[b].told = alerts[b].told
    BY <1>2, <1>3 DEF ToldMore, Twice
  <1>5. \A q \in Passes : pass[q].pc \in {"tell", "deliver"} => pass[q].row \in 1 .. Len(alerts)
    BY <1>1 DEF PassesTell, Placed
  <1>6. TellsOne'
    <2> SUFFICES ASSUME NEW q \in Passes
                 PROVE  /\ pass'[q].pc = "tell" =>
                             /\ alerts'[pass'[q].row].source \in {"rule"} \X Threshold
                             /\ alerts'[pass'[q].row].told = 0
                             /\ \A o \in Passes : pass'[o].pc = "tell" /\ pass'[o].row = pass'[q].row => q = o
                        /\ pass'[q].pc = "deliver" => ~(alerts'[pass'[q].row].source \in {"rule"} \X Threshold)
      BY DEF TellsOne, IsRule
    <2>1. CASE q = p
      BY <1>2, <2>1
    <2>2. CASE q # p
      <3>1. pass'[q] = pass[q]
        BY <1>2, <2>2
      <3>2. /\ pass[q].pc = "tell" => /\ IsRule(pass[q].row) /\ alerts[pass[q].row].told = 0
                                      /\ \A o \in Passes : pass[o].pc = "tell" /\ pass[o].row = pass[q].row => q = o
            /\ pass[q].pc = "deliver" => ~IsRule(pass[q].row)
        BY DEF ToldInv, TellsOne
      <3>3. \A o \in Passes : pass'[o].pc = "tell" => pass'[o] = pass[o]
        BY <1>2
      <3> QED
        BY <1>3, <1>4, <1>5, <2>2, <3>1, <3>2, <3>3 DEF IsRule
    <2> QED
      BY <2>1, <2>2
  <1>7. RaisedIsTold'
    <2> SUFFICES ASSUME Untroubled', NEW a \in 1 .. Len(alerts'), alerts'[a].source \in {"rule"} \X Threshold
                 PROVE  \/ alerts'[a].told = 1
                        \/ alerts'[a].told = 0 /\ \E q \in Passes : pass'[q].pc = "tell" /\ pass'[q].row = a
      BY <1>1 DEF RaisedIsTold
    <2>1. CASE a = mine
      BY <1>4, <2>1
    <2>2. CASE a # mine
      <3>1. \/ alerts[a].told = 1
            \/ alerts[a].told = 0 /\ \E q \in Passes : pass[q].pc = "tell" /\ pass[q].row = a
        BY <1>1, <1>2, <1>4, <2>2 DEF ToldInv, RaisedIsTold, Untroubled
      <3> QED
        BY <1>2, <1>4, <2>2, <3>1 DEF mine
    <2> QED
      BY <2>1, <2>2
  <1> QED
    BY <1>6, <1>7 DEF ToldInv

\* The steps of a pass tell what they raise.
LEMMA PassesTold ==
    ASSUME PassesTell, ToldInv, NEW p \in Passes, Begin(p) \/ Step(p) \/ StepFails(p) \/ PassFails(p)
    PROVE  ToldInv'
  <1>1. Typed /\ Len(alerts) \in Nat
    BY DEF PassesTell, Typed
  <1>2. ASSUME PassesTell', Untroubled' => Untroubled, Len(alerts') = Len(alerts),
               \A a \in 1 .. Len(alerts) : /\ alerts'[a].source = alerts[a].source
                                           /\ IsRule(a) => alerts'[a].told = alerts[a].told,
               \A q \in Passes : q # p => pass'[q] = pass[q],
               \/ pass'[p].pc \notin {"tell", "deliver"}
               \/ pass'[p].pc = "deliver" /\ alerts'[pass'[p].row].source[1] # "rule",
               pass[p].pc # "tell" \/ ~Untroubled'
        PROVE  ToldInv'
    <2>1. \A a \in 1 .. Len(alerts') : a \in 1 .. Len(alerts) \/ alerts'[a].source[1] # "rule"
      BY <1>2
    <2>2. Len(alerts) <= Len(alerts')
      BY <1>1, <1>2
    <2> QED
      BY <1>2, <2>1, <2>2, ToldQuiet
  <1>3. UNCHANGED budget => Untroubled' = Untroubled
    BY DEF Untroubled
  <1>4. CASE Begin(p)
    BY <1>2, <1>4, BeginDoes
  <1>5. CASE ReadTables(p)
    BY <1>2, <1>3, <1>5, ReadTablesDoes
  <1>6. CASE Scan(p)
    BY <1>2, <1>3, <1>6, ScanDoes
  <1>7. CASE FindEvent(p)
    <2>1. \/ pass'[p].pc \notin {"tell", "deliver"}
          \/ pass'[p].pc = "deliver" /\ alerts'[pass'[p].row].source[1] # "rule"
      BY <1>7, FindEventDoes
    <2> QED
      BY <1>2, <1>3, <1>7, <2>1, FindEventDoes
  <1>8. CASE RaiseEvent(p)
    <2>1. /\ PassesTell' /\ UNCHANGED budget /\ pass[p].pc = "raise" /\ pass'[p].pc = "deliver"
          /\ \A q \in Passes : q # p => pass'[q] = pass[q]
          /\ pass'[p].row = Len(alerts) + 1
          /\ Len(alerts') = Len(alerts) + 1 /\ \A b \in 1 .. Len(alerts) : alerts'[b] = alerts[b]
          /\ pass[p].thing \in Things
      BY <1>8, RaiseEventDoes
    <2>2. PICK r \in EventRules : alerts'[Len(alerts) + 1] = Row(<<"event", On[r]>>, pass[p].thing)
      BY <1>8, RaiseEventDoes
    <2>3. alerts'[Len(alerts) + 1].source[1] # "rule"
      <3>1. <<"event", On[r]>> \in Sources
        BY DEF Sources
      <3>2. PICK s : s = <<"event", On[r]>>
        OBVIOUS
      <3>3. alerts'[Len(alerts) + 1].source = s
        BY <2>1, <2>2, <3>1, <3>2, NewRow
      <3> QED
        BY <3>2, <3>3
    <2>4. \A a \in 1 .. Len(alerts') : a \in 1 .. Len(alerts) \/ alerts'[a].source[1] # "rule"
      <3>1. \A a \in 1 .. Len(alerts') : a \in 1 .. Len(alerts) \/ a = Len(alerts) + 1
        BY <1>1, <2>1
      <3> QED
        BY <2>3, <3>1
    <2>5. Len(alerts) <= Len(alerts')
      BY <1>1, <2>1
    <2>6. \A a \in 1 .. Len(alerts) : /\ alerts'[a].source = alerts[a].source
                                      /\ IsRule(a) => alerts'[a].told = alerts[a].told
      BY <2>1
    <2>7. \A q \in Passes : \/ pass'[q] = pass[q]
                            \/ pass'[q].pc = "deliver" /\ alerts'[pass'[q].row].source[1] # "rule"
      BY <2>1, <2>3
    <2>8. \A q \in Passes : pass[q].pc = "tell" => pass'[q] = pass[q]
      BY <2>1
    <2> QED
      BY <1>3, <2>1, <2>4, <2>5, <2>6, <2>7, <2>8, ToldQuiet
  <1>9. CASE DeliverEvent(p)
    <2>1. pass[p].pc = "deliver" /\ ToldMore(pass[p].row) /\ pass'[p].pc \in {"scan", "fire"}
      BY <1>9, DeliverEventDoes
    <2>2. ~IsRule(pass[p].row)
      BY <2>1 DEF ToldInv, TellsOne
    <2>3. Len(alerts') = Len(alerts)
          /\ \A a \in 1 .. Len(alerts) : /\ alerts'[a].source = alerts[a].source
                                         /\ IsRule(a) => alerts'[a].told = alerts[a].told
      BY <2>1, <2>2 DEF ToldMore
    <2> QED
      BY <1>2, <1>3, <1>9, <2>1, <2>3, DeliverEventDoes
  <1>10. CASE ReadResources(p)
    BY <1>2, <1>3, <1>10, ReadResourcesDoes
  <1>11. CASE Check(p)
    <2>1. Len(alerts') = Len(alerts)
          /\ \A a \in 1 .. Len(alerts) : /\ alerts'[a].source = alerts[a].source
                                         /\ IsRule(a) => alerts'[a].told = alerts[a].told
      BY <1>11, CheckDoes DEF StatusSet
    <2> QED
      BY <1>2, <1>3, <1>11, <2>1, CheckDoes
  <1>12. CASE Create(p)
    BY <1>12, CreateIsTold
  <1>13. CASE Tell(p)
    BY <1>13, TellHasTold
  <1>14. CASE Policies(p)
    BY <1>2, <1>14, PoliciesDoes DEF AsBefore
  <1>15. CASE ReadOpen(p)
    <2>1. pass'[p].pc \in {"idle", "climb"}
      BY <1>15, ReadOpenDoes DEF Taken
    <2> QED
      BY <1>2, <1>3, <1>15, <2>1, ReadOpenDoes
  <1>16. CASE RunStep(p)
    BY <1>2, <1>3, <1>16, RunStepDoes DEF AsBefore
  <1>17. CASE MarkFired(p)
    <2>1. pass'[p].pc \in {"idle", "climb"}
      BY <1>17, MarkFiredDoes DEF Taken
    <2> QED
      BY <1>2, <1>17, <2>1, MarkFiredDoes DEF AsBefore
  <1>18. CASE StepFails(p) \/ PassFails(p)
    BY <1>2, <1>18, FaultDoes
  <1> QED
    BY <1>4, <1>5, <1>6, <1>7, <1>8, <1>9, <1>10, <1>11, <1>12, <1>13, <1>14, <1>15, <1>16, <1>17, <1>18
    DEF Step

\* The operator and the world raise nothing for a rule, and take no telling away.
LEMMA WorldTells ==
    ASSUME PassesTell, ToldInv,
           \/ \E a \in DOMAIN alerts : Acknowledge(a) \/ Resolve(a)
           \/ \E r \in Rules : SwitchRule(r)
           \/ \E t \in Things : Flip(t)
           \/ \E t \in Vms : Heat(t)
           \/ Age \/ Restart
    PROVE  ToldInv'
  <1>1. Typed /\ Len(alerts) \in Nat /\ \A a \in 1 .. Len(alerts) : alerts[a] \in RowType
    BY DEF PassesTell, Typed
  <1>2. ASSUME PassesTell', Untroubled' => Untroubled, Len(alerts') = Len(alerts),
               \A a \in 1 .. Len(alerts) : /\ alerts'[a].source = alerts[a].source
                                           /\ alerts'[a].told = alerts[a].told,
               pass' = pass \/ (~Untroubled' /\ \A p \in Passes : pass'[p].pc = "idle")
        PROVE  ToldInv'
    <2>1. \A a \in 1 .. Len(alerts') : a \in 1 .. Len(alerts) \/ alerts'[a].source[1] # "rule"
      BY <1>2
    <2>2. Len(alerts) <= Len(alerts')
      BY <1>1, <1>2
    <2>3. \A q \in Passes : pass'[q].pc \notin {"tell", "deliver"} \/ pass'[q] = pass[q]
      BY <1>2
    <2>4. \A q \in Passes : pass[q].pc = "tell" => pass'[q] = pass[q] \/ ~Untroubled'
      BY <1>2
    <2> QED
      BY <1>2, <2>1, <2>2, <2>3, <2>4, ToldQuiet
  <1>3. ASSUME NEW a \in DOMAIN alerts, Acknowledge(a) \/ Resolve(a)
        PROVE  ToldInv'
    BY <1>2, <1>3, StatusDoes DEF StatusSet
  <1>4. CASE (\E r \in Rules : SwitchRule(r)) \/ (\E t \in Vms : Heat(t))
    BY <1>2, <1>4, SwitchDoes
  <1>5. ASSUME NEW t \in Things, Flip(t)
        PROVE  ToldInv'
    <2>1. PassesTell' /\ Untroubled' = Untroubled /\ pass' = pass
      BY <1>5, FlipDoes
    <2>2. CASE /\ Len(alerts') = Len(alerts) + 1 /\ \A b \in 1 .. Len(alerts) : alerts'[b] = alerts[b]
               /\ alerts'[Len(alerts) + 1] = Row(<<"monitor", t>>, t)
      <3>1. alerts'[Len(alerts) + 1].source[1] # "rule"
        <4>1. <<"monitor", t>> \in Sources
          BY DEF Sources
        <4>2. PICK s : s = <<"monitor", t>>
          OBVIOUS
        <4>3. alerts'[Len(alerts) + 1].source = s
          BY <2>2, <4>1, <4>2, NewRow
        <4> QED
          BY <4>2, <4>3
      <3>2. \A a \in 1 .. Len(alerts') : a \in 1 .. Len(alerts) \/ a = Len(alerts) + 1
        BY <1>1, <2>2
      <3>3. Len(alerts) <= Len(alerts')
        BY <1>1, <2>2
      <3> QED
        BY <2>1, <2>2, <3>1, <3>2, <3>3, ToldQuiet
    <2>3. CASE /\ Len(alerts') = Len(alerts)
               /\ \A a \in 1 .. Len(alerts) :
                    IF alerts[a].source = <<"monitor", t>>
                    THEN alerts'[a] = [alerts[a] EXCEPT !.status = "resolved"] ELSE alerts'[a] = alerts[a]
      <3>1. \A a \in 1 .. Len(alerts) : /\ alerts'[a].source = alerts[a].source
                                        /\ alerts'[a].told = alerts[a].told
        BY <1>1, <2>3 DEF RowType
      <3> QED
        BY <1>2, <2>1, <2>3, <3>1
    <2> QED
      BY <1>5, <2>2, <2>3, FlipDoes
  <1>6. CASE Age
    BY <1>2, <1>6, AgeDoes DEF AsBefore, Untroubled
  <1>7. CASE Restart
    BY <1>2, <1>7, RestartDoes
  <1> QED
    BY <1>3, <1>4, <1>5, <1>6, <1>7

(***************************************************************************)
(* One announcement for a transition.                                      *)
(***************************************************************************)
\* Halves of a number.
LEMMA Halves ==
    ASSUME NEW c \in Nat
    PROVE  /\ c \div 2 \in Nat /\ (c + 1) \div 2 \in Nat /\ ((c + 1) + 1) \div 2 = c \div 2 + 1
           /\ c % 2 = 0 => (c + 1) \div 2 = c \div 2
           /\ c % 2 # 0 => (c + 1) \div 2 = c \div 2 + 1
           /\ c \div 2 <= (c + 1) \div 2 /\ (c + 1) \div 2 <= c \div 2 + 1
           /\ (c + 1) % 2 = 0 <=> c % 2 # 0
  OBVIOUS

\* Before an event its thing has begun once more than it has left; after it, as often.
LEMMA Transits ==
    ASSUME PassesTell, \A t \in Things : up[t] <=> changes[t] % 2 = 0, NEW r \in EventRules, NEW t \in Things
    PROVE  /\ Left(r, t) \in Nat /\ Came(r, t) \in Nat /\ sent[<<r, t>>] \in Nat
           /\ Is(t) = Before(r) => Came(r, t) = Left(r, t) + 1
           /\ Is(t) # Before(r) => Came(r, t) = Left(r, t)
  <1>1. changes[t] \in Nat /\ sent[<<r, t>>] \in Nat
    BY DEF PassesTell, Typed
  <1>2. /\ Left(r, t) \in Nat /\ Came(r, t) \in Nat
    BY <1>1, Halves DEF Left, Came
  <1>3. changes[t] % 2 = 0 => (changes[t] + 1) \div 2 = changes[t] \div 2
    BY <1>1, Halves
  <1>4. changes[t] % 2 # 0 => (changes[t] + 1) \div 2 = changes[t] \div 2 + 1
    BY <1>1, Halves
  <1>5. changes[t] \div 2 \in Nat
    BY <1>1, Halves
  <1> QED
    BY <1>1, <1>2, <1>3, <1>4, <1>5 DEF Left, Came, Is, Before

\* What was counted for a rule and a thing stays right while the rule does not
\* fire, and nothing more is to be fired for the thing.
LEMMA CountedLater ==
    ASSUME PassesTell, NEW r \in EventRules, NEW t \in Things, Counted(r, t),
           sent'[<<r, t>>] = sent[<<r, t>>], prev'[t] = prev[t],
           changes'[t] = changes[t] \/ changes'[t] = changes[t] + 1,
           Announced(r, t) => Announced(r, t)',
           \A q \in Passes : Scans(pass'[q]) /\ t \in pass'[q].left =>
             Scans(pass[q]) /\ t \in pass[q].left /\ Seen(pass'[q], t) = Seen(pass[q], t)
    PROVE  Counted(r, t)'
  <1>1. changes[t] \in Nat /\ sent[<<r, t>>] \in Nat
    BY DEF PassesTell, Typed
  <1>2. /\ changes[t] \div 2 \in Nat /\ (changes[t] + 1) \div 2 \in Nat
        /\ ((changes[t] + 1) + 1) \div 2 = changes[t] \div 2 + 1
        /\ changes[t] \div 2 <= (changes[t] + 1) \div 2 /\ (changes[t] + 1) \div 2 <= changes[t] \div 2 + 1
    BY <1>1, Halves
  <1>3. /\ Left(r, t) \in Nat /\ Left(r, t)' \in Nat /\ Left(r, t) <= Left(r, t)'
        /\ Came(r, t) \in Nat /\ Came(r, t)' \in Nat /\ Came(r, t) <= Came(r, t)'
    BY <1>1, <1>2 DEF Left, Came
  <1>4. sent'[<<r, t>>] <= Left(r, t)'
    BY <1>1, <1>3 DEF Counted
  <1>5. prev'[t] = Before(r) /\ ~Announced(r, t)' => sent'[<<r, t>>] < Came(r, t)'
    BY <1>1, <1>3 DEF Counted
  <1>6. ASSUME NEW q \in Passes, Scans(pass'[q]), t \in pass'[q].left
        PROVE  /\ Seen(pass'[q], t) = Before(r) => sent'[<<r, t>>] < Came(r, t)'
               /\ Seen(pass'[q], t) # Before(r) /\ prev'[t] = Before(r) /\ ~Announced(r, t)' =>
                    sent'[<<r, t>>] < Left(r, t)'
    <2>1. Scans(pass[q]) /\ t \in pass[q].left /\ Seen(pass'[q], t) = Seen(pass[q], t)
      BY <1>6
    <2>2. /\ Seen(pass[q], t) = Before(r) => sent[<<r, t>>] < Came(r, t)
          /\ Seen(pass[q], t) # Before(r) /\ prev[t] = Before(r) /\ ~Announced(r, t) => sent[<<r, t>>] < Left(r, t)
      BY <2>1 DEF Counted
    <2> QED
      BY <1>1, <1>3, <2>1, <2>2
  <1> QED
    BY <1>4, <1>5, <1>6 DEF Counted, Scans, Delivers, Seen, Before

\* A pass neither begins to look at things nor fires a rule.
LEMMA EventQuiet ==
    ASSUME PassesTell, PassesTell', EventInv, Untroubled' => Untroubled, overlapped => overlapped',
           UNCHANGED <<up, changes, prev, sent>>,
           \A q \in Passes :
             \/ pass'[q] = pass[q]
             \/ ~Delivers(pass[q]) /\ ~Scans(pass'[q])
             \/ /\ Delivers(pass[q]) /\ Delivers(pass'[q]) /\ pass'[q].thing = pass[q].thing
                /\ pass'[q].fire = pass[q].fire /\ pass'[q].left = pass[q].left /\ pass'[q].up = pass[q].up
    PROVE  EventInv'
  <1>1. ASSUME Untroubled', ~overlapped', NEW r \in EventRules, NEW t \in Things
        PROVE  Counted(r, t)'
    <2>1. Counted(r, t)
      BY <1>1 DEF EventInv
    <2>2. Announced(r, t) => Announced(r, t)'
      BY DEF Announced, Delivers, Scans
    <2>3. \A q \in Passes : Scans(pass'[q]) /\ t \in pass'[q].left =>
             Scans(pass[q]) /\ t \in pass[q].left /\ Seen(pass'[q], t) = Seen(pass[q], t)
      BY DEF Delivers, Scans, Seen
    <2> QED
      BY <2>1, <2>2, <2>3, CountedLater
  <1>2. ASSUME Untroubled', ~overlapped', NEW q \in Passes
        PROVE  Fires(pass[q])'
    <2>1. Fires(pass[q])
      BY <1>2 DEF EventInv
    <2> QED
      BY <2>1 DEF Fires, Delivers, Scans, Seen, Before
  <1> QED
    BY <1>1, <1>2 DEF EventInv

\* The pass that reads the tables counts from what is.
LEMMA ReadTablesCounts ==
    ASSUME PassesTell, EventInv, NEW p \in Passes, ReadTables(p)
    PROVE  EventInv'
  <1>1. /\ PassesTell' /\ UNCHANGED <<up, changes, overlapped, sent, budget>>
        /\ pass[p].pc = "events" /\ \A q \in Passes : q # p => pass'[q] = pass[q]
        /\ \/ pass'[p].pc = "rules" /\ \A t \in Things : prev'[t] = Is(t)
           \/ /\ pass'[p].pc = "scan" /\ prev' = prev
              /\ pass'[p].left = Things /\ pass'[p].up = {t \in Things : up[t]}
    BY ReadTablesDoes
  <1>2. \A t \in Things : up'[t] <=> changes'[t] % 2 = 0
    BY <1>1 DEF EventInv
  <1>3. ASSUME Untroubled', ~overlapped'
        PROVE  /\ \A q \in Passes : Fires(pass[q])'
               /\ \A r \in EventRules, t \in Things : Counted(r, t)'
    <2>1. /\ \A q \in Passes : ~Delivers(pass[q]) /\ ~Delivers(pass'[q])
          /\ \A q \in Passes : q # p => ~Scans(pass'[q])
      BY <1>1, <1>3 DEF PassesTell, OnePass, Delivers, Scans
    <2>2. \A q \in Passes : Fires(pass[q])'
      BY <2>1 DEF Fires, Delivers
    <2>3. ASSUME NEW r \in EventRules, NEW t \in Things
          PROVE  Counted(r, t)'
      <3>1. Counted(r, t) /\ Untroubled
        BY <1>1, <1>3 DEF EventInv, Untroubled
      <3>2. /\ Left(r, t) \in Nat /\ Came(r, t) \in Nat /\ sent[<<r, t>>] \in Nat
            /\ Is(t) = Before(r) => Came(r, t) = Left(r, t) + 1
            /\ Is(t) # Before(r) => Came(r, t) = Left(r, t)
            /\ sent[<<r, t>>] <= Left(r, t)
        BY <3>1, Transits DEF EventInv, Counted
      <3>3. Left(r, t)' = Left(r, t) /\ Came(r, t)' = Came(r, t) /\ sent' = sent
        BY <1>1 DEF Left, Came
      <3>4. ~Announced(r, t) /\ ~Announced(r, t)'
        BY <2>1 DEF Announced, Delivers
      <3>5. CASE pass'[p].pc = "rules" /\ prev'[t] = Is(t)
        <4>1. prev'[t] = Before(r) => sent'[<<r, t>>] < Came(r, t)'
          BY <3>2, <3>3, <3>5
        <4>2. \A q \in Passes : ~Scans(pass'[q])
          BY <2>1, <3>5 DEF Scans
        <4> QED
          BY <3>2, <3>3, <4>1, <4>2 DEF Counted, Scans, Delivers, Before
      <3>6. CASE pass'[p].pc = "scan" /\ prev' = prev /\ Seen(pass'[p], t) = Is(t)
        <4>1. prev[t] = Before(r) => sent[<<r, t>>] < Came(r, t)
          BY <3>1, <3>4 DEF Counted
        <4>2. /\ Seen(pass'[p], t) = Before(r) => sent'[<<r, t>>] < Came(r, t)'
              /\ Seen(pass'[p], t) # Before(r) /\ prev'[t] = Before(r) => sent'[<<r, t>>] < Left(r, t)'
          BY <3>2, <3>3, <3>6, <4>1
        <4> QED
          BY <2>1, <3>2, <3>3, <3>6, <4>1, <4>2 DEF Counted, Scans, Delivers, Seen, Before
      <3>7. pass'[p].pc = "scan" => Seen(pass'[p], t) = Is(t)
        BY <1>1 DEF Seen, Is
      <3> QED
        BY <1>1, <3>5, <3>6, <3>7
    <2> QED
      BY <2>2, <2>3
  <1> QED
    BY <1>2, <1>3 DEF EventInv

\* A thing that is passed by is as it was before, or no rule is about its transition.
LEMMA FiringIs ==
    ASSUME NEW me, NEW t, NEW r \in Firing(me, t)
    PROVE  prev[t] = Before(r) /\ Seen(me, t) # Before(r) /\ r \in EventRules
  BY DEF Firing, Transitions, Before

LEMMA ScanCounts ==
    ASSUME PassesTell, EventInv, NEW p \in Passes, Scan(p)
    PROVE  EventInv'
  <1>1. /\ PassesTell' /\ UNCHANGED <<up, changes, overlapped, sent, budget>>
        /\ pass[p].pc = "scan" /\ \A q \in Passes : q # p => pass'[q] = pass[q]
        /\ pass'[p].up = pass[p].up
    BY ScanDoes
  <1>2. PICK u \in pass[p].left :
                \/ /\ Firing(pass[p], u) = {} /\ prev' = [prev EXCEPT ![u] = Seen(pass[p], u)]
                   /\ pass'[p].pc = "scan" /\ pass'[p].left = pass[p].left \ {u}
                \/ /\ Firing(pass[p], u) # {} /\ prev' = prev /\ pass'[p].pc = "fire"
                   /\ pass'[p].left = pass[p].left
                   /\ pass'[p].thing = u /\ pass'[p].fire = Firing(pass[p], u)
    BY ScanDoes
  <1>3. Typed /\ u \in Things /\ pass[p] \in PassRow
    BY DEF PassesTell, Typed, PassRow
  <1>4. \A t \in Things : up'[t] <=> changes'[t] % 2 = 0
    BY <1>1 DEF EventInv
  <1>5. ASSUME Untroubled', ~overlapped'
        PROVE  /\ \A q \in Passes : Fires(pass[q])'
               /\ \A r \in EventRules, t \in Things : Counted(r, t)'
    <2>1. /\ \A q \in Passes : ~Delivers(pass[q])
          /\ \A q \in Passes : q # p => ~Scans(pass'[q]) /\ ~Delivers(pass'[q])
      BY <1>1, <1>5 DEF PassesTell, OnePass, Delivers, Scans
    <2>2. \A r \in EventRules, t \in Things : Counted(r, t)
      BY <1>1, <1>5 DEF EventInv, Untroubled
    <2>3. Scans(pass[p])
      BY <1>1 DEF Scans
    <2>4. \A t : Seen(pass'[p], t) = Seen(pass[p], t)
      BY <1>1 DEF Seen
    <2>5. CASE /\ prev' = [prev EXCEPT ![u] = Seen(pass[p], u)]
               /\ pass'[p].pc = "scan" /\ pass'[p].left = pass[p].left \ {u}
      <3>1. \A q \in Passes : ~Delivers(pass'[q])
        BY <2>1, <2>5 DEF Delivers
      <3>2. \A q \in Passes : Fires(pass[q])'
        BY <3>1 DEF Fires, Delivers
      <3>3. ASSUME NEW r \in EventRules, NEW t \in Things
            PROVE  Counted(r, t)'
        <4>1. CASE t = u
          <5>1. /\ sent[<<r, t>>] <= Left(r, t)
                /\ Seen(pass[p], t) = Before(r) => sent[<<r, t>>] < Came(r, t)
            BY <2>2, <2>3, <4>1 DEF Counted
          <5>2. prev'[t] = Seen(pass[p], t)
            BY <1>3, <2>5, <4>1 DEF Typed
          <5>3. Left(r, t)' = Left(r, t) /\ Came(r, t)' = Came(r, t) /\ sent' = sent
            BY <1>1 DEF Left, Came
          <5>4. \A q \in Passes : ~(Scans(pass'[q]) /\ t \in pass'[q].left)
            BY <2>1, <2>5, <4>1
          <5> QED
            BY <5>1, <5>2, <5>3, <5>4 DEF Counted, Scans, Delivers, Before
        <4>2. CASE t # u
          <5>1. prev'[t] = prev[t]
            BY <1>3, <2>5, <4>2 DEF Typed
          <5>2. Announced(r, t) => Announced(r, t)'
            BY <2>1 DEF Announced
          <5>3. \A q \in Passes : Scans(pass'[q]) /\ t \in pass'[q].left =>
                  Scans(pass[q]) /\ t \in pass[q].left /\ Seen(pass'[q], t) = Seen(pass[q], t)
            BY <2>1, <2>3, <2>4, <2>5
          <5> QED
            BY <1>1, <2>2, <5>1, <5>2, <5>3, CountedLater
        <4> QED
          BY <4>1, <4>2
      <3> QED
        BY <3>2, <3>3
    <2>6. CASE /\ prev' = prev /\ pass'[p].pc = "fire" /\ pass'[p].left = pass[p].left
               /\ pass'[p].thing = u /\ pass'[p].fire = Firing(pass[p], u)
      <3>1. ASSUME NEW q \in Passes PROVE Fires(pass[q])'
        <4>1. CASE q = p
          <5>1. \A r \in pass'[p].fire : prev'[u] = Before(r) /\ Seen(pass'[p], u) # Before(r)
            BY <2>4, <2>6, FiringIs
          <5> QED
            BY <2>6, <4>1, <5>1 DEF Fires, Before, Seen
        <4>2. CASE q # p
          BY <2>1, <4>2 DEF Fires, Delivers
        <4> QED
          BY <4>1, <4>2
      <3>2. ASSUME NEW r \in EventRules, NEW t \in Things
            PROVE  Counted(r, t)'
        <4>1. Announced(r, t) => Announced(r, t)'
          BY <2>1 DEF Announced
        <4>2. \A q \in Passes : Scans(pass'[q]) /\ t \in pass'[q].left =>
                Scans(pass[q]) /\ t \in pass[q].left /\ Seen(pass'[q], t) = Seen(pass[q], t)
          BY <2>1, <2>3, <2>4, <2>6
        <4> QED
          BY <1>1, <2>2, <2>6, <4>1, <4>2, CountedLater
      <3> QED
        BY <3>1, <3>2
    <2> QED
      BY <1>2, <2>5, <2>6
  <1> QED
    BY <1>4, <1>5 DEF EventInv

\* A rule that is delivered was due.
LEMMA DeliverCounts ==
    ASSUME PassesTell, EventInv, NEW p \in Passes, DeliverEvent(p)
    PROVE  EventInv'
  <1>1. /\ PassesTell' /\ UNCHANGED <<up, changes, overlapped, budget>>
        /\ pass[p].pc = "deliver" /\ \A q \in Passes : q # p => pass'[q] = pass[q]
        /\ pass'[p].up = pass[p].up
    BY DeliverEventDoes
  <1>2. PICK r \in pass[p].fire :
                /\ r \in EventRules /\ pass[p].thing \in Things
                /\ sent' = [sent EXCEPT ![<<r, pass[p].thing>>] = sent[<<r, pass[p].thing>>] + 1]
                /\ \/ /\ pass[p].fire = {r} /\ pass'[p].pc = "scan"
                      /\ prev' = [prev EXCEPT ![pass[p].thing] = Seen(pass[p], pass[p].thing)]
                      /\ pass'[p].left = pass[p].left \ {pass[p].thing}
                   \/ /\ prev' = prev /\ pass'[p].pc = "fire" /\ pass'[p].left = pass[p].left
                      /\ pass'[p].thing = pass[p].thing /\ pass'[p].fire = pass[p].fire \ {r}
    BY DeliverEventDoes
  <1>3. PICK u : u = pass[p].thing
    OBVIOUS
  <1>4. Typed /\ u \in Things /\ u \in pass[p].left /\ r \in EventRules
    BY <1>1, <1>2, <1>3 DEF PassesTell, Placed
  <1>5. \A t \in Things : up'[t] <=> changes'[t] % 2 = 0
    BY <1>1 DEF EventInv
  <1>6. /\ sent'[<<r, u>>] = sent[<<r, u>>] + 1 /\ sent[<<r, u>>] \in Nat
        /\ \A s \in EventRules, t \in Things : s # r \/ t # u => sent'[<<s, t>>] = sent[<<s, t>>]
    BY <1>2, <1>3, <1>4 DEF Typed
  <1>7. ASSUME Untroubled', ~overlapped'
        PROVE  /\ \A q \in Passes : Fires(pass[q])'
               /\ \A s \in EventRules, t \in Things : Counted(s, t)'
    <2>1. \A q \in Passes : q # p => ~Scans(pass'[q]) /\ ~Delivers(pass'[q]) /\ ~Scans(pass[q]) /\ ~Delivers(pass[q])
      BY <1>1, <1>7 DEF PassesTell, OnePass, Delivers, Scans
    <2>2. /\ \A s \in EventRules, t \in Things : Counted(s, t)
          /\ Fires(pass[p])
      BY <1>1, <1>7 DEF EventInv, Untroubled
    <2>3. Scans(pass[p]) /\ Delivers(pass[p])
      BY <1>1 DEF Scans, Delivers
    <2>4. \A t : Seen(pass'[p], t) = Seen(pass[p], t)
      BY <1>1 DEF Seen
    <2>5. \A s \in pass[p].fire : prev[u] = Before(s) /\ Seen(pass[p], u) # Before(s)
      BY <1>3, <2>2, <2>3 DEF Fires
    <2>6. \A s, t : Announced(s, t) <=> t = u /\ s \notin pass[p].fire
      BY <1>3, <2>1, <2>3 DEF Announced
    <2>7. sent[<<r, u>>] < Left(r, u)
      BY <1>2, <1>4, <2>2, <2>3, <2>5, <2>6 DEF Counted
    <2>8. \A s, t : Left(s, t)' = Left(s, t) /\ Came(s, t)' = Came(s, t)
      BY <1>1 DEF Left, Came
    <2>9. Left(r, u) \in Nat /\ sent'[<<r, u>>] <= Left(r, u)'
      BY <1>4, <1>6, <2>7, <2>8, Transits DEF EventInv
    <2>10. CASE /\ pass[p].fire = {r} /\ pass'[p].pc = "scan"
                /\ prev' = [prev EXCEPT ![u] = Seen(pass[p], u)]
                /\ pass'[p].left = pass[p].left \ {u}
      <3>1. \A q \in Passes : ~Delivers(pass'[q])
        BY <2>1, <2>10 DEF Delivers
      <3>2. \A q \in Passes : Fires(pass[q])'
        BY <3>1 DEF Fires, Delivers
      <3>3. ASSUME NEW s \in EventRules, NEW t \in Things
            PROVE  Counted(s, t)'
        <4>1. CASE t = u
          <5>1. prev'[t] = Seen(pass[p], t)
            BY <1>4, <2>10, <4>1 DEF Typed
          <5>2. \A q \in Passes : ~(Scans(pass'[q]) /\ t \in pass'[q].left)
            BY <2>1, <2>10, <4>1
          <5>3. CASE s = r
            BY <1>2, <2>5, <2>9, <4>1, <5>1, <5>2, <5>3 DEF Counted, Scans, Delivers, Before
          <5>4. CASE s # r
            <6>1. /\ sent[<<s, t>>] <= Left(s, t)
                  /\ Seen(pass[p], t) = Before(s) => sent[<<s, t>>] < Came(s, t)
              BY <1>4, <2>2, <2>3, <4>1 DEF Counted
            <6>2. sent'[<<s, t>>] = sent[<<s, t>>]
              BY <1>6, <5>4
            <6> QED
              BY <2>8, <5>1, <5>2, <6>1, <6>2 DEF Counted, Scans, Delivers, Before
          <5> QED
            BY <5>3, <5>4
        <4>2. CASE t # u
          <5>1. prev'[t] = prev[t] /\ sent'[<<s, t>>] = sent[<<s, t>>]
            BY <1>4, <1>6, <2>10, <4>2 DEF Typed
          <5>2. Announced(s, t) => Announced(s, t)'
            BY <2>6, <4>2
          <5>3. \A q \in Passes : Scans(pass'[q]) /\ t \in pass'[q].left =>
                  Scans(pass[q]) /\ t \in pass[q].left /\ Seen(pass'[q], t) = Seen(pass[q], t)
            BY <2>1, <2>3, <2>4, <2>10
          <5> QED
            BY <1>1, <2>2, <5>1, <5>2, <5>3, CountedLater
        <4> QED
          BY <4>1, <4>2
      <3> QED
        BY <3>2, <3>3
    <2>11. CASE /\ prev' = prev /\ pass'[p].pc = "fire" /\ pass'[p].left = pass[p].left
                /\ pass'[p].thing = u /\ pass'[p].fire = pass[p].fire \ {r}
      <3>1. ASSUME NEW q \in Passes PROVE Fires(pass[q])'
        <4>1. CASE q = p
          <5>1. \A s \in pass'[p].fire : prev'[u] = Before(s) /\ Seen(pass'[p], u) # Before(s)
            BY <2>4, <2>5, <2>11
          <5> QED
            BY <2>11, <4>1, <5>1 DEF Fires, Before, Seen
        <4>2. CASE q # p
          BY <2>1, <4>2 DEF Fires, Delivers
        <4> QED
          BY <4>1, <4>2
      <3>2. Delivers(pass'[p])
        BY <2>11 DEF Delivers
      <3>3. ASSUME NEW s \in EventRules, NEW t \in Things
            PROVE  Counted(s, t)'
        <4>1. \A q \in Passes : Scans(pass'[q]) /\ t \in pass'[q].left =>
                q = p /\ Scans(pass[q]) /\ t \in pass[q].left /\ Seen(pass'[q], t) = Seen(pass[q], t)
          BY <2>1, <2>3, <2>4, <2>11
        <4>2. CASE s = r /\ t = u
          <5>1. Announced(s, t)'
            BY <2>11, <3>2, <4>2 DEF Announced, Delivers
          <5>2. Seen(pass'[p], t) # Before(s)
            BY <1>2, <2>4, <2>5, <4>2
          <5> QED
            BY <2>9, <4>1, <4>2, <5>1, <5>2 DEF Counted, Scans, Delivers, Before, Seen
        <4>3. CASE s # r \/ t # u
          <5>1. sent'[<<s, t>>] = sent[<<s, t>>]
            BY <1>6, <4>3
          <5>2. Announced(s, t) => Announced(s, t)'
            BY <2>6, <2>11, <3>2, <4>3 DEF Announced, Delivers
          <5> QED
            BY <1>1, <2>2, <2>11, <4>1, <5>1, <5>2, CountedLater
        <4> QED
          BY <4>2, <4>3
      <3> QED
        BY <3>1, <3>3
    <2> QED
      BY <1>2, <1>3, <2>10, <2>11
  <1> QED
    BY <1>5, <1>7 DEF EventInv

\* The steps of a pass announce a transition once.
LEMMA PassesAnnounce ==
    ASSUME PassesTell, EventInv, NEW p \in Passes, Begin(p) \/ Step(p) \/ StepFails(p) \/ PassFails(p)
    PROVE  EventInv'
  <1>1. ASSUME PassesTell', Untroubled' => Untroubled, overlapped => overlapped',
               UNCHANGED <<up, changes, prev, sent>>, \A q \in Passes : q # p => pass'[q] = pass[q],
               ~Delivers(pass[p]), ~Scans(pass'[p])
        PROVE  EventInv'
    BY <1>1, EventQuiet
  <1>2. UNCHANGED budget => Untroubled' = Untroubled
    BY DEF Untroubled
  <1>3. /\ pass[p].pc \notin {"fire", "raise", "deliver"} => ~Delivers(pass[p])
        /\ pass'[p].pc \notin {"scan", "fire", "raise", "deliver"} => ~Scans(pass'[p])
    BY DEF Delivers, Scans
  <1>4. CASE Begin(p)
    BY <1>1, <1>3, <1>4, BeginDoes
  <1>5. CASE ReadTables(p)
    BY <1>5, ReadTablesCounts
  <1>6. CASE Scan(p)
    BY <1>6, ScanCounts
  <1>7. CASE FindEvent(p)
    <2>1. /\ PassesTell' /\ UNCHANGED <<up, prev, changes, overlapped, sent, budget>>
          /\ pass[p].pc = "fire" /\ \A q \in Passes : q # p => pass'[q] = pass[q]
          /\ pass'[p].up = pass[p].up /\ pass'[p].left = pass[p].left
          /\ pass'[p].thing = pass[p].thing /\ pass'[p].fire = pass[p].fire
          /\ pass'[p].pc \in {"raise", "deliver"}
      BY <1>7, FindEventDoes
    <2>2. Delivers(pass[p]) /\ Delivers(pass'[p])
      BY <2>1 DEF Delivers
    <2> QED
      BY <1>2, <2>1, <2>2, EventQuiet
  <1>8. CASE RaiseEvent(p)
    <2>1. /\ PassesTell' /\ UNCHANGED <<up, prev, changes, overlapped, sent, budget>>
          /\ pass[p].pc = "raise" /\ \A q \in Passes : q # p => pass'[q] = pass[q]
          /\ pass'[p].up = pass[p].up /\ pass'[p].left = pass[p].left
          /\ pass'[p].thing = pass[p].thing /\ pass'[p].fire = pass[p].fire
          /\ pass'[p].pc = "deliver"
      BY <1>8, RaiseEventDoes
    <2>2. Delivers(pass[p]) /\ Delivers(pass'[p])
      BY <2>1 DEF Delivers
    <2> QED
      BY <1>2, <2>1, <2>2, EventQuiet
  <1>9. CASE DeliverEvent(p)
    BY <1>9, DeliverCounts
  <1>10. CASE ReadResources(p)
    BY <1>1, <1>2, <1>3, <1>10, ReadResourcesDoes
  <1>11. CASE Check(p)
    BY <1>1, <1>2, <1>3, <1>11, CheckDoes
  <1>12. CASE Create(p)
    BY <1>1, <1>2, <1>3, <1>12, CreateDoes
  <1>13. CASE Tell(p)
    BY <1>1, <1>2, <1>3, <1>13, TellDoes
  <1>14. CASE Policies(p)
    BY <1>1, <1>3, <1>14, PoliciesDoes
  <1>15. CASE ReadOpen(p)
    <2>1. pass'[p].pc \in {"idle", "climb"}
      BY <1>15, ReadOpenDoes DEF Taken
    <2> QED
      BY <1>1, <1>2, <1>3, <1>15, <2>1, ReadOpenDoes
  <1>16. CASE RunStep(p)
    BY <1>1, <1>2, <1>3, <1>16, RunStepDoes
  <1>17. CASE MarkFired(p)
    <2>1. pass'[p].pc \in {"idle", "climb"}
      BY <1>17, MarkFiredDoes DEF Taken
    <2> QED
      BY <1>1, <1>3, <1>17, <2>1, MarkFiredDoes
  <1>18. CASE StepFails(p) \/ PassFails(p)
    <2>1. ~Untroubled' /\ UNCHANGED <<up, changes>>
      BY <1>18, FaultDoes
    <2> QED
      BY <2>1 DEF EventInv
  <1> QED
    BY <1>4, <1>5, <1>6, <1>7, <1>8, <1>9, <1>10, <1>11, <1>12, <1>13, <1>14, <1>15, <1>16, <1>17, <1>18
    DEF Step

\* Nobody else announces anything.
LEMMA WorldAnnounces ==
    ASSUME PassesTell, EventInv,
           \/ \E a \in DOMAIN alerts : Acknowledge(a) \/ Resolve(a)
           \/ \E r \in Rules : SwitchRule(r)
           \/ \E t \in Things : Flip(t)
           \/ \E t \in Vms : Heat(t)
           \/ Age \/ Restart
    PROVE  EventInv'
  <1>1. ASSUME PassesTell', Untroubled' => Untroubled, UNCHANGED <<up, changes, prev, sent, pass, overlapped>>
        PROVE  EventInv'
    BY <1>1, EventQuiet
  <1>2. ASSUME NEW a \in DOMAIN alerts, Acknowledge(a) \/ Resolve(a)
        PROVE  EventInv'
    BY <1>1, <1>2, StatusDoes
  <1>3. CASE (\E r \in Rules : SwitchRule(r)) \/ (\E t \in Vms : Heat(t))
    BY <1>1, <1>3, SwitchDoes
  <1>4. ASSUME NEW u \in Things, Flip(u)
        PROVE  EventInv'
    <2>1. /\ UNCHANGED <<prev, pass, sent, overlapped>>
          /\ up' = [up EXCEPT ![u] = ~up[u]] /\ changes' = [changes EXCEPT ![u] = changes[u] + 1]
          /\ Untroubled' = Untroubled
      BY <1>4, FlipDoes
    <2>2. ASSUME NEW t \in Things
          PROVE  /\ changes'[t] = changes[t] \/ changes'[t] = changes[t] + 1
                 /\ up'[t] <=> changes'[t] % 2 = 0
      <3>1. up \in [Things -> BOOLEAN] /\ changes \in [Things -> Nat] /\ (up[t] <=> changes[t] % 2 = 0)
        BY DEF PassesTell, Typed, EventInv
      <3>2. changes[t] \in Nat
        BY <3>1
      <3>3. (changes[t] + 1) % 2 = 0 <=> changes[t] % 2 # 0
        BY <3>2, Halves
      <3>4. CASE t = u
        <4>1. changes'[t] = changes[t] + 1
          BY <2>1, <3>1, <3>4
        <4>2. up'[t] <=> ~up[t]
          BY <2>1, <3>1, <3>4
        <4> QED
          BY <3>1, <3>3, <4>1, <4>2
      <3>5. CASE t # u
        <4>1. changes'[t] = changes[t]
          BY <2>1, <3>1, <3>5
        <4>2. up'[t] <=> up[t]
          BY <2>1, <3>1, <3>5
        <4> QED
          BY <3>1, <4>1, <4>2
      <3> QED
        BY <3>4, <3>5
    <2>3. ASSUME Untroubled', ~overlapped', NEW r \in EventRules, NEW t \in Things
          PROVE  Counted(r, t)'
      <3>1. Counted(r, t)
        BY <2>1, <2>3 DEF EventInv
      <3>2. Announced(r, t) => Announced(r, t)'
        BY <2>1 DEF Announced, Delivers
      <3> QED
        BY <2>1, <2>2, <3>1, <3>2, CountedLater
    <2>4. ASSUME Untroubled', ~overlapped', NEW q \in Passes
          PROVE  Fires(pass[q])'
      <3>1. Fires(pass[q])
        BY <2>1, <2>4 DEF EventInv
      <3> QED
        BY <2>1, <3>1 DEF Fires, Delivers, Seen, Before
    <2> QED
      BY <2>2, <2>3, <2>4 DEF EventInv
  <1>5. CASE Age
    BY <1>1, <1>5, AgeDoes DEF Untroubled
  <1>6. CASE Restart
    <2>1. ~Untroubled' /\ UNCHANGED <<up, changes>>
      BY <1>6, RestartDoes
    <2> QED
      BY <2>1 DEF EventInv
  <1> QED
    BY <1>2, <1>3, <1>4, <1>5, <1>6

\* What is announced is announced once.
LEMMA AnnouncedOnce ==
    ASSUME PassesTell, EventInv
    PROVE  EventOncePerTransition
  BY DEF EventOncePerTransition, EventInv, Counted, Left

(***************************************************************************)
(* A tier runs once.                                                       *)
(***************************************************************************)
\* What a row and a pass say of the tiers of an alert, in the next state.
LEMMA RanByThen ==
    ASSUME NEW p, NEW t, NEW me, me = pass'[p]
    PROVE  RanBy(p, t)' <=> \/ t \in me.fired /\ me.changed
                            \/ t \in me.due /\ me.step > 1 /\ t = Lowest(me.due)
  BY DEF RanBy

\* No tier runs or is marked, and who climbs goes on.
LEMMA TierQuiet ==
    ASSUME PassesTell, PassesTell', TierInv, Untroubled' => Untroubled, overlapped => overlapped',
           Len(alerts) <= Len(alerts'),
           \A a \in 1 .. Len(alerts) : alerts'[a].fired = alerts[a].fired /\ alerts'[a].ran = alerts[a].ran,
           \A a \in 1 .. Len(alerts') : a \in 1 .. Len(alerts) \/ \A t \in Tiers : alerts'[a].ran[t] = 0,
           \A q \in Passes : pass'[q] = pass[q] \/ (pass[q].pc # "climb" /\ pass'[q].pc # "climb")
    PROVE  TierInv'
  <1> SUFFICES ASSUME Untroubled', ~overlapped'
               PROVE  RunsTell' /\ \A p \in Passes : ClimbTells(pass[p])'
    BY DEF TierInv
  <1>1. Typed /\ DOMAIN alerts = 1 .. Len(alerts) /\ DOMAIN alerts' = 1 .. Len(alerts')
    BY DEF PassesTell, Typed
  <1>2. RunsTell /\ \A p \in Passes : ClimbTells(pass[p])
    BY DEF TierInv
  <1>3. RunsTell'
    <2> SUFFICES ASSUME NEW a \in 1 .. Len(alerts'), NEW t \in Tiers
                 PROVE  /\ alerts'[a].ran[t] <= 1
                        /\ alerts'[a].ran[t] = 1 =>
                             t \in alerts'[a].fired \/ \E p \in Passes : Climbs(p, a)' /\ RanBy(p, t)'
      BY <1>1 DEF RunsTell
    <2>1. CASE a \in 1 .. Len(alerts)
      <3>1. /\ alerts[a].ran[t] <= 1
            /\ alerts[a].ran[t] = 1 => t \in alerts[a].fired \/ \E p \in Passes : Climbs(p, a) /\ RanBy(p, t)
        BY <1>1, <1>2, <2>1 DEF RunsTell
      <3>2. ASSUME NEW p \in Passes, Climbs(p, a), RanBy(p, t)
            PROVE  Climbs(p, a)' /\ RanBy(p, t)'
        BY <3>2, RanByThen DEF Climbs, RanBy
      <3> QED
        BY <2>1, <3>1, <3>2
    <2>2. CASE \A u \in Tiers : alerts'[a].ran[u] = 0
      BY <2>2
    <2> QED
      BY <2>1, <2>2
  <1>4. ASSUME NEW p \in Passes
        PROVE  ClimbTells(pass[p])'
    <2>1. CASE pass'[p] = pass[p] /\ pass[p].pc = "climb"
      <3>1. pass[p].row \in 1 .. Len(alerts) /\ \A i \in pass[p].queue : i[1] \in 1 .. Len(alerts)
        BY <1>1, <2>1 DEF PassesTell, Placed
      <3>2. ClimbTells(pass[p])
        BY <1>2
      <3> QED
        BY <2>1, <3>1, <3>2 DEF ClimbTells
    <2>2. CASE pass'[p].pc # "climb"
      BY <2>2 DEF ClimbTells
    <2> QED
      BY <2>1, <2>2
  <1> QED
    BY <1>3, <1>4

\* The alerts that are taken have the tiers they were read with.
LEMMA ReadOpenClimbs ==
    ASSUME PassesTell, TierInv, NEW p \in Passes, ReadOpen(p)
    PROVE  TierInv'
  <1>1. /\ PassesTell' /\ UNCHANGED <<overlapped, alerts, budget>>
        /\ pass[p].pc = "tiers" /\ \A q \in Passes : q # p => pass'[q] = pass[q]
    BY ReadOpenDoes
  <1> SUFFICES ASSUME Untroubled', ~overlapped'
               PROVE  RunsTell' /\ \A q \in Passes : ClimbTells(pass[q])'
    BY DEF TierInv
  <1>2. RunsTell /\ \A q \in Passes : ClimbTells(pass[q])
    BY <1>1 DEF TierInv, Untroubled
  <1>3. \A q \in Passes : pass[q].pc # "climb" /\ (q # p => pass'[q].pc # "climb")
    BY <1>1 DEF PassesTell, OnePass
  <1>4. RunsTell'
    BY <1>1, <1>2, <1>3 DEF RunsTell, Climbs
  <1>5. ClimbTells(pass[p])'
    <2>1. CASE pass'[p].pc = "idle"
      BY <2>1 DEF ClimbTells
    <2>2. ASSUME NEW queue \in Queues, NEW i \in queue, Taken(p, i, queue),
                 \A j \in queue : /\ j[1] \in 1 .. Len(alerts) /\ j[3] = alerts[j[1]].fired
                                  /\ j[2] \cap j[3] = {},
                 \A j, k \in queue : j[1] = k[1] => j = k
          PROVE  ClimbTells(pass[p])'
      <3>1. /\ pass'[p].row = i[1] /\ pass'[p].due = i[2] /\ pass'[p].fired = i[3]
            /\ pass'[p].queue = queue \ {i} /\ pass'[p].step = 1
        BY <2>2 DEF Taken
      <3>2. alerts' = alerts
        BY <1>1
      <3> QED
        BY <2>2, <3>1, <3>2 DEF ClimbTells
    <2> QED
      BY <2>1, <2>2, ReadOpenDoes
  <1> QED
    BY <1>3, <1>4, <1>5 DEF ClimbTells

\* The tier that runs has not run, and is not forgotten.
LEMMA RunStepClimbs ==
    ASSUME PassesTell, TierInv, NEW p \in Passes, RunStep(p)
    PROVE  TierInv'
  <1>1. /\ PassesTell' /\ UNCHANGED <<overlapped, budget>>
        /\ pass[p].pc = "climb" /\ \A q \in Passes : q # p => pass'[q] = pass[q]
        /\ pass'[p].pc = "climb" /\ pass'[p].row = pass[p].row /\ pass'[p].queue = pass[p].queue
        /\ pass[p].row \in 1 .. Len(alerts) /\ Len(alerts') = Len(alerts)
        /\ pass[p].step \in Nat /\ pass[p].step # 0
        /\ \A b \in 1 .. Len(alerts) : /\ alerts'[b].fired = alerts[b].fired
                                       /\ b # pass[p].row => alerts'[b].ran = alerts[b].ran
    BY RunStepDoes DEF AsBefore
  <1>2. PICK tier \in pass[p].due :
                /\ tier = Lowest(pass[p].due)
                /\ alerts'[pass[p].row].ran =
                     IF pass[p].step = 1
                     THEN [alerts[pass[p].row].ran EXCEPT ![tier] = Twice(alerts[pass[p].row].ran[tier])]
                     ELSE alerts[pass[p].row].ran
                /\ \/ /\ pass'[p].step = pass[p].step + 1 /\ pass'[p].due = pass[p].due
                      /\ pass'[p].fired = pass[p].fired /\ pass'[p].changed = pass[p].changed
                   \/ /\ pass'[p].step = 1 /\ pass'[p].due = pass[p].due \ {tier}
                      /\ pass'[p].fired = pass[p].fired \cup {tier} /\ pass'[p].changed
    BY RunStepDoes
  <1> SUFFICES ASSUME Untroubled', ~overlapped'
               PROVE  RunsTell' /\ \A q \in Passes : ClimbTells(pass[q])'
    BY DEF TierInv
  <1>3. RunsTell /\ \A q \in Passes : ClimbTells(pass[q])
    BY <1>1 DEF TierInv, Untroubled
  <1>4. \A q \in Passes : q # p => pass[q].pc # "climb" /\ pass'[q].pc # "climb"
    BY <1>1 DEF PassesTell, OnePass
  <1>5. Typed /\ DOMAIN alerts = 1 .. Len(alerts) /\ DOMAIN alerts' = 1 .. Len(alerts)
        /\ \A a \in 1 .. Len(alerts) : alerts[a].ran \in [Tiers -> 0 .. 2]
    <2>1. Typed /\ DOMAIN alerts = 1 .. Len(alerts) /\ DOMAIN alerts' = 1 .. Len(alerts)
      BY <1>1 DEF PassesTell, Typed
    <2> QED
      BY <2>1, RowColumns
  <1>6. PICK mine : mine = pass[p].row
    OBVIOUS
  <1>7. /\ alerts[mine].fired \subseteq pass[p].fired /\ pass[p].due \cap pass[p].fired = {}
        /\ pass[p].changed \/ pass[p].fired = alerts[mine].fired
        /\ \A i \in pass[p].queue : /\ i[3] = alerts[i[1]].fired /\ i[2] \cap i[3] = {} /\ i[1] # mine
                                    /\ \A j \in pass[p].queue : i[1] = j[1] => i = j
    BY <1>1, <1>3, <1>6 DEF ClimbTells
  <1>8. \A i \in pass[p].queue : i[1] \in 1 .. Len(alerts)
    BY <1>1 DEF PassesTell, Placed
  <1>9. tier \in Tiers
    BY <1>5 DEF Typed, PassRow
  <1>10. \A q \in Passes : \A a : Climbs(q, a) => q = p /\ a = mine
    BY <1>4, <1>6 DEF Climbs
  <1>11. ASSUME NEW t \in Tiers, RanBy(p, t) \/ t = tier
         PROVE  RanBy(p, t)'
    <2>1. PICK me : me = pass'[p]
      OBVIOUS
    <2>2. CASE /\ me.step = pass[p].step + 1 /\ me.due = pass[p].due
               /\ me.fired = pass[p].fired /\ me.changed = pass[p].changed
      <3>1. me.step > 1
        BY <1>1, <2>2
      <3>2. \/ t \in me.fired /\ me.changed
            \/ t \in me.due /\ me.step > 1 /\ t = Lowest(me.due)
        BY <1>2, <1>11, <2>2, <3>1 DEF RanBy
      <3> QED
        BY <2>1, <3>2, RanByThen
    <2>3. CASE /\ me.fired = pass[p].fired \cup {tier} /\ me.changed
      <3>1. t \in me.fired /\ me.changed
        BY <1>2, <1>11, <2>3 DEF RanBy
      <3> QED
        BY <2>1, <3>1, RanByThen
    <2> QED
      BY <1>2, <2>1, <2>2, <2>3
  <1>12. Climbs(p, mine)'
    BY <1>1, <1>6 DEF Climbs
  <1>13. RunsTell'
    <2> SUFFICES ASSUME NEW a \in 1 .. Len(alerts), NEW t \in Tiers
                 PROVE  /\ alerts'[a].ran[t] <= 1
                        /\ alerts'[a].ran[t] = 1 =>
                             t \in alerts'[a].fired \/ \E q \in Passes : Climbs(q, a)' /\ RanBy(q, t)'
      BY <1>5 DEF RunsTell
    <2>1. /\ alerts[a].ran[t] <= 1 /\ alerts[a].ran[t] \in 0 .. 2
          /\ alerts[a].ran[t] = 1 => t \in alerts[a].fired \/ \E q \in Passes : Climbs(q, a) /\ RanBy(q, t)
      BY <1>3, <1>5 DEF RunsTell
    <2>2. CASE a = mine /\ t = tier
      <3>1. t \notin alerts[a].fired
        BY <1>2, <1>7, <2>2
      <3>2. pass[p].step = 1 => alerts[a].ran[t] = 0
        <4>1. pass[p].step = 1 => ~RanBy(p, t)
          BY <1>2, <1>7, <2>2 DEF RanBy
        <4> QED
          BY <1>10, <2>1, <3>1, <4>1
      <3>3. alerts'[a].ran[t] <= 1
        <4>1. CASE pass[p].step = 1
          <5>1. alerts'[a].ran = [alerts[a].ran EXCEPT ![tier] = Twice(alerts[a].ran[tier])]
            BY <1>2, <1>6, <2>2, <4>1
          <5>2. alerts'[a].ran[t] = Twice(alerts[a].ran[t])
            BY <1>5, <1>9, <2>2, <5>1
          <5> QED
            BY <3>2, <4>1, <5>2 DEF Twice
        <4>2. CASE pass[p].step # 1
          BY <1>2, <1>6, <2>1, <2>2, <4>2
        <4> QED
          BY <4>1, <4>2
      <3> QED
        BY <1>11, <1>12, <2>2, <3>3
    <2>3. CASE ~(a = mine /\ t = tier)
      <3>1. alerts'[a].ran[t] = alerts[a].ran[t]
        <4>1. CASE a # mine
          BY <1>1, <1>6, <4>1
        <4>2. CASE a = mine /\ t # tier
          BY <1>2, <1>5, <1>6, <1>9, <4>2
        <4> QED
          BY <2>3, <4>1, <4>2
      <3>2. ASSUME NEW q \in Passes, Climbs(q, a), RanBy(q, t)
            PROVE  Climbs(p, a)' /\ RanBy(p, t)'
        BY <1>10, <1>11, <1>12, <3>2
      <3> QED
        BY <1>1, <2>1, <3>1, <3>2
    <2> QED
      BY <2>2, <2>3
  <1>14. ClimbTells(pass[p])'
    <2>1. /\ alerts'[mine].fired \subseteq pass'[p].fired /\ pass'[p].due \cap pass'[p].fired = {}
          /\ pass'[p].changed \/ pass'[p].fired = alerts'[mine].fired
          /\ pass'[p].due = {} => pass'[p].step = 1
      BY <1>1, <1>2, <1>6, <1>7
    <2> QED
      BY <1>1, <1>6, <1>7, <1>8, <2>1 DEF ClimbTells
  <1> QED
    BY <1>4, <1>13, <1>14 DEF ClimbTells

\* What ran is marked, and the next alert is taken with the tiers it was read with.
LEMMA MarkFiredClimbs ==
    ASSUME PassesTell, TierInv, NEW p \in Passes, MarkFired(p)
    PROVE  TierInv'
  <1>1. /\ PassesTell' /\ UNCHANGED overlapped
        /\ pass[p].pc = "climb" /\ pass[p].due = {} /\ \A q \in Passes : q # p => pass'[q] = pass[q]
        /\ pass'[p].pc = "idle" \/ \E i \in pass[p].queue : Taken(p, i, pass[p].queue)
        /\ (Untroubled' => Untroubled) /\ Len(alerts') = Len(alerts) /\ pass[p].row \in 1 .. Len(alerts)
        /\ \A b \in 1 .. Len(alerts) : /\ alerts'[b].ran = alerts[b].ran
                                       /\ b # pass[p].row => alerts'[b].fired = alerts[b].fired
        /\ \/ ~Untroubled'
           \/ ~pass[p].changed /\ alerts'[pass[p].row].fired = alerts[pass[p].row].fired
           \/ pass[p].changed /\ alerts'[pass[p].row].fired = pass[p].fired
    BY MarkFiredDoes DEF AsBefore
  <1> SUFFICES ASSUME Untroubled', ~overlapped'
               PROVE  RunsTell' /\ \A q \in Passes : ClimbTells(pass[q])'
    BY DEF TierInv
  <1>2. RunsTell /\ \A q \in Passes : ClimbTells(pass[q])
    BY <1>1 DEF TierInv
  <1>3. \A q \in Passes : q # p => pass[q].pc # "climb" /\ pass'[q].pc # "climb"
    BY <1>1 DEF PassesTell, OnePass
  <1>4. DOMAIN alerts = 1 .. Len(alerts) /\ DOMAIN alerts' = 1 .. Len(alerts)
    BY <1>1 DEF PassesTell, Typed
  <1>5. PICK mine : mine = pass[p].row
    OBVIOUS
  <1>6. /\ alerts[mine].fired \subseteq pass[p].fired
        /\ pass[p].changed \/ pass[p].fired = alerts[mine].fired
        /\ \A i \in pass[p].queue : /\ i[3] = alerts[i[1]].fired /\ i[2] \cap i[3] = {} /\ i[1] # mine
                                    /\ \A j \in pass[p].queue : i[1] = j[1] => i = j
    BY <1>1, <1>2, <1>5 DEF ClimbTells
  <1>7. alerts'[mine].fired = pass[p].fired
    BY <1>1, <1>5, <1>6
  <1>8. \A i \in pass[p].queue : i[1] \in 1 .. Len(alerts) /\ i[3] = alerts'[i[1]].fired
    BY <1>1, <1>5, <1>6 DEF PassesTell, Placed
  <1>9. RunsTell'
    <2> SUFFICES ASSUME NEW a \in 1 .. Len(alerts), NEW t \in Tiers
                 PROVE  /\ alerts'[a].ran[t] <= 1
                        /\ alerts'[a].ran[t] = 1 => t \in alerts'[a].fired
      BY <1>4 DEF RunsTell
    <2>1. /\ alerts[a].ran[t] <= 1
          /\ alerts[a].ran[t] = 1 => t \in alerts[a].fired \/ \E q \in Passes : Climbs(q, a) /\ RanBy(q, t)
      BY <1>2, <1>4 DEF RunsTell
    <2>2. ASSUME NEW q \in Passes, Climbs(q, a), RanBy(q, t)
          PROVE  a = mine /\ t \in pass[p].fired
      <3>1. q = p
        BY <1>3, <2>2 DEF Climbs
      <3> QED
        BY <1>1, <1>5, <2>2, <3>1 DEF Climbs, RanBy
    <2> QED
      BY <1>1, <1>5, <1>6, <1>7, <2>1, <2>2
  <1>10. ClimbTells(pass[p])'
    <2>1. CASE pass'[p].pc = "idle"
      BY <2>1 DEF ClimbTells
    <2>2. ASSUME NEW i \in pass[p].queue, Taken(p, i, pass[p].queue)
          PROVE  ClimbTells(pass[p])'
      <3>1. /\ pass'[p].row = i[1] /\ pass'[p].due = i[2] /\ pass'[p].fired = i[3]
            /\ pass'[p].queue = pass[p].queue \ {i} /\ pass'[p].step = 1
        BY <2>2 DEF Taken
      <3> QED
        BY <1>6, <1>8, <3>1 DEF ClimbTells
    <2> QED
      BY <1>1, <2>1, <2>2
  <1> QED
    BY <1>3, <1>9, <1>10 DEF ClimbTells

\* The steps of a pass run a tier once.
LEMMA PassesClimb ==
    ASSUME PassesTell, TierInv, NEW p \in Passes, Begin(p) \/ Step(p) \/ StepFails(p) \/ PassFails(p)
    PROVE  TierInv'
  <1>1. Typed /\ Len(alerts) \in Nat
    BY DEF PassesTell, Typed
  <1>2. ASSUME PassesTell', Untroubled' => Untroubled, overlapped => overlapped', Len(alerts') = Len(alerts),
               \A a \in 1 .. Len(alerts) : alerts'[a].fired = alerts[a].fired /\ alerts'[a].ran = alerts[a].ran,
               \A q \in Passes : q # p => pass'[q] = pass[q], pass[p].pc # "climb", pass'[p].pc # "climb"
        PROVE  TierInv'
    <2>1. Len(alerts) <= Len(alerts')
      BY <1>1, <1>2
    <2>2. \A a \in 1 .. Len(alerts') : a \in 1 .. Len(alerts) \/ \A t \in Tiers : alerts'[a].ran[t] = 0
      BY <1>2
    <2>3. \A q \in Passes : pass'[q] = pass[q] \/ (pass[q].pc # "climb" /\ pass'[q].pc # "climb")
      BY <1>2
    <2> QED
      BY <1>2, <2>1, <2>2, <2>3, TierQuiet
  <1>3. ASSUME PassesTell', UNCHANGED <<budget, overlapped>>, Len(alerts') = Len(alerts) + 1,
               \A b \in 1 .. Len(alerts) : alerts'[b] = alerts[b],
               NEW s \in Sources, NEW t \in Things, alerts'[Len(alerts) + 1] = Row(s, t),
               \A q \in Passes : q # p => pass'[q] = pass[q], pass[p].pc # "climb", pass'[p].pc # "climb"
        PROVE  TierInv'
    <2>1. Len(alerts) <= Len(alerts')
      BY <1>1, <1>3
    <2>2. \A a \in 1 .. Len(alerts') : a \in 1 .. Len(alerts) \/ a = Len(alerts) + 1
      BY <1>1, <1>3
    <2>3. \A u \in Tiers : alerts'[Len(alerts) + 1].ran[u] = 0
      BY <1>3, NewRow
    <2>4. \A q \in Passes : pass'[q] = pass[q] \/ (pass[q].pc # "climb" /\ pass'[q].pc # "climb")
      BY <1>3
    <2>5. \A a \in 1 .. Len(alerts') : a \in 1 .. Len(alerts) \/ \A u \in Tiers : alerts'[a].ran[u] = 0
      BY <2>2, <2>3
    <2>6. \A a \in 1 .. Len(alerts) : alerts'[a].fired = alerts[a].fired /\ alerts'[a].ran = alerts[a].ran
      BY <1>3
    <2>7. Untroubled' = Untroubled
      BY <1>3 DEF Untroubled
    <2> QED
      BY <1>3, <2>1, <2>4, <2>5, <2>6, <2>7, TierQuiet
  <1>4. UNCHANGED budget => Untroubled' = Untroubled
    BY DEF Untroubled
  <1>5. CASE Begin(p)
    BY <1>2, <1>5, BeginDoes
  <1>6. CASE ReadTables(p)
    BY <1>2, <1>4, <1>6, ReadTablesDoes
  <1>7. CASE Scan(p)
    BY <1>2, <1>4, <1>7, ScanDoes
  <1>8. CASE FindEvent(p)
    <2>1. pass'[p].pc \in {"raise", "deliver"}
      BY <1>8, FindEventDoes
    <2> QED
      BY <1>2, <1>4, <1>8, <2>1, FindEventDoes
  <1>9. CASE RaiseEvent(p)
    <2>1. /\ PassesTell' /\ UNCHANGED <<budget, overlapped>> /\ pass[p].pc = "raise" /\ pass'[p].pc = "deliver"
          /\ \A q \in Passes : q # p => pass'[q] = pass[q]
          /\ Len(alerts') = Len(alerts) + 1 /\ \A b \in 1 .. Len(alerts) : alerts'[b] = alerts[b]
          /\ pass[p].thing \in Things
      BY <1>9, RaiseEventDoes
    <2>2. PICK r \in EventRules : alerts'[Len(alerts) + 1] = Row(<<"event", On[r]>>, pass[p].thing)
      BY <1>9, RaiseEventDoes
    <2>3. <<"event", On[r]>> \in Sources
      BY DEF Sources
    <2> QED
      BY <1>3, <2>1, <2>2, <2>3
  <1>10. CASE DeliverEvent(p)
    <2>1. pass'[p].pc \in {"scan", "fire"}
      BY <1>10, DeliverEventDoes
    <2> QED
      BY <1>2, <1>4, <1>10, <2>1, DeliverEventDoes DEF ToldMore
  <1>11. CASE ReadResources(p)
    BY <1>2, <1>4, <1>11, ReadResourcesDoes
  <1>12. CASE Check(p)
    <2>1. Len(alerts') = Len(alerts)
          /\ \A a \in 1 .. Len(alerts) : alerts'[a].fired = alerts[a].fired /\ alerts'[a].ran = alerts[a].ran
      BY <1>12, CheckDoes DEF StatusSet
    <2>2. pass'[p].pc \in {"create", "check"}
      BY <1>12, CheckDoes
    <2> QED
      BY <1>2, <1>4, <1>12, <2>1, <2>2, CheckDoes
  <1>13. CASE Create(p)
    <2>1. /\ PassesTell' /\ UNCHANGED <<budget, overlapped>> /\ pass[p].pc = "create" /\ pass'[p].pc = "tell"
          /\ \A q \in Passes : q # p => pass'[q] = pass[q]
          /\ Len(alerts') = Len(alerts) + 1 /\ \A b \in 1 .. Len(alerts) : alerts'[b] = alerts[b]
          /\ pass[p].thing \in Things
      BY <1>13, CreateDoes
    <2>2. PICK r \in Threshold : alerts'[Len(alerts) + 1] = Row(<<"rule", r>>, pass[p].thing)
      BY <1>13, CreateDoes
    <2>3. <<"rule", r>> \in Sources
      BY DEF Sources
    <2> QED
      BY <1>3, <2>1, <2>2, <2>3
  <1>14. CASE Tell(p)
    BY <1>2, <1>4, <1>14, TellDoes DEF ToldMore
  <1>15. CASE Policies(p)
    BY <1>2, <1>15, PoliciesDoes DEF AsBefore
  <1>16. CASE ReadOpen(p)
    BY <1>16, ReadOpenClimbs
  <1>17. CASE RunStep(p)
    BY <1>17, RunStepClimbs
  <1>18. CASE MarkFired(p)
    BY <1>18, MarkFiredClimbs
  <1>19. CASE StepFails(p) \/ PassFails(p)
    BY <1>19, FaultDoes DEF TierInv
  <1> QED
    BY <1>5, <1>6, <1>7, <1>8, <1>9, <1>10, <1>11, <1>12, <1>13, <1>14, <1>15, <1>16, <1>17, <1>18, <1>19
    DEF Step

\* Nobody else runs or marks a tier.
LEMMA WorldClimbs ==
    ASSUME PassesTell, TierInv,
           \/ \E a \in DOMAIN alerts : Acknowledge(a) \/ Resolve(a)
           \/ \E r \in Rules : SwitchRule(r)
           \/ \E t \in Things : Flip(t)
           \/ \E t \in Vms : Heat(t)
           \/ Age \/ Restart
    PROVE  TierInv'
  <1>1. Typed /\ Len(alerts) \in Nat /\ \A a \in 1 .. Len(alerts) : alerts[a] \in RowType
    BY DEF PassesTell, Typed
  <1>2. ASSUME PassesTell', Untroubled' => Untroubled, UNCHANGED <<pass, overlapped>>, Len(alerts') = Len(alerts),
               \A a \in 1 .. Len(alerts) : alerts'[a].fired = alerts[a].fired /\ alerts'[a].ran = alerts[a].ran
        PROVE  TierInv'
    <2>1. Len(alerts) <= Len(alerts')
      BY <1>1, <1>2
    <2>2. \A a \in 1 .. Len(alerts') : a \in 1 .. Len(alerts) \/ \A t \in Tiers : alerts'[a].ran[t] = 0
      BY <1>2
    <2> QED
      BY <1>2, <2>1, <2>2, TierQuiet
  <1>3. ASSUME NEW a \in DOMAIN alerts, Acknowledge(a) \/ Resolve(a)
        PROVE  TierInv'
    BY <1>2, <1>3, StatusDoes DEF StatusSet
  <1>4. CASE (\E r \in Rules : SwitchRule(r)) \/ (\E t \in Vms : Heat(t))
    BY <1>2, <1>4, SwitchDoes
  <1>5. ASSUME NEW t \in Things, Flip(t)
        PROVE  TierInv'
    <2>1. PassesTell' /\ Untroubled' = Untroubled /\ UNCHANGED <<pass, overlapped>>
      BY <1>5, FlipDoes
    <2>2. CASE /\ Len(alerts') = Len(alerts) + 1 /\ \A b \in 1 .. Len(alerts) : alerts'[b] = alerts[b]
               /\ alerts'[Len(alerts) + 1] = Row(<<"monitor", t>>, t)
      <3>1. \A u \in Tiers : alerts'[Len(alerts) + 1].ran[u] = 0
        <4>1. <<"monitor", t>> \in Sources
          BY DEF Sources
        <4> QED
          BY <2>2, <4>1, NewRow
      <3>2. \A a \in 1 .. Len(alerts') : a \in 1 .. Len(alerts) \/ a = Len(alerts) + 1
        BY <1>1, <2>2
      <3>3. Len(alerts) <= Len(alerts')
        BY <1>1, <2>2
      <3> QED
        BY <2>1, <2>2, <3>1, <3>2, <3>3, TierQuiet
    <2>3. CASE /\ Len(alerts') = Len(alerts)
               /\ \A a \in 1 .. Len(alerts) :
                    IF alerts[a].source = <<"monitor", t>>
                    THEN alerts'[a] = [alerts[a] EXCEPT !.status = "resolved"] ELSE alerts'[a] = alerts[a]
      <3>1. \A a \in 1 .. Len(alerts) : alerts'[a].fired = alerts[a].fired /\ alerts'[a].ran = alerts[a].ran
        BY <1>1, <2>3 DEF RowType
      <3> QED
        BY <1>2, <2>1, <2>3, <3>1
    <2> QED
      BY <1>5, <2>2, <2>3, FlipDoes
  <1>6. CASE Age
    BY <1>2, <1>6, AgeDoes DEF AsBefore, Untroubled
  <1>7. CASE Restart
    BY <1>7, RestartDoes DEF TierInv
  <1> QED
    BY <1>3, <1>4, <1>5, <1>6, <1>7

(***************************************************************************)
(* The theorem.                                                            *)
(***************************************************************************)
\* At first nothing is known, raised or under way.
LEMMA AlertingStarts ==
    ASSUME Init
    PROVE  AlertingInv
  <1>1. /\ pass = [p \in Passes |-> Idle] /\ alerts = << >> /\ Len(alerts) = 0 /\ DOMAIN alerts = {}
    BY DEF Init
  <1>2. Typed
    <2>1. alerts \in Seq(RowType) /\ Len(alerts) <= MaxAlerts
      BY <1>1, AlertBounds
    <2>2. pass \in [Passes -> PassRow]
      BY <1>1, IdleIs
    <2>3. budget \in [change : Nat, click : Nat, fault : 0 .. MaxFaults]
      <3>1. budget = [change |-> MaxChanges, click |-> MaxClicks, fault |-> MaxFaults]
        BY DEF Init
      <3>2. MaxChanges \in Nat /\ MaxClicks \in Nat /\ MaxFaults \in 0 .. MaxFaults
        BY AlertBounds
      <3> QED
        BY <3>1, <3>2
    <2> QED
      BY <2>1, <2>2, <2>3 DEF Typed, Init
  <1>3. \A p \in Passes : pass[p] = Idle
    BY <1>1
  <1>4. PassesTell
    BY <1>1, <1>2, <1>3, IdleIs DEF PassesTell, Placed, OnePass
  <1>5. OpenInv
    BY <1>1, <1>3, IdleIs DEF OpenInv, MonitorsQuiet, OneOpenAlert, StillAbsent, OpenOf
  <1>6. ToldInv
    BY <1>1, <1>3, IdleIs DEF ToldInv, TellsOne, RaisedIsTold
  <1>7. EventInv
    <2>1. \A t \in Things : up[t] /\ changes[t] = 0 /\ prev[t] = "none"
      BY DEF Init
    <2>2. \A r \in EventRules, t \in Things : sent[<<r, t>>] = 0 /\ Left(r, t) \in Nat
      <3> TAKE r \in EventRules, t \in Things
      <3>1. sent[<<r, t>>] = 0
        BY DEF Init
      <3>2. changes[t] \in Nat
        BY <2>1
      <3> QED
        BY <3>1, <3>2, Halves DEF Left
    <2>3. \A p \in Passes : ~Scans(pass[p]) /\ ~Delivers(pass[p])
      BY <1>3, IdleIs DEF Scans, Delivers
    <2>4. \A r \in EventRules, t \in Things : Counted(r, t)
      <3> TAKE r \in EventRules, t \in Things
      <3>1. sent[<<r, t>>] <= Left(r, t)
        BY <2>2
      <3>2. prev[t] # Before(r)
        BY <2>1 DEF Before
      <3> QED
        BY <2>3, <3>1, <3>2 DEF Counted
    <2> QED
      BY <2>1, <2>3, <2>4 DEF EventInv, Fires
  <1>8. TierInv
    BY <1>1, <1>3, IdleIs DEF TierInv, RunsTell, ClimbTells
  <1> QED
    BY <1>4, <1>5, <1>6, <1>7, <1>8 DEF AlertingInv

\* Every step of a pass, of the operator and of the world keeps the invariant.
LEMMA AlertingSteps ==
    ASSUME AlertingInv, Next
    PROVE  AlertingInv'
  <1>1. PassesTell /\ OpenInv /\ ToldInv /\ EventInv /\ TierInv
    BY DEF AlertingInv
  <1>2. CASE \E p \in Passes : Begin(p) \/ Step(p) \/ StepFails(p) \/ PassFails(p)
    <2>1. PICK p \in Passes : Begin(p) \/ Step(p) \/ StepFails(p) \/ PassFails(p)
      BY <1>2
    <2>2. PassesTell'
      BY <1>1, <2>1, BeginDoes, ReadTablesDoes, ScanDoes, FindEventDoes, RaiseEventDoes, DeliverEventDoes,
         ReadResourcesDoes, CheckDoes, CreateDoes, TellDoes, PoliciesDoes, ReadOpenDoes, RunStepDoes,
         MarkFiredDoes, FaultDoes DEF Step
    <2> QED
      BY <1>1, <2>1, <2>2, PassesOpenOnce, PassesTold, PassesAnnounce, PassesClimb DEF AlertingInv
  <1>3. CASE \/ \E a \in DOMAIN alerts : Acknowledge(a) \/ Resolve(a)
             \/ \E r \in Rules : SwitchRule(r)
             \/ \E t \in Things : Flip(t)
             \/ \E t \in Vms : Heat(t)
             \/ Age \/ Restart
    <2>1. PassesTell'
      BY <1>1, <1>3, StatusDoes, SwitchDoes, FlipDoes, AgeDoes, RestartDoes
    <2> QED
      BY <1>1, <1>3, <2>1, WorldOpensOnce, WorldTells, WorldAnnounces, WorldClimbs DEF AlertingInv
  <1> QED
    BY <1>2, <1>3 DEF Next

LEMMA AlertingStays ==
    ASSUME AlertingInv, UNCHANGED vars
    PROVE  AlertingInv'
  <1>1. PassesTell /\ OpenInv /\ ToldInv /\ EventInv /\ TierInv /\ Len(alerts) \in Nat
    BY DEF AlertingInv, PassesTell, Typed
  <1>2. UNCHANGED <<up, hot, enabled, alerts, prev, pass, sent, changes, overlapped, reopened, budget>>
    BY DEF vars
  <1>3. PassesTell'
    BY <1>1, <1>2, TablesStay, WorldSteps DEF PassesTell, Typed
  <1>4. Untroubled' = Untroubled /\ Len(alerts) <= Len(alerts')
    BY <1>1, <1>2 DEF Untroubled
  <1>5. OpenInv'
    BY <1>1, <1>2, <1>3, OpenQuiet DEF NoneOpened
  <1>6. ToldInv'
    BY <1>1, <1>2, <1>3, <1>4, ToldQuiet
  <1>7. EventInv'
    BY <1>1, <1>2, <1>3, <1>4, EventQuiet
  <1>8. TierInv'
    BY <1>1, <1>2, <1>3, <1>4, TierQuiet
  <1> QED
    BY <1>3, <1>5, <1>6, <1>7, <1>8 DEF AlertingInv

\* What a pass in hand will do, what is open, told, fired and marked: it holds in
\* every state of the engine (module Alerting).
THEOREM AlertingInvariant == Spec => []AlertingInv
  <1>1. Init => AlertingInv
    BY AlertingStarts
  <1>2. AlertingInv /\ [Next]_vars => AlertingInv'
    BY AlertingSteps, AlertingStays
  <1> QED
    BY <1>1, <1>2, PTL DEF Spec

\* One cause has one alert, told once, announced once, and each tier of its
\* escalation runs once: nothing else follows from two passes, an operator and
\* the world, while nothing overlapped or failed.
THEOREM AlertsOncePerCause == Spec => []OncePerCause
  <1>1. AlertingInv => OncePerCause
    <2> SUFFICES ASSUME AlertingInv
                 PROVE  OncePerCause
      OBVIOUS
    <2>1. PassesTell /\ OpenInv /\ ToldInv /\ EventInv /\ TierInv /\ Typed
      BY DEF AlertingInv, PassesTell
    <2>2. TypeOK
      <3>1. DOMAIN alerts = 1 .. Len(alerts) /\ \A a \in DOMAIN alerts : alerts[a] \in RowType
        BY <2>1 DEF Typed
      <3>2. ASSUME NEW p \in Passes
            PROVE  /\ DOMAIN pass[p] = DOMAIN Idle
                   /\ pass[p].row \in 0 .. Len(alerts) /\ pass[p].step \in 0 .. Steps
                   /\ pass[p].due \subseteq Tiers /\ pass[p].fired \subseteq Tiers
        <4>1. pass[p] \in PassRow /\ Placed(pass[p], Len(alerts))
          BY <2>1 DEF PassesTell, Typed
        <4>2. DOMAIN pass[p] = DOMAIN Idle
          BY <4>1 DEF PassRow, Idle
        <4> QED
          BY <4>1, <4>2 DEF PassRow, Placed
      <3> QED
        BY <2>1, <3>1, <3>2 DEF TypeOK, Typed
    <2>3. TierRunsOnce
      BY <2>1 DEF TierInv, RunsTell, TierRunsOnce
    <2>4. EventOncePerTransition
      BY <2>1, AnnouncedOnce
    <2> QED
      BY <2>1, <2>2, <2>3, <2>4 DEF OncePerCause, OpenInv, ToldInv
  <1> QED
    BY <1>1, AlertingInvariant, PTL

(***************************************************************************)
(* The log of deliveries.                                                  *)
(*                                                                         *)
(* That the delivery log is true is not inductive: an attempt is written    *)
(* from what was read before the send, so nothing about the row follows     *)
(* from the row alone.  What makes it true is said here of the worker that  *)
(* has the message on its list.  Of a message nobody interferes with there  *)
(* is one such worker, and since the row was put on that list the channel   *)
(* has not taken it, the row still says that it failed, and the attempts    *)
(* the worker read are the attempts of the row.                             *)
(***************************************************************************)
InSend(w, m) == worker[w].pc = "send" /\ worker[w].message = m
InWrite(w, m) == worker[w].pc = "write" /\ worker[w].message = m
Lists(w, m) == m \in worker[w].list
Quiet(m) == faults = 0 /\ m \notin crossed

(* A row that is on a list was written once, and a send that worked reached *)
(* the channel.                                                            *)
Begun(w, m) ==
    /\ Lists(w, m) => log[m].status # "none"
    /\ (InWrite(w, m) /\ worker[w].ok) => copies[m] >= 1

(* What the one worker that has m on its list knows of it. *)
Waits(w, m) ==
    (Lists(w, m) /\ ~InSend(w, m) /\ ~InWrite(w, m)) =>
        /\ copies[m] = 0
        /\ Exists(m) => log[m].status = "failed"
Sends(w, m) ==
    InSend(w, m) =>
        /\ copies[m] = 0
        /\ Exists(m) => log[m].status = "failed" /\ log[m].payload /\ log[m].attempts = worker[w].attempts
Writes(w, m) ==
    InWrite(w, m) =>
        /\ copies[m] = IF worker[w].ok THEN 1 ELSE 0
        /\ Exists(m) => /\ log[m].status = "failed" /\ log[m].payload
                        /\ log[m].attempts = worker[w].attempts
                        /\ tries[m] = worker[w].attempts + 1
OneList(m) == \A v, w \in Workers : Lists(v, m) /\ Lists(w, m) => v = w

(* What the row tells while no worker has the message in hand. *)
AtRest(m) ==
    /\ copies[m] <= 1
    /\ (log[m].status \in {"none", "failed", "gave_up"} /\ \A w \in Workers : ~InWrite(w, m)) => copies[m] = 0
    /\ (Exists(m) /\ log[m].payload /\ \A w \in Workers : ~InWrite(w, m)) => tries[m] = log[m].attempts

Told(m) ==
    /\ OneList(m) /\ AtRest(m)
    /\ \A w \in Workers : Waits(w, m) /\ Sends(w, m) /\ Writes(w, m)

Begins == \A m \in Messages :
    /\ log[m].status = "sent" => copies[m] >= 1
    /\ \A w \in Workers : Begun(w, m)
DeliveryInv ==
    /\ DeliveryTypeOK /\ ScheduledIffFailed /\ GivesUpLate /\ Begins
    /\ \A m \in Messages : Quiet(m) => Told(m)

(***************************************************************************)
(* The operators.                                                          *)
(***************************************************************************)
(* The constants are numbers, and a delay is one of the two. *)
LEMMA Numbers ==
    /\ Fast \in NotDue .. Slow /\ Slow \in NotDue .. Slow /\ NotDue \in NotDue .. Slow
    /\ Fast # NotDue /\ Slow # NotDue /\ 0 \in NotDue .. Slow /\ 0 \in 0 .. MaxRowAge
    /\ \A n \in Nat : Delay(n) \in {Fast, Slow}
BY DeliveryAssumption DEF DeliveryAssumption, NotDue, Delay

(* A counter of the faults stays below its bound. *)
LEMMA Counts ==
    ASSUME faults \in 0 .. MaxLogFaults, faults' = faults \/ (faults < MaxLogFaults /\ faults' = faults + 1)
    PROVE  faults' \in 0 .. MaxLogFaults
BY DeliveryAssumption DEF DeliveryAssumption

LEMMA TasksTyped ==
    /\ Free \in Task
    /\ \A list \in SUBSET Messages : Walks(list) \in Task
BY DEF Free, Walks, Task

LEMMA LoggedTyped ==
    ASSUME NEW ok \in BOOLEAN, NEW payload \in BOOLEAN
    PROVE  Logged(ok, payload) \in LogRow
BY Numbers DEF Logged, LogRow

LEMMA RetriedTyped ==
    ASSUME DeliveryTypeOK, NEW w \in Workers, NEW ok \in BOOLEAN, worker[w].message \in Messages
    PROVE  Retried(w, ok) \in LogRow
<1>1. log[worker[w].message] \in LogRow /\ worker[w].attempts + 1 \in Nat
    BY DEF DeliveryTypeOK, Task
<1> QED BY <1>1, Numbers DEF Retried, LogRow

LEMMA OlderTyped ==
    ASSUME DeliveryTypeOK, NEW m \in Messages
    PROVE  Older(m) \in LogRow
<1>1. log[m] \in LogRow
    BY DEF DeliveryTypeOK
<1>2. log[m].due \in NotDue .. Slow /\ log[m].age \in 0 .. MaxRowAge
    BY <1>1 DEF LogRow
<1>3. Older(m).due \in NotDue .. Slow
    BY <1>2, DeliveryAssumption DEF DeliveryAssumption, NotDue, Older
<1>4. Older(m).age \in 0 .. MaxRowAge
    BY <1>2, DeliveryAssumption DEF DeliveryAssumption, Older
<1> QED BY <1>1, <1>3, <1>4 DEF Older, LogRow

(* A worker that is done with a message drops it and nothing else. *)
LEMMA DoneTells ==
    ASSUME DeliveryTypeOK, NEW w \in Workers, NEW m \in Messages, Done(w, m)
    PROVE  /\ worker' \in [Workers -> Task]
           /\ \A v \in Workers \ {w} : worker'[v] = worker[v]
           /\ worker'[w].pc \in {"idle", "next"}
           /\ worker'[w].list = worker[w].list \ {m}
<1>1. worker \in [Workers -> Task] /\ worker[w].list \ {m} \in SUBSET Messages
    BY DEF DeliveryTypeOK, Task
<1>2. CASE worker[w].list \ {m} = {}
    <2>1. worker' = [worker EXCEPT ![w] = Free]
        BY <1>2 DEF Done
    <2> QED BY <1>1, <1>2, <2>1, TasksTyped DEF Free
<1>3. CASE worker[w].list \ {m} # {}
    <2>1. worker' = [worker EXCEPT ![w] = Walks(worker[w].list \ {m})]
        BY <1>3 DEF Done
    <2> QED BY <1>1, <2>1, TasksTyped DEF Walks
<1> QED BY <1>2, <1>3

(* A worker that has a message in hand has one, and has it on its list. *)
LEMMA InHandListed ==
    ASSUME DeliveryTypeOK, NEW w \in Workers, worker[w].pc \in {"send", "write"}
    PROVE  worker[w].message \in worker[w].list /\ worker[w].message \in Messages
BY DEF DeliveryTypeOK, Task

(***************************************************************************)
(* Types.                                                                  *)
(***************************************************************************)
(* A step of a worker keeps the types: what it is doing, and the row. *)
LEMMA WorkTyped ==
    ASSUME DeliveryTypeOK, NEW w \in Workers, Sweep(w) \/ Work(w) \/ WriteFails(w)
    PROVE  DeliveryTypeOK'
<1> USE DEF DeliveryTypeOK
<1>1. CASE Sweep(w)
    <2>1. PICK list \in SUBSET Due : worker' = [worker EXCEPT ![w] = Walks(list)]
        BY <1>1 DEF Sweep
    <2>2. list \in SUBSET Messages
        BY <2>1 DEF Due
    <2>3. crossed' \subseteq Messages
        BY <1>1 DEF Sweep, Due
    <2>4. worker' \in [Workers -> Task]
        BY <2>1, <2>2, TasksTyped
    <2>5. \A v \in Workers : worker'[v].pc \in {"send", "write"} => worker'[v].message \in worker'[v].list
        BY <2>1 DEF Walks
    <2> QED BY <1>1, <2>3, <2>4, <2>5 DEF Sweep
<1>2. CASE ReadRow(w)
    <2>1. PICK m \in worker[w].list :
            \/ /\ Done(w, m) /\ (log' = log \/ log' = [log EXCEPT ![m].due = NotDue])
            \/ /\ worker' = [worker EXCEPT ![w] = Holds(w, m)] /\ log' = log
        BY <1>2 DEF ReadRow
    <2>2. m \in Messages
        BY DEF Task
    <2>3. log' \in [Messages -> LogRow]
        <3>1. CASE log' = [log EXCEPT ![m].due = NotDue]
            <4>1. [log[m] EXCEPT !.due = NotDue] \in LogRow
                BY <2>2, Numbers DEF LogRow
            <4> QED BY <2>2, <3>1, <4>1
        <3> QED BY <2>1, <3>1
    <2>4. CASE Done(w, m)
        <3>1. \A v \in Workers : worker'[v].pc \in {"send", "write"} => worker'[v].message \in worker'[v].list
            BY <2>2, <2>4, DoneTells
        <3> QED BY <1>2, <2>2, <2>3, <2>4, <3>1, DoneTells DEF ReadRow
    <2>5. CASE worker' = [worker EXCEPT ![w] = Holds(w, m)]
        <3>1. Holds(w, m) \in Task
            BY <2>2 DEF Holds, Task, LogRow
        <3>2. \A v \in Workers : worker'[v].pc \in {"send", "write"} => worker'[v].message \in worker'[v].list
            BY <2>5 DEF Holds
        <3> QED BY <1>2, <2>3, <2>5, <3>1, <3>2 DEF ReadRow
    <2> QED BY <2>1, <2>4, <2>5
<1>3. CASE Send(w)
    <2> DEFINE m == worker[w].message
    <2>1. m \in worker[w].list /\ m \in Messages
        BY <1>3, InHandListed DEF Send
    <2>2. PICK ok \in BOOLEAN :
            /\ worker' = [worker EXCEPT ![w] = [pc |-> "write", list |-> @.list, message |-> m,
                                                attempts |-> @.attempts, ok |-> ok]]
            /\ tries' = [tries EXCEPT ![m] = @ + 1]
            /\ copies' = IF ok THEN [copies EXCEPT ![m] = @ + 1] ELSE copies
        BY <1>3 DEF Send
    <2>3. worker' \in [Workers -> Task]
        BY <2>1, <2>2 DEF Task
    <2>4. \A v \in Workers : worker'[v].pc \in {"send", "write"} => worker'[v].message \in worker'[v].list
        BY <2>1, <2>2
    <2>5. tries' \in [Messages -> Nat] /\ copies' \in [Messages -> Nat]
        BY <2>1, <2>2
    <2> QED BY <1>3, <2>3, <2>4, <2>5 DEF Send
<1>4. CASE WriteRow(w) \/ WriteFails(w)
    <2> DEFINE m == worker[w].message
    <2>1. m \in Messages /\ Done(w, m) /\ worker[w].ok \in BOOLEAN
        BY <1>4, InHandListed DEF WriteRow, WriteFails, Task
    <2>2. \E ok \in BOOLEAN : log' = log \/ log' = [log EXCEPT ![m] = Retried(w, ok)]
        BY <1>4, <2>1 DEF WriteRow, WriteFails
    <2>3. log' \in [Messages -> LogRow]
        BY <2>1, <2>2, RetriedTyped
    <2>4. \A v \in Workers : worker'[v].pc \in {"send", "write"} => worker'[v].message \in worker'[v].list
        BY <2>1, DoneTells
    <2>5. worker' \in [Workers -> Task]
        BY <2>1, DoneTells
    <2>6. faults' = faults \/ (faults < MaxLogFaults /\ faults' = faults + 1)
        BY <1>4, ZenonT(20) DEF WriteRow, WriteFails
    <2>7. faults' \in 0 .. MaxLogFaults
        BY <2>6, Counts
    <2> QED BY <1>4, <2>3, <2>4, <2>5, <2>7 DEF WriteRow, WriteFails
<1> QED BY <1>1, <1>2, <1>3, <1>4 DEF Work

(* And so does a step of anybody else. *)
LEMMA EventTyped ==
    ASSUME DeliveryTypeOK,
           \/ \E m \in Messages : Dispatch(m) \/ DispatchNobody(m) \/ Press(m) \/ Delete(m)
           \/ DeliveryRestart \/ Elapse
    PROVE  DeliveryTypeOK'
<1> USE DEF DeliveryTypeOK
<1>1. ASSUME NEW m \in Messages, Dispatch(m) PROVE DeliveryTypeOK'
    <2>1. log' \in [Messages -> LogRow]
        <3>1. [log[m] EXCEPT !.status = "deleted"] \in LogRow
            BY DEF LogRow
        <3> QED BY <1>1, <3>1, LoggedTyped DEF Dispatch
    <2>2. copies' \in [Messages -> Nat] /\ tries' \in [Messages -> Nat]
        BY <1>1 DEF Dispatch
    <2>3. faults' = faults \/ (faults < MaxLogFaults /\ faults' = faults + 1)
        BY <1>1, ZenonT(20) DEF Dispatch
    <2>4. faults' \in 0 .. MaxLogFaults
        BY <2>3, Counts
    <2> QED BY <1>1, <2>1, <2>2, <2>4 DEF Dispatch
<1>2. ASSUME NEW m \in Messages, DispatchNobody(m) PROVE DeliveryTypeOK'
    BY <1>2, LoggedTyped DEF DispatchNobody
<1>3. ASSUME NEW m \in Messages, Press(m) PROVE DeliveryTypeOK'
    <2>1. worker' \in [Workers -> Task]
        BY <1>3, TasksTyped DEF Press
    <2>2. \A v \in Workers : worker'[v].pc \in {"send", "write"} => worker'[v].message \in worker'[v].list
        BY <1>3 DEF Press, Walks
    <2>3. clicks' \in 0 .. MaxPresses
        BY <1>3, DeliveryAssumption DEF Press, DeliveryAssumption
    <2> QED BY <1>3, <2>1, <2>2, <2>3 DEF Press
<1>4. ASSUME NEW m \in Messages, Delete(m) PROVE DeliveryTypeOK'
    <2>1. log' \in [Messages -> LogRow]
        BY <1>4, Numbers DEF Delete, LogRow
    <2>2. clicks' \in 0 .. MaxPresses
        BY <1>4, DeliveryAssumption DEF Delete, DeliveryAssumption
    <2> QED BY <1>4, <2>1, <2>2 DEF Delete
<1>5. CASE DeliveryRestart
    <2>1. faults' \in 0 .. MaxLogFaults
        BY <1>5, DeliveryAssumption DEF DeliveryRestart, DeliveryAssumption
    <2> QED BY <1>5, <2>1, TasksTyped DEF DeliveryRestart, Free
<1>6. CASE Elapse
    BY <1>6, OlderTyped DEF Elapse
<1> QED BY <1>1, <1>2, <1>3, <1>4, <1>5, <1>6

LEMMA TypeKept ==
    ASSUME DeliveryTypeOK, [DeliveryNext]_deliveryVars
    PROVE  DeliveryTypeOK'
<1>1. CASE UNCHANGED deliveryVars
    BY <1>1 DEF DeliveryTypeOK, deliveryVars
<1> QED BY <1>1, WorkTyped, EventTyped DEF DeliveryNext

(***************************************************************************)
(* The schedule.                                                           *)
(***************************************************************************)
RowHonest(row) ==
    /\ row.due # NotDue => row.status = "failed"
    /\ (row.status = "failed" /\ row.payload) => row.due # NotDue
    /\ row.status = "gave_up" => row.age >= MaxRowAge

(* Whatever a step does, a row is left alone or written in one of these ways. *)
LEMMA RowSteps ==
    ASSUME DeliveryTypeOK, [DeliveryNext]_deliveryVars, NEW m \in Messages
    PROVE  \/ log'[m] = log[m]
           \/ \E ok, payload \in BOOLEAN : log'[m] = Logged(ok, payload)
           \/ log[m].status = "none" /\ log'[m] = [log[m] EXCEPT !.status = "deleted"]
           \/ ~log[m].payload /\ log'[m] = [log[m] EXCEPT !.due = NotDue]
           \/ \E w \in Workers, ok \in BOOLEAN : worker[w].message = m /\ log'[m] = Retried(w, ok)
           \/ log'[m] = [status |-> "deleted", attempts |-> log[m].attempts, due |-> NotDue,
                         age |-> log[m].age, payload |-> log[m].payload]
           \/ log'[m] = Older(m)
<1>0. DOMAIN log = Messages
    BY DEF DeliveryTypeOK
<1>1. ASSUME NEW n \in Messages, Dispatch(n)
      PROVE  \/ log'[m] = log[m]
             \/ \E ok, payload \in BOOLEAN : log'[m] = Logged(ok, payload)
             \/ log[m].status = "none" /\ log'[m] = [log[m] EXCEPT !.status = "deleted"]
    BY <1>0, <1>1 DEF Dispatch
<1>2. ASSUME NEW n \in Messages, DispatchNobody(n)
      PROVE  log'[m] = log[m] \/ log'[m] = Logged(FALSE, FALSE)
    BY <1>0, <1>2 DEF DispatchNobody
<1>3. ASSUME NEW n \in Messages, Delete(n)
      PROVE  \/ log'[m] = log[m]
             \/ log'[m] = [status |-> "deleted", attempts |-> log[m].attempts, due |-> NotDue,
                           age |-> log[m].age, payload |-> log[m].payload]
    BY <1>0, <1>3 DEF Delete
<1>4. ASSUME NEW w \in Workers, ReadRow(w)
      PROVE  \/ log'[m] = log[m]
             \/ ~log[m].payload /\ log'[m] = [log[m] EXCEPT !.due = NotDue]
    BY <1>0, <1>4 DEF ReadRow
<1>5. ASSUME NEW w \in Workers, WriteRow(w) \/ WriteFails(w)
      PROVE  \/ log'[m] = log[m]
             \/ \E ok \in BOOLEAN : worker[w].message = m /\ log'[m] = Retried(w, ok)
    <2>1. worker[w].ok \in BOOLEAN
        BY DEF DeliveryTypeOK, Task
    <2>2. \/ log' = log
          \/ \E ok \in BOOLEAN : log' = [log EXCEPT ![worker[w].message] = Retried(w, ok)]
        BY <1>5, <2>1 DEF WriteRow, WriteFails
    <2> QED BY <1>0, <2>2
<1>6. ASSUME Elapse PROVE log'[m] = Older(m)
    BY <1>6 DEF Elapse
<1>7. ASSUME \/ UNCHANGED deliveryVars \/ DeliveryRestart \/ \E n \in Messages : Press(n)
             \/ \E w \in Workers : Sweep(w) \/ Send(w)
      PROVE  log'[m] = log[m]
    BY <1>7 DEF deliveryVars, DeliveryRestart, Press, Sweep, Send
<1> QED BY <1>1, <1>2, <1>3, <1>4, <1>5, <1>6, <1>7 DEF DeliveryNext, Work

(* A row is honest however it is written. *)
LEMMA RowKeptHonest ==
    ASSUME DeliveryTypeOK, [DeliveryNext]_deliveryVars, NEW m \in Messages, RowHonest(log[m])
    PROVE  RowHonest(log'[m])
<1>0. log[m] \in LogRow /\ log'[m] \in LogRow
    BY TypeKept DEF DeliveryTypeOK
<1>1. ASSUME NEW ok \in BOOLEAN, NEW payload \in BOOLEAN
      PROVE  RowHonest(Logged(ok, payload))
    BY Numbers DEF RowHonest, Logged
<1>2. CASE log[m].status = "none" /\ log'[m] = [log[m] EXCEPT !.status = "deleted"]
    BY <1>0, <1>2 DEF RowHonest, LogRow
<1>3. CASE ~log[m].payload /\ log'[m] = [log[m] EXCEPT !.due = NotDue]
    BY <1>0, <1>3 DEF RowHonest, LogRow
<1>4. ASSUME NEW w \in Workers, NEW ok \in BOOLEAN, worker[w].message = m, log'[m] = Retried(w, ok)
      PROVE  RowHonest(Retried(w, ok))
    <2>1. worker[w].attempts + 1 \in Nat
        BY DEF DeliveryTypeOK, Task
    <2>2. Delay(worker[w].attempts + 1) # NotDue
        BY <2>1, Numbers
    <2>3. Retried(w, ok).status =
            IF ok THEN "sent" ELSE IF log[m].age >= MaxRowAge THEN "gave_up" ELSE "failed"
        BY <1>4 DEF Retried
    <2>4. Retried(w, ok).due =
            IF ok \/ log[m].age >= MaxRowAge THEN NotDue ELSE Delay(worker[w].attempts + 1)
        BY <1>4 DEF Retried
    <2>5. Retried(w, ok).age = log[m].age
        BY <1>4 DEF Retried
    <2> QED BY <2>2, <2>3, <2>4, <2>5 DEF RowHonest
<1>5. CASE log'[m] = [status |-> "deleted", attempts |-> log[m].attempts, due |-> NotDue,
                      age |-> log[m].age, payload |-> log[m].payload]
    BY <1>5 DEF RowHonest
<1>6. CASE log'[m] = Older(m)
    <2>1. log[m].due \in NotDue .. Slow /\ log[m].age \in 0 .. MaxRowAge
        BY <1>0 DEF LogRow
    <2>2. Older(m).due # NotDue <=> log[m].due # NotDue
        BY <2>1, DeliveryAssumption DEF Older, NotDue, DeliveryAssumption
    <2>3. log[m].age >= MaxRowAge => Older(m).age >= MaxRowAge
        BY <2>1, DeliveryAssumption DEF Older, DeliveryAssumption
    <2> QED BY <1>6, <2>2, <2>3 DEF RowHonest, Older
<1>7. CASE log'[m] = log[m]
    BY <1>7
<1> QED BY <1>1, <1>2, <1>3, <1>4, <1>5, <1>6, <1>7, RowSteps

(* A failed delivery is scheduled, and no other; and none is given up early. *)
LEMMA ScheduleKept ==
    ASSUME DeliveryTypeOK, ScheduledIffFailed, GivesUpLate, [DeliveryNext]_deliveryVars
    PROVE  ScheduledIffFailed' /\ GivesUpLate'
<1>1. \A m \in Messages : RowHonest(log[m])
    BY DEF ScheduledIffFailed, GivesUpLate, RowHonest
<1>2. \A m \in Messages : RowHonest(log'[m])
    BY <1>1, RowKeptHonest
<1> QED BY <1>2 DEF ScheduledIffFailed, GivesUpLate, RowHonest

(***************************************************************************)
(* Begun.                                                                  *)
(***************************************************************************)
(* A message whose row was written is never without one again, and what its *)
(* channel took stays taken.                                               *)
LEMMA RowsGrow ==
    ASSUME DeliveryTypeOK, [DeliveryNext]_deliveryVars, NEW m \in Messages, log[m].status # "none"
    PROVE  log'[m].status # "none" /\ copies'[m] >= copies[m]
<1>0. copies[m] \in Nat /\ DOMAIN copies = Messages /\ log[m] \in LogRow
    BY DEF DeliveryTypeOK
<1>1. log'[m].status # "none"
    <2>1. ASSUME NEW ok \in BOOLEAN, NEW payload \in BOOLEAN, log'[m] = Logged(ok, payload)
          PROVE  log'[m].status # "none"
        BY <2>1 DEF Logged
    <2>2. ASSUME NEW w \in Workers, NEW ok \in BOOLEAN, log'[m] = Retried(w, ok)
          PROVE  log'[m].status # "none"
        <3>1. Retried(w, ok).status \in {"sent", "gave_up", "failed"}
            BY DEF Retried
        <3> QED BY <2>2, <3>1
    <2>3. log'[m] = [log[m] EXCEPT !.due = NotDue] => log'[m].status # "none"
        BY <1>0 DEF LogRow
    <2>4. log'[m] = Older(m) => log'[m].status # "none"
        BY DEF Older
    <2>5. log'[m] = [status |-> "deleted", attempts |-> log[m].attempts, due |-> NotDue,
                     age |-> log[m].age, payload |-> log[m].payload] => log'[m].status # "none"
        OBVIOUS
    <2>6. \/ log'[m] = log[m]
          \/ \E ok, payload \in BOOLEAN : log'[m] = Logged(ok, payload)
          \/ log'[m] = [log[m] EXCEPT !.due = NotDue]
          \/ \E w \in Workers, ok \in BOOLEAN : log'[m] = Retried(w, ok)
          \/ log'[m] = [status |-> "deleted", attempts |-> log[m].attempts, due |-> NotDue,
                        age |-> log[m].age, payload |-> log[m].payload]
          \/ log'[m] = Older(m)
        BY RowSteps
    <2> QED BY <2>1, <2>2, <2>3, <2>4, <2>5, <2>6
<1>2. copies'[m] >= copies[m]
    <2>1. ASSUME NEW n \in Messages, Dispatch(n) PROVE copies'[m] = copies[m]
        BY <1>0, <2>1 DEF Dispatch
    <2>2. ASSUME NEW w \in Workers, Send(w) PROVE copies'[m] \in {copies[m], copies[m] + 1}
        BY <1>0, <2>2 DEF Send
    <2>3. ASSUME \/ UNCHANGED deliveryVars \/ DeliveryRestart \/ Elapse
                 \/ \E n \in Messages : DispatchNobody(n) \/ Press(n) \/ Delete(n)
                 \/ \E w \in Workers : Sweep(w) \/ ReadRow(w) \/ WriteRow(w) \/ WriteFails(w)
          PROVE  copies' = copies
        BY <2>3 DEF deliveryVars, DeliveryRestart, Elapse, DispatchNobody, Press, Delete, Sweep, ReadRow, WriteRow, WriteFails
    <2> QED BY <1>0, <2>1, <2>2, <2>3 DEF DeliveryNext, Work
<1> QED BY <1>1, <1>2

(* What a step does to the worker that takes it: its list gets shorter, or it *)
(* takes rows that are there.                                                 *)
LEMMA ListsGrow ==
    ASSUME DeliveryTypeOK, [DeliveryNext]_deliveryVars, NEW w \in Workers, NEW m \in Messages, Lists(w, m)'
    PROVE  Lists(w, m) \/ log[m].status # "none"
<1>0. DOMAIN worker = Workers
    BY DEF DeliveryTypeOK
<1>1. ASSUME NEW v \in Workers, Sweep(v) PROVE Lists(w, m) \/ log[m].status # "none"
    <2>1. PICK list \in SUBSET Due : worker' = [worker EXCEPT ![v] = Walks(list)]
        BY <1>1 DEF Sweep
    <2> QED BY <1>0, <2>1 DEF Walks, Due, Lists
<1>2. ASSUME NEW n \in Messages, Press(n) PROVE Lists(w, m) \/ log[m].status # "none"
    BY <1>0, <1>2 DEF Press, Walks, Exists, Lists
<1>3. ASSUME NEW v \in Workers, ReadRow(v) PROVE Lists(w, m)
    <2>1. PICK n \in worker[v].list : Done(v, n) \/ worker' = [worker EXCEPT ![v] = Holds(v, n)]
        BY <1>3 DEF ReadRow
    <2>2. n \in Messages
        BY DEF DeliveryTypeOK, Task
    <2>3. CASE Done(v, n)
        BY <2>2, <2>3, DoneTells DEF Lists
    <2>4. CASE worker' = [worker EXCEPT ![v] = Holds(v, n)]
        BY <1>0, <2>4 DEF Holds, Lists
    <2> QED BY <2>1, <2>3, <2>4
<1>4. ASSUME NEW v \in Workers, Send(v) PROVE Lists(w, m)
    BY <1>0, <1>4 DEF Send, Lists
<1>5. ASSUME NEW v \in Workers, WriteRow(v) \/ WriteFails(v) PROVE Lists(w, m)
    <2>1. worker[v].message \in Messages /\ Done(v, worker[v].message)
        BY <1>5, InHandListed DEF WriteRow, WriteFails
    <2> QED BY <2>1, DoneTells DEF Lists
<1>6. ASSUME DeliveryRestart PROVE FALSE
    BY <1>6 DEF DeliveryRestart, Free, Lists
<1>7. ASSUME \/ UNCHANGED deliveryVars \/ Elapse
             \/ \E n \in Messages : Dispatch(n) \/ DispatchNobody(n) \/ Delete(n)
      PROVE  Lists(w, m)
    BY <1>7 DEF deliveryVars, Elapse, Dispatch, DispatchNobody, Delete, Lists
<1> QED BY <1>1, <1>2, <1>3, <1>4, <1>5, <1>6, <1>7 DEF DeliveryNext, Work

(* A worker that is to write down a send that worked has just made it. *)
LEMMA WritesWhatWasSent ==
    ASSUME DeliveryTypeOK, [DeliveryNext]_deliveryVars, NEW w \in Workers, NEW m \in Messages,
           InWrite(w, m)', worker'[w].ok
    PROVE  (InWrite(w, m) /\ worker[w].ok) \/ copies'[m] >= 1
<1>0. DOMAIN worker = Workers /\ DOMAIN copies = Messages /\ copies[m] \in Nat
    BY DEF DeliveryTypeOK
<1>1. ASSUME NEW v \in Workers, Sweep(v) PROVE InWrite(w, m) /\ worker[w].ok
    BY <1>0, <1>1 DEF Sweep, Walks, InWrite
<1>2. ASSUME NEW n \in Messages, Press(n) PROVE InWrite(w, m) /\ worker[w].ok
    BY <1>0, <1>2 DEF Press, Walks, InWrite
<1>3. ASSUME NEW v \in Workers, ReadRow(v) PROVE InWrite(w, m) /\ worker[w].ok
    <2>1. PICK n \in worker[v].list : Done(v, n) \/ worker' = [worker EXCEPT ![v] = Holds(v, n)]
        BY <1>3 DEF ReadRow
    <2>2. n \in Messages
        BY DEF DeliveryTypeOK, Task
    <2>3. CASE Done(v, n)
        BY <2>2, <2>3, DoneTells DEF InWrite
    <2>4. CASE worker' = [worker EXCEPT ![v] = Holds(v, n)]
        BY <1>0, <2>4 DEF Holds, InWrite
    <2> QED BY <2>1, <2>3, <2>4
<1>4. ASSUME NEW v \in Workers, Send(v)
      PROVE  (InWrite(w, m) /\ worker[w].ok) \/ copies'[m] >= 1
    <2>1. PICK ok \in BOOLEAN :
            /\ worker' = [worker EXCEPT ![v] = [pc |-> "write", list |-> @.list, message |-> worker[v].message,
                                                attempts |-> @.attempts, ok |-> ok]]
            /\ copies' = IF ok THEN [copies EXCEPT ![worker[v].message] = @ + 1] ELSE copies
        BY <1>4 DEF Send
    <2>2. CASE w = v
        <3>1. ok /\ worker[v].message = m
            BY <1>0, <2>1, <2>2 DEF InWrite
        <3> QED BY <1>0, <2>1, <3>1
    <2>3. CASE w # v
        BY <1>0, <2>1, <2>3 DEF InWrite
    <2> QED BY <2>2, <2>3
<1>5. ASSUME NEW v \in Workers, WriteRow(v) \/ WriteFails(v) PROVE InWrite(w, m) /\ worker[w].ok
    <2>1. worker[v].message \in Messages /\ Done(v, worker[v].message)
        BY <1>5, InHandListed DEF WriteRow, WriteFails
    <2> QED BY <2>1, DoneTells DEF InWrite
<1>6. ASSUME DeliveryRestart PROVE FALSE
    BY <1>6 DEF DeliveryRestart, Free, InWrite
<1>7. ASSUME \/ UNCHANGED deliveryVars \/ Elapse
             \/ \E n \in Messages : Dispatch(n) \/ DispatchNobody(n) \/ Delete(n)
      PROVE  InWrite(w, m) /\ worker[w].ok
    BY <1>7 DEF deliveryVars, Elapse, Dispatch, DispatchNobody, Delete, InWrite
<1> QED BY <1>1, <1>2, <1>3, <1>4, <1>5, <1>6, <1>7 DEF DeliveryNext, Work

(* A row says sent only of a message that its channel took. *)
LEMMA SentWasTaken ==
    ASSUME DeliveryTypeOK, Begins, [DeliveryNext]_deliveryVars, NEW m \in Messages, log'[m].status = "sent"
    PROVE  copies'[m] >= 1
<1>0. DOMAIN log = Messages /\ DOMAIN copies = Messages /\ copies[m] \in Nat /\ log[m] \in LogRow
    BY DEF DeliveryTypeOK
<1>1. CASE log[m].status = "sent"
    BY <1>0, <1>1, RowsGrow, TypeKept DEF Begins, DeliveryTypeOK
<1>2. ASSUME NEW n \in Messages, Dispatch(n), log[m].status # "sent" PROVE copies'[m] >= 1
    <2>1. n = m
        BY <1>0, <1>2 DEF Dispatch
    <2>2. PICK ok \in BOOLEAN :
            /\ copies' = [copies EXCEPT ![m] = IF ok THEN 1 ELSE 0]
            /\ log' = [log EXCEPT ![m] = Logged(ok, TRUE)] \/ log' = [log EXCEPT ![m].status = "deleted"]
        BY <1>2, <2>1 DEF Dispatch
    <2>3. ok
        <3>1. CASE log' = [log EXCEPT ![m].status = "deleted"]
            BY <1>0, <3>1 DEF LogRow
        <3>2. CASE log' = [log EXCEPT ![m] = Logged(ok, TRUE)]
            BY <1>0, <3>2 DEF Logged
        <3> QED BY <2>2, <3>1, <3>2
    <2> QED BY <1>0, <2>2, <2>3
<1>3. ASSUME NEW w \in Workers, WriteRow(w) \/ WriteFails(w), log[m].status # "sent"
      PROVE  copies'[m] >= 1
    <2>1. /\ worker[w].ok \in BOOLEAN /\ worker[w].message \in Messages
          /\ worker[w].pc = "write" /\ copies' = copies
        BY <1>3, InHandListed DEF WriteRow, WriteFails, DeliveryTypeOK, Task
    <2>2. PICK ok \in BOOLEAN :
            /\ ok => worker[w].ok
            /\ log' = log \/ log' = [log EXCEPT ![worker[w].message] = Retried(w, ok)]
        BY <1>3, <2>1 DEF WriteRow, WriteFails
    <2>3. worker[w].message = m /\ log'[m] = Retried(w, ok)
        BY <1>0, <1>3, <2>1, <2>2
    <2>4. ok
        BY <2>3 DEF Retried
    <2> QED BY <2>1, <2>2, <2>3, <2>4 DEF Begins, Begun, InWrite
<1>4. ASSUME \/ UNCHANGED deliveryVars \/ DeliveryRestart \/ Elapse
             \/ \E n \in Messages : DispatchNobody(n) \/ Press(n) \/ Delete(n)
             \/ \E w \in Workers : Sweep(w) \/ ReadRow(w) \/ Send(w)
      PROVE  log[m].status = "sent"
    <2>1. ASSUME UNCHANGED deliveryVars \/ DeliveryRestart \/ (\E n \in Messages : Press(n))
                    \/ \E w \in Workers : Sweep(w) \/ Send(w)
          PROVE  log[m].status = "sent"
        BY <2>1 DEF deliveryVars, DeliveryRestart, Press, Sweep, Send
    <2>2. ASSUME Elapse PROVE log[m].status = "sent"
        BY <2>2 DEF Elapse, Older
    <2>3. ASSUME NEW n \in Messages, DispatchNobody(n) PROVE log[m].status = "sent"
        BY <1>0, <2>3 DEF DispatchNobody, Logged
    <2>4. ASSUME NEW n \in Messages, Delete(n) PROVE log[m].status = "sent"
        BY <1>0, <2>4 DEF Delete
    <2>5. ASSUME NEW w \in Workers, ReadRow(w) PROVE log[m].status = "sent"
        <3>1. PICK n \in worker[w].list : log' = log \/ log' = [log EXCEPT ![n].due = NotDue]
            BY <2>5 DEF ReadRow
        <3>2. CASE log' = [log EXCEPT ![n].due = NotDue]
            BY <1>0, <3>2 DEF LogRow
        <3> QED BY <3>1, <3>2
    <2> QED BY <1>4, <2>1, <2>2, <2>3, <2>4, <2>5
<1> QED BY <1>1, <1>2, <1>3, <1>4 DEF DeliveryNext, Work

LEMMA BeginsKept ==
    ASSUME DeliveryTypeOK, Begins, [DeliveryNext]_deliveryVars
    PROVE  Begins'
<1>1. ASSUME NEW m \in Messages PROVE log'[m].status = "sent" => copies'[m] >= 1
    BY SentWasTaken
<1>2. ASSUME NEW m \in Messages, NEW w \in Workers, Lists(w, m)' PROVE log'[m].status # "none"
    BY <1>2, ListsGrow, RowsGrow DEF Begins, Begun
<1>3. ASSUME NEW m \in Messages, NEW w \in Workers, InWrite(w, m)', worker'[w].ok
      PROVE  copies'[m] >= 1
    <2>1. CASE InWrite(w, m) /\ worker[w].ok
        <3>1. copies[m] >= 1 /\ Lists(w, m)
            BY <2>1, InHandListed DEF Begins, Begun, InWrite, Lists
        <3>2. log[m].status # "none"
            BY <3>1 DEF Begins, Begun
        <3>3. copies'[m] >= copies[m] /\ copies[m] \in Nat /\ copies'[m] \in Nat
            BY <3>2, RowsGrow, TypeKept DEF DeliveryTypeOK
        <3> QED BY <3>1, <3>3
    <2> QED BY <1>3, <2>1, WritesWhatWasSent
<1> QED BY <1>1, <1>2, <1>3 DEF Begins, Begun

(***************************************************************************)
(* What is told of one message that nobody interferes with.                *)
(***************************************************************************)
(* A step is about another message: the row and the counts of m stay, and a *)
(* worker that does something has m in hand neither before nor after.      *)
Elsewhere(m) ==
    /\ log'[m].status = log[m].status /\ log'[m].attempts = log[m].attempts
    /\ log'[m].payload = log[m].payload
    /\ copies'[m] = copies[m] /\ tries'[m] = tries[m]
    /\ \A w \in Workers :
         \/ worker'[w] = worker[w]
         \/ /\ Lists(w, m)' => Lists(w, m)
            /\ ~InSend(w, m) /\ ~InWrite(w, m) /\ ~InSend(w, m)' /\ ~InWrite(w, m)'

LEMMA ElsewhereKeeps ==
    ASSUME NEW m \in Messages, Told(m), Elsewhere(m)
    PROVE  Told(m)'
<1> DEFINE Untouched(w) == worker'[w] = worker[w]
           Aside(w) == /\ Lists(w, m)' => Lists(w, m)
                       /\ ~InSend(w, m) /\ ~InWrite(w, m) /\ ~InSend(w, m)' /\ ~InWrite(w, m)'
<1>1. \A w \in Workers : Untouched(w) \/ Aside(w)
    BY DEF Elsewhere
<1>2. \A w \in Workers : Lists(w, m)' => Lists(w, m)
    BY <1>1 DEF Lists
<1>3. \A w \in Workers : (InWrite(w, m)' <=> InWrite(w, m)) /\ (InSend(w, m)' <=> InSend(w, m))
    BY <1>1 DEF InWrite, InSend
<1>4. OneList(m)'
    BY <1>2 DEF Told, OneList
<1>5. Exists(m)' <=> Exists(m)
    BY DEF Elsewhere, Exists
<1>6. AtRest(m)'
    BY <1>3, <1>5 DEF Told, AtRest, Elsewhere
<1>7. ASSUME NEW w \in Workers PROVE Waits(w, m)'
    BY <1>2, <1>3, <1>5 DEF Told, Waits, Elsewhere
<1>8. ASSUME NEW w \in Workers PROVE Sends(w, m)'
    <2>1. CASE Untouched(w)
        BY <1>3, <1>5, <2>1 DEF Told, Sends, Elsewhere
    <2>2. CASE Aside(w)
        BY <2>2 DEF Sends
    <2> QED BY <1>1, <2>1, <2>2
<1>9. ASSUME NEW w \in Workers PROVE Writes(w, m)'
    <2>1. CASE Untouched(w)
        BY <1>3, <1>5, <2>1 DEF Told, Writes, Elsewhere
    <2>2. CASE Aside(w)
        BY <2>2 DEF Writes
    <2> QED BY <1>1, <2>1, <2>2
<1> QED BY <1>4, <1>6, <1>7, <1>8, <1>9 DEF Told

(* The workers stay as they are and nobody has m on a list: the rest follows *)
(* from the row.                                                             *)
LEMMA UnlistedKeeps ==
    ASSUME DeliveryTypeOK', NEW m \in Messages, \A w \in Workers : ~Lists(w, m)',
           copies'[m] <= 1,
           log'[m].status \in {"none", "failed", "gave_up"} => copies'[m] = 0,
           (Exists(m)' /\ log'[m].payload) => tries'[m] = log'[m].attempts
    PROVE  Told(m)'
<1>1. \A w \in Workers : ~InSend(w, m)' /\ ~InWrite(w, m)'
    BY DEF InSend, InWrite, Lists, DeliveryTypeOK
<1> QED BY <1>1 DEF Told, OneList, AtRest, Waits, Sends, Writes

(* A message that is in no list is in no hand. *)
LEMMA HandIsListed ==
    ASSUME DeliveryTypeOK, NEW w \in Workers, NEW m \in Messages
    PROVE  InSend(w, m) \/ InWrite(w, m) => Lists(w, m)
BY InHandListed DEF InSend, InWrite, Lists

(* The first attempt of a message. *)
LEMMA FirstTold ==
    ASSUME DeliveryTypeOK, Begins, NEW m \in Messages, Told(m), Quiet(m)',
           NEW n \in Messages, Dispatch(n) \/ DispatchNobody(n)
    PROVE  Told(m)'
<1>0. DOMAIN log = Messages /\ DOMAIN copies = Messages /\ DOMAIN tries = Messages /\ faults \in Nat
    BY DeliveryAssumption DEF DeliveryTypeOK, DeliveryAssumption
<1>1. CASE n # m
    <2>1. log'[m] = log[m] /\ copies'[m] = copies[m] /\ tries'[m] = tries[m] /\ worker' = worker
        BY <1>0, <1>1 DEF Dispatch, DispatchNobody
    <2> QED BY <2>1, ElsewhereKeeps DEF Elsewhere
<1>2. CASE n = m
    <2>1. log[m].status = "none" /\ worker' = worker
        BY <1>2 DEF Dispatch, DispatchNobody
    <2>2. \A w \in Workers : ~Lists(w, m)
        BY <2>1 DEF Begins, Begun
    <2>3. \A w \in Workers : ~Lists(w, m)'
        BY <2>1, <2>2 DEF Lists
    <2>4. DeliveryTypeOK'
        BY EventTyped
    <2>5. CASE Dispatch(m)
        <3>1. faults' = 0
            BY DEF Quiet
        <3>2. PICK ok \in BOOLEAN :
                /\ copies' = [copies EXCEPT ![m] = IF ok THEN 1 ELSE 0]
                /\ \/ log' = [log EXCEPT ![m] = Logged(ok, TRUE)]
                   \/ faults' = faults + 1
            BY <2>5 DEF Dispatch
        <3>3. copies'[m] \in {0, 1} /\ (~ok => copies'[m] = 0)
            BY <1>0, <3>2
        <3>4. faults' # faults + 1
            BY <1>0, <3>1
        <3>5. log'[m] = Logged(ok, TRUE)
            BY <1>0, <3>2, <3>4
        <3>6. tries'[m] = 1
            BY <1>0, <2>5 DEF Dispatch
        <3>7. /\ log'[m].attempts = 1
              /\ ok => log'[m].status = "sent"
            BY <3>5 DEF Logged
        <3>8. copies'[m] <= 1 /\ (log'[m].status \in {"none", "failed", "gave_up"} => copies'[m] = 0)
            BY <3>3, <3>7
        <3>9. tries'[m] = log'[m].attempts
            BY <3>6, <3>7
        <3> QED BY <2>3, <2>4, <3>8, <3>9, UnlistedKeeps
    <2>6. CASE DispatchNobody(m)
        <3>1. log'[m] = Logged(FALSE, FALSE) /\ copies' = copies
            BY <1>0, <2>6 DEF DispatchNobody
        <3>2. ~log'[m].payload
            BY <3>1 DEF Logged
        <3>3. \A w \in Workers : ~InWrite(w, m)
            BY <2>2, HandIsListed
        <3>4. copies[m] = 0
            BY <2>1, <3>3 DEF Told, AtRest
        <3>5. copies'[m] = 0
            BY <3>1, <3>4
        <3>6. copies'[m] <= 1
            BY <3>5
        <3> QED BY <2>3, <2>4, <3>2, <3>5, <3>6, UnlistedKeeps
    <2> QED BY <1>2, <2>5, <2>6
<1> QED BY <1>1, <1>2

(* A click on another message, a deletion, the passing of time. *)
LEMMA ClickTold ==
    ASSUME DeliveryTypeOK, NEW m \in Messages, Told(m), Quiet(m)',
           Elapse \/ \E n \in Messages : Press(n) \/ Delete(n)
    PROVE  Told(m)'
<1>0. DOMAIN log = Messages /\ DOMAIN worker = Workers
    BY DEF DeliveryTypeOK
<1>1. ASSUME NEW n \in Messages, Press(n) PROVE Told(m)'
    <2>1. n # m
        BY <1>1 DEF Press, Quiet
    <2>2. worker[Button].pc = "idle" /\ worker' = [worker EXCEPT ![Button] = Walks({n})]
        BY <1>1 DEF Press
    <2>3. ASSUME NEW w \in Workers
          PROVE  \/ worker'[w] = worker[w]
                 \/ /\ ~Lists(w, m)'
                    /\ ~InSend(w, m) /\ ~InWrite(w, m) /\ ~InSend(w, m)' /\ ~InWrite(w, m)'
        <3>1. CASE w = Button
            BY <1>0, <2>1, <2>2, <3>1 DEF Walks, Lists, InSend, InWrite
        <3> QED BY <1>0, <2>2, <3>1
    <2>4. UNCHANGED <<log, copies, tries>>
        BY <1>1 DEF Press
    <2> QED BY <2>3, <2>4, ElsewhereKeeps DEF Elsewhere
<1>2. ASSUME NEW n \in Messages, Delete(n) PROVE Told(m)'
    <2>1. UNCHANGED <<worker, tries, copies>>
        BY <1>2 DEF Delete
    <2>2. CASE n # m
        <3>1. log'[m] = log[m]
            BY <1>0, <1>2, <2>2 DEF Delete
        <3> QED BY <2>1, <3>1, ElsewhereKeeps DEF Elsewhere
    <2>3. CASE n = m
        <3>1. log'[m].status = "deleted"
            BY <1>0, <1>2, <2>3 DEF Delete
        <3>2. ~Exists(m)'
            BY <3>1 DEF Exists
        <3>3. \A w \in Workers : (Lists(w, m)' <=> Lists(w, m)) /\ (InSend(w, m)' <=> InSend(w, m))
                                  /\ (InWrite(w, m)' <=> InWrite(w, m))
            BY <2>1 DEF Lists, InSend, InWrite
        <3>4. OneList(m)' /\ AtRest(m)'
            BY <2>1, <3>1, <3>2, <3>3 DEF Told, OneList, AtRest
        <3>5. \A w \in Workers : Waits(w, m)' /\ Sends(w, m)' /\ Writes(w, m)'
            BY <2>1, <3>2, <3>3 DEF Told, Waits, Sends, Writes
        <3> QED BY <3>4, <3>5 DEF Told
    <2> QED BY <2>2, <2>3
<1>3. ASSUME Elapse PROVE Told(m)'
    <2>1. log'[m] = Older(m) /\ UNCHANGED <<worker, tries, copies>>
        BY <1>3 DEF Elapse
    <2> QED BY <2>1, ElsewhereKeeps DEF Elsewhere, Older
<1> QED BY <1>1, <1>2, <1>3

(* A sweep takes a row that failed and that nobody else has on a list. *)
LEMMA SweepTold ==
    ASSUME DeliveryTypeOK, NEW m \in Messages, Told(m), Quiet(m)', NEW w \in Workers, Sweep(w)
    PROVE  Told(m)'
<1>0. DOMAIN worker = Workers
    BY DEF DeliveryTypeOK
<1>1. PICK list \in SUBSET Due :
        /\ worker' = [worker EXCEPT ![w] = Walks(list)]
        /\ crossed' = crossed \cup {d \in list : \E v \in Workers : d \in worker[v].list}
    BY DEF Sweep
<1>2. worker[w].pc = "idle" /\ UNCHANGED <<log, tries, copies>>
    BY DEF Sweep
<1>3. worker'[w] = Walks(list) /\ \A v \in Workers \ {w} : worker'[v] = worker[v]
    BY <1>0, <1>1
<1>4. ~InSend(w, m) /\ ~InWrite(w, m) /\ ~InSend(w, m)' /\ ~InWrite(w, m)'
    BY <1>2, <1>3 DEF Walks, InSend, InWrite
<1>5. CASE m \notin list
    <2>1. ~Lists(w, m)'
        BY <1>3, <1>5 DEF Lists, Walks
    <2> QED BY <1>2, <1>3, <1>4, <2>1, ElsewhereKeeps DEF Elsewhere
<1>6. CASE m \in list
    <2>1. \A v \in Workers : ~Lists(v, m)
        BY <1>1, <1>6 DEF Quiet, Lists
    <2>2. \A v \in Workers : ~InSend(v, m) /\ ~InWrite(v, m)
        BY <2>1, HandIsListed
    <2>3. \A v \in Workers : ~InSend(v, m)' /\ ~InWrite(v, m)'
        BY <1>3, <1>4, <2>2 DEF InSend, InWrite
    <2>4. \A v \in Workers : Lists(v, m)' => v = w
        BY <1>3, <2>1 DEF Lists
    <2>5. log[m].status = "failed" /\ copies[m] = 0
        BY <1>6, <2>2 DEF Due, Told, AtRest
    <2>6. AtRest(m)'
        BY <1>2, <2>2, <2>3 DEF Told, AtRest, Exists
    <2>7. OneList(m)'
        BY <2>4 DEF OneList
    <2>8. \A v \in Workers : Waits(v, m)' /\ Sends(v, m)' /\ Writes(v, m)'
        BY <1>2, <2>3, <2>5 DEF Waits, Sends, Writes
    <2> QED BY <2>6, <2>7, <2>8 DEF Told
<1> QED BY <1>5, <1>6

(* A worker is done with a message: of any other, nothing is different. *)
LEMMA DoneElsewhere ==
    ASSUME DeliveryTypeOK, NEW m \in Messages, NEW w \in Workers, ~InSend(w, m), ~InWrite(w, m),
           NEW n \in Messages, Done(w, n), UNCHANGED <<copies, tries>>,
           log'[m].status = log[m].status, log'[m].attempts = log[m].attempts,
           log'[m].payload = log[m].payload
    PROVE  Elsewhere(m)
<1>1. \A v \in Workers \ {w} : worker'[v] = worker[v]
    BY DoneTells
<1>2. worker'[w].pc \in {"idle", "next"} /\ worker'[w].list = worker[w].list \ {n}
    BY DoneTells
<1>3. ~InSend(w, m)' /\ ~InWrite(w, m)' /\ (Lists(w, m)' => Lists(w, m))
    BY <1>2 DEF InSend, InWrite, Lists
<1> QED BY <1>1, <1>3 DEF Elsewhere

(* A worker reads the row of a message. *)
LEMMA ReadTold ==
    ASSUME DeliveryTypeOK, NEW m \in Messages, Told(m), NEW w \in Workers, ReadRow(w)
    PROVE  Told(m)'
<1>0. DOMAIN worker = Workers /\ DOMAIN log = Messages /\ log[m] \in LogRow
    BY DEF DeliveryTypeOK
<1>1. PICK n \in worker[w].list :
        \/ Done(w, n) /\ (log' = log \/ log' = [log EXCEPT ![n].due = NotDue])
        \/ /\ Exists(n) /\ log[n].payload
           /\ worker' = [worker EXCEPT ![w] = Holds(w, n)] /\ log' = log
    BY DEF ReadRow
<1>2. n \in Messages
    BY DEF DeliveryTypeOK, Task
<1>3. ~InSend(w, m) /\ ~InWrite(w, m) /\ UNCHANGED <<copies, tries>>
    BY DEF ReadRow, InSend, InWrite
<1>4. CASE Done(w, n)
    <2>1. /\ log'[m].status = log[m].status /\ log'[m].attempts = log[m].attempts
          /\ log'[m].payload = log[m].payload
        <3>1. CASE Done(w, n) /\ log' = [log EXCEPT ![n].due = NotDue]
            BY <1>0, <3>1 DEF LogRow
        <3>2. CASE worker' = [worker EXCEPT ![w] = Holds(w, n)] /\ log' = log
            BY <3>2
        <3> QED BY <1>1, <3>1, <3>2
    <2> QED BY <1>2, <1>3, <1>4, <2>1, DoneElsewhere, ElsewhereKeeps
<1>5. CASE Exists(n) /\ log[n].payload /\ worker' = [worker EXCEPT ![w] = Holds(w, n)] /\ log' = log
    <2>1. worker'[w] = Holds(w, n) /\ \A v \in Workers \ {w} : worker'[v] = worker[v]
        BY <1>0, <1>5
    <2>2. Lists(w, m)' <=> Lists(w, m)
        BY <2>1 DEF Lists, Holds
    <2>3. ~InWrite(w, m)' /\ (InSend(w, m)' <=> n = m)
        BY <2>1 DEF Holds, InWrite, InSend
    <2>4. CASE n # m
        BY <1>3, <1>5, <2>1, <2>2, <2>3, <2>4, ElsewhereKeeps DEF Elsewhere
    <2>5. CASE n = m
        <3>1. Lists(w, m)
            BY <2>5 DEF Lists
        <3>2. copies[m] = 0 /\ log[m].status = "failed"
            BY <1>3, <1>5, <2>5, <3>1 DEF Told, Waits
        <3>3. Sends(w, m)'
            <4>1. worker'[w].attempts = log[m].attempts
                BY <2>1, <2>5 DEF Holds
            <4> QED BY <1>3, <1>5, <2>5, <3>2, <4>1 DEF Sends
        <3>4. \A v \in Workers \ {w} : ~InSend(v, m) /\ ~InWrite(v, m)
            BY <3>1, HandIsListed DEF Told, OneList
        <3>5. \A v \in Workers \ {w} : ~InSend(v, m)' /\ ~InWrite(v, m)'
            BY <2>1, <3>4 DEF InSend, InWrite
        <3>6. \A v \in Workers : ~InWrite(v, m)' /\ ~InWrite(v, m)
            BY <1>3, <2>3, <3>4, <3>5
        <3>7. \A v \in Workers : Waits(v, m)'
            BY <1>3, <1>5, <3>2 DEF Waits, Exists
        <3>8. \A v \in Workers : Sends(v, m)' /\ Writes(v, m)'
            BY <3>3, <3>5, <3>6 DEF Sends, Writes
        <3>9. OneList(m)'
            BY <2>1, <2>2 DEF Told, OneList, Lists
        <3>10. AtRest(m)'
            BY <1>3, <1>5, <3>6 DEF Told, AtRest, Exists
        <3> QED BY <3>7, <3>8, <3>9, <3>10 DEF Told
    <2> QED BY <2>4, <2>5
<1> QED BY <1>1, <1>4, <1>5

(* A worker sends the message it has in hand. *)
LEMMA SendTold ==
    ASSUME DeliveryTypeOK, NEW m \in Messages, Told(m), NEW w \in Workers, Send(w)
    PROVE  Told(m)'
<1>0. /\ DOMAIN worker = Workers /\ DOMAIN copies = Messages /\ DOMAIN tries = Messages
      /\ copies[m] \in Nat /\ tries[m] \in Nat /\ worker[w].attempts \in Nat
    BY DEF DeliveryTypeOK, Task
<1> DEFINE n == worker[w].message
<1>1. PICK ok \in BOOLEAN :
        /\ worker' = [worker EXCEPT ![w] = [pc |-> "write", list |-> @.list, message |-> n,
                                            attempts |-> @.attempts, ok |-> ok]]
        /\ tries' = [tries EXCEPT ![n] = @ + 1]
        /\ copies' = IF ok THEN [copies EXCEPT ![n] = @ + 1] ELSE copies
    BY DEF Send
<1>2. worker[w].pc = "send" /\ log' = log /\ n \in Messages /\ Lists(w, n)
    BY InHandListed DEF Send, Lists
<1>3. /\ worker'[w].pc = "write" /\ worker'[w].list = worker[w].list /\ worker'[w].message = n
      /\ worker'[w].attempts = worker[w].attempts /\ worker'[w].ok = ok
    BY <1>0, <1>1
<1>4. \A v \in Workers \ {w} : worker'[v] = worker[v]
    BY <1>0, <1>1
<1>5. CASE n # m
    <2>1. ~InSend(w, m) /\ ~InWrite(w, m) /\ ~InSend(w, m)' /\ ~InWrite(w, m)'
        BY <1>3, <1>5 DEF InSend, InWrite
    <2>2. Lists(w, m)' => Lists(w, m)
        BY <1>3 DEF Lists
    <2>3. copies'[m] = copies[m] /\ tries'[m] = tries[m]
        BY <1>0, <1>1, <1>5
    <2> QED BY <1>2, <1>4, <2>1, <2>2, <2>3, ElsewhereKeeps DEF Elsewhere
<1>6. CASE n = m
    <2>1. InSend(w, m) /\ InWrite(w, m)' /\ ~InSend(w, m)'
        BY <1>2, <1>3, <1>6 DEF InSend, InWrite
    <2>2. /\ copies[m] = 0
          /\ Exists(m) => log[m].status = "failed" /\ log[m].payload
                          /\ log[m].attempts = worker[w].attempts
        BY <2>1 DEF Told, Sends
    <2>3. \A v \in Workers : ~InWrite(v, m)
        <3>1. \A v \in Workers : InWrite(v, m) => v = w
            BY <1>2, <1>6, HandIsListed DEF Told, OneList
        <3> QED BY <2>1, <3>1 DEF InSend, InWrite
    <2>4. Exists(m) => tries[m] = log[m].attempts
        BY <2>2, <2>3 DEF Told, AtRest
    <2>5. tries'[m] = tries[m] + 1
        BY <1>0, <1>1, <1>6
    <2>6. copies'[m] = IF ok THEN 1 ELSE 0
        <3>1. CASE ok
            BY <1>0, <1>1, <1>6, <2>2, <3>1
        <3>2. CASE ~ok
            BY <1>1, <2>2, <3>2
        <3> QED BY <3>1, <3>2
    <2>7. Writes(w, m)'
        BY <1>2, <1>3, <2>2, <2>4, <2>5, <2>6 DEF Writes, Exists
    <2>8. \A v \in Workers : Lists(v, m)' <=> Lists(v, m)
        BY <1>3, <1>4 DEF Lists
    <2>9. OneList(m)'
        BY <2>8 DEF Told, OneList
    <2>10. \A v \in Workers \ {w} : ~Lists(v, m)
        BY <1>2, <1>6 DEF Told, OneList
    <2>11. \A v \in Workers \ {w} : ~InSend(v, m)' /\ ~InWrite(v, m)' /\ ~Lists(v, m)'
        <3>1. \A v \in Workers \ {w} : ~InSend(v, m) /\ ~InWrite(v, m)
            BY <2>10, HandIsListed
        <3> QED BY <1>4, <2>8, <2>10, <3>1 DEF InSend, InWrite
    <2>12. AtRest(m)'
        <3>1. copies'[m] <= 1
            BY <2>6
        <3> QED BY <2>1, <3>1 DEF AtRest
    <2>13. \A v \in Workers : Waits(v, m)' /\ Sends(v, m)' /\ Writes(v, m)'
        BY <2>1, <2>7, <2>11 DEF Waits, Sends, Writes
    <2> QED BY <2>9, <2>12, <2>13 DEF Told
<1> QED BY <1>5, <1>6

(* A worker writes the row of the message it sent. *)
LEMMA WriteTold ==
    ASSUME DeliveryTypeOK, Begins, NEW m \in Messages, Told(m), NEW w \in Workers, WriteRow(w)
    PROVE  Told(m)'
<1>0. DOMAIN log = Messages /\ log[m] \in LogRow /\ worker[w].ok \in BOOLEAN
    BY DEF DeliveryTypeOK, Task
<1> DEFINE n == worker[w].message
<1>1. /\ worker[w].pc = "write" /\ n \in Messages /\ Lists(w, n) /\ Done(w, n)
      /\ UNCHANGED <<copies, tries>>
    BY InHandListed DEF WriteRow, Lists
<1>2. log' = IF Exists(n) THEN [log EXCEPT ![n] = Retried(w, worker[w].ok)] ELSE log
    BY DEF WriteRow
<1>3. CASE n # m
    <2>1. log'[m] = log[m]
        BY <1>0, <1>2, <1>3
    <2>2. ~InSend(w, m) /\ ~InWrite(w, m)
        BY <1>3 DEF InSend, InWrite
    <2> QED BY <1>1, <2>1, <2>2, DoneElsewhere, ElsewhereKeeps
<1>4. CASE n = m
    <2>1. DeliveryTypeOK'
        BY WorkTyped DEF Work
    <2>2. \A v \in Workers : ~Lists(v, m)'
        <3>1. \A v \in Workers \ {w} : worker'[v] = worker[v] /\ ~Lists(v, m)
            BY <1>1, <1>4, DoneTells DEF Told, OneList
        <3>2. worker'[w].list = worker[w].list \ {m}
            BY <1>1, <1>4, DoneTells
        <3> QED BY <3>1, <3>2 DEF Lists
    <2>3. InWrite(w, m)
        BY <1>1, <1>4 DEF InWrite
    <2>4. copies[m] = IF worker[w].ok THEN 1 ELSE 0
        BY <2>3 DEF Told, Writes
    <2>5. CASE Exists(m)
        <3>1. log'[m] = Retried(w, worker[w].ok)
            BY <1>0, <1>2, <1>4, <2>5
        <3>2. tries[m] = worker[w].attempts + 1
            BY <2>3, <2>5 DEF Told, Writes
        <3>3. log'[m].attempts = worker[w].attempts + 1
            BY <3>1 DEF Retried
        <3>4. worker[w].ok => log'[m].status = "sent"
            BY <3>1 DEF Retried
        <3>5. copies'[m] <= 1 /\ (log'[m].status \in {"none", "failed", "gave_up"} => copies'[m] = 0)
            BY <1>0, <1>1, <2>4, <3>4
        <3>6. tries'[m] = log'[m].attempts
            BY <1>1, <3>2, <3>3
        <3> QED BY <2>1, <2>2, <3>5, <3>6, UnlistedKeeps
    <2>6. CASE ~Exists(m)
        <3>1. log' = log
            BY <1>2, <1>4, <2>6
        <3>2. log[m].status = "deleted"
            BY <1>1, <1>4, <2>6 DEF Exists, Begins, Begun
        <3>3. copies'[m] <= 1
            BY <1>0, <1>1, <2>4
        <3>4. ~Exists(m)' /\ log'[m].status \notin {"none", "failed", "gave_up"}
            BY <3>1, <3>2 DEF Exists
        <3> QED BY <2>1, <2>2, <3>3, <3>4, UnlistedKeeps
    <2> QED BY <2>5, <2>6
<1> QED BY <1>3, <1>4

(* What is told of a message stays true while nobody interferes with it. *)
LEMMA ToldKept ==
    ASSUME DeliveryTypeOK, Begins, [DeliveryNext]_deliveryVars, NEW m \in Messages, Quiet(m) => Told(m), Quiet(m)'
    PROVE  Told(m)'
<1>0. faults \in Nat
    BY DeliveryAssumption DEF DeliveryTypeOK, DeliveryAssumption
<1>1. ASSUME DeliveryRestart \/ \E w \in Workers : WriteFails(w) PROVE FALSE
    <2>1. faults' = faults + 1
        BY <1>1 DEF DeliveryRestart, WriteFails
    <2> QED BY <1>0, <2>1 DEF Quiet
<1>2. Quiet(m)
    <2>1. m \notin crossed
        <3>1. crossed \subseteq crossed'
            <4>1. ASSUME NEW w \in Workers, Sweep(w) PROVE crossed \subseteq crossed'
                BY <4>1 DEF Sweep
            <4>2. ASSUME NEW n \in Messages, Press(n) PROVE crossed \subseteq crossed'
                BY <4>2 DEF Press
            <4>3. ASSUME \/ UNCHANGED deliveryVars \/ Elapse
                         \/ \E n \in Messages : Dispatch(n) \/ DispatchNobody(n) \/ Delete(n)
                         \/ \E w \in Workers : ReadRow(w) \/ Send(w) \/ WriteRow(w)
                  PROVE  crossed' = crossed
                BY <4>3 DEF deliveryVars, Elapse, Dispatch, DispatchNobody, Delete, ReadRow, Send, WriteRow
            <4> QED BY <1>1, <4>1, <4>2, <4>3 DEF DeliveryNext, Work
        <3> QED BY <3>1 DEF Quiet
    <2>2. faults = 0
        <3>1. faults' = faults \/ faults' = faults + 1
            <4>1. ASSUME NEW n \in Messages, Dispatch(n) PROVE faults' = faults \/ faults' = faults + 1
                BY <4>1 DEF Dispatch
            <4>2. ASSUME \/ UNCHANGED deliveryVars \/ Elapse
                         \/ \E n \in Messages : DispatchNobody(n) \/ Press(n) \/ Delete(n)
                         \/ \E w \in Workers : Sweep(w) \/ ReadRow(w) \/ Send(w) \/ WriteRow(w)
                  PROVE  faults' = faults
                BY <4>2 DEF deliveryVars, Elapse, DispatchNobody, Press, Delete, Sweep, ReadRow, Send, WriteRow
            <4> QED BY <1>1, <4>1, <4>2 DEF DeliveryNext, Work
        <3> QED BY <1>0, <3>1 DEF Quiet
    <2> QED BY <2>1, <2>2 DEF Quiet
<1>3. Told(m)
    BY <1>2
<1>4. CASE UNCHANGED deliveryVars
    BY <1>3, <1>4, ElsewhereKeeps DEF deliveryVars, Elsewhere
<1> QED BY <1>1, <1>3, <1>4, FirstTold, ClickTold, SweepTold, ReadTold, SendTold, WriteTold DEF DeliveryNext, Work

(***************************************************************************)
(* The invariant.                                                          *)
(***************************************************************************)
LEMMA InvInit ==
    ASSUME DeliveryInit
    PROVE  DeliveryInv
<1> USE DEF DeliveryInit
<1>1. DeliveryTypeOK
    BY DeliveryAssumption, Numbers, TasksTyped DEF DeliveryTypeOK, LogRow, DeliveryAssumption, Free
<1>2. ScheduledIffFailed /\ GivesUpLate
    BY DEF ScheduledIffFailed, GivesUpLate
<1>3. \A w \in Workers, m \in Messages : ~Lists(w, m) /\ ~InWrite(w, m) /\ ~InSend(w, m)
    BY DEF Lists, InWrite, InSend, Free
<1>4. Begins
    BY <1>3 DEF Begins, Begun
<1>5. \A m \in Messages : Told(m)
    BY <1>3 DEF Told, OneList, AtRest, Waits, Sends, Writes, Exists
<1> QED BY <1>1, <1>2, <1>4, <1>5 DEF DeliveryInv

LEMMA InvKept ==
    ASSUME DeliveryInv, [DeliveryNext]_deliveryVars
    PROVE  DeliveryInv'
<1>1. DeliveryTypeOK'
    BY TypeKept DEF DeliveryInv
<1>2. ScheduledIffFailed' /\ GivesUpLate'
    BY ScheduleKept DEF DeliveryInv
<1>3. Begins'
    BY BeginsKept DEF DeliveryInv
<1>4. ASSUME NEW m \in Messages, Quiet(m)' PROVE Told(m)'
    BY <1>4, ToldKept DEF DeliveryInv
<1> QED BY <1>1, <1>2, <1>3, <1>4 DEF DeliveryInv

(* The one worker that is about to write is one. *)
LEMMA WritersCounted ==
    ASSUME NEW m \in Messages, OneList(m), DeliveryTypeOK
    PROVE  Cardinality({w \in InHand(m) : worker[w].pc = "write"}) =
             IF \E w \in Workers : InWrite(w, m) THEN 1 ELSE 0
<1> DEFINE W == {w \in InHand(m) : worker[w].pc = "write"}
<1>1. W = {w \in Workers : InWrite(w, m)}
    BY DEF InHand, InWrite
<1>2. CASE \E w \in Workers : InWrite(w, m)
    <2>1. PICK w \in Workers : InWrite(w, m)
        BY <1>2
    <2>2. \A v \in Workers : InWrite(v, m) => v = w
        BY <2>1, HandIsListed DEF OneList
    <2>3. W = {w}
        BY <1>1, <2>1, <2>2
    <2> QED BY <1>2, <2>3, FS_Singleton
<1>3. CASE ~\E w \in Workers : InWrite(w, m)
    <2>1. W = {}
        BY <1>1, <1>3
    <2> QED BY <1>3, <2>1, FS_EmptySet
<1> QED BY <1>2, <1>3

(* From what is told of every message that nobody interferes with follows   *)
(* what the log tells the operator.                                         *)
LEMMA InvIsEnough ==
    ASSUME DeliveryInv
    PROVE  LogIsTrue
<1>1. SentOnce
    BY DEF DeliveryInv, SentOnce, Quiet, Told, AtRest
<1>2. AttemptsCount
    <2> SUFFICES ASSUME faults = 0, NEW m \in Messages \ crossed, Exists(m), log[m].payload
                 PROVE  tries[m] = log[m].attempts + Cardinality({w \in InHand(m) : worker[w].pc = "write"})
        BY DEF AttemptsCount
    <2>1. Told(m) /\ DeliveryTypeOK
        BY DEF DeliveryInv, Quiet
    <2>2. log[m].attempts \in Nat
        BY <2>1 DEF DeliveryTypeOK, LogRow
    <2>3. CASE \E w \in Workers : InWrite(w, m)
        <3>1. PICK w \in Workers : InWrite(w, m)
            BY <2>3
        <3>2. tries[m] = log[m].attempts + 1
            BY <2>1, <3>1 DEF Told, Writes
        <3>3. Cardinality({v \in InHand(m) : worker[v].pc = "write"}) = 1
            BY <2>1, <2>3, WritersCounted DEF Told
        <3> QED BY <3>2, <3>3
    <2>4. CASE ~\E w \in Workers : InWrite(w, m)
        <3>1. tries[m] = log[m].attempts
            BY <2>1, <2>4 DEF Told, AtRest
        <3>2. Cardinality({v \in InHand(m) : worker[v].pc = "write"}) = 0
            BY <2>1, <2>4, WritersCounted DEF Told
        <3> QED BY <2>2, <3>1, <3>2
    <2> QED BY <2>3, <2>4
<1>3. StatusHonest
    <2>1. ASSUME NEW m \in Messages, log[m].status = "sent" PROVE copies[m] >= 1
        BY <2>1 DEF DeliveryInv, Begins
    <2>2. ASSUME NEW m \in Messages, faults = 0, m \notin crossed,
                 log[m].status \in {"failed", "gave_up"}, InHand(m) = {}
          PROVE  copies[m] = 0
        <3>1. \A w \in Workers : ~InWrite(w, m)
            BY <2>2 DEF InHand, InWrite
        <3> QED BY <2>2, <3>1 DEF DeliveryInv, Quiet, Told, AtRest
    <2> QED BY <2>1, <2>2 DEF StatusHonest
<1> QED BY <1>1, <1>2, <1>3 DEF LogIsTrue, DeliveryInv

(* What a worker knows of the message on its list, and what the row tells of *)
(* the others, hold in every reachable state.                               *)
THEOREM DeliveryInvariant == DeliverySpec => []DeliveryInv
<1>1. DeliveryInit => DeliveryInv
    BY InvInit
<1>2. DeliveryInv /\ [DeliveryNext]_deliveryVars => DeliveryInv'
    BY InvKept
<1> QED BY <1>1, <1>2, PTL DEF DeliverySpec

(* The log of the deliveries is true, for any number of messages, sweeps and *)
(* rows a sweep takes: a message nobody interferes with goes out once, its   *)
(* attempts are counted, its status is that of the channel, and it is        *)
(* scheduled while it is to be sent again (retryDue, retryLog).              *)
THEOREM LogTrue == DeliverySpec => []LogIsTrue
<1>1. DeliveryInv => LogIsTrue
    BY InvIsEnough
<1> QED BY <1>1, DeliveryInvariant, PTL

=============================================================================
