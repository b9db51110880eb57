------------------------------ MODULE Alerting ------------------------------
(***************************************************************************)
(* The alerting engine (src/api/src/modules/alerting): one evaluation pass *)
(* detects events, raises and resolves threshold alerts, and escalates     *)
(* what stays open.  Passes come from the engine's own loop, which skips a *)
(* turn while one is running, and from the "evaluate now" endpoint, which  *)
(* does not.  Every await of a pass that another pass, the operator or a   *)
(* restart can get in between is a step of its own.                        *)
(*                                                                         *)
(* Things are the machines, monitors and agents the events are about.      *)
(* Left out: metric values beyond "breaches", the wording of alerts, the   *)
(* pull of live CPU, fleet snapshots; delivery to a channel is module      *)
(* Delivery.                                                               *)
(***************************************************************************)
EXTENDS Naturals, Sequences, FiniteSets

CONSTANTS
    Things,      \* what the tables hold: machines, monitors, agents
    Kind,        \* [Things -> {"vm", "monitor", "agent"}]
    Threshold,   \* the threshold rules
    EventRules,  \* the event rules
    On,          \* [EventRules -> event names]
    MaxTier,     \* the workflow's tiers are 1 .. MaxTier, tier i due at age i
    Steps,       \* steps of a tier
    PolicyAge,   \* the escalation policy takes alerts older than this
    MaxAlerts,   \* bound: alert rows ever created
    MaxChanges,  \* bound: machines and metrics changing
    MaxClicks,   \* bound: evaluate now, acknowledge, resolve, rule switches
    MaxFaults    \* bound: failing database or webhook calls, and restarts of the API

ASSUME AlertingAssumption ==
    /\ Kind \in [Things -> {"vm", "monitor", "agent"}]
    /\ On \in [EventRules -> {"vm_power_off", "vm_power_on", "device_unreachable", "agent_offline"}]
    /\ Threshold \cap EventRules = {}
    /\ MaxTier \in Nat /\ Steps \in Nat \ {0} /\ PolicyAge \in Nat
    /\ MaxAlerts \in Nat /\ MaxChanges \in Nat /\ MaxClicks \in Nat
    /\ MaxFaults \in Nat

Rules == Threshold \cup EventRules
Tiers == 1 .. MaxTier
MaxAge == IF MaxTier > PolicyAge THEN MaxTier ELSE PolicyAge + 1
Vms == {t \in Things : Kind[t] = "vm"}
Passes == {"tick", "now"}

VARIABLES
    up,        \* [Things -> BOOLEAN]: running, reachable, online
    hot,       \* machines whose metric breaches the rules
    enabled,   \* rules switched on
    alerts,    \* the alert rows, in the order of their creation
    prev,      \* what the last pass saw of each thing; "none" after a restart
    pass,      \* the two passes
    \* observation and bounds
    sent,      \* [EventRules \X Things -> Nat]: deliveries of an event rule
    changes,   \* [Things -> Nat]: transitions of a thing
    overlapped, reopened, budget

world == <<up, hot, enabled>>
vars == <<up, hot, enabled, alerts, prev, pass, sent, changes, overlapped, reopened, budget>>

(***************************************************************************)
(* Rows and passes.                                                        *)
(***************************************************************************)
(* told and ran count what was done for the alert: they are not columns.   *)
Row(source, thing) ==
    [source |-> source, thing |-> thing, status |-> "active", age |-> 0,
     fired |-> {}, escalated |-> FALSE, told |-> 0, ran |-> [t \in Tiers |-> 0]]

Open(a) == alerts[a].status # "resolved"
\* Mutant: an acknowledged alert no longer counts as open.
OpenOfActive(source, thing) ==
    {a \in DOMAIN alerts : alerts[a].status = "active" /\ alerts[a].source = source /\ alerts[a].thing = thing}

OpenOf(source, thing) ==
    {a \in DOMAIN alerts : Open(a) /\ alerts[a].source = source /\ alerts[a].thing = thing}

Idle == [pc |-> "idle", rules |-> {}, up |-> {}, left |-> {}, thing |-> "none",
         fire |-> {}, items |-> {}, queue |-> {}, row |-> 0, due |-> {}, fired |-> {}, step |-> 0, changed |-> FALSE]

Spend(what) == budget[what] > 0 /\ budget' = [budget EXCEPT ![what] = @ - 1]
Twice(n) == IF n < 2 THEN n + 1 ELSE 2   \* counts to two: "once" and "more than once"

Init ==
    /\ up = [t \in Things |-> TRUE]
    /\ hot = {}
    /\ enabled = Rules
    /\ alerts = << >>
    /\ prev = [t \in Things |-> "none"]
    /\ pass = [p \in Passes |-> Idle]
    /\ sent = [e \in EventRules \X Things |-> 0]
    /\ changes = [t \in Things |-> 0]
    /\ overlapped = FALSE
    /\ reopened = FALSE
    /\ budget = [change |-> MaxChanges, click |-> MaxClicks, fault |-> MaxFaults]

Go(p, next) == pass' = [pass EXCEPT ![p] = next]
Same == UNCHANGED <<up, hot, enabled, changes, overlapped, reopened>>

(***************************************************************************)
(* A pass: events.                                                         *)
(***************************************************************************)
Begin(p) ==
    /\ pass[p].pc = "idle"
    /\ IF p = "now" THEN Spend("click") ELSE UNCHANGED budget
    /\ Go(p, [Idle EXCEPT !.pc = "events", !.rules = enabled])
    /\ overlapped' = (overlapped \/ \E q \in Passes : pass[q].pc # "idle")
    /\ UNCHANGED <<up, hot, enabled, alerts, prev, sent, changes, reopened>>

ReadTables(p) ==
    LET me == pass[p]
        seen == {t \in Things : up[t]}
        quiet == (\A t \in Things : prev[t] = "none") \/ me.rules \cap EventRules = {} IN
    /\ me.pc = "events"
    /\ IF quiet
       THEN /\ prev' = [t \in Things |-> IF up[t] THEN "up" ELSE "down"]
            /\ Go(p, [me EXCEPT !.pc = "rules"])
       ELSE /\ Go(p, [me EXCEPT !.pc = "scan", !.up = seen, !.left = Things])
            /\ UNCHANGED prev
    /\ Same /\ UNCHANGED <<alerts, sent, budget>>

Seen(me, t) == IF t \in me.up THEN "up" ELSE "down"

(* Which event a transition of a thing is. *)
Transitions ==
    {[kind |-> "vm", was |-> "up", is |-> "down", event |-> "vm_power_off"],
     [kind |-> "vm", was |-> "down", is |-> "up", event |-> "vm_power_on"],
     [kind |-> "monitor", was |-> "up", is |-> "down", event |-> "device_unreachable"],
     [kind |-> "agent", was |-> "up", is |-> "down", event |-> "agent_offline"]}

Firing(me, t) ==
    {r \in me.rules \cap EventRules : \E x \in Transitions :
        /\ x.kind = Kind[t] /\ x.was = prev[t] /\ x.is = Seen(me, t)
        /\ x.event = On[r]}

Scan(p) ==
    LET me == pass[p] IN
    /\ me.pc = "scan"
    /\ \E t \in me.left :
         IF Firing(me, t) = {}
         THEN /\ prev' = [prev EXCEPT ![t] = Seen(me, t)]
              /\ Go(p, [me EXCEPT !.left = @ \ {t}])
         ELSE /\ Go(p, [me EXCEPT !.pc = "fire", !.thing = t, !.fire = Firing(me, t)])
              /\ UNCHANGED prev
    /\ Same /\ UNCHANGED <<alerts, sent, budget>>

(* A device's event reuses the alert its monitor raised; then the open alert *)
(* of the same event and name; only then is one created.                     *)
Reusable(r, t) ==
    LET monitors == IF Kind[t] = "monitor" THEN OpenOf(<<"monitor", t>>, t) ELSE {} IN
    IF monitors # {} THEN monitors ELSE OpenOf(<<"event", On[r]>>, t)

FindEvent(p) ==
    LET me == pass[p] IN
    /\ me.pc = "fire"
    /\ \E r \in me.fire :
         IF Reusable(r, me.thing) = {}
         THEN Go(p, [me EXCEPT !.pc = "raise", !.items = {<<r, me.thing>>}])
         ELSE \E a \in Reusable(r, me.thing) :
                Go(p, [me EXCEPT !.pc = "deliver", !.items = {<<r, me.thing>>}, !.row = a])
    /\ Same /\ UNCHANGED <<alerts, prev, sent, budget>>

RaiseEvent(p) ==
    LET me == pass[p] IN
    /\ me.pc = "raise" /\ Len(alerts) < MaxAlerts
    /\ \E i \in me.items : alerts' = Append(alerts, Row(<<"event", On[i[1]]>>, i[2]))
    /\ Go(p, [me EXCEPT !.pc = "deliver", !.row = Len(alerts) + 1])
    /\ Same /\ UNCHANGED <<prev, sent, budget>>

(* deliverRule(); after the last rule of the transition it is remembered. *)
DeliverEvent(p) ==
    LET me == pass[p] IN
    /\ me.pc = "deliver"
    /\ alerts' = [alerts EXCEPT ![me.row].told = Twice(@)]
    /\ \E i \in me.items :
         /\ sent' = [sent EXCEPT ![i] = @ + 1]
         /\ IF me.fire = {i[1]}
            THEN /\ prev' = [prev EXCEPT ![me.thing] = Seen(me, me.thing)]
                 /\ Go(p, [me EXCEPT !.pc = "scan", !.left = @ \ {me.thing}, !.thing = "none",
                                     !.fire = {}, !.items = {}, !.row = 0])
            ELSE /\ Go(p, [me EXCEPT !.pc = "fire", !.fire = @ \ {i[1]}, !.items = {}, !.row = 0])
                 /\ UNCHANGED prev
    /\ Same /\ UNCHANGED budget

(***************************************************************************)
(* A pass: threshold rules.                                                *)
(***************************************************************************)
(* Only running machines are read: me.up holds the ones in breach. *)
ReadResources(p) ==
    LET me == pass[p] IN
    /\ me.pc = "rules" \/ (me.pc = "scan" /\ me.left = {})
    /\ Go(p, [me EXCEPT !.pc = "check", !.up = {t \in Vms : up[t] /\ t \in hot},
                        !.items = (me.rules \cap Threshold) \X {t \in Vms : up[t]}])
    /\ Same /\ UNCHANGED <<alerts, prev, sent, budget>>

Check(p) ==
    LET me == pass[p] IN
    /\ me.pc = "check"
    /\ \E i \in me.items :
         LET active == OpenOf(<<"rule", i[1]>>, i[2])
             breach == i[2] \in me.up IN
         \/ /\ breach /\ active = {}
            /\ Go(p, [me EXCEPT !.pc = "create", !.thing = i[2], !.fire = {i[1]}])
            /\ UNCHANGED alerts
         \/ /\ breach = (active # {})
            /\ ~breach \/ active # {}
            /\ Go(p, [me EXCEPT !.items = @ \ {i}])
            /\ UNCHANGED alerts
         \/ /\ ~breach
            /\ \E a \in active : alerts' = [alerts EXCEPT ![a].status = "resolved"]
            /\ Go(p, [me EXCEPT !.items = @ \ {i}])
    /\ Same /\ UNCHANGED <<prev, sent, budget>>

\* Mutant: the alert is created, and the pass goes on to the next machine.
CreateUntold(p) ==
    LET me == pass[p] IN
    /\ me.pc = "create" /\ Len(alerts) < MaxAlerts
    /\ \E r \in me.fire : alerts' = Append(alerts, Row(<<"rule", r>>, me.thing))
    /\ Go(p, [me EXCEPT !.pc = "check", !.items = @ \ (me.fire \X {me.thing}), !.fire = {}])
    /\ Same /\ UNCHANGED <<prev, sent, budget>>

Create(p) ==
    LET me == pass[p] IN
    /\ me.pc = "create" /\ Len(alerts) < MaxAlerts
    /\ \E r \in me.fire : alerts' = Append(alerts, Row(<<"rule", r>>, me.thing))
    /\ Go(p, [me EXCEPT !.pc = "tell", !.row = Len(alerts) + 1])
    /\ Same /\ UNCHANGED <<prev, sent, budget>>

(* runWorkflows() and deliverRule() for the alert just created. *)
Tell(p) ==
    LET me == pass[p] IN
    /\ me.pc = "tell"
    /\ alerts' = [alerts EXCEPT ![me.row].told = Twice(@)]
    /\ Go(p, [me EXCEPT !.pc = "check", !.items = @ \ (me.fire \X {me.thing}), !.thing = "none",
                     !.fire = {}, !.row = 0])
    /\ Same /\ UNCHANGED <<prev, sent, budget>>

(***************************************************************************)
(* A pass: escalation.                                                     *)
(***************************************************************************)
(* The escalation policy: alerts nobody acknowledged or escalated yet.  A   *)
(* webhook that fails leaves its alert for the next pass.                   *)
Policies(p) ==
    LET stale == {a \in DOMAIN alerts : /\ alerts[a].status = "active" /\ ~alerts[a].escalated
                                        /\ alerts[a].age > PolicyAge} IN
    /\ pass[p].pc = "check" /\ pass[p].items = {}
    /\ \E failing \in SUBSET stale :
         /\ IF failing = {} THEN UNCHANGED budget ELSE Spend("fault")
         /\ alerts' = [a \in DOMAIN alerts |->
                         IF a \in stale \ failing THEN [alerts[a] EXCEPT !.escalated = TRUE] ELSE alerts[a]]
    /\ Go(p, [Idle EXCEPT !.pc = "tiers"])
    /\ Same /\ UNCHANGED <<prev, sent>>

(* The alerts are taken one by one, each with the tiers due and the list of  *)
(* fired tiers it had when the pass read it.                                 *)
Take(p, queue) ==
    IF queue = {} THEN Go(p, Idle)
    ELSE \E i \in queue : Go(p, [Idle EXCEPT !.pc = "climb", !.row = i[1], !.due = i[2], !.fired = i[3],
                                             !.queue = queue \ {i}, !.step = 1])

ReadOpen(p) ==
    LET Due(a) == {t \in Tiers \ alerts[a].fired : alerts[a].age >= t}
        open == {a \in DOMAIN alerts : Open(a) /\ Due(a) # {}} IN
    /\ pass[p].pc = "tiers"
    /\ Take(p, {<<a, Due(a), alerts[a].fired>> : a \in open})
    /\ Same /\ UNCHANGED <<alerts, prev, sent, budget>>

Lowest(S) == CHOOSE t \in S : \A u \in S : t <= u

(* One step of the lowest tier due; the last one marks the tier as fired. *)
RunStep(p) ==
    LET me == pass[p]
        tier == Lowest(me.due) IN
    /\ me.pc = "climb" /\ me.due # {}
    /\ alerts' = IF me.step = 1 THEN [alerts EXCEPT ![me.row].ran[tier] = Twice(@)] ELSE alerts
    /\ Go(p, IF me.step < Steps THEN [me EXCEPT !.step = @ + 1]
             ELSE [me EXCEPT !.step = 1, !.due = @ \ {tier}, !.fired = @ \cup {tier}, !.changed = TRUE])
    /\ Same /\ UNCHANGED <<prev, sent, budget>>

(* A step throws: the tier is left for the next pass, and the next tier runs. *)
StepFails(p) ==
    LET me == pass[p] IN
    /\ me.pc = "climb" /\ me.due # {} /\ Spend("fault")
    /\ Go(p, [me EXCEPT !.step = 1, !.due = @ \ {Lowest(me.due)}])
    /\ Same /\ UNCHANGED <<alerts, prev, sent>>

(* If a tier fired, the list read before, with the new tiers, is written whole. *)
MarkFired(p) ==
    LET me == pass[p] IN
    /\ me.pc = "climb" /\ me.due = {}
    /\ \/ /\ alerts' = IF ~me.changed THEN alerts
                        ELSE [alerts EXCEPT ![me.row].fired = me.fired, ![me.row].escalated = TRUE]
          /\ UNCHANGED budget
       \/ me.changed /\ Spend("fault") /\ UNCHANGED alerts
    /\ Take(p, me.queue)
    /\ Same /\ UNCHANGED <<prev, sent>>

(***************************************************************************)
(* Faults, restarts, the operator and the world.                           *)
(***************************************************************************)
\* Mutant: the flag that a pass is running is not cleared when it throws.
PassFailsStuck(p) ==
    /\ pass[p].pc \notin {"idle", "climb"} /\ Spend("fault")
    /\ Go(p, [Idle EXCEPT !.pc = "running"])
    /\ Same /\ UNCHANGED <<alerts, prev, sent>>

(* A database call fails: detectEvents() is caught and the pass goes on with *)
(* the threshold rules; anywhere else the pass ends.                         *)
PassFails(p) ==
    /\ pass[p].pc \notin {"idle", "climb"} /\ Spend("fault")
    /\ Go(p, IF pass[p].pc \in {"events", "scan", "fire", "raise", "deliver"}
             THEN [Idle EXCEPT !.pc = "rules", !.rules = pass[p].rules] ELSE Idle)
    /\ Same /\ UNCHANGED <<alerts, prev, sent>>

Restart ==
    /\ Spend("fault")
    /\ pass' = [p \in Passes |-> Idle]
    /\ prev' = [t \in Things |-> "none"]
    /\ Same /\ UNCHANGED <<alerts, sent>>

Acknowledge(a) ==
    /\ Spend("click")
    /\ reopened' = (reopened \/ ~Open(a))
    /\ alerts' = [alerts EXCEPT ![a].status = "acknowledged"]
    /\ UNCHANGED <<up, hot, enabled, prev, pass, sent, changes, overlapped>>

Resolve(a) ==
    /\ Spend("click")
    /\ alerts' = [alerts EXCEPT ![a].status = "resolved"]
    /\ Same /\ UNCHANGED <<prev, pass, sent>>

SwitchRule(r) ==
    /\ Spend("click")
    /\ enabled' = IF r \in enabled THEN enabled \ {r} ELSE enabled \cup {r}
    /\ UNCHANGED <<up, hot, alerts, prev, pass, sent, changes, overlapped, reopened>>

(* A machine, device or agent goes down or comes back.  The monitor that    *)
(* sees its device go raises its alert, and resolves it when it is back.    *)
Flip(t) ==
    LET raise == Kind[t] = "monitor" /\ up[t] IN
    /\ Spend("change")
    /\ raise => Len(alerts) < MaxAlerts
    /\ up' = [up EXCEPT ![t] = ~@]
    /\ changes' = [changes EXCEPT ![t] = @ + 1]
    /\ alerts' = IF raise THEN Append(alerts, Row(<<"monitor", t>>, t))
                 ELSE [a \in DOMAIN alerts |-> IF alerts[a].source = <<"monitor", t>>
                                               THEN [alerts[a] EXCEPT !.status = "resolved"] ELSE alerts[a]]
    /\ UNCHANGED <<hot, enabled, prev, pass, sent, overlapped, reopened>>

Heat(t) ==
    /\ Spend("change")
    /\ hot' = IF t \in hot THEN hot \ {t} ELSE hot \cup {t}
    /\ UNCHANGED <<up, enabled, alerts, prev, pass, sent, changes, overlapped, reopened>>

Age ==
    /\ \E a \in DOMAIN alerts : Open(a) /\ alerts[a].age < MaxAge
    /\ alerts' = [a \in DOMAIN alerts |->
                    IF alerts[a].age < MaxAge THEN [alerts[a] EXCEPT !.age = @ + 1] ELSE alerts[a]]
    /\ Same /\ UNCHANGED <<prev, pass, sent, budget>>

Step(p) ==
    \/ ReadTables(p) \/ Scan(p) \/ FindEvent(p) \/ RaiseEvent(p) \/ DeliverEvent(p)
    \/ ReadResources(p) \/ Check(p) \/ Create(p) \/ Tell(p)
    \/ Policies(p) \/ ReadOpen(p) \/ RunStep(p) \/ MarkFired(p)

Next ==
    \/ \E p \in Passes : Begin(p) \/ Step(p) \/ StepFails(p) \/ PassFails(p)
    \/ \E a \in DOMAIN alerts : Acknowledge(a) \/ Resolve(a)
    \/ \E r \in Rules : SwitchRule(r)
    \/ \E t \in Things : Flip(t)
    \/ \E t \in Vms : Heat(t)
    \/ Age \/ Restart

Spec == Init /\ [][Next]_vars

(* The loop re-arms itself after every pass, whatever the pass did; an await *)
(* comes back, with a result or an error; time goes on.                      *)
Fairness ==
    /\ WF_vars(Begin("tick"))
    /\ \A p \in Passes : WF_vars(Step(p))
    /\ WF_vars(Age)
FairSpec == Spec /\ Fairness

(***************************************************************************)
(* Properties.                                                             *)
(***************************************************************************)
Sources == (({"rule"} \X Threshold) \cup ({"event"} \X {On[r] : r \in EventRules})
            \cup ({"monitor"} \X Things))
RowType == [source : Sources, thing : Things, status : {"active", "acknowledged", "resolved"},
            age : 0 .. MaxAge, fired : SUBSET Tiers, escalated : BOOLEAN,
            told : 0 .. 2, ran : [Tiers -> 0 .. 2]]

(* The variables keep their types; nobody writes past the rows there are. *)
TypeOK ==
    /\ up \in [Things -> BOOLEAN] /\ hot \subseteq Vms /\ enabled \subseteq Rules
    /\ Len(alerts) <= MaxAlerts /\ \A a \in DOMAIN alerts : alerts[a] \in RowType
    /\ prev \in [Things -> {"none", "up", "down"}]
    /\ sent \in [EventRules \X Things -> Nat] /\ changes \in [Things -> Nat]
    /\ overlapped \in BOOLEAN /\ reopened \in BOOLEAN
    /\ \A p \in Passes : /\ DOMAIN pass[p] = DOMAIN Idle
                         /\ pass[p].row \in 0 .. Len(alerts) /\ pass[p].step \in 0 .. Steps
                         /\ pass[p].due \subseteq Tiers /\ pass[p].fired \subseteq Tiers

(* No call failed and the API was not restarted so far. *)
Untroubled == budget.fault = MaxFaults

(* A rule has at most one unresolved alert per machine, and an event one per *)
(* thing: evaluate() looks for the open alert before it creates one.  Passes *)
(* that overlap, and an acknowledgement of a resolved alert, break it.       *)
OneOpenAlert ==
    overlapped \/ reopened \/
    \A a, b \in DOMAIN alerts :
        (Open(a) /\ Open(b) /\ alerts[a].source = alerts[b].source /\ alerts[a].thing = alerts[b].thing)
            => a = b

(* Every alert a threshold rule raises is delivered, once: the pass that     *)
(* created the row is on its way to Tell, unless it failed or the API died.  *)
RaisedIsTold ==
    Untroubled =>
        \A a \in DOMAIN alerts : alerts[a].source \in {"rule"} \X Threshold =>
            \/ alerts[a].told = 1
            \/ alerts[a].told = 0 /\ \E p \in Passes : pass[p].pc = "tell" /\ pass[p].row = a

(* An event is delivered "once per transition": a rule never fires more often *)
(* than its thing went down (or came up), however many passes saw it down.    *)
EventOncePerTransition ==
    (Untroubled /\ ~overlapped) =>
        \A r \in EventRules, t \in Things :
            sent[<<r, t>>] <= IF On[r] = "vm_power_on" THEN changes[t] \div 2 ELSE (changes[t] + 1) \div 2

(* "That tier's steps run once": a tier runs again for an alert only after an *)
(* overlap, a failing call or a restart got between the steps and the mark.   *)
TierRunsOnce ==
    (Untroubled /\ ~overlapped) =>
        \A a \in DOMAIN alerts, t \in Tiers : alerts[a].ran[t] <= 1

(* One cause has one alert, which is told once, one announcement and one run  *)
(* of each tier, as the engine's own comments promise, while nothing          *)
(* overlapped or failed.                                                      *)
OncePerCause == TypeOK /\ OneOpenAlert /\ RaisedIsTold /\ EventOncePerTransition /\ TierRunsOnce

(* Once a machine runs below the threshold for good, and the rule stays on,  *)
(* no alert of the rule stays open on it, whatever went wrong before.        *)
ClearedIsResolved ==
    \A r \in Threshold, t \in Vms :
        <>[](up[t] /\ t \notin hot /\ r \in enabled) => <>[](OpenOf(<<"rule", r>>, t) = {})

(* Alerts that stay open climb every tier in the end. *)
OpenIsEscalated == []<>(\A a \in DOMAIN alerts : Open(a) => alerts[a].fired = Tiers)

(* The first drop of a thing the last pass saw up is announced, unless it    *)
(* comes back first, the rule is off, or a restart forgets what was seen.    *)
DropIsNoticed ==
    \A r \in EventRules, t \in Things :
        (/\ prev[t] = "up" /\ ~up[t] /\ sent[<<r, t>>] = 0
         /\ [kind |-> Kind[t], was |-> "up", is |-> "down", event |-> On[r]] \in Transitions
         /\ \A p \in Passes : pass[p].pc \in {"events", "scan", "fire", "raise", "deliver"} => r \in pass[p].rules)
        ~> (sent[<<r, t>>] > 0 \/ up[t] \/ r \notin enabled \/ prev[t] = "none")

(* Whatever failed or overlapped, the loop makes up for it: what cleared is   *)
(* resolved, what stays open is escalated, what went down is announced.       *)
LoopCatchesUp == ClearedIsResolved /\ OpenIsEscalated /\ DropIsNoticed

=============================================================================
