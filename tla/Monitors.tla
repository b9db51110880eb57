------------------------------ MODULE Monitors ------------------------------
(***************************************************************************)
(* The checks of one monitored device (src/api/src/modules/monitors): the  *)
(* loop's checks, "check now", and the check or SNMP poll an edit or a     *)
(* click starts beside them.  A check works on the row it read when it      *)
(* began: it probes, writes the status, raises or resolves the alert when   *)
(* the status it read differs, then polls the interfaces.                   *)
(*                                                                         *)
(* One interface stands for all of them.  Left out: the probes' protocols,  *)
(* latencies and their history, traffic counters, neighbours.               *)
(***************************************************************************)
EXTENDS Naturals

CONSTANTS
    MaxChanges,  \* bound: the device and its link changing
    MaxClicks,   \* bound: check now, poll now, switching the monitor, removing it
    MaxFaults    \* bound: failing database calls, restarts of the API

ASSUME MonitorsAssumption == MaxChanges \in Nat /\ MaxClicks \in Nat /\ MaxFaults \in Nat

Checks == {"loop", "now", "edit"}

VARIABLES
    reach,      \* the device answers
    link,       \* its interface is up
    monitor,    \* the row: status, what the last poll knew of the interface, enabled
    hostAlerts, \* open "Host down" alerts of the monitor
    linkAlerts, \* open "Link down" alerts of the interface
    check,      \* [Checks -> what the check is doing]
    running,    \* MonitorsService.running
    \* observation and bounds
    overlapped, blind, budget

vars == <<reach, link, monitor, hostAlerts, linkAlerts, check, running, overlapped, blind, budget>>
ghosts == <<overlapped, blind>>

Idle == [pc |-> "idle", was |-> "unknown", iface |-> "none", up |-> FALSE, seen |-> "none"]
Words(b) == IF b THEN "up" ELSE "down"
Spend(what) == budget[what] > 0 /\ budget' = [budget EXCEPT ![what] = @ - 1]
Capped(n) == IF n < 2 THEN n + 1 ELSE 2   \* none, one, or more than one

Init ==
    /\ reach \in BOOLEAN /\ link = TRUE
    /\ monitor = [status |-> "unknown", iface |-> "none", enabled |-> TRUE]
    /\ hostAlerts = 0 /\ linkAlerts = 0
    /\ check = [c \in Checks |-> Idle]
    /\ running = FALSE
    /\ overlapped = FALSE /\ blind = FALSE
    /\ budget = [change |-> MaxChanges, click |-> MaxClicks, fault |-> MaxFaults]

Gone == monitor.status = "gone"

(* A check takes the row as it stands; from then on it may be stale. *)
Take(c, pc, row) ==
    /\ check[c].pc = "idle"
    /\ check' = [check EXCEPT ![c] = [pc |-> pc, was |-> row.status, iface |-> row.iface, up |-> FALSE, seen |-> "none"]]
    /\ overlapped' = (overlapped \/ \E d \in Checks : check[d].pc # "idle")

(* tick(): the loop's turn is skipped while any tick runs; a forced one is not. *)
Loop ==
    /\ ~running /\ monitor.enabled /\ ~Gone
    /\ running' = TRUE
    /\ Take("loop", "probe", monitor)
    /\ UNCHANGED <<reach, link, monitor, hostAlerts, linkAlerts, blind, budget>>

CheckNow ==
    /\ Spend("click") /\ monitor.enabled /\ ~Gone
    /\ running' = TRUE
    /\ Take("now", "probe", monitor)
    /\ UNCHANGED <<reach, link, monitor, hostAlerts, linkAlerts, blind>>

(* create() and update() start a check of the row they wrote, switched off or not. *)
Edit ==
    /\ Spend("click") /\ ~Gone
    /\ \E on \in BOOLEAN : monitor' = [monitor EXCEPT !.enabled = on]
    /\ Take("edit", "probe", monitor)
    /\ UNCHANGED <<reach, link, hostAlerts, linkAlerts, running, blind>>

PollNow ==
    /\ Spend("click") /\ ~Gone
    /\ Take("edit", "poll", monitor)
    /\ UNCHANGED <<reach, link, monitor, hostAlerts, linkAlerts, running, blind>>

RemoveMonitor ==
    /\ Spend("click") /\ ~Gone
    /\ monitor' = [monitor EXCEPT !.status = "gone"]
    /\ UNCHANGED <<reach, link, hostAlerts, linkAlerts, check, running, ghosts>>

To(c, next) == check' = [check EXCEPT ![c] = next]
(* Mutant: the turn is not given back. *)
EndStuck(c) == To(c, Idle) /\ UNCHANGED running

End(c) == /\ To(c, Idle)
          /\ running' = IF c \in {"loop", "now"} THEN FALSE ELSE running

(***************************************************************************)
(* A check.                                                                *)
(***************************************************************************)
Probe(c) ==
    /\ check[c].pc = "probe"
    /\ To(c, [check[c] EXCEPT !.pc = "write", !.up = reach])
    /\ UNCHANGED <<reach, link, monitor, hostAlerts, linkAlerts, running, ghosts, budget>>

(* Mutant: only a monitor that was up can go down. *)
WriteStatusStrict(c) ==
    LET me == check[c] IN
    /\ me.pc = "write" /\ ~Gone
    /\ monitor' = [monitor EXCEPT !.status = Words(me.up)]
    /\ To(c, [me EXCEPT !.pc = IF me.was = Words(~me.up) THEN "turn" ELSE "poll"])
    /\ UNCHANGED <<reach, link, hostAlerts, linkAlerts, running, ghosts, budget>>

(* The alert is owed when the status read at the start is not what was found; *)
(* a monitor never checked counts as one that was not down.  The update of a *)
(* row that is gone, or one that fails, ends the check.                       *)
WriteStatus(c) ==
    LET me == check[c]
        owed == me.up = (me.was = "down") IN
    /\ me.pc = "write"
    /\ \/ /\ ~Gone
          /\ monitor' = [monitor EXCEPT !.status = Words(me.up)]
          /\ To(c, [me EXCEPT !.pc = IF owed THEN "turn" ELSE "poll"])
          /\ UNCHANGED <<running, budget>>
       \/ /\ IF Gone THEN UNCHANGED budget ELSE Spend("fault")
          /\ End(c)
          /\ UNCHANGED monitor
    /\ UNCHANGED <<reach, link, hostAlerts, linkAlerts, ghosts>>

(* onDown() creates an alert without a look at those there are, onUp()       *)
(* resolves them all; either drops an error of the database.                 *)
Turn(c) ==
    LET me == check[c] IN
    /\ me.pc = "turn"
    /\ \/ /\ hostAlerts' = IF me.up THEN 0 ELSE Capped(hostAlerts)
          /\ UNCHANGED budget
       \/ Spend("fault") /\ UNCHANGED hostAlerts
    /\ To(c, [me EXCEPT !.pc = "poll"])
    /\ UNCHANGED <<reach, link, monitor, linkAlerts, running, ghosts>>

(* collectSnmp(): a device that does not answer has no interfaces; one whose *)
(* status column times out shows them all down.                              *)
Poll(c) ==
    /\ check[c].pc = "poll"
    /\ \E seen \in {"none"} \cup (IF reach THEN {"down", Words(link)} ELSE {}) :
         /\ To(c, [check[c] EXCEPT !.pc = "report", !.seen = seen])
         /\ blind' = (blind \/ seen # Words(link))
    /\ UNCHANGED <<reach, link, monitor, hostAlerts, linkAlerts, running, overlapped, budget>>

(* The interface as found is compared with the one in the row the check       *)
(* read; both the alert and the row may fail to be written, unnoticed.        *)
Report(c) ==
    LET me == check[c]
        moved == me.seen # "none" /\ me.iface # "none" /\ me.seen # me.iface IN
    /\ me.pc = "report"
    /\ \E alerted, saved \in BOOLEAN :
         /\ IF alerted /\ saved THEN UNCHANGED budget ELSE Spend("fault")
         /\ linkAlerts' = IF ~moved \/ ~alerted THEN linkAlerts
                          ELSE IF me.seen = "up" THEN 0 ELSE Capped(linkAlerts)
         /\ monitor' = IF saved /\ ~Gone THEN [monitor EXCEPT !.iface = me.seen] ELSE monitor
    /\ End(c)
    /\ UNCHANGED <<reach, link, hostAlerts, ghosts>>

Restart ==
    /\ Spend("fault")
    /\ check' = [c \in Checks |-> Idle]
    /\ running' = FALSE
    /\ UNCHANGED <<reach, link, monitor, hostAlerts, linkAlerts, ghosts>>

FlipDevice ==
    /\ Spend("change") /\ reach' = ~reach
    /\ UNCHANGED <<link, monitor, hostAlerts, linkAlerts, check, running, ghosts>>

FlipLink ==
    /\ Spend("change") /\ link' = ~link
    /\ UNCHANGED <<reach, monitor, hostAlerts, linkAlerts, check, running, ghosts>>

Step(c) == Probe(c) \/ WriteStatus(c) \/ Turn(c) \/ Poll(c) \/ Report(c)

Next ==
    \/ Loop \/ CheckNow \/ Edit \/ PollNow \/ RemoveMonitor
    \/ \E c \in Checks : Step(c)
    \/ Restart \/ FlipDevice \/ FlipLink

Spec == Init /\ [][Next]_vars

(* The loop re-arms itself after every tick; probes, polls and queries return. *)
Fairness == WF_vars(Loop) /\ \A c \in Checks : WF_vars(Step(c))

(***************************************************************************)
(* Properties.                                                             *)
(***************************************************************************)
(* The variables keep their types. *)
TypeOK ==
    /\ reach \in BOOLEAN /\ link \in BOOLEAN
    /\ monitor \in [status : {"unknown", "up", "down", "gone"}, iface : {"none", "up", "down"}, enabled : BOOLEAN]
    /\ hostAlerts \in 0 .. 2 /\ linkAlerts \in 0 .. 2
    /\ check \in [Checks -> [pc : {"idle", "probe", "write", "turn", "poll", "report"},
                             was : {"unknown", "up", "down"}, iface : {"none", "up", "down"},
                             up : BOOLEAN, seen : {"none", "up", "down"}]]
    /\ running \in BOOLEAN /\ overlapped \in BOOLEAN /\ blind \in BOOLEAN
    /\ budget \in [{"change", "click", "fault"} -> Nat]

Untroubled == budget.fault = MaxFaults /\ ~overlapped

(* A monitor that is down has exactly one open alert, and one that is not has *)
(* none, save while a check is about to raise or resolve it.  Checks that     *)
(* overlap, a write that fails and a restart leave alerts doubled or open.    *)
AlertMatchesStatus ==
    (Untroubled /\ ~Gone) =>
        \/ \E c \in Checks : check[c].pc = "turn"
        \/ hostAlerts = IF monitor.status = "down" THEN 1 ELSE 0

(* A link alert is open only while the last poll saw the link down, and is    *)
(* never doubled.  A poll that is not answered makes the monitor forget what  *)
(* it knew, and the alert of a link that comes back meanwhile stays open.     *)
LinkAlertMatches ==
    (Untroubled /\ ~blind /\ ~Gone) => linkAlerts <= IF monitor.iface = "down" THEN 1 ELSE 0

(* The open alerts tell what the monitor says. *)
AlertsMatch == TypeOK /\ AlertMatchesStatus /\ LinkAlertMatches

(* The status follows the device in the end, whatever crossed or failed.      *)
StatusSettles ==
    /\ <>[](reach /\ monitor.enabled /\ ~Gone) => <>[](monitor.status = "up")
    /\ <>[](~reach /\ monitor.enabled /\ ~Gone) => <>[](monitor.status = "down")

=============================================================================
