--------------------------- MODULE MonitorsProofs ---------------------------
(***************************************************************************)
(* Theorems of Monitors, Uptime, Detectors and Findings: what watches      *)
(* devices and accounts for their time, and what watches the logs, for any *)
(* number of changes, passes, reviews and faults.                          *)
(***************************************************************************)
EXTENDS Monitors, Uptime, Detectors, Findings, FiniteSetTheorems, WellFoundedInduction, TLAPS

(***************************************************************************)
(* The inductive invariant.  It speaks of the past through the ghosts: as  *)
(* long as no fault was spent and no checks overlapped there is one check  *)
(* at a time, and what it knows of the row is what the row says.           *)
(***************************************************************************)
Row == [status : {"unknown", "up", "down", "gone"}, iface : {"none", "up", "down"}, enabled : BOOLEAN]
Check == [pc : {"idle", "probe", "write", "turn", "poll", "report"},
          was : {"unknown", "up", "down"}, iface : {"none", "up", "down"},
          up : BOOLEAN, seen : {"none", "up", "down"}]

OneCheck ==
    Untroubled => \A c, d \in Checks : check[c].pc # "idle" /\ check[d].pc # "idle" => c = d

DownCount(status) == IF status = "down" THEN 1 ELSE 0

\* A check's copy of the row is current, and what it found is about to be told.
CheckKnows(c) ==
    /\ check[c].iface = monitor.iface
    /\ check[c].pc \in {"probe", "write"} => check[c].was = monitor.status
    /\ check[c].pc = "turn" => /\ check[c].up = (check[c].was = "down")
                               /\ monitor.status = Words(check[c].up)
                               /\ hostAlerts = DownCount(check[c].was)
    /\ check[c].pc = "report" /\ ~blind => check[c].seen # "none"

Knows ==
    Untroubled /\ ~Gone =>
        /\ \A c \in Checks : check[c].pc # "idle" => CheckKnows(c)
        /\ (\A c \in Checks : check[c].pc # "turn") => hostAlerts = DownCount(monitor.status)
        /\ ~blind => linkAlerts <= DownCount(monitor.iface)

MonitorsInv == TypeOK /\ budget.fault <= MaxFaults /\ OneCheck /\ Knows

(***************************************************************************)
(* What the steps do to the checks                                         *)
(***************************************************************************)
LEMMA TypeParts ==
    ASSUME TypeOK
    PROVE  /\ monitor \in Row /\ check \in [Checks -> Check]
           /\ hostAlerts \in 0 .. 2 /\ linkAlerts \in 0 .. 2
           /\ budget \in [{"change", "click", "fault"} -> Nat]
  BY DEF TypeOK, Row, Check

\* The budget only shrinks; a fault is for ever.
LEMMA SpendFault ==
    ASSUME TypeOK, budget.fault <= MaxFaults, Spend("fault")
    PROVE  budget' \in [{"change", "click", "fault"} -> Nat] /\ budget'.fault < MaxFaults
  BY MonitorsAssumption DEF TypeOK, Spend

LEMMA SpendOther ==
    ASSUME TypeOK, NEW what \in {"change", "click"}, Spend(what)
    PROVE  budget' \in [{"change", "click", "fault"} -> Nat] /\ budget'.fault = budget.fault
  BY DEF TypeOK, Spend

LEMMA OneMoves ==
    ASSUME TypeOK, NEW c \in Checks, NEW new \in Check, To(c, new)
    PROVE  /\ check' \in [Checks -> Check] /\ check'[c] = new
           /\ \A d \in Checks : d # c => check'[d] = check[d]
  BY TypeParts DEF To

LEMMA IdleIsCheck == Idle \in Check /\ Idle.pc = "idle"
  BY DEF Idle, Check

\* A check that begins: alone, or the checks have overlapped.
LEMMA TakeWhat ==
    ASSUME TypeOK, ~Gone, NEW c \in Checks, NEW pc \in {"probe", "poll"}, NEW row \in Row,
           row.status = monitor.status, row.iface = monitor.iface, Take(c, pc, row)
    PROVE  /\ check' \in [Checks -> Check]
           /\ check'[c].pc = pc /\ check'[c].was = monitor.status /\ check'[c].iface = monitor.iface
           /\ \A d \in Checks : d # c => check'[d] = check[d]
           /\ overlapped' \in BOOLEAN /\ check[c].pc = "idle"
           /\ ~overlapped' => ~overlapped /\ \A d \in Checks : check[d].pc = "idle"
  <1> DEFINE new == [pc |-> pc, was |-> row.status, iface |-> row.iface, up |-> FALSE, seen |-> "none"]
  <1>1. /\ check' = [check EXCEPT ![c] = new]
        /\ overlapped' = (overlapped \/ \E d \in Checks : check[d].pc # "idle") /\ check[c].pc = "idle"
    BY DEF Take
  <1>2. row.status \in {"unknown", "up", "down"} /\ row.iface \in {"none", "up", "down"}
    BY DEF Row, Gone
  <1>3. new \in Check
    BY <1>2 DEF Check
  <1>4. overlapped \in BOOLEAN
    BY DEF TypeOK
  <1> QED
    BY <1>1, <1>3, <1>4, TypeParts

LEMMA MonitorsInit == Init => MonitorsInv
  <1> SUFFICES ASSUME Init PROVE MonitorsInv
    OBVIOUS
  <1>1. /\ monitor.status = "unknown" /\ monitor.iface = "none" /\ hostAlerts = 0 /\ linkAlerts = 0
        /\ \A c \in Checks : check[c] = Idle
    BY DEF Init
  <1>2. TypeOK
    <2>1. check \in [Checks -> Check]
      BY IdleIsCheck DEF Init
    <2>2. budget \in [{"change", "click", "fault"} -> Nat]
      BY MonitorsAssumption DEF Init
    <2>3. monitor \in Row
      BY DEF Init, Row
    <2>4. hostAlerts \in 0 .. 2 /\ linkAlerts \in 0 .. 2
      BY <1>1
    <2>5. /\ reach \in BOOLEAN /\ link \in BOOLEAN
          /\ running \in BOOLEAN /\ overlapped \in BOOLEAN /\ blind \in BOOLEAN
      BY Zenon DEF Init
    <2> QED
      BY <2>1, <2>2, <2>3, <2>4, <2>5 DEF TypeOK, Check, Row
  <1>3. budget.fault <= MaxFaults
    BY MonitorsAssumption DEF Init
  <1>4. OneCheck /\ Knows
    BY <1>1 DEF OneCheck, Knows, Idle, DownCount
  <1> QED
    BY <1>2, <1>3, <1>4 DEF MonitorsInv

LEMMA MonitorsTake ==
    ASSUME MonitorsInv, NEW c \in Checks, NEW pc \in {"probe", "poll"}, NEW row \in Row,
           row = monitor \/ row = monitor', Take(c, pc, row), ~Gone, running' \in BOOLEAN,
           monitor' \in Row, monitor'.status = monitor.status, monitor'.iface = monitor.iface,
           UNCHANGED <<reach, link, hostAlerts, linkAlerts, blind>>,
           UNCHANGED budget \/ Spend("click")
    PROVE  MonitorsInv'
  <1>1. TypeOK /\ budget.fault <= MaxFaults
    BY DEF MonitorsInv
  <1>2. row.status = monitor.status /\ row.iface = monitor.iface
    OBVIOUS
  <1>3. /\ check' \in [Checks -> Check]
        /\ check'[c].pc = pc /\ check'[c].was = monitor.status /\ check'[c].iface = monitor.iface
        /\ \A d \in Checks : d # c => check'[d] = check[d]
        /\ overlapped' \in BOOLEAN /\ check[c].pc = "idle"
        /\ ~overlapped' => ~overlapped /\ \A d \in Checks : check[d].pc = "idle"
    BY <1>1, <1>2, TakeWhat
  <1>4. budget' \in [{"change", "click", "fault"} -> Nat] /\ budget'.fault = budget.fault
    BY <1>1, SpendOther DEF TypeOK
  <1>5. TypeOK'
    BY <1>1, <1>3, <1>4 DEF TypeOK, Row, Check
  <1>6. (Untroubled' => Untroubled) /\ (Gone' <=> Gone)
    BY <1>3, <1>4 DEF Untroubled, Gone
  <1>7. OneCheck'
    BY <1>3 DEF OneCheck, Untroubled
  <1>8. Knows'
    <2> SUFFICES ASSUME Untroubled', ~Gone' PROVE Knows'
      BY DEF Knows
    <2>1. /\ hostAlerts = DownCount(monitor.status) /\ (~blind => linkAlerts <= DownCount(monitor.iface))
          /\ \A d \in Checks : check[d].pc = "idle"
      BY <1>3, <1>6 DEF MonitorsInv, Knows, Untroubled
    <2>2. \A d \in Checks : check'[d].pc # "idle" => d = c
      BY <1>3, <2>1
    <2>3. CheckKnows(c)'
      BY <1>3 DEF CheckKnows
    <2> QED
      BY <2>1, <2>2, <2>3 DEF Knows, DownCount
  <1> QED
    BY <1>1, <1>4, <1>5, <1>7, <1>8 DEF MonitorsInv

LEMMA MonitorsBegin == MonitorsInv /\ (Loop \/ CheckNow \/ Edit \/ PollNow) => MonitorsInv'
  <1> SUFFICES ASSUME MonitorsInv, Loop \/ CheckNow \/ Edit \/ PollNow PROVE MonitorsInv'
    OBVIOUS
  <1>1. monitor \in Row /\ running \in BOOLEAN
    BY TypeParts DEF MonitorsInv, TypeOK
  <1>2. CASE Loop
    BY <1>1, <1>2, MonitorsTake DEF Loop, Checks
  <1>3. CASE CheckNow
    BY <1>1, <1>3, MonitorsTake DEF CheckNow, Checks
  <1>4. CASE Edit
    <2>1. PICK on \in BOOLEAN : monitor' = [monitor EXCEPT !.enabled = on]
      BY <1>4 DEF Edit
    <2>2. monitor' \in Row /\ monitor'.status = monitor.status /\ monitor'.iface = monitor.iface
      BY <1>1, <2>1 DEF Row
    <2> QED
      BY <1>1, <1>4, <2>2, MonitorsTake DEF Edit, Checks
  <1>5. CASE PollNow
    BY <1>1, <1>5, MonitorsTake DEF PollNow, Checks
  <1> QED
    BY <1>2, <1>3, <1>4, <1>5

\* A fault: from now on nothing is claimed.
LEMMA AfterFault ==
    ASSUME TypeOK', budget'.fault < MaxFaults
    PROVE  MonitorsInv'
  <1>1. ~Untroubled'
    BY MonitorsAssumption DEF Untroubled, TypeOK
  <1>2. budget'.fault <= MaxFaults
    BY MonitorsAssumption DEF TypeOK
  <1> QED
    BY <1>1, <1>2 DEF MonitorsInv, OneCheck, Knows

\* A step of the only check: what it knows and what the alerts say suffices.
LEMMA OneCheckSteps ==
    ASSUME MonitorsInv, NEW c \in Checks, check[c].pc # "idle", NEW new \in Check, To(c, new),
           budget'.fault = budget.fault, overlapped' = overlapped, TypeOK',
           Untroubled /\ ~Gone' =>
                /\ new.pc # "idle" => CheckKnows(c)'
                /\ new.pc # "turn" => hostAlerts' = DownCount(monitor'.status)
                /\ ~blind' => linkAlerts' <= DownCount(monitor'.iface)
    PROVE  MonitorsInv'
  <1>1. TypeOK /\ check'[c] = new /\ \A d \in Checks : d # c => check'[d] = check[d]
    BY OneMoves DEF MonitorsInv
  <1>2. Untroubled' <=> Untroubled
    BY DEF Untroubled
  <1>3. Untroubled => \A d \in Checks : d # c => check[d].pc = "idle"
    BY DEF MonitorsInv, OneCheck
  <1>4. OneCheck'
    BY <1>1, <1>2, <1>3 DEF OneCheck
  <1>5. Knows'
    <2> SUFFICES ASSUME Untroubled', ~Gone' PROVE Knows'
      BY DEF Knows
    <2>1. \A d \in Checks : check'[d].pc # "idle" => d = c /\ new.pc # "idle"
      BY <1>1, <1>2, <1>3
    <2>2. (\A d \in Checks : check'[d].pc # "turn") => new.pc # "turn"
      BY <1>1
    <2> QED
      BY <1>2, <2>1, <2>2 DEF Knows, DownCount
  <1>6. budget'.fault <= MaxFaults
    BY DEF MonitorsInv
  <1> QED
    BY <1>4, <1>5, <1>6 DEF MonitorsInv

\* What holds of the check that is at work, before its step.
LEMMA AtWork ==
    ASSUME MonitorsInv, NEW c \in Checks, check[c].pc # "idle"
    PROVE  /\ TypeOK /\ check[c] \in Check /\ monitor \in Row
           /\ Untroubled /\ ~Gone => /\ CheckKnows(c)
                                     /\ check[c].pc # "turn" => hostAlerts = DownCount(monitor.status)
                                     /\ ~blind => linkAlerts <= DownCount(monitor.iface)
  <1>1. TypeOK /\ check[c] \in Check /\ monitor \in Row
    BY TypeParts DEF MonitorsInv
  <1>2. ASSUME Untroubled, ~Gone
        PROVE  /\ CheckKnows(c)
               /\ check[c].pc # "turn" => hostAlerts = DownCount(monitor.status)
               /\ ~blind => linkAlerts <= DownCount(monitor.iface)
    <2>1. \A d \in Checks : d # c => check[d].pc = "idle"
      BY <1>2 DEF MonitorsInv, OneCheck
    <2> QED
      BY <1>2, <2>1 DEF MonitorsInv, Knows
  <1> QED
    BY <1>1, <1>2

LEMMA MonitorsProbe ==
    ASSUME MonitorsInv, NEW c \in Checks, Probe(c)
    PROVE  MonitorsInv'
  <1> DEFINE mid == [check[c] EXCEPT !.pc = "write"]
             new == [mid EXCEPT !.up = reach]
  <1>1. /\ check[c].pc = "probe" /\ To(c, new)
        /\ UNCHANGED <<reach, link, monitor, hostAlerts, linkAlerts, running, overlapped, blind, budget>>
    BY DEF Probe, ghosts
  <1>2. /\ TypeOK /\ check[c] \in Check
        /\ Untroubled /\ ~Gone => /\ CheckKnows(c) /\ hostAlerts = DownCount(monitor.status)
                                  /\ ~blind => linkAlerts <= DownCount(monitor.iface)
    BY <1>1, AtWork
  <1>3. mid \in Check /\ mid.was = check[c].was /\ mid.iface = check[c].iface /\ mid.pc = "write"
    BY <1>2 DEF Check
  <1>4. reach \in BOOLEAN
    BY <1>2 DEF TypeOK
  <1> HIDE DEF mid
  <1>5. new \in Check /\ new.was = check[c].was /\ new.iface = check[c].iface /\ new.pc = "write"
    BY <1>3, <1>4 DEF Check
  <1> HIDE DEF new
  <1>6. check' \in [Checks -> Check] /\ check'[c] = new
    BY <1>1, <1>2, <1>5, OneMoves
  <1>7. TypeOK'
    BY <1>1, <1>2, <1>6 DEF TypeOK, Check
  <1>8. Untroubled /\ ~Gone' => CheckKnows(c)'
    BY <1>1, <1>2, <1>5, <1>6 DEF CheckKnows, Gone
  <1> QED
    BY <1>1, <1>2, <1>5, <1>7, <1>8, OneCheckSteps DEF Gone, DownCount

LEMMA EndWhat ==
    ASSUME TypeOK, NEW c \in Checks, End(c)
    PROVE  To(c, Idle) /\ check' \in [Checks -> Check] /\ running' \in BOOLEAN
  <1>1. To(c, Idle) /\ check' \in [Checks -> Check]
    BY IdleIsCheck, OneMoves DEF End
  <1>2. running' \in BOOLEAN
    BY DEF End, TypeOK
  <1> QED
    BY <1>1, <1>2

LEMMA MonitorsWriteStatus ==
    ASSUME MonitorsInv, NEW c \in Checks, WriteStatus(c)
    PROVE  MonitorsInv'
  <1> DEFINE me == check[c]
             owed == me.up = (me.was = "down")
  <1>1. me.pc = "write" /\ UNCHANGED <<reach, link, hostAlerts, linkAlerts, overlapped, blind>>
    BY DEF WriteStatus, ghosts
  <1>2. /\ TypeOK /\ me \in Check /\ monitor \in Row
        /\ Untroubled /\ ~Gone => /\ CheckKnows(c) /\ hostAlerts = DownCount(monitor.status)
                                  /\ ~blind => linkAlerts <= DownCount(monitor.iface)
    BY <1>1, AtWork
  <1>3. CASE /\ ~Gone /\ monitor' = [monitor EXCEPT !.status = Words(me.up)]
             /\ To(c, [me EXCEPT !.pc = IF owed THEN "turn" ELSE "poll"])
             /\ UNCHANGED <<running, budget>>
    <2> DEFINE new == [me EXCEPT !.pc = IF owed THEN "turn" ELSE "poll"]
    <2>1. /\ new \in Check /\ new.was = me.was /\ new.iface = me.iface /\ new.up = me.up
          /\ new.pc = IF owed THEN "turn" ELSE "poll"
      BY <1>2 DEF Check
    <2>2. To(c, new)
      BY <1>3
    <2> HIDE DEF new
    <2>3. check' \in [Checks -> Check] /\ check'[c] = new
      BY <1>2, <2>1, <2>2, OneMoves
    <2>4. /\ monitor' \in Row /\ monitor'.status = Words(me.up) /\ monitor'.iface = monitor.iface
      BY <1>2, <1>3 DEF Row, Words
    <2>5. TypeOK'
      BY <1>1, <1>2, <1>3, <2>3, <2>4 DEF TypeOK, Check, Row
    <2>6. me.up \in BOOLEAN
      BY <1>2 DEF Check
    <2>7. ASSUME Untroubled
          PROVE  /\ CheckKnows(c)'
                 /\ new.pc # "turn" => hostAlerts' = DownCount(monitor'.status)
                 /\ ~blind' => linkAlerts' <= DownCount(monitor'.iface)
      <3>1. me.was = monitor.status /\ me.iface = monitor.iface /\ hostAlerts = DownCount(monitor.status)
        BY <1>1, <1>2, <1>3, <2>7 DEF CheckKnows
      <3>2. CheckKnows(c)'
        BY <1>1, <2>1, <2>3, <2>4, <3>1 DEF CheckKnows
      <3>3. ~owed => DownCount(Words(me.up)) = DownCount(me.was)
        BY <2>6 DEF DownCount, Words
      <3>4. new.pc # "turn" => hostAlerts' = DownCount(monitor'.status)
        BY <1>1, <2>1, <2>4, <3>1, <3>3
      <3>5. ~blind' => linkAlerts' <= DownCount(monitor'.iface)
        BY <1>1, <1>2, <1>3, <2>4, <2>7
      <3> QED
        BY <3>2, <3>4, <3>5
    <2> QED
      BY <1>1, <1>3, <2>1, <2>2, <2>5, <2>7, OneCheckSteps
  <1>4. CASE /\ IF Gone THEN UNCHANGED budget ELSE Spend("fault")
             /\ End(c) /\ UNCHANGED monitor
    <2>1. To(c, Idle) /\ check' \in [Checks -> Check] /\ running' \in BOOLEAN
      BY <1>2, <1>4, EndWhat
    <2>2. CASE Gone
      <3>1. TypeOK'
        BY <1>1, <1>2, <1>4, <2>1, <2>2 DEF TypeOK, Check
      <3>2. Gone'
        BY <1>4, <2>2 DEF Gone
      <3> QED
        BY <1>1, <1>4, <2>1, <2>2, <3>1, <3>2, IdleIsCheck, OneCheckSteps
    <2>3. CASE ~Gone
      <3>1. budget' \in [{"change", "click", "fault"} -> Nat] /\ budget'.fault < MaxFaults
        BY <1>2, <1>4, <2>3, SpendFault DEF MonitorsInv
      <3>2. TypeOK'
        BY <1>1, <1>2, <1>4, <2>1, <3>1 DEF TypeOK, Check
      <3> QED
        BY <3>1, <3>2, AfterFault
    <2> QED
      BY <2>2, <2>3
  <1> QED
    BY <1>3, <1>4 DEF WriteStatus

LEMMA MonitorsTurn ==
    ASSUME MonitorsInv, NEW c \in Checks, Turn(c)
    PROVE  MonitorsInv'
  <1> DEFINE me == check[c]
             new == [me EXCEPT !.pc = "poll"]
  <1>1. /\ me.pc = "turn" /\ To(c, new)
        /\ UNCHANGED <<reach, link, monitor, linkAlerts, running, overlapped, blind>>
    BY DEF Turn, ghosts
  <1>2. /\ TypeOK /\ me \in Check /\ monitor \in Row
        /\ Untroubled /\ ~Gone => CheckKnows(c) /\ (~blind => linkAlerts <= DownCount(monitor.iface))
    BY <1>1, AtWork
  <1>3. new \in Check /\ new.was = me.was /\ new.iface = me.iface /\ new.up = me.up /\ new.pc = "poll"
    BY <1>2 DEF Check
  <1> HIDE DEF new
  <1>4. check' \in [Checks -> Check] /\ check'[c] = new
    BY <1>1, <1>2, <1>3, OneMoves
  <1>5. CASE hostAlerts' = (IF me.up THEN 0 ELSE Capped(hostAlerts)) /\ UNCHANGED budget
    <2>1. hostAlerts' \in 0 .. 2
      BY <1>2, <1>5 DEF TypeOK, Capped
    <2>2. TypeOK'
      BY <1>1, <1>2, <1>4, <1>5, <2>1 DEF TypeOK, Check
    <2>3. ASSUME Untroubled, ~Gone'
          PROVE  /\ CheckKnows(c)' /\ hostAlerts' = DownCount(monitor'.status)
                 /\ ~blind' => linkAlerts' <= DownCount(monitor'.iface)
      <3>1. CheckKnows(c) /\ (~blind => linkAlerts <= DownCount(monitor.iface))
        BY <1>1, <1>2, <2>3 DEF Gone
      <3>2. CheckKnows(c)'
        BY <1>1, <1>3, <1>4, <3>1 DEF CheckKnows
      <3>3. me.up \in BOOLEAN /\ me.up = (me.was = "down") /\ monitor.status = Words(me.up) /\ hostAlerts = DownCount(me.was)
        BY <1>1, <1>2, <3>1 DEF CheckKnows, Check
      <3>4. hostAlerts' = DownCount(monitor'.status)
        <4>1. CASE me.up
          BY <1>1, <1>5, <3>3, <4>1 DEF DownCount, Words
        <4>2. CASE ~me.up
          <5>1. me.was # "down" /\ hostAlerts = 0 /\ monitor.status = "down"
            BY <3>3, <4>2 DEF DownCount, Words
          <5> QED
            BY <1>1, <1>5, <4>2, <5>1 DEF DownCount, Capped
        <4> QED
          BY <4>1, <4>2
      <3> QED
        BY <1>1, <3>1, <3>2, <3>4
    <2> QED
      BY <1>1, <1>3, <1>5, <2>2, <2>3, OneCheckSteps
  <1>6. CASE Spend("fault") /\ UNCHANGED hostAlerts
    <2>1. budget' \in [{"change", "click", "fault"} -> Nat] /\ budget'.fault < MaxFaults
      BY <1>2, <1>6, SpendFault DEF MonitorsInv
    <2>2. TypeOK'
      BY <1>1, <1>2, <1>4, <1>6, <2>1 DEF TypeOK, Check
    <2> QED
      BY <2>1, <2>2, AfterFault
  <1> QED
    BY <1>5, <1>6 DEF Turn

LEMMA MonitorsPoll ==
    ASSUME MonitorsInv, NEW c \in Checks, Poll(c)
    PROVE  MonitorsInv'
  <1> DEFINE me == check[c]
  <1>1. /\ me.pc = "poll"
        /\ UNCHANGED <<reach, link, monitor, hostAlerts, linkAlerts, running, overlapped, budget>>
    BY DEF Poll
  <1>2. PICK seen \in {"none"} \cup (IF reach THEN {"down", Words(link)} ELSE {}) :
            /\ To(c, [me EXCEPT !.pc = "report", !.seen = seen])
            /\ blind' = (blind \/ seen # Words(link))
    BY DEF Poll
  <1> DEFINE mid == [me EXCEPT !.pc = "report"]
             new == [mid EXCEPT !.seen = seen]
  <1>3. /\ TypeOK /\ me \in Check /\ monitor \in Row
        /\ Untroubled /\ ~Gone => /\ CheckKnows(c) /\ hostAlerts = DownCount(monitor.status)
                                  /\ ~blind => linkAlerts <= DownCount(monitor.iface)
    BY <1>1, AtWork
  <1>4. seen \in {"none", "up", "down"} /\ To(c, new)
    BY <1>2 DEF Words
  <1>5. mid \in Check /\ mid.was = me.was /\ mid.iface = me.iface /\ mid.pc = "report"
    BY <1>3 DEF Check
  <1> HIDE DEF mid
  <1>6. new \in Check /\ new.iface = me.iface /\ new.pc = "report" /\ new.seen = seen
    BY <1>4, <1>5 DEF Check
  <1> HIDE DEF new
  <1>7. check' \in [Checks -> Check] /\ check'[c] = new
    BY <1>3, <1>4, <1>6, OneMoves
  <1>8. blind \in BOOLEAN /\ blind' \in BOOLEAN /\ (~blind' => ~blind /\ seen # "none")
    BY <1>2, <1>3 DEF TypeOK, Words
  <1>9. TypeOK'
    BY <1>1, <1>3, <1>7, <1>8 DEF TypeOK, Check
  <1>10. Untroubled /\ ~Gone' => CheckKnows(c)'
    BY <1>1, <1>3, <1>6, <1>7, <1>8 DEF CheckKnows, Gone
  <1> QED
    BY <1>1, <1>3, <1>4, <1>6, <1>8, <1>9, <1>10, OneCheckSteps DEF Gone, DownCount

LEMMA MonitorsReport ==
    ASSUME MonitorsInv, NEW c \in Checks, Report(c)
    PROVE  MonitorsInv'
  <1> DEFINE me == check[c]
             moved == me.seen # "none" /\ me.iface # "none" /\ me.seen # me.iface
  <1>1. me.pc = "report" /\ End(c) /\ UNCHANGED <<reach, link, hostAlerts, overlapped, blind>>
    BY DEF Report, ghosts
  <1>2. /\ TypeOK /\ me \in Check /\ monitor \in Row
        /\ Untroubled /\ ~Gone => /\ CheckKnows(c) /\ hostAlerts = DownCount(monitor.status)
                                  /\ ~blind => linkAlerts <= DownCount(monitor.iface)
    BY <1>1, AtWork
  <1>3. PICK alerted \in BOOLEAN, saved \in BOOLEAN :
            /\ IF alerted /\ saved THEN UNCHANGED budget ELSE Spend("fault")
            /\ linkAlerts' = IF ~moved \/ ~alerted THEN linkAlerts
                             ELSE IF me.seen = "up" THEN 0 ELSE Capped(linkAlerts)
            /\ monitor' = IF saved /\ ~Gone THEN [monitor EXCEPT !.iface = me.seen] ELSE monitor
    BY DEF Report
  <1>4. To(c, Idle) /\ check' \in [Checks -> Check] /\ running' \in BOOLEAN
    BY <1>1, <1>2, EndWhat
  <1>5. linkAlerts \in 0 .. 2 /\ linkAlerts' \in 0 .. 2
    BY <1>2, <1>3 DEF TypeOK, Capped
  <1>6. /\ monitor' \in Row /\ monitor'.status = monitor.status
        /\ saved /\ ~Gone => monitor'.iface = me.seen
    BY <1>2, <1>3 DEF Row, Check
  <1>7. CASE alerted /\ saved
    <2>1. UNCHANGED budget
      BY <1>3, <1>7
    <2>2. TypeOK'
      BY <1>1, <1>2, <1>4, <1>5, <1>6, <2>1 DEF TypeOK, Check, Row
    <2>3. ASSUME Untroubled, ~Gone'
          PROVE  /\ hostAlerts' = DownCount(monitor'.status)
                 /\ ~blind' => linkAlerts' <= DownCount(monitor'.iface)
      <3>1. ~Gone /\ CheckKnows(c) /\ hostAlerts = DownCount(monitor.status) /\ monitor'.iface = me.seen
        BY <1>2, <1>6, <1>7, <2>3 DEF Gone
      <3>2. ASSUME ~blind
            PROVE  linkAlerts' <= DownCount(me.seen)
        <4>1. me.iface = monitor.iface /\ me.seen # "none" /\ linkAlerts <= DownCount(me.iface)
          BY <1>1, <1>2, <2>3, <3>1, <3>2 DEF CheckKnows
        <4>2. me.seen \in {"up", "down"} /\ me.iface \in {"none", "up", "down"}
          BY <1>2, <4>1 DEF Check
        <4>3. CASE me.iface = "none" \/ me.iface = me.seen
          BY <1>3, <1>5, <4>1, <4>2, <4>3 DEF DownCount
        <4>4. CASE me.iface # "none" /\ me.iface # me.seen
          BY <1>3, <1>5, <1>7, <4>1, <4>2, <4>4 DEF DownCount, Capped
        <4> QED
          BY <4>3, <4>4
      <3> QED
        BY <1>1, <1>6, <3>1, <3>2
    <2> QED
      BY <1>1, <1>4, <2>1, <2>2, <2>3, IdleIsCheck, OneCheckSteps
  <1>8. CASE ~(alerted /\ saved)
    <2>1. budget' \in [{"change", "click", "fault"} -> Nat] /\ budget'.fault < MaxFaults
      BY <1>2, <1>3, <1>8, SpendFault DEF MonitorsInv
    <2>2. TypeOK'
      BY <1>1, <1>2, <1>4, <1>5, <1>6, <2>1 DEF TypeOK, Check, Row
    <2> QED
      BY <2>1, <2>2, AfterFault
  <1> QED
    BY <1>7, <1>8

LEMMA MonitorsAround ==
    MonitorsInv /\ (RemoveMonitor \/ Restart \/ FlipDevice \/ FlipLink \/ UNCHANGED vars) => MonitorsInv'
  <1> SUFFICES ASSUME MonitorsInv, RemoveMonitor \/ Restart \/ FlipDevice \/ FlipLink \/ UNCHANGED vars PROVE MonitorsInv'
    OBVIOUS
  <1>1. TypeOK /\ budget.fault <= MaxFaults /\ monitor \in Row
    BY TypeParts DEF MonitorsInv
  <1>2. CASE RemoveMonitor
    <2>1. budget' \in [{"change", "click", "fault"} -> Nat] /\ budget'.fault = budget.fault
      BY <1>1, <1>2, SpendOther DEF RemoveMonitor
    <2>2. /\ UNCHANGED <<reach, link, hostAlerts, linkAlerts, check, running, overlapped, blind>>
          /\ monitor' \in Row /\ monitor'.status = "gone"
      BY <1>1, <1>2 DEF RemoveMonitor, ghosts, Row
    <2>3. TypeOK'
      BY <1>1, <2>1, <2>2 DEF TypeOK, Row
    <2>4. OneCheck' /\ Knows'
      BY <2>1, <2>2 DEF MonitorsInv, OneCheck, Knows, Gone, Untroubled
    <2> QED
      BY <1>1, <2>1, <2>3, <2>4 DEF MonitorsInv
  <1>3. CASE Restart
    <2>1. budget' \in [{"change", "click", "fault"} -> Nat] /\ budget'.fault < MaxFaults
      BY <1>1, <1>3, SpendFault DEF Restart
    <2>2. check' \in [Checks -> Check]
      BY <1>3, IdleIsCheck DEF Restart
    <2>3. running' = FALSE /\ UNCHANGED <<reach, link, monitor, hostAlerts, linkAlerts, overlapped, blind>>
      BY <1>3 DEF Restart, ghosts
    <2>4. TypeOK'
      BY <1>1, <2>1, <2>2, <2>3 DEF TypeOK, Check
    <2> QED
      BY <2>1, <2>4, AfterFault
  <1>4. CASE FlipDevice \/ FlipLink \/ UNCHANGED vars
    <2>1. budget' \in [{"change", "click", "fault"} -> Nat] /\ budget'.fault = budget.fault
      BY <1>1, <1>4, SpendOther DEF FlipDevice, FlipLink, vars, TypeOK
    <2>2. UNCHANGED <<monitor, hostAlerts, linkAlerts, check, running, overlapped, blind>>
      BY <1>4 DEF FlipDevice, FlipLink, vars, ghosts
    <2>3. reach' \in BOOLEAN /\ link' \in BOOLEAN
      BY <1>1, <1>4 DEF FlipDevice, FlipLink, vars, TypeOK
    <2>4. TypeOK'
      BY <1>1, <2>1, <2>2, <2>3 DEF TypeOK
    <2>5. OneCheck' /\ Knows'
      BY <2>1, <2>2 DEF MonitorsInv, OneCheck, Knows, Gone, Untroubled, CheckKnows, DownCount
    <2> QED
      BY <1>1, <2>1, <2>4, <2>5 DEF MonitorsInv
  <1> QED
    BY <1>2, <1>3, <1>4

LEMMA MonitorsStep == MonitorsInv /\ [Next]_vars => MonitorsInv'
  <1> SUFFICES ASSUME MonitorsInv, [Next]_vars PROVE MonitorsInv'
    OBVIOUS
  <1>1. ASSUME NEW c \in Checks, Step(c) PROVE MonitorsInv'
    BY <1>1, MonitorsProbe, MonitorsWriteStatus, MonitorsTurn, MonitorsPoll, MonitorsReport DEF Step
  <1> QED
    BY <1>1, MonitorsBegin, MonitorsAround DEF Next

\* One check at a time, which knows what the row says, until checks overlap or
\* something fails.
THEOREM MonitorsInvariant == Spec => []MonitorsInv
  BY MonitorsInit, MonitorsStep, PTL DEF Spec

\* As long as nothing failed and no checks overlapped, the open alerts of a
\* monitor say what its status and its last poll say: one when it is down and
\* none when it is not, at most one for a link seen down and none for another.
THEOREM AlertsAgree == Spec => []AlertsMatch
  <1>1. MonitorsInv => AlertsMatch
    <2> SUFFICES ASSUME MonitorsInv PROVE AlertsMatch
      OBVIOUS
    <2>1. AlertMatchesStatus
      BY DEF MonitorsInv, Knows, AlertMatchesStatus, DownCount
    <2>2. LinkAlertMatches
      BY DEF MonitorsInv, Knows, LinkAlertMatches, DownCount
    <2> QED
      BY <2>1, <2>2 DEF MonitorsInv, AlertsMatch
  <1> QED
    BY <1>1, MonitorsInvariant, PTL

(***************************************************************************)
(* The anomaly feed                                                        *)
(*                                                                         *)
(* FindInv holds of every state of Findings: it is typed, the windows a    *)
(* just scan looks at are the declared ones, an alert is of one finding    *)
(* wherever it is referred to, and a finding that was never tangled has    *)
(* one handler, which knows what its row says.  From that, FindingsHonest. *)
(***************************************************************************)
FindingRow == [key : Keys, verdict : Verdict, alert : Nat, recent : BOOLEAN]
RaisedRow == [active : BOOLEAN, told : BOOLEAN, escalated : BOOLEAN]
ScanRow == [pc : {"idle", "windows", "keep copy", "store row", "raise", "link"}, found : SUBSET Keys,
            windows : SUBSET Keys, row : Nat, alert : Nat, just : BOOLEAN]
ReviewRow == [pc : {"idle", "judge", "raise", "link", "tell", "resolve"},
              kind : {"none", "confirmed", "dismissed"}, row : Nat, alert : Nat]

\* The scan has a row in hand that it stored.
Holds == scan.pc \in {"raise", "link"}

FindTyped ==
    /\ rows \in Seq(FindingRow) /\ raised \in Seq(RaisedRow)
    /\ scan \in ScanRow /\ review \in [Reviews -> ReviewRow]
    /\ declared \subseteq Keys /\ clearing \in BOOLEAN
    /\ cache \in [fresh : BOOLEAN, keys : SUBSET Keys, old : BOOLEAN]
    /\ \A i \in 1 .. Len(rows) : rows[i].alert <= Len(raised)
    /\ Holds => scan.row \in 1 .. Len(rows)
    /\ scan.pc = "link" => scan.alert \in 1 .. Len(raised)
    /\ \A k \in Reviews :
          /\ review[k].row <= Len(rows) /\ review[k].alert <= Len(raised)
          /\ review[k].pc = "idle" <=> review[k].row = 0
          /\ review[k].pc = "idle" => review[k] = NoReview
          /\ review[k].pc # "idle" => review[k].kind # "none"
          /\ review[k].pc \in {"link", "tell", "resolve"} => review[k].alert # 0

\* While a scan is just no declaration is on its way, and it knows them all; so
\* does the copy, unless a declaration overtook the query that filled it.
JustInv ==
    /\ unjust = {}
    /\ scan.pc # "idle" /\ scan.just => ~clearing /\ (scan.pc # "windows" => scan.windows = declared)
    /\ cache.fresh /\ ~cache.old /\ ~clearing => cache.keys = declared

\* Who knows an alert by its number, on behalf of finding i.
Refers(i, a) ==
    \/ i \in 1 .. Len(rows) /\ rows[i].alert = a
    \/ scan.pc = "link" /\ scan.row = i /\ scan.alert = a
    \/ \E k \in Reviews : review[k].row = i /\ review[k].alert = a
AlertsApart == \A i, j \in 1 .. Len(rows), a \in 1 .. Len(raised) : Refers(i, a) /\ Refers(j, a) => i = j

\* What a finding says that nobody handles.
Agrees(i) ==
    LET a == rows[i].alert
    IN  /\ rows[i].verdict = "dismissed" => a = 0 \/ ~raised[a].active
        /\ rows[i].verdict = "confirmed" => a # 0 /\ raised[a].told
        /\ rows[i].verdict = "unreviewed" /\ a # 0 => ~raised[a].told

\* What the scan and a review know of the finding they handle.
ScanKnows(i) ==
    /\ rows[i].verdict = "unreviewed" /\ rows[i].alert = 0
    /\ scan.pc = "link" => ~raised[scan.alert].told
ReviewKnows(k, i) ==
    /\ review[k].pc = "judge" => rows[i].alert = review[k].alert /\ Agrees(i)
    /\ review[k].pc \in {"raise", "link"} => rows[i].verdict = "confirmed" /\ rows[i].alert = 0
    /\ review[k].pc = "tell" => rows[i].verdict = "confirmed" /\ rows[i].alert = review[k].alert
    /\ review[k].pc = "resolve" => rows[i].verdict = "dismissed" /\ rows[i].alert = review[k].alert

\* A finding that was never tangled has one handler, which knows it.
Minded(i) ==
    i \notin tangled =>
        /\ \A k, l \in Reviews : review[k].row = i /\ review[l].row = i => k = l
        /\ \A k \in Reviews : review[k].row = i => ReviewKnows(k, i) /\ ~(Holds /\ scan.row = i)
        /\ Holds /\ scan.row = i => ScanKnows(i)
        /\ ~Handled(i) => Agrees(i)

Owned(a) ==
    \/ \E i \in 1 .. Len(rows) : rows[i].alert = a
    \/ scan.pc = "link" /\ scan.alert = a
    \/ \E k \in Reviews : review[k].pc = "link" /\ review[k].alert = a
NoneLost == tangled = {} => \A a \in 1 .. Len(raised) : Owned(a)

AlertsInv == AlertsApart /\ (\A i \in 1 .. Len(rows) : Minded(i)) /\ NoneLost
FindInv == FindTyped /\ JustInv /\ OneOpenFinding /\ AlertsInv

LEMMA FindingsTypes ==
    ASSUME FindTyped
    PROVE  /\ Len(rows) \in Nat /\ DOMAIN rows = 1 .. Len(rows)
           /\ Len(raised) \in Nat /\ DOMAIN raised = 1 .. Len(raised)
           /\ \A i \in 1 .. Len(rows) : rows[i] \in FindingRow /\ rows[i].alert \in 0 .. Len(raised)
           /\ \A a \in 1 .. Len(raised) : raised[a] \in RaisedRow
           /\ \A k \in Reviews : review[k] \in ReviewRow
                                 /\ review[k].row \in 0 .. Len(rows) /\ review[k].alert \in 0 .. Len(raised)
  <1>1. rows \in Seq(FindingRow) /\ raised \in Seq(RaisedRow) /\ review \in [Reviews -> ReviewRow]
    BY DEF FindTyped
  <1>2. /\ Len(rows) \in Nat /\ DOMAIN rows = 1 .. Len(rows)
        /\ Len(raised) \in Nat /\ DOMAIN raised = 1 .. Len(raised)
    BY <1>1
  <1>3. \A i \in 1 .. Len(rows) : rows[i] \in FindingRow
    BY <1>1, <1>2
  <1>4. \A i \in 1 .. Len(rows) : rows[i].alert \in Nat /\ rows[i].alert <= Len(raised)
    BY <1>3 DEF FindTyped, FindingRow
  <1>5. \A a \in 1 .. Len(raised) : raised[a] \in RaisedRow
    BY <1>1, <1>2
  <1>6. \A k \in Reviews : /\ review[k] \in ReviewRow /\ review[k].row \in Nat /\ review[k].alert \in Nat
                           /\ review[k].row <= Len(rows) /\ review[k].alert <= Len(raised)
    BY <1>1 DEF FindTyped, ReviewRow
  <1> QED
    BY <1>2, <1>3, <1>4, <1>5, <1>6

\* One element of a sequence is replaced.
LEMMA OneReplaced ==
    ASSUME NEW S, NEW q \in Seq(S), NEW i \in 1 .. Len(q), NEW e \in S
    PROVE  /\ [q EXCEPT ![i] = e] \in Seq(S) /\ Len([q EXCEPT ![i] = e]) = Len(q)
           /\ [q EXCEPT ![i] = e][i] = e
           /\ \A j \in 1 .. Len(q) : j # i => [q EXCEPT ![i] = e][j] = q[j]
  OBVIOUS

\* One is appended.
LEMMA OneAppended ==
    ASSUME NEW S, NEW q \in Seq(S), NEW e \in S
    PROVE  /\ Append(q, e) \in Seq(S) /\ Len(Append(q, e)) = Len(q) + 1 /\ Len(q) \in Nat
           /\ Append(q, e)[Len(q) + 1] = e
           /\ \A j \in 1 .. Len(q) : Append(q, e)[j] = q[j]
  OBVIOUS

LEMMA FindInitHolds == FindInit => FindInv
  <1> SUFFICES ASSUME FindInit PROVE FindInv
    OBVIOUS
  <1> USE FindingsAssumption
  <1>1. /\ rows = <<>> /\ raised = <<>> /\ Len(rows) = 0 /\ Len(raised) = 0
        /\ rows \in Seq(FindingRow) /\ raised \in Seq(RaisedRow)
    BY DEF FindInit
  <1>2. FindTyped
    <2>1. scan \in ScanRow /\ scan.pc = "idle"
      BY DEF FindInit, NoScan, ScanRow
    <2>2. NoReview \in ReviewRow /\ NoReview.row = 0 /\ NoReview.alert = 0 /\ NoReview.pc = "idle"
      BY DEF NoReview, ReviewRow
    <2>3. review \in [Reviews -> ReviewRow] /\ \A k \in Reviews : review[k] = NoReview
      BY <2>2 DEF FindInit
    <2>4. /\ declared \subseteq Keys /\ clearing \in BOOLEAN
          /\ cache \in [fresh : BOOLEAN, keys : SUBSET Keys, old : BOOLEAN]
      BY DEF FindInit, NoCopy
    <2> QED
      BY <1>1, <2>1, <2>2, <2>3, <2>4 DEF FindTyped, Holds
  <1>3. JustInv
    BY DEF FindInit, JustInv, NoScan, NoCopy
  <1>4. OneOpenFinding
    BY <1>1 DEF OneOpenFinding
  <1>5. AlertsInv
    BY <1>1 DEF AlertsInv, AlertsApart, NoneLost
  <1> QED
    BY <1>2, <1>3, <1>4, <1>5 DEF FindInv

(***************************************************************************)
(* Steps that touch no alert.                                              *)
(***************************************************************************)
\* The rows say the same of their verdicts and alerts, and the scan holds the
\* same row, or none before and after.
SameRows == Len(rows') = Len(rows) /\ \A i \in 1 .. Len(rows) : rows'[i].verdict = rows[i].verdict
                                                                /\ rows'[i].alert = rows[i].alert
SameHold == \/ scan.pc \notin {"raise", "link"} /\ scan'.pc \notin {"raise", "link"}
            \/ scan'.pc = scan.pc /\ scan'.row = scan.row /\ scan'.alert = scan.alert

\* A finding nobody touches is as it was: its row, its handlers, what they refer to.
Untouched(j) ==
    /\ rows'[j].verdict = rows[j].verdict /\ rows'[j].alert = rows[j].alert
    /\ \A k \in Reviews : review[k].row = j \/ review'[k].row = j => review'[k] = review[k]
    /\ (Holds /\ scan.row = j) <=> (Holds' /\ scan'.row = j)
    /\ Holds /\ scan.row = j => scan'.pc = scan.pc /\ scan'.alert = scan.alert
    /\ j \in tangled => j \in tangled'
    /\ \A a \in 1 .. Len(raised) : Refers(j, a) => raised'[a].told = raised[a].told
                                                /\ (raised'[a].active => raised[a].active)

LEMMA Elsewhere ==
    ASSUME FindTyped, NEW j \in 1 .. Len(rows), Minded(j), Untouched(j)
    PROVE  Minded(j)'
  <1> SUFFICES ASSUME j \notin tangled' PROVE Minded(j)'
    BY DEF Minded
  <1>1. j \notin tangled
    BY DEF Untouched
  <1>2. rows[j].alert # 0 => /\ raised'[rows[j].alert].told = raised[rows[j].alert].told
                             /\ raised'[rows[j].alert].active => raised[rows[j].alert].active
    <2>1. rows[j].alert \in 0 .. Len(raised) /\ Len(raised) \in Nat
      BY FindingsTypes
    <2> QED
      BY <2>1 DEF Untouched, Refers
  <1>3. Agrees(j) => Agrees(j)'
    BY <1>2 DEF Agrees, Untouched
  <1>4. \A k \in Reviews : review'[k].row = j => review[k].row = j /\ review'[k] = review[k]
    BY DEF Untouched
  <1>5. ASSUME NEW k \in Reviews, review'[k].row = j
        PROVE  ReviewKnows(k, j)' /\ ~(Holds /\ scan.row = j)'
    <2>1. ReviewKnows(k, j) /\ ~(Holds /\ scan.row = j)
      BY <1>1, <1>4, <1>5 DEF Minded
    <2>2. ReviewKnows(k, j)'
      BY <1>3, <1>4, <1>5, <2>1 DEF ReviewKnows, Untouched
    <2> QED
      BY <2>1, <2>2 DEF Untouched
  <1>6. ASSUME Holds', scan'.row = j
        PROVE  ScanKnows(j)'
    <2>1. Holds /\ scan.row = j /\ scan'.pc = scan.pc /\ scan'.alert = scan.alert
      BY <1>6 DEF Untouched
    <2>2. ScanKnows(j)
      BY <1>1, <2>1 DEF Minded
    <2>3. scan.pc = "link" => scan.alert \in 1 .. Len(raised) /\ Refers(j, scan.alert)
      BY <2>1 DEF FindTyped, Refers
    <2>4. scan.pc = "link" => raised'[scan.alert].told = raised[scan.alert].told
      BY <2>3 DEF Untouched
    <2> QED
      BY <2>1, <2>2, <2>4 DEF ScanKnows, Untouched
  <1>7. Handled(j)' <=> Handled(j)
    BY DEF Handled, Untouched, Holds
  <1>8. ~Handled(j)' => Agrees(j)'
    BY <1>1, <1>3, <1>7 DEF Minded
  <1>9. \A k, l \in Reviews : review'[k].row = j /\ review'[l].row = j => k = l
    BY <1>1, <1>4 DEF Minded
  <1> QED
    BY <1>5, <1>6, <1>8, <1>9 DEF Minded

\* Only a new alert is referred to for the first time, and on behalf of one finding.
LEMMA StaysApart ==
    ASSUME FindTyped, AlertsApart, NEW i,
           \A j \in 1 .. Len(rows'), a \in 1 .. Len(raised') : Refers(j, a)' =>
               \/ j \in 1 .. Len(rows) /\ a \in 1 .. Len(raised) /\ Refers(j, a)
               \/ j = i /\ a \notin 1 .. Len(raised)
    PROVE  AlertsApart'
  BY DEF AlertsApart

LEMMA AlertsRest ==
    ASSUME FindTyped, AlertsInv, UNCHANGED <<raised, review, tangled>>, SameRows, SameHold
    PROVE  AlertsInv'
  <1>1. \A j \in 1 .. Len(rows) : Untouched(j)
    BY DEF SameRows, SameHold, Untouched, Holds
  <1>2. AlertsApart'
    <2>1. \A i \in 1 .. Len(rows), a \in 1 .. Len(raised) : Refers(i, a)' => Refers(i, a)
      BY DEF SameRows, SameHold, Refers
    <2> QED
      BY <2>1 DEF AlertsInv, AlertsApart, SameRows
  <1>3. NoneLost'
    BY DEF AlertsInv, NoneLost, Owned, SameRows, SameHold
  <1> QED
    BY <1>1, <1>2, <1>3, Elsewhere DEF AlertsInv, SameRows

\* No finding becomes one that waits.
LEMMA OpenRests ==
    ASSUME OneOpenFinding, Len(rows') = Len(rows),
           \A i \in 1 .. Len(rows) : rows'[i].key = rows[i].key
               /\ (rows'[i].verdict = "unreviewed" => rows[i].verdict = "unreviewed") /\ (rows'[i].recent => rows[i].recent)
    PROVE  OneOpenFinding'
  BY DEF OneOpenFinding

(***************************************************************************)
(* The scan.                                                               *)
(***************************************************************************)
LEMMA FindScan ==
    ASSUME FindInv, NEW found \in SUBSET Keys, Scan(found)
    PROVE  FindInv'
  <1>1. FindTyped /\ JustInv /\ OneOpenFinding /\ AlertsInv
    BY DEF FindInv
  <1>2. /\ UNCHANGED <<rows, raised, review, declared, cache, clearing, tangled, unjust>>
        /\ scan' = [NoScan EXCEPT !.pc = "windows", !.found = found, !.just = ~clearing] /\ scan = NoScan
    BY DEF Scan
  <1>3. SameRows /\ SameHold
    BY <1>2 DEF SameRows, SameHold, NoScan
  <1>4. FindTyped'
    BY <1>1, <1>2 DEF FindTyped, ScanRow, NoScan, Holds
  <1>5. JustInv'
    BY <1>1, <1>2 DEF JustInv, NoScan
  <1>6. OneOpenFinding'
    BY <1>1, <1>2 DEF OneOpenFinding
  <1> QED
    BY <1>1, <1>2, <1>3, <1>4, <1>5, <1>6, AlertsRest DEF FindInv

LEMMA FindLook ==
    ASSUME FindInv, Look
    PROVE  FindInv'
  <1>1. FindTyped /\ JustInv /\ OneOpenFinding /\ AlertsInv
    BY DEF FindInv
  <1>2. /\ UNCHANGED <<rows, raised, review, declared, cache, clearing, tangled, unjust>>
        /\ scan.pc = "windows"
        /\ \/ /\ cache.fresh
              /\ scan' = [scan EXCEPT !.pc = "store row", !.windows = cache.keys, !.just = @ /\ ~cache.old]
           \/ scan' = [scan EXCEPT !.pc = "keep copy", !.windows = declared]
           \/ scan' = [scan EXCEPT !.pc = "keep copy", !.just = FALSE]
    BY DEF Look
  <1>0. scan \in ScanRow /\ cache \in [fresh : BOOLEAN, keys : SUBSET Keys, old : BOOLEAN] /\ declared \subseteq Keys
    BY <1>1 DEF FindTyped
  <1>3. SameRows /\ SameHold
    <2>1. scan'.pc \in {"store row", "keep copy"}
      BY <1>0, <1>2 DEF ScanRow
    <2> QED
      BY <1>2, <2>1 DEF SameRows, SameHold
  <1>4. FindTyped'
    <2>1. scan' \in ScanRow /\ scan'.pc \in {"store row", "keep copy"}
      BY <1>0, <1>2 DEF ScanRow
    <2> QED
      BY <1>1, <1>2, <2>1 DEF FindTyped, Holds
  <1>5. JustInv'
    BY <1>0, <1>1, <1>2 DEF JustInv, ScanRow
  <1>6. OneOpenFinding'
    BY <1>1, <1>2 DEF OneOpenFinding
  <1> QED
    BY <1>1, <1>2, <1>3, <1>4, <1>5, <1>6, AlertsRest DEF FindInv

LEMMA FindKeepCopy ==
    ASSUME FindInv, KeepCopy
    PROVE  FindInv'
  <1>1. FindTyped /\ JustInv /\ OneOpenFinding /\ AlertsInv
    BY DEF FindInv
  <1>2. /\ UNCHANGED <<rows, raised, review, declared, clearing, tangled, unjust>>
        /\ scan.pc = "keep copy" /\ scan' = [scan EXCEPT !.pc = "store row"]
        /\ cache' = [fresh |-> TRUE, keys |-> scan.windows, old |-> ~scan.just]
    BY DEF KeepCopy
  <1>3. /\ scan' \in ScanRow /\ scan'.pc = "store row" /\ scan'.just = scan.just /\ scan'.windows = scan.windows
        /\ scan.windows \subseteq Keys /\ scan.just \in BOOLEAN
    BY <1>1, <1>2 DEF FindTyped, ScanRow
  <1>4. FindTyped'
    BY <1>1, <1>2, <1>3 DEF FindTyped, Holds
  <1>5. JustInv'
    BY <1>1, <1>2, <1>3 DEF JustInv
  <1>6. OneOpenFinding' /\ SameRows /\ SameHold
    BY <1>1, <1>2, <1>3 DEF OneOpenFinding, SameRows, SameHold
  <1> QED
    BY <1>1, <1>2, <1>4, <1>5, <1>6, AlertsRest DEF FindInv

LEMMA FindScanEnds ==
    ASSUME FindInv, ScanEnds
    PROVE  FindInv'
  <1>1. FindTyped /\ JustInv /\ OneOpenFinding /\ AlertsInv
    BY DEF FindInv
  <1>2. /\ UNCHANGED <<rows, raised, review, declared, cache, clearing, tangled, unjust>>
        /\ scan.pc = "store row" /\ scan' = NoScan
    BY DEF ScanEnds
  <1>3. scan' \in ScanRow /\ scan'.pc = "idle"
    BY <1>2 DEF ScanRow, NoScan
  <1>4. FindTyped'
    BY <1>1, <1>2, <1>3 DEF FindTyped, Holds
  <1>5. JustInv'
    BY <1>1, <1>2, <1>3 DEF JustInv
  <1>6. OneOpenFinding' /\ SameRows /\ SameHold
    BY <1>1, <1>2, <1>3 DEF OneOpenFinding, SameRows, SameHold
  <1> QED
    BY <1>1, <1>2, <1>4, <1>5, <1>6, AlertsRest DEF FindInv

(***************************************************************************)
(* Windows, time.                                                          *)
(***************************************************************************)
LEMMA FindDeclare ==
    ASSUME FindInv, NEW keys \in SUBSET Keys, Declare(keys)
    PROVE  FindInv'
  <1>1. FindTyped /\ JustInv /\ OneOpenFinding /\ AlertsInv
    BY DEF FindInv
  <1>2. /\ UNCHANGED <<rows, raised, review, cache, tangled, unjust>>
        /\ declared' = keys /\ clearing' = TRUE /\ scan' = [scan EXCEPT !.just = FALSE]
    BY DEF Declare
  <1>3. /\ scan' \in ScanRow /\ scan'.pc = scan.pc /\ scan'.just = FALSE
        /\ scan'.row = scan.row /\ scan'.alert = scan.alert
    BY <1>1, <1>2 DEF FindTyped, ScanRow
  <1>4. FindTyped'
    BY <1>1, <1>2, <1>3 DEF FindTyped, Holds
  <1>5. JustInv'
    BY <1>1, <1>2, <1>3 DEF JustInv
  <1>6. OneOpenFinding' /\ SameRows /\ SameHold
    BY <1>1, <1>2, <1>3 DEF OneOpenFinding, SameRows, SameHold
  <1> QED
    BY <1>1, <1>2, <1>4, <1>5, <1>6, AlertsRest DEF FindInv

\* The copy is dropped, or expires.
LEMMA FindCopyGoes ==
    ASSUME FindInv, DropCopy \/ CopyExpires
    PROVE  FindInv'
  <1>1. FindTyped /\ JustInv /\ OneOpenFinding /\ AlertsInv
    BY DEF FindInv
  <1>2. /\ UNCHANGED <<rows, raised, scan, review, declared, tangled, unjust>>
        /\ cache' = NoCopy /\ (clearing' = clearing \/ clearing' = FALSE)
    BY DEF DropCopy, CopyExpires
  <1>4. FindTyped'
    BY <1>1, <1>2 DEF FindTyped, Holds, NoCopy
  <1>5. JustInv'
    BY <1>1, <1>2 DEF JustInv, NoCopy
  <1>6. OneOpenFinding' /\ SameRows /\ SameHold
    BY <1>1, <1>2 DEF OneOpenFinding, SameRows, SameHold
  <1> QED
    BY <1>1, <1>2, <1>4, <1>5, <1>6, AlertsRest DEF FindInv

LEMMA FindSixHours ==
    ASSUME FindInv, NEW i \in 1 .. Len(rows), SixHoursPass(i)
    PROVE  FindInv'
  <1>1. FindTyped /\ JustInv /\ OneOpenFinding /\ AlertsInv
    BY DEF FindInv
  <1>2. /\ UNCHANGED <<raised, scan, review, declared, cache, clearing, tangled, unjust>>
        /\ rows' = [rows EXCEPT ![i].recent = FALSE]
    BY DEF SixHoursPass
  <1>3. /\ rows' \in Seq(FindingRow) /\ Len(rows') = Len(rows)
        /\ \A j \in 1 .. Len(rows) : /\ rows'[j].key = rows[j].key /\ rows'[j].verdict = rows[j].verdict
                                     /\ rows'[j].alert = rows[j].alert /\ (rows'[j].recent => rows[j].recent)
    <2>1. rows \in Seq(FindingRow) /\ rows[i] \in FindingRow
      BY <1>1, FindingsTypes DEF FindTyped
    <2>2. PICK e : e = [rows[i] EXCEPT !.recent = FALSE]
      OBVIOUS
    <2>3. /\ e \in FindingRow /\ e.key = rows[i].key /\ e.verdict = rows[i].verdict
          /\ e.alert = rows[i].alert /\ ~e.recent
      BY <2>1, <2>2 DEF FindingRow
    <2>4. rows' = [rows EXCEPT ![i] = e]
      BY <1>2, <2>2
    <2> QED
      BY <2>1, <2>3, <2>4, OneReplaced
  <1>4. FindTyped'
    BY <1>1, <1>2, <1>3 DEF FindTyped, Holds
  <1>5. JustInv'
    BY <1>1, <1>2 DEF JustInv
  <1>6. OneOpenFinding' /\ SameRows /\ SameHold
    BY <1>1, <1>2, <1>3, OpenRests DEF SameRows, SameHold
  <1> QED
    BY <1>1, <1>2, <1>4, <1>5, <1>6, AlertsRest DEF FindInv

(***************************************************************************)
(* What the scan stores and raises.                                        *)
(***************************************************************************)
LEMMA FindStoreRow ==
    ASSUME FindInv, NEW key \in Keys, StoreRow(key)
    PROVE  FindInv'
  <1>1. FindTyped /\ JustInv /\ OneOpenFinding /\ AlertsInv
    BY DEF FindInv
  <1>2. UNCHANGED <<raised, review, declared, cache, clearing, tangled>> /\ scan.pc = "store row" /\ scan \in ScanRow
    BY <1>1 DEF StoreRow, FindTyped
  <1>3. CASE key \in scan.windows \/ Duplicate(key)
    <2>1. scan' = [scan EXCEPT !.found = @ \ {key}] /\ UNCHANGED <<rows, unjust>>
      BY <1>3 DEF StoreRow
    <2>2. /\ scan' \in ScanRow /\ scan'.pc = "store row" /\ scan'.just = scan.just /\ scan'.windows = scan.windows
      BY <1>2, <2>1 DEF ScanRow
    <2>3. FindTyped'
      BY <1>1, <1>2, <2>1, <2>2 DEF FindTyped, Holds
    <2>4. JustInv' /\ OneOpenFinding' /\ SameRows /\ SameHold
      BY <1>1, <1>2, <2>1, <2>2 DEF JustInv, OneOpenFinding, SameRows, SameHold
    <2> QED
      BY <1>1, <1>2, <2>3, <2>4, AlertsRest DEF FindInv
  <1>4. CASE key \notin scan.windows /\ ~Duplicate(key)
    <2>1. PICK n \in Nat : n = Len(rows) + 1 /\ n \notin 0 .. Len(rows) /\ n \notin 1 .. Len(rows) /\ 1 .. n = (1 .. Len(rows)) \cup {n}
      <3>1. Len(rows) \in Nat
        BY <1>1, FindingsTypes
      <3> QED
        BY <3>1
    <2>2. PICK e : e = [key |-> key, verdict |-> "unreviewed", alert |-> 0, recent |-> TRUE]
      OBVIOUS
    <2>3. /\ rows' = Append(rows, e)
          /\ scan' = [scan EXCEPT !.found = @ \ {key}, !.row = n, !.pc = IF key \in Statistical THEN "raise" ELSE @]
          /\ unjust' = IF scan.just /\ key \in declared THEN unjust \cup {n} ELSE unjust
      BY <1>4, <2>1, <2>2 DEF StoreRow
    <2>4. rows \in Seq(FindingRow) /\ e \in FindingRow
      BY <1>1, <2>2 DEF FindTyped, FindingRow, Verdict
    <2>5. /\ rows' \in Seq(FindingRow) /\ Len(rows') = n /\ rows'[n] = e
          /\ \A j \in 1 .. Len(rows) : rows'[j] = rows[j]
      BY <2>1, <2>3, <2>4, OneAppended
    <2>6. /\ scan' \in ScanRow /\ scan'.pc \in {"store row", "raise"} /\ scan'.just = scan.just
          /\ scan'.windows = scan.windows /\ scan'.row = n
      BY <1>2, <2>3 DEF ScanRow
    <2>7. FindTyped'
      <3>1. \A j \in 1 .. Len(rows') : rows'[j].alert <= Len(raised)
        BY <1>1, <2>1, <2>2, <2>5, FindingsTypes
      <3>2. /\ Holds' => scan'.row \in 1 .. Len(rows')
            /\ scan'.pc # "link"
        BY <2>1, <2>5, <2>6
      <3>3. \A k \in Reviews : review[k].row <= Len(rows')
        BY <1>1, <2>1, <2>5, FindingsTypes
      <3> QED
        BY <1>1, <1>2, <2>5, <2>6, <3>1, <3>2, <3>3 DEF FindTyped
    <2>8. JustInv'
      <3>1. unjust' = {}
        BY <1>1, <1>2, <1>4, <2>3 DEF JustInv
      <3> QED
        BY <1>1, <1>2, <2>6, <3>1 DEF JustInv
    <2>9. OneOpenFinding'
      <3>1. \A j \in 1 .. Len(rows) : ~(rows[j].key = key /\ rows[j].verdict = "unreviewed" /\ rows[j].recent)
        BY <1>4 DEF Duplicate
      <3>2. rows'[n].key = key /\ 1 .. Len(rows') = (1 .. Len(rows)) \cup {n}
        BY <2>1, <2>2, <2>5
      <3>3. \A i, j \in 1 .. Len(rows) :
              rows'[i].verdict = "unreviewed" /\ rows'[i].recent /\ rows'[j].verdict = "unreviewed" /\ rows'[j].recent
              /\ rows'[i].key = rows'[j].key => i = j
        BY <1>1, <2>5 DEF OneOpenFinding
      <3>4. \A j \in 1 .. Len(rows) : ~(rows'[j].key = key /\ rows'[j].verdict = "unreviewed" /\ rows'[j].recent)
        BY <2>5, <3>1
      <3>5. ASSUME NEW i \in 1 .. Len(rows'), NEW j \in 1 .. Len(rows'),
                   rows'[i].verdict = "unreviewed", rows'[i].recent, rows'[j].verdict = "unreviewed", rows'[j].recent,
                   rows'[i].key = rows'[j].key
            PROVE  i = j
        <4>1. i \in 1 .. Len(rows) \/ i = n
          BY <3>2
        <4>2. j \in 1 .. Len(rows) \/ j = n
          BY <3>2
        <4> QED
          BY <3>2, <3>3, <3>4, <3>5, <4>1, <4>2
      <3> QED
        BY <3>5 DEF OneOpenFinding
    <2>10. ASSUME NEW j \in 1 .. Len(rows)
           PROVE  Minded(j)'
      <3>1. ~Holds /\ j # n /\ Minded(j)
        BY <1>1, <1>2, <2>1 DEF Holds, AlertsInv
      <3>2. Untouched(j)
        BY <1>2, <2>5, <2>6, <3>1 DEF Untouched
      <3> QED
        BY <1>1, <3>1, <3>2, Elsewhere
    <2>11. Minded(n)'
      <3>1. \A k \in Reviews : review[k].row \in 0 .. Len(rows)
        BY <1>1, FindingsTypes
      <3>2. \A k \in Reviews : review'[k].row # n
        BY <1>2, <2>1, <3>1
      <3>3. rows'[n].verdict = "unreviewed" /\ rows'[n].alert = 0
        BY <2>2, <2>5
      <3>4. ScanKnows(n)' /\ Agrees(n)'
        BY <2>6, <3>3 DEF ScanKnows, Agrees
      <3> QED
        BY <3>2, <3>4 DEF Minded
    <2>12. AlertsApart'
      <3>1. ASSUME NEW j \in 1 .. Len(rows'), NEW a \in 1 .. Len(raised'), Refers(j, a)'
            PROVE  j \in 1 .. Len(rows) /\ a \in 1 .. Len(raised) /\ Refers(j, a)
        <4>1. a # 0 /\ a \in 1 .. Len(raised)
          <5>1. Len(raised) \in Nat /\ Len(raised') = Len(raised)
            BY <1>1, <1>2, FindingsTypes
          <5> QED
            BY <5>1
        <4>2. CASE j \in 1 .. Len(rows) /\ rows'[j].alert = a
          BY <2>5, <4>1, <4>2 DEF Refers
        <4>3. CASE \E k \in Reviews : review'[k].row = j /\ review'[k].alert = a
          <5>1. PICK k \in Reviews : review[k].row = j /\ review[k].alert = a
            BY <1>2, <4>3
          <5>2. review[k].row \in 0 .. Len(rows)
            BY <1>1, FindingsTypes
          <5>3. j \in 1 .. Len(rows)
            BY <2>1, <2>5, <5>1, <5>2
          <5>4. Refers(j, a)
            BY <5>1 DEF Refers
          <5> QED
            BY <4>1, <5>3, <5>4
        <4>4. ~(j = n /\ rows'[j].alert = a) /\ scan'.pc # "link"
          <5>1. rows'[n].alert = 0
            BY <2>2, <2>5
          <5>2. scan'.pc # "link"
            BY <2>6
          <5> QED
            BY <4>1, <5>1, <5>2
        <4> QED
          BY <2>1, <2>5, <3>1, <4>2, <4>3, <4>4 DEF Refers
      <3> QED
        BY <1>1, <3>1, StaysApart DEF AlertsInv
    <2>13. NoneLost'
      <3>1. \A a \in 1 .. Len(raised) : Owned(a) => Owned(a)'
        BY <1>2, <2>1, <2>5 DEF Owned
      <3> QED
        BY <1>1, <1>2, <3>1 DEF AlertsInv, NoneLost
    <2> QED
      BY <2>1, <2>5, <2>7, <2>8, <2>9, <2>10, <2>11, <2>12, <2>13 DEF FindInv, AlertsInv
  <1> QED
    BY <1>3, <1>4

LEMMA FindRaiseAlert ==
    ASSUME FindInv, RaiseAlert
    PROVE  FindInv'
  <1>1. FindTyped /\ JustInv /\ OneOpenFinding /\ AlertsInv
    BY DEF FindInv
  <1>2. /\ UNCHANGED <<rows, review, declared, cache, clearing, tangled, unjust>>
        /\ scan.pc = "raise" /\ scan \in ScanRow
    BY <1>1 DEF RaiseAlert, FindTyped
  <1>3. CASE scan' = [scan EXCEPT !.pc = "store row"] /\ raised' = raised
    <2>1. /\ scan' \in ScanRow /\ scan'.pc = "store row" /\ scan'.just = scan.just /\ scan'.windows = scan.windows
      BY <1>2, <1>3 DEF ScanRow
    <2>2. FindTyped' /\ JustInv' /\ OneOpenFinding'
      BY <1>1, <1>2, <1>3, <2>1 DEF FindTyped, Holds, JustInv, OneOpenFinding
    <2>3. ASSUME NEW j \in 1 .. Len(rows)
          PROVE  Minded(j)'
      <3>1. CASE j # scan.row
        <4>1. Untouched(j)
          BY <1>2, <1>3, <2>1, <3>1 DEF Untouched, Holds
        <4> QED
          BY <1>1, <4>1, Elsewhere DEF AlertsInv
      <3>2. CASE j = scan.row /\ j \notin tangled
        <4>1. ScanKnows(j) /\ \A k \in Reviews : review[k].row # j
          BY <1>1, <1>2, <3>2 DEF AlertsInv, Minded, Holds
        <4>2. Agrees(j)'
          BY <1>2, <1>3, <4>1 DEF ScanKnows, Agrees
        <4> QED
          BY <1>2, <2>1, <4>1, <4>2 DEF Minded, Holds
      <3> QED
        BY <1>2, <3>1, <3>2 DEF Minded
    <2>4. AlertsApart'
      <3>1. scan'.pc # "link"
        BY <2>1
      <3>2. \A j \in 1 .. Len(rows), a \in 1 .. Len(raised) : Refers(j, a)' => Refers(j, a)
        BY <1>2, <3>1 DEF Refers
      <3> QED
        BY <1>1, <1>2, <1>3, <3>2 DEF AlertsInv, AlertsApart
    <2>5. NoneLost'
      BY <1>1, <1>2, <1>3, <2>1 DEF AlertsInv, NoneLost, Owned
    <2> QED
      BY <1>2, <2>2, <2>3, <2>4, <2>5 DEF FindInv, AlertsInv
  <1>4. CASE raised' = Append(raised, NewAlert(FALSE)) /\ scan' = [scan EXCEPT !.pc = "link", !.alert = Len(raised) + 1]
    <2>1. PICK n \in Nat : /\ n = Len(raised) + 1 /\ n \notin 0 .. Len(raised) /\ n \notin 1 .. Len(raised)
                          /\ 1 .. n = (1 .. Len(raised)) \cup {n} /\ n # 0
      <3>1. Len(raised) \in Nat
        BY <1>1, FindingsTypes
      <3> QED
        BY <3>1
    <2>2. PICK e \in RaisedRow : e = NewAlert(FALSE)
      BY DEF RaisedRow, NewAlert
    <2>3. /\ raised' \in Seq(RaisedRow) /\ Len(raised') = n /\ raised'[n] = e /\ e = NewAlert(FALSE)
          /\ \A a \in 1 .. Len(raised) : raised'[a] = raised[a]
      <3>1. raised \in Seq(RaisedRow) /\ raised' = Append(raised, e)
        BY <1>1, <1>4, <2>2 DEF FindTyped
      <3>2. /\ Append(raised, e) \in Seq(RaisedRow) /\ Len(Append(raised, e)) = Len(raised) + 1
            /\ Append(raised, e)[Len(raised) + 1] = e
            /\ \A a \in 1 .. Len(raised) : Append(raised, e)[a] = raised[a]
        <4>1. PICK q \in Seq(RaisedRow) : q = raised
          BY <3>1
        <4>2. /\ Append(q, e) \in Seq(RaisedRow) /\ Len(Append(q, e)) = Len(q) + 1 /\ Append(q, e)[Len(q) + 1] = e
              /\ \A a \in 1 .. Len(q) : Append(q, e)[a] = q[a]
          BY OneAppended
        <4> QED
          BY <4>1, <4>2
      <3> QED
        BY <2>1, <2>2, <3>1, <3>2
    <2>4. /\ scan' \in ScanRow /\ scan'.pc = "link" /\ scan'.just = scan.just
          /\ scan'.windows = scan.windows /\ scan'.row = scan.row /\ scan'.alert = n
      BY <1>2, <1>4, <2>1 DEF ScanRow
    <2>5. FindTyped'
      <3>1. \A j \in 1 .. Len(rows) : rows[j].alert <= n
        BY <1>1, <2>1, FindingsTypes
      <3>2. \A k \in Reviews : review[k].alert <= n
        BY <1>1, <2>1, FindingsTypes
      <3>3. scan.row \in 1 .. Len(rows) /\ n \in 1 .. n
        BY <1>1, <1>2, <2>1 DEF FindTyped, Holds
      <3> QED
        BY <1>1, <1>2, <2>3, <2>4, <3>1, <3>2, <3>3 DEF FindTyped
    <2>6. JustInv' /\ OneOpenFinding'
      BY <1>1, <1>2, <2>4 DEF JustInv, OneOpenFinding
    <2>7. ASSUME NEW j \in 1 .. Len(rows)
          PROVE  Minded(j)'
      <3>1. CASE j # scan.row
        <4>1. Untouched(j)
          BY <1>2, <2>3, <2>4, <3>1 DEF Untouched, Holds
        <4> QED
          BY <1>1, <4>1, Elsewhere DEF AlertsInv
      <3>2. CASE j = scan.row /\ j \notin tangled
        <4>1. ScanKnows(j) /\ \A k \in Reviews : review[k].row # j
          BY <1>1, <1>2, <3>2 DEF AlertsInv, Minded, Holds
        <4>2. ScanKnows(j)'
          BY <1>2, <2>3, <2>4, <4>1 DEF ScanKnows, NewAlert
        <4>3. Handled(j)'
          BY <2>4, <3>2 DEF Handled
        <4> QED
          BY <1>2, <4>1, <4>2, <4>3 DEF Minded
      <3> QED
        BY <1>2, <3>1, <3>2 DEF Minded
    <2>8. AlertsApart'
      <3>1. ASSUME NEW j \in 1 .. Len(rows'), NEW a \in 1 .. Len(raised'), Refers(j, a)'
            PROVE  \/ j \in 1 .. Len(rows) /\ a \in 1 .. Len(raised) /\ Refers(j, a)
                   \/ j = scan.row /\ a \notin 1 .. Len(raised)
        <4>1. a \in 1 .. Len(raised) \/ a = n
          BY <2>1, <2>3
        <4>2. rows[j].alert # n /\ \A k \in Reviews : review[k].alert # n
          BY <1>1, <1>2, <2>1, FindingsTypes
        <4> QED
          BY <1>2, <2>1, <2>4, <3>1, <4>1, <4>2 DEF Refers
      <3>2. PICK i : i = scan.row
        OBVIOUS
      <3>3. \A j \in 1 .. Len(rows'), a \in 1 .. Len(raised') : Refers(j, a)' =>
               \/ j \in 1 .. Len(rows) /\ a \in 1 .. Len(raised) /\ Refers(j, a)
               \/ j = i /\ a \notin 1 .. Len(raised)
        BY <3>1, <3>2
      <3> QED
        BY <1>1, <3>3 DEF AlertsInv, AlertsApart
    <2>9. NoneLost'
      <3>1. \A a \in 1 .. Len(raised) : Owned(a) => Owned(a)'
        BY <1>2 DEF Owned
      <3>2. Owned(n)'
        BY <2>4 DEF Owned
      <3> QED
        BY <1>1, <1>2, <2>1, <2>3, <3>1, <3>2 DEF AlertsInv, NoneLost
    <2> QED
      BY <1>2, <2>5, <2>6, <2>7, <2>8, <2>9 DEF FindInv, AlertsInv
  <1> QED
    BY <1>3, <1>4 DEF RaiseAlert

\* The scan gives its row the alert: no one else has the finding in hand.
LEMMA FindLinkAlert ==
    ASSUME FindInv, LinkAlert
    PROVE  FindInv'
  <1>1. FindTyped /\ JustInv /\ OneOpenFinding /\ AlertsInv
    BY DEF FindInv
  <1>2. /\ UNCHANGED <<raised, review, declared, cache, clearing, tangled, unjust>>
        /\ scan.pc = "link" /\ scan \in ScanRow /\ scan' = [scan EXCEPT !.pc = "store row"]
        /\ rows' = [rows EXCEPT ![scan.row].alert = scan.alert]
    BY <1>1 DEF LinkAlert, FindTyped
  <1>3. PICK i \in 1 .. Len(rows), b \in 1 .. Len(raised) : i = scan.row /\ b = scan.alert /\ b # 0 /\ b \in Nat
    <2>1. scan.row \in 1 .. Len(rows) /\ scan.alert \in 1 .. Len(raised)
      BY <1>1, <1>2 DEF FindTyped, Holds
    <2>2. scan.alert # 0 /\ scan.alert \in Nat
      BY <2>1
    <2> QED
      BY <2>1, <2>2
  <1>4. PICK e : e = [rows[i] EXCEPT !.alert = b]
    OBVIOUS
  <1>5. /\ rows \in Seq(FindingRow) /\ e \in FindingRow /\ e.alert = b
        /\ e.key = rows[i].key /\ e.verdict = rows[i].verdict /\ e.recent = rows[i].recent
    <2>1. rows \in Seq(FindingRow) /\ rows[i] \in FindingRow
      BY <1>1, FindingsTypes DEF FindTyped
    <2> QED
      BY <1>3, <1>4, <2>1 DEF FindingRow
  <1>6. rows' = [rows EXCEPT ![i] = e]
    BY <1>2, <1>3, <1>4
  <1>7. /\ rows' \in Seq(FindingRow) /\ Len(rows') = Len(rows) /\ rows'[i] = e
        /\ \A j \in 1 .. Len(rows) : j # i => rows'[j] = rows[j]
    BY <1>5, <1>6, OneReplaced
  <1>8. /\ scan' \in ScanRow /\ scan'.pc = "store row" /\ scan'.just = scan.just /\ scan'.windows = scan.windows
    BY <1>2 DEF ScanRow
  <1>9. FindTyped'
    <2>1. \A j \in 1 .. Len(rows) : rows'[j].alert <= Len(raised)
      BY <1>1, <1>3, <1>5, <1>7, FindingsTypes
    <2> QED
      BY <1>1, <1>2, <1>7, <1>8, <2>1 DEF FindTyped, Holds
  <1>10. JustInv'
    BY <1>1, <1>2, <1>8 DEF JustInv
  <1>11. OneOpenFinding'
    BY <1>1, <1>5, <1>7, OpenRests
  <1>12. ASSUME NEW j \in 1 .. Len(rows)
         PROVE  Minded(j)'
    <2>1. CASE j # i
      <3>1. Untouched(j)
        BY <1>2, <1>3, <1>7, <1>8, <2>1 DEF Untouched, Holds
      <3> QED
        BY <1>1, <3>1, Elsewhere DEF AlertsInv
    <2>2. CASE j = i /\ i \notin tangled
      <3>1. ScanKnows(i) /\ \A k \in Reviews : review[k].row # i
        BY <1>1, <1>2, <1>3, <2>2 DEF AlertsInv, Minded, Holds
      <3>2. Agrees(i)'
        BY <1>2, <1>3, <1>5, <1>7, <3>1 DEF ScanKnows, Agrees
      <3> QED
        BY <1>2, <1>8, <2>2, <3>1, <3>2 DEF Minded, Holds
    <2> QED
      BY <1>2, <2>1, <2>2 DEF Minded
  <1>13. AlertsApart'
    <2>1. ASSUME NEW j \in 1 .. Len(rows'), NEW a \in 1 .. Len(raised'), Refers(j, a)'
          PROVE  j \in 1 .. Len(rows) /\ a \in 1 .. Len(raised) /\ Refers(j, a)
      BY <1>2, <1>3, <1>5, <1>7, <1>8, <2>1 DEF Refers
    <2> QED
      BY <1>1, <2>1, StaysApart DEF AlertsInv
  <1>14. NoneLost'
    <2>1. SUFFICES ASSUME tangled = {}, NEW a \in 1 .. Len(raised) PROVE Owned(a)'
      BY <1>2 DEF NoneLost
    <2>2. rows[i].alert = 0
      BY <1>1, <1>2, <1>3, <2>1 DEF AlertsInv, Minded, Holds, ScanKnows
    <2>3. Owned(a) /\ a # 0
      BY <1>1, <2>1, FindingsTypes DEF AlertsInv, NoneLost
    <2>4. ASSUME NEW j \in 1 .. Len(rows), rows[j].alert = a
          PROVE  rows'[j].alert = a
      BY <1>7, <2>2, <2>3, <2>4
    <2> QED
      BY <1>2, <1>3, <1>5, <1>7, <2>3, <2>4 DEF Owned
  <1> QED
    BY <1>7, <1>9, <1>10, <1>11, <1>12, <1>13, <1>14 DEF FindInv, AlertsInv

(***************************************************************************)
(* Reviews.                                                                *)
(***************************************************************************)
\* What is written of a review fits the rows and the alerts.
Fitting(r) ==
    /\ r \in ReviewRow /\ r.row <= Len(rows) /\ r.alert <= Len(raised)
    /\ r.pc = "idle" <=> r.row = 0
    /\ r.pc = "idle" => r = NoReview
    /\ r.pc # "idle" => r.kind # "none"
    /\ r.pc \in {"link", "tell", "resolve"} => r.alert # 0

LEMMA NoReviewFits ==
    ASSUME FindTyped
    PROVE  Fitting(NoReview)
  <1>1. NoReview \in ReviewRow /\ NoReview.row = 0 /\ NoReview.alert = 0 /\ NoReview.pc = "idle"
    BY DEF NoReview, ReviewRow
  <1> QED
    BY <1>1, FindingsTypes DEF Fitting

LEMMA ReviewWritten ==
    ASSUME FindTyped, NEW k \in Reviews, NEW r, Fitting(r)', review' = [review EXCEPT ![k] = r],
           Len(rows') = Len(rows), Len(raised) <= Len(raised'), Len(raised') \in Nat
    PROVE  /\ review' \in [Reviews -> ReviewRow] /\ review'[k] = r
           /\ \A l \in Reviews : l # k => review'[l] = review[l]
           /\ \A l \in Reviews : Fitting(review[l])'
  <1>1. review \in [Reviews -> ReviewRow] /\ r \in ReviewRow
    BY DEF FindTyped, Fitting
  <1>2. review' \in [Reviews -> ReviewRow] /\ review'[k] = r /\ \A l \in Reviews : l # k => review'[l] = review[l]
    BY <1>1
  <1>3. ASSUME NEW l \in Reviews, l # k
        PROVE  Fitting(review[l])'
    <2>1. review'[l] = review[l] /\ review[l].alert <= Len(raised') /\ review[l].row <= Len(rows')
      BY <1>2, <1>3, FindingsTypes
    <2> QED
      BY <1>1, <1>3, <2>1 DEF FindTyped, Fitting
  <1>4. Fitting(review[k])'
    BY <1>2
  <1> QED
    BY <1>2, <1>3, <1>4

\* A step of a review leaves the other findings alone.
LEMMA OthersMinded ==
    ASSUME FindTyped, AlertsInv, NEW k \in Reviews, NEW i \in 1 .. Len(rows), UNCHANGED scan,
           \A l \in Reviews : l # k => review'[l] = review[l],
           review[k].row \in {0, i}, review'[k].row \in {0, i}, tangled \subseteq tangled',
           \A j \in 1 .. Len(rows) : j # i => rows'[j] = rows[j],
           \A a \in 1 .. Len(raised) : raised'[a] = raised[a] \/ Refers(i, a)
    PROVE  \A j \in 1 .. Len(rows) : j # i => Minded(j)'
  <1> TAKE j \in 1 .. Len(rows)
  <1> SUFFICES ASSUME j # i PROVE Minded(j)'
    OBVIOUS
  <1>1. \A l \in Reviews : review[l].row = j \/ review'[l].row = j => review'[l] = review[l]
    OBVIOUS
  <1>2. \A a \in 1 .. Len(raised) : Refers(j, a) => raised'[a] = raised[a]
    BY DEF AlertsInv, AlertsApart
  <1>3. Untouched(j)
    BY <1>1, <1>2 DEF Untouched, Holds
  <1> QED
    BY <1>3, Elsewhere DEF AlertsInv

\* A review of a finding that was never tangled is its only handler.
LEMMA OneReview ==
    ASSUME FindTyped, AlertsInv, NEW k \in Reviews, NEW i \in 1 .. Len(rows), review[k].row = i, i \notin tangled
    PROVE  ReviewKnows(k, i) /\ ~(Holds /\ scan.row = i) /\ \A l \in Reviews : l # k => review[l].row # i
  BY DEF AlertsInv, Minded

\* Afterwards either it still has it in hand and knows it, or it agrees.
LEMMA StillMinded ==
    ASSUME NEW k \in Reviews, NEW i, UNCHANGED scan, ~(Holds /\ scan.row = i),
           \A l \in Reviews : l # k => review[l].row # i, \A l \in Reviews : l # k => review'[l] = review[l],
           \/ review'[k].row = i /\ ReviewKnows(k, i)'
           \/ review'[k].row # i /\ Agrees(i)'
    PROVE  Minded(i)'
  <1>1. \A l \in Reviews : l # k => review'[l].row # i
    OBVIOUS
  <1>2. ~(Holds /\ scan.row = i)'
    BY DEF Holds
  <1>3. \A l \in Reviews : review'[l].row = i => l = k /\ ReviewKnows(l, i)'
    BY <1>1
  <1>4. ~Handled(i)' => Agrees(i)'
    BY DEF Handled
  <1> QED
    BY <1>2, <1>3, <1>4 DEF Minded

LEMMA FindReview ==
    ASSUME FindInv, NEW k \in Reviews, NEW kind \in {"confirmed", "dismissed"}, NEW i \in 1 .. Len(rows),
           Review(k, kind, i)
    PROVE  FindInv'
  <1>1. FindTyped /\ JustInv /\ OneOpenFinding /\ AlertsInv
    BY DEF FindInv
  <1>2. PICK r : r = [pc |-> "judge", kind |-> kind, row |-> i, alert |-> rows[i].alert]
    OBVIOUS
  <1>3. /\ UNCHANGED <<rows, raised, scan, declared, cache, clearing, unjust>> /\ review[k] = NoReview
        /\ review' = [review EXCEPT ![k] = r] /\ tangled' = IF Handled(i) THEN tangled \cup {i} ELSE tangled
    BY <1>2 DEF Review
  <1>4. rows[i].alert \in 0 .. Len(raised) /\ Len(raised) \in Nat /\ Len(rows) \in Nat
    BY <1>1, FindingsTypes
  <1>5. Fitting(r)'
    BY <1>2, <1>3, <1>4 DEF Fitting, ReviewRow
  <1>6. /\ review' \in [Reviews -> ReviewRow] /\ review'[k] = r
        /\ \A l \in Reviews : l # k => review'[l] = review[l]
        /\ \A l \in Reviews : Fitting(review[l])'
    <2>1. Len(rows') = Len(rows) /\ Len(raised) <= Len(raised') /\ Len(raised') \in Nat
      BY <1>3, <1>4
    <2> QED
      BY <1>1, <1>3, <1>5, <2>1, ReviewWritten
  <1>7. FindTyped'
    BY <1>1, <1>3, <1>6 DEF FindTyped, Fitting, Holds
  <1>8. JustInv' /\ OneOpenFinding'
    BY <1>1, <1>3 DEF JustInv, OneOpenFinding
  <1>9. \A j \in 1 .. Len(rows) : j # i => Minded(j)'
    <2>1. review[k].row = 0 /\ review'[k].row = i
      BY <1>2, <1>3, <1>6 DEF NoReview
    <2> QED
      BY <1>1, <1>3, <1>6, <2>1, OthersMinded
  <1>10. Minded(i)'
    <2>1. SUFFICES ASSUME i \notin tangled' PROVE Minded(i)'
      BY DEF Minded
    <2>2. ~Handled(i) /\ i \notin tangled
      BY <1>3, <2>1
    <2>3. ~(Holds /\ scan.row = i) /\ \A l \in Reviews : review[l].row # i
      BY <2>2 DEF Handled, Holds
    <2>4. Agrees(i) /\ Agrees(i)'
      BY <1>1, <1>3, <2>2 DEF AlertsInv, Minded, Agrees
    <2>5. review'[k].row = i /\ ReviewKnows(k, i)'
      BY <1>2, <1>3, <1>6, <2>4 DEF ReviewKnows
    <2> QED
      BY <1>3, <1>6, <2>3, <2>5, StillMinded
  <1>11. AlertsApart'
    <2>1. \A j \in 1 .. Len(rows), a \in 1 .. Len(raised) : Refers(j, a)' => Refers(j, a)
      <3> TAKE j \in 1 .. Len(rows), a \in 1 .. Len(raised)
      <3>1. ASSUME NEW l \in Reviews, review'[l].row = j, review'[l].alert = a
            PROVE  Refers(j, a)
        BY <1>2, <1>3, <1>6, <3>1 DEF Refers
      <3> QED
        BY <1>3, <3>1 DEF Refers
    <2> QED
      BY <1>1, <1>3, <2>1 DEF AlertsInv, AlertsApart
  <1>12. NoneLost'
    <2>1. \A l \in Reviews : review[l].pc = "link" => review'[l] = review[l]
      BY <1>3, <1>6 DEF NoReview
    <2>2. \A a \in 1 .. Len(raised) : Owned(a) => Owned(a)'
      BY <1>3, <2>1 DEF Owned
    <2>3. tangled' = {} => tangled = {}
      BY <1>3
    <2> QED
      BY <1>1, <1>3, <2>2, <2>3 DEF AlertsInv, NoneLost
  <1> QED
    BY <1>3, <1>7, <1>8, <1>9, <1>10, <1>11, <1>12 DEF FindInv, AlertsInv

LEMMA FindJudge ==
    ASSUME FindInv, NEW k \in Reviews, Judge(k)
    PROVE  FindInv'
  <1>1. FindTyped /\ JustInv /\ OneOpenFinding /\ AlertsInv
    BY DEF FindInv
  <1>2. PICK r : r = review[k]
    OBVIOUS
  <1>3. /\ r \in ReviewRow /\ r.pc = "judge" /\ r.kind \in {"confirmed", "dismissed"}
        /\ r.row \in 1 .. Len(rows) /\ r.alert \in 0 .. Len(raised)
        /\ Len(raised) \in Nat /\ Len(rows) \in Nat
    <2>1. r \in ReviewRow /\ r.row \in 0 .. Len(rows) /\ r.alert \in 0 .. Len(raised)
      BY <1>1, <1>2, FindingsTypes
    <2>2. r.pc = "judge" /\ r.row # 0 /\ r.kind # "none"
      BY <1>1, <1>2 DEF Judge, FindTyped
    <2>3. Len(raised) \in Nat /\ Len(rows) \in Nat
      BY <1>1, FindingsTypes
    <2> QED
      BY <2>1, <2>2, <2>3 DEF ReviewRow
  <1>4. PICK i \in 1 .. Len(rows) : i = r.row
    BY <1>3
  <1>5. PICK next : next = IF r.kind = "confirmed" THEN (IF r.alert = 0 THEN "raise" ELSE "tell")
                           ELSE (IF r.alert = 0 THEN "idle" ELSE "resolve")
    OBVIOUS
  <1>6. PICK s : s = IF next = "idle" THEN NoReview ELSE [r EXCEPT !.pc = next]
    OBVIOUS
  <1>7. /\ UNCHANGED <<raised, scan, declared, cache, clearing, tangled, unjust>>
        /\ rows' = [rows EXCEPT ![i].verdict = r.kind] /\ review' = [review EXCEPT ![k] = s]
    BY <1>2, <1>4, <1>5, <1>6 DEF Judge
  <1>8. PICK e : e = [rows[i] EXCEPT !.verdict = r.kind]
    OBVIOUS
  <1>9. /\ rows \in Seq(FindingRow) /\ e \in FindingRow /\ e.alert = rows[i].alert
        /\ e.key = rows[i].key /\ e.verdict = r.kind /\ e.recent = rows[i].recent
    <2>1. rows \in Seq(FindingRow) /\ rows[i] \in FindingRow
      BY <1>1, FindingsTypes DEF FindTyped
    <2> QED
      BY <1>3, <1>8, <2>1 DEF FindingRow, Verdict
  <1>10. /\ rows' \in Seq(FindingRow) /\ Len(rows') = Len(rows) /\ rows'[i] = e
         /\ \A j \in 1 .. Len(rows) : j # i => rows'[j] = rows[j]
    <2>1. rows' = [rows EXCEPT ![i] = e]
      BY <1>7, <1>8
    <2> QED
      BY <1>9, <2>1, OneReplaced
  <1>11. Fitting(s)' /\ s.row \in {0, i} /\ s.pc = next
         /\ (next # "idle" => s.row = i /\ s.alert = r.alert) /\ (next = "idle" => s.row = 0)
    <2>1. CASE next = "idle"
      <3>1. s = NoReview /\ NoReview.row = 0 /\ NoReview.alert = 0 /\ NoReview.pc = "idle" /\ NoReview \in ReviewRow
        BY <1>6, <2>1 DEF NoReview, ReviewRow
      <3> QED
        BY <1>3, <1>7, <1>10, <2>1, <3>1 DEF Fitting
    <2>2. CASE next # "idle"
      <3>1. s = [r EXCEPT !.pc = next] /\ next \in {"raise", "tell", "resolve"} /\ (next # "raise" => r.alert # 0)
        BY <1>5, <1>6, <2>2
      <3>2. s \in ReviewRow /\ s.pc = next /\ s.kind = r.kind /\ s.row = r.row /\ s.alert = r.alert
        BY <1>3, <3>1 DEF ReviewRow
      <3> QED
        BY <1>3, <1>4, <1>7, <1>10, <3>1, <3>2 DEF Fitting
    <2> QED
      BY <2>1, <2>2
  <1>12. /\ review' \in [Reviews -> ReviewRow] /\ review'[k] = s
         /\ \A l \in Reviews : l # k => review'[l] = review[l]
         /\ \A l \in Reviews : Fitting(review[l])'
    <2>1. Len(raised) <= Len(raised') /\ Len(raised') \in Nat
      BY <1>3, <1>7
    <2> QED
      BY <1>1, <1>7, <1>10, <1>11, <2>1, ReviewWritten
  <1>13. FindTyped'
    <2>1. \A j \in 1 .. Len(rows) : rows'[j].alert <= Len(raised)
      BY <1>1, <1>9, <1>10, FindingsTypes
    <2> QED
      BY <1>1, <1>7, <1>10, <1>12, <2>1 DEF FindTyped, Fitting, Holds
  <1>14. JustInv' /\ OneOpenFinding'
    BY <1>1, <1>3, <1>7, <1>9, <1>10, OpenRests DEF JustInv
  <1>15. \A j \in 1 .. Len(rows) : j # i => Minded(j)'
    BY <1>1, <1>2, <1>4, <1>7, <1>10, <1>11, <1>12, OthersMinded
  <1>16. Minded(i)'
    <2>1. SUFFICES ASSUME i \notin tangled' PROVE Minded(i)'
      BY DEF Minded
    <2>2. i \notin tangled /\ review[k].row = i
      BY <1>2, <1>4, <1>7, <2>1
    <2>3. ReviewKnows(k, i) /\ ~(Holds /\ scan.row = i) /\ \A l \in Reviews : l # k => review[l].row # i
      BY <1>1, <2>2, OneReview
    <2>4. rows'[i].alert = r.alert /\ rows'[i].verdict = r.kind
      BY <1>2, <1>3, <1>9, <1>10, <2>3 DEF ReviewKnows
    <2>5. CASE next = "idle"
      <3>1. Agrees(i)'
        BY <1>3, <1>5, <2>4, <2>5 DEF Agrees
      <3>2. review'[k].row # i
        BY <1>11, <1>12, <2>5
      <3> QED
        BY <1>7, <1>12, <2>3, <3>1, <3>2, StillMinded
    <2>6. CASE next # "idle"
      <3>1. ReviewKnows(k, i)'
        BY <1>3, <1>5, <1>11, <1>12, <2>4, <2>6 DEF ReviewKnows
      <3>2. review'[k].row = i
        BY <1>11, <1>12, <2>6
      <3> QED
        BY <1>7, <1>12, <2>3, <3>1, <3>2, StillMinded
    <2> QED
      BY <2>5, <2>6
  <1>17. AlertsApart'
    <2>1. \A j \in 1 .. Len(rows), a \in 1 .. Len(raised) : Refers(j, a)' => Refers(j, a)
      <3> TAKE j \in 1 .. Len(rows), a \in 1 .. Len(raised)
      <3>1. ASSUME NEW l \in Reviews, review'[l].row = j, review'[l].alert = a
            PROVE  Refers(j, a)
        BY <1>2, <1>4, <1>11, <1>12, <3>1 DEF Refers
      <3>2. rows'[j].alert = rows[j].alert
        BY <1>9, <1>10
      <3> QED
        BY <1>7, <3>1, <3>2 DEF Refers
    <2> QED
      BY <1>1, <1>7, <1>10, <2>1 DEF AlertsInv, AlertsApart
  <1>18. NoneLost'
    <2>1. \A l \in Reviews : review[l].pc = "link" => review'[l] = review[l]
      BY <1>2, <1>3, <1>12
    <2>2. \A j \in 1 .. Len(rows) : rows'[j].alert = rows[j].alert
      BY <1>9, <1>10
    <2>3. \A a \in 1 .. Len(raised) : Owned(a) => Owned(a)'
      BY <1>7, <1>10, <2>1, <2>2 DEF Owned
    <2> QED
      BY <1>1, <1>7, <2>3 DEF AlertsInv, NoneLost
  <1> QED
    BY <1>7, <1>10, <1>13, <1>14, <1>15, <1>16, <1>17, <1>18 DEF FindInv, AlertsInv

LEMMA FindRaiseConfirmed ==
    ASSUME FindInv, NEW k \in Reviews, RaiseConfirmed(k)
    PROVE  FindInv'
  <1>1. FindTyped /\ JustInv /\ OneOpenFinding /\ AlertsInv
    BY DEF FindInv
  <1>2. PICK r : r = review[k]
    OBVIOUS
  <1>3. /\ r \in ReviewRow /\ r.pc = "raise" /\ r.kind # "none" /\ r.row \in 1 .. Len(rows)
    <2>1. r \in ReviewRow /\ r.row \in 0 .. Len(rows)
      BY <1>1, <1>2, FindingsTypes
    <2>2. r.pc = "raise" /\ r.row # 0 /\ r.kind # "none"
      BY <1>1, <1>2 DEF RaiseConfirmed, FindTyped
    <2> QED
      BY <2>1, <2>2 DEF ReviewRow
  <1>4. PICK i \in 1 .. Len(rows) : i = r.row
    BY <1>3
  <1>5. PICK n \in Nat : /\ n = Len(raised) + 1 /\ n \notin 0 .. Len(raised) /\ n \notin 1 .. Len(raised)
                         /\ 1 .. n = (1 .. Len(raised)) \cup {n} /\ n # 0 /\ Len(raised) <= n
    <2>1. Len(raised) \in Nat
      BY <1>1, FindingsTypes
    <2> QED
      BY <2>1
  <1>6. PICK e \in RaisedRow : e = NewAlert(FALSE)
    BY DEF RaisedRow, NewAlert
  <1>7. PICK s : s = [r EXCEPT !.pc = "link", !.alert = n]
    OBVIOUS
  <1>8. s \in ReviewRow /\ s.pc = "link" /\ s.kind = r.kind /\ s.row = i /\ s.alert = n
    BY <1>3, <1>4, <1>7 DEF ReviewRow
  <1>9. /\ UNCHANGED <<rows, scan, declared, cache, clearing, tangled, unjust>>
        /\ raised' = Append(raised, e) /\ review' = [review EXCEPT ![k] = s]
    <2>1. review' = [review EXCEPT ![k].pc = "link", ![k].alert = n]
      BY <1>5 DEF RaiseConfirmed
    <2>2. review \in [Reviews -> ReviewRow]
      BY <1>1 DEF FindTyped
    <2>3. review' = [review EXCEPT ![k] = [[review[k] EXCEPT !.pc = "link"] EXCEPT !.alert = n]]
      BY <2>1, <2>2
    <2>4. [[review[k] EXCEPT !.pc = "link"] EXCEPT !.alert = n] = s
      BY <1>2, <1>3, <1>7 DEF ReviewRow
    <2> QED
      BY <1>6, <2>3, <2>4 DEF RaiseConfirmed
  <1>10. /\ raised' \in Seq(RaisedRow) /\ Len(raised') = n /\ raised'[n] = e
         /\ \A a \in 1 .. Len(raised) : raised'[a] = raised[a]
    <2>1. PICK q \in Seq(RaisedRow) : q = raised
      BY <1>1 DEF FindTyped
    <2>2. /\ Append(q, e) \in Seq(RaisedRow) /\ Len(Append(q, e)) = Len(q) + 1 /\ Append(q, e)[Len(q) + 1] = e
          /\ \A a \in 1 .. Len(q) : Append(q, e)[a] = q[a]
      BY OneAppended
    <2> QED
      BY <1>5, <1>9, <2>1, <2>2
  <1>11. Fitting(s)'
    <2>1. n <= Len(raised') /\ i <= Len(rows') /\ i # 0
      BY <1>3, <1>4, <1>5, <1>9, <1>10, <1>1, FindingsTypes
    <2> QED
      BY <1>3, <1>5, <1>8, <2>1 DEF Fitting
  <1>12. /\ review' \in [Reviews -> ReviewRow] /\ review'[k] = s
         /\ \A l \in Reviews : l # k => review'[l] = review[l]
         /\ \A l \in Reviews : Fitting(review[l])'
    BY <1>1, <1>5, <1>9, <1>10, <1>11, ReviewWritten
  <1>13. FindTyped'
    <2>1. \A j \in 1 .. Len(rows) : rows[j].alert <= n
      BY <1>1, <1>5, FindingsTypes
    <2>2. scan.pc = "link" => scan.alert \in 1 .. n
      BY <1>1, <1>5 DEF FindTyped
    <2> QED
      BY <1>1, <1>9, <1>10, <1>12, <2>1, <2>2 DEF FindTyped, Fitting, Holds
  <1>14. JustInv' /\ OneOpenFinding'
    BY <1>1, <1>9 DEF JustInv, OneOpenFinding
  <1>15. \A j \in 1 .. Len(rows) : j # i => Minded(j)'
    <2>1. review[k].row = i /\ review'[k].row = i
      BY <1>2, <1>4, <1>8, <1>12
    <2> QED
      BY <1>1, <1>9, <1>10, <1>12, <2>1, OthersMinded
  <1>16. Minded(i)'
    <2>1. SUFFICES ASSUME i \notin tangled' PROVE Minded(i)'
      BY DEF Minded
    <2>2. i \notin tangled /\ review[k].row = i
      BY <1>2, <1>4, <1>9, <2>1
    <2>3. ReviewKnows(k, i) /\ ~(Holds /\ scan.row = i) /\ \A l \in Reviews : l # k => review[l].row # i
      BY <1>1, <2>2, OneReview
    <2>4. ReviewKnows(k, i)' /\ review'[k].row = i
      BY <1>2, <1>3, <1>8, <1>9, <1>12, <2>3 DEF ReviewKnows
    <2> QED
      BY <1>9, <1>12, <2>3, <2>4, StillMinded
  <1>17. AlertsApart'
    <2>1. \A l \in Reviews : l # k => review'[l].alert # n
      BY <1>1, <1>5, <1>12, FindingsTypes
    <2>2. \A j \in 1 .. Len(rows) : rows[j].alert # n
      BY <1>1, <1>5, FindingsTypes
    <2>3. ~(scan.pc = "link" /\ scan.alert = n)
      BY <1>1, <1>5 DEF FindTyped
    <2>4. ASSUME NEW j \in 1 .. Len(rows'), NEW a \in 1 .. Len(raised'), Refers(j, a)'
          PROVE  \/ j \in 1 .. Len(rows) /\ a \in 1 .. Len(raised) /\ Refers(j, a)
                 \/ j = i /\ a = n
      <3>1. CASE a = n
        BY <1>8, <1>9, <1>12, <2>1, <2>2, <2>3, <2>4, <3>1 DEF Refers
      <3>2. CASE a # n
        <4>1. a \in 1 .. Len(raised) /\ j \in 1 .. Len(rows)
          BY <1>5, <1>9, <1>10, <3>2
        <4>2. ASSUME NEW l \in Reviews, review'[l].row = j, review'[l].alert = a
              PROVE  Refers(j, a)
          BY <1>8, <1>12, <3>2, <4>2 DEF Refers
        <4>3. Refers(j, a)
          BY <1>9, <2>4, <4>2 DEF Refers
        <4> QED
          BY <4>1, <4>3
      <3> QED
        BY <3>1, <3>2
    <2>5. \A j \in 1 .. Len(rows'), a \in 1 .. Len(raised') : Refers(j, a)' =>
             \/ j \in 1 .. Len(rows) /\ a \in 1 .. Len(raised) /\ Refers(j, a)
             \/ j = i /\ a \notin 1 .. Len(raised)
      BY <1>5, <2>4
    <2> QED
      BY <1>1, <2>5 DEF AlertsInv, AlertsApart
  <1>18. NoneLost'
    <2>1. \A l \in Reviews : review[l].pc = "link" => review'[l] = review[l]
      BY <1>2, <1>3, <1>12
    <2>2. \A a \in 1 .. Len(raised) : Owned(a) => Owned(a)'
      BY <1>9, <2>1 DEF Owned
    <2>3. Owned(n)'
      BY <1>8, <1>12 DEF Owned
    <2> QED
      BY <1>1, <1>5, <1>9, <1>10, <2>2, <2>3 DEF AlertsInv, NoneLost
  <1> QED
    BY <1>9, <1>13, <1>14, <1>15, <1>16, <1>17, <1>18 DEF FindInv, AlertsInv

LEMMA FindLinkConfirmed ==
    ASSUME FindInv, NEW k \in Reviews, LinkConfirmed(k)
    PROVE  FindInv'
  <1>1. FindTyped /\ JustInv /\ OneOpenFinding /\ AlertsInv
    BY DEF FindInv
  <1>2. PICK r : r = review[k]
    OBVIOUS
  <1>3. /\ r \in ReviewRow /\ r.pc = "link" /\ r.kind # "none" /\ r.row \in 1 .. Len(rows)
        /\ r.alert \in 1 .. Len(raised) /\ r.alert # 0 /\ r.alert \in Nat /\ Len(raised) \in Nat
    <2>1. /\ r \in ReviewRow /\ r.row \in 0 .. Len(rows) /\ r.alert \in 0 .. Len(raised)
          /\ Len(rows) \in Nat /\ Len(raised) \in Nat
      BY <1>1, <1>2, FindingsTypes
    <2>2. r.pc = "link" /\ r.row # 0 /\ r.kind # "none" /\ r.alert # 0
      BY <1>1, <1>2 DEF LinkConfirmed, FindTyped
    <2> QED
      BY <2>1, <2>2 DEF ReviewRow
  <1>4. PICK i \in 1 .. Len(rows), b \in 1 .. Len(raised) : i = r.row /\ b = r.alert /\ b \in Nat /\ b # 0
    BY <1>3
  <1>5. PICK s : s = [r EXCEPT !.pc = "tell"]
    OBVIOUS
  <1>6. s \in ReviewRow /\ s.pc = "tell" /\ s.kind = r.kind /\ s.row = i /\ s.alert = b
    BY <1>3, <1>4, <1>5 DEF ReviewRow
  <1>7. PICK e : e = [rows[i] EXCEPT !.alert = b]
    OBVIOUS
  <1>8. /\ UNCHANGED <<raised, scan, declared, cache, clearing, tangled, unjust>>
        /\ rows' = [rows EXCEPT ![i] = e] /\ review' = [review EXCEPT ![k] = s]
    BY <1>2, <1>4, <1>5, <1>7 DEF LinkConfirmed
  <1>9. /\ rows \in Seq(FindingRow) /\ e \in FindingRow /\ e.alert = b
        /\ e.key = rows[i].key /\ e.verdict = rows[i].verdict /\ e.recent = rows[i].recent
    <2>1. rows \in Seq(FindingRow) /\ rows[i] \in FindingRow
      BY <1>1, FindingsTypes DEF FindTyped
    <2> QED
      BY <1>4, <1>7, <2>1 DEF FindingRow
  <1>10. /\ rows' \in Seq(FindingRow) /\ Len(rows') = Len(rows) /\ rows'[i] = e
         /\ \A j \in 1 .. Len(rows) : j # i => rows'[j] = rows[j]
    BY <1>8, <1>9, OneReplaced
  <1>11. Fitting(s)'
    <2>1. b <= Len(raised') /\ i <= Len(rows') /\ i # 0
      BY <1>3, <1>4, <1>8, <1>10, <1>1, FindingsTypes
    <2> QED
      BY <1>3, <1>4, <1>6, <2>1 DEF Fitting
  <1>12. /\ review' \in [Reviews -> ReviewRow] /\ review'[k] = s
         /\ \A l \in Reviews : l # k => review'[l] = review[l]
         /\ \A l \in Reviews : Fitting(review[l])'
    <2>1. Len(raised) <= Len(raised') /\ Len(raised') \in Nat
      BY <1>3, <1>8
    <2> QED
      BY <1>1, <1>8, <1>10, <1>11, <2>1, ReviewWritten
  <1>13. FindTyped'
    <2>1. \A j \in 1 .. Len(rows) : rows'[j].alert <= Len(raised)
      BY <1>1, <1>3, <1>4, <1>9, <1>10, FindingsTypes
    <2> QED
      BY <1>1, <1>8, <1>10, <1>12, <2>1 DEF FindTyped, Fitting, Holds
  <1>14. JustInv' /\ OneOpenFinding'
    BY <1>1, <1>8, <1>9, <1>10, OpenRests DEF JustInv
  <1>15. \A j \in 1 .. Len(rows) : j # i => Minded(j)'
    <2>1. review[k].row = i /\ review'[k].row = i
      BY <1>2, <1>4, <1>6, <1>12
    <2> QED
      BY <1>1, <1>8, <1>10, <1>12, <2>1, OthersMinded
  <1>16. Minded(i)'
    <2>1. SUFFICES ASSUME i \notin tangled' PROVE Minded(i)'
      BY DEF Minded
    <2>2. i \notin tangled /\ review[k].row = i
      BY <1>2, <1>4, <1>8, <2>1
    <2>3. ReviewKnows(k, i) /\ ~(Holds /\ scan.row = i) /\ \A l \in Reviews : l # k => review[l].row # i
      BY <1>1, <2>2, OneReview
    <2>4. ReviewKnows(k, i)' /\ review'[k].row = i
      BY <1>2, <1>3, <1>6, <1>9, <1>10, <1>12, <2>3 DEF ReviewKnows
    <2> QED
      BY <1>8, <1>12, <2>3, <2>4, StillMinded
  <1>17. AlertsApart'
    <2>1. \A j \in 1 .. Len(rows), a \in 1 .. Len(raised) : Refers(j, a)' => Refers(j, a)
      <3> TAKE j \in 1 .. Len(rows), a \in 1 .. Len(raised)
      <3>1. ASSUME NEW l \in Reviews, review'[l].row = j, review'[l].alert = a
            PROVE  Refers(j, a)
        BY <1>2, <1>4, <1>6, <1>12, <3>1 DEF Refers
      <3>2. rows'[j].alert = a => rows[j].alert = a \/ (j = i /\ a = b)
        BY <1>9, <1>10
      <3>3. Refers(i, b)
        BY <1>2, <1>4 DEF Refers
      <3> QED
        BY <1>8, <3>1, <3>2, <3>3 DEF Refers
    <2> QED
      BY <1>1, <1>8, <1>10, <2>1 DEF AlertsInv, AlertsApart
  <1>18. NoneLost'
    <2>1. SUFFICES ASSUME tangled = {}, NEW a \in 1 .. Len(raised) PROVE Owned(a)'
      BY <1>8 DEF NoneLost
    <2>2. rows[i].alert = 0
      <3>1. i \notin tangled /\ review[k].row = i
        BY <1>2, <1>4, <2>1
      <3> QED
        BY <1>1, <1>2, <1>3, <3>1, OneReview DEF ReviewKnows
    <2>3. Owned(a) /\ a # 0
      BY <1>1, <2>1, FindingsTypes DEF AlertsInv, NoneLost
    <2>4. CASE \E j \in 1 .. Len(rows) : rows[j].alert = a
      BY <1>10, <2>2, <2>3, <2>4 DEF Owned
    <2>5. CASE scan.pc = "link" /\ scan.alert = a
      BY <1>8, <2>5 DEF Owned
    <2>6. CASE \E l \in Reviews : review[l].pc = "link" /\ review[l].alert = a
      <3>1. PICK l \in Reviews : review[l].pc = "link" /\ review[l].alert = a
        BY <2>6
      <3>2. CASE l = k
        <4>1. rows'[i].alert = a /\ i \in 1 .. Len(rows')
          BY <1>2, <1>4, <1>9, <1>10, <3>1, <3>2
        <4> QED
          BY <4>1 DEF Owned
      <3>3. CASE l # k
        BY <1>12, <3>1, <3>3 DEF Owned
      <3> QED
        BY <3>2, <3>3
    <2> QED
      BY <2>3, <2>4, <2>5, <2>6 DEF Owned
  <1> QED
    BY <1>8, <1>10, <1>13, <1>14, <1>15, <1>16, <1>17, <1>18 DEF FindInv, AlertsInv

\* A review ends: it wrote its own alert at most, and if it was alone its finding
\* agrees with that.
LEMMA ReviewEnds ==
    ASSUME FindInv, NEW k \in Reviews, NEW i \in 1 .. Len(rows), NEW b \in 1 .. Len(raised),
           review[k].pc \in {"tell", "resolve"}, review[k].row = i, review[k].alert = b,
           UNCHANGED <<rows, scan, declared, cache, clearing, unjust>>, review' = [review EXCEPT ![k] = NoReview],
           tangled' = tangled \/ tangled' = tangled \cup {i},
           raised' \in Seq(RaisedRow), Len(raised') = Len(raised),
           \A a \in 1 .. Len(raised) : a # b => raised'[a] = raised[a],
           i \notin tangled' => Agrees(i)'
    PROVE  FindInv'
  <1>1. FindTyped /\ JustInv /\ OneOpenFinding /\ AlertsInv
    BY DEF FindInv
  <1>2. Len(rows) \in Nat /\ Len(raised) \in Nat /\ b # 0
    <2>1. Len(rows) \in Nat /\ Len(raised) \in Nat
      BY <1>1, FindingsTypes
    <2> QED
      BY <2>1
  <1>3. Fitting(NoReview)'
    <2>1. NoReview \in ReviewRow /\ NoReview.row = 0 /\ NoReview.alert = 0 /\ NoReview.pc = "idle"
      BY DEF NoReview, ReviewRow
    <2> QED
      BY <1>2, <2>1 DEF Fitting
  <1>4. /\ review' \in [Reviews -> ReviewRow] /\ review'[k] = NoReview
        /\ \A l \in Reviews : l # k => review'[l] = review[l]
        /\ \A l \in Reviews : Fitting(review[l])'
    <2>1. Len(rows') = Len(rows) /\ Len(raised) <= Len(raised') /\ Len(raised') \in Nat
      BY <1>2
    <2> QED
      BY <1>1, <1>3, <2>1, ReviewWritten
  <1>5. NoReview.row = 0 /\ NoReview.alert = 0 /\ NoReview.pc = "idle" /\ i # 0
    BY <1>2 DEF NoReview
  <1>6. FindTyped'
    BY <1>1, <1>4 DEF FindTyped, Fitting, Holds
  <1>7. JustInv' /\ OneOpenFinding'
    BY <1>1 DEF JustInv, OneOpenFinding
  <1>8. \A j \in 1 .. Len(rows) : j # i => Minded(j)'
    <2>1. \A a \in 1 .. Len(raised) : raised'[a] = raised[a] \/ Refers(i, a)
      BY DEF Refers
    <2>2. tangled \subseteq tangled' /\ \A j \in 1 .. Len(rows) : j # i => rows'[j] = rows[j]
      OBVIOUS
    <2>3. review[k].row \in {0, i} /\ review'[k].row \in {0, i}
      BY <1>4, <1>5
    <2> QED
      BY <1>1, <1>4, <2>1, <2>2, <2>3, OthersMinded
  <1>9. Minded(i)'
    <2>1. SUFFICES ASSUME i \notin tangled' PROVE Minded(i)'
      BY DEF Minded
    <2>2. i \notin tangled
      BY <2>1
    <2>3. ~(Holds /\ scan.row = i) /\ \A l \in Reviews : l # k => review[l].row # i
      BY <1>1, <2>2, OneReview
    <2>4. review'[k].row # i /\ Agrees(i)'
      BY <1>4, <1>5, <2>1
    <2> QED
      BY <1>4, <2>3, <2>4, StillMinded
  <1>10. AlertsApart'
    <2>1. \A j \in 1 .. Len(rows), a \in 1 .. Len(raised) : Refers(j, a)' => Refers(j, a)
      <3> TAKE j \in 1 .. Len(rows), a \in 1 .. Len(raised)
      <3>1. j # 0
        BY <1>2
      <3>2. ASSUME NEW l \in Reviews, review'[l].row = j, review'[l].alert = a
            PROVE  Refers(j, a)
        BY <1>4, <1>5, <3>1, <3>2 DEF Refers
      <3> QED
        BY <3>2 DEF Refers
    <2> QED
      BY <1>1, <2>1 DEF AlertsInv, AlertsApart
  <1>11. NoneLost'
    <2>1. \A l \in Reviews : review[l].pc = "link" => review'[l] = review[l]
      BY <1>4
    <2>2. \A a \in 1 .. Len(raised) : Owned(a) => Owned(a)'
      BY <2>1 DEF Owned
    <2>3. tangled' = {} => tangled = {}
      OBVIOUS
    <2> QED
      BY <1>1, <2>2, <2>3 DEF AlertsInv, NoneLost
  <1> QED
    BY <1>6, <1>7, <1>8, <1>9, <1>10, <1>11 DEF FindInv, AlertsInv

\* What a review that is about to write its alert has in hand.
LEMMA ReviewInHand ==
    ASSUME FindInv, NEW k \in Reviews, review[k].pc \in {"tell", "resolve"}
    PROVE  /\ review[k].row \in 1 .. Len(rows) /\ review[k].alert \in 1 .. Len(raised)
           /\ review[k].alert # 0 /\ raised \in Seq(RaisedRow) /\ raised[review[k].alert] \in RaisedRow
           /\ review[k].row \notin tangled => ReviewKnows(k, review[k].row)
  <1>1. FindTyped /\ AlertsInv
    BY DEF FindInv
  <1>2. /\ review[k].row \in 0 .. Len(rows) /\ review[k].alert \in 0 .. Len(raised)
        /\ Len(rows) \in Nat /\ Len(raised) \in Nat
    BY <1>1, FindingsTypes
  <1>3. review[k].row # 0 /\ review[k].alert # 0
    BY <1>1 DEF FindTyped
  <1>4. review[k].row \in 1 .. Len(rows) /\ review[k].alert \in 1 .. Len(raised)
    BY <1>2, <1>3
  <1>5. raised \in Seq(RaisedRow) /\ raised[review[k].alert] \in RaisedRow
    BY <1>1, <1>4, FindingsTypes DEF FindTyped
  <1>6. PICK i \in 1 .. Len(rows) : i = review[k].row
    BY <1>4
  <1>7. i \notin tangled => ReviewKnows(k, i)
    BY <1>1, <1>6, OneReview
  <1> QED
    BY <1>3, <1>4, <1>5, <1>6, <1>7

LEMMA FindTell ==
    ASSUME FindInv, NEW k \in Reviews, Tell(k)
    PROVE  FindInv'
  <1>1. review[k].pc = "tell"
    BY DEF Tell
  <1>2. PICK i \in 1 .. Len(rows), b \in 1 .. Len(raised) :
           /\ i = review[k].row /\ b = review[k].alert /\ b # 0 /\ raised \in Seq(RaisedRow) /\ raised[b] \in RaisedRow
           /\ i \notin tangled => ReviewKnows(k, i)
    BY <1>1, ReviewInHand
  <1>3. PICK e : e = [raised[b] EXCEPT !.told = TRUE]
    OBVIOUS
  <1>4. e \in RaisedRow /\ e.told
    BY <1>2, <1>3 DEF RaisedRow
  <1>5. /\ UNCHANGED <<rows, scan, declared, cache, clearing, unjust>> /\ review' = [review EXCEPT ![k] = NoReview]
        /\ \/ raised' = [raised EXCEPT ![b] = e] /\ tangled' = tangled
           \/ raised' = raised /\ tangled' = tangled \cup {i}
    BY <1>2, <1>3 DEF Tell
  <1>6. CASE raised' = [raised EXCEPT ![b] = e] /\ tangled' = tangled
    <2>1. /\ raised' \in Seq(RaisedRow) /\ Len(raised') = Len(raised) /\ raised'[b] = e
          /\ \A a \in 1 .. Len(raised) : a # b => raised'[a] = raised[a]
      BY <1>2, <1>4, <1>6, OneReplaced
    <2>2. i \notin tangled' => Agrees(i)'
      BY <1>1, <1>2, <1>4, <1>5, <1>6, <2>1 DEF ReviewKnows, Agrees
    <2> QED
      BY <1>1, <1>2, <1>5, <1>6, <2>1, <2>2, ReviewEnds
  <1>7. CASE raised' = raised /\ tangled' = tangled \cup {i}
    <2>1. /\ raised' \in Seq(RaisedRow) /\ Len(raised') = Len(raised)
          /\ \A a \in 1 .. Len(raised) : a # b => raised'[a] = raised[a]
      BY <1>2, <1>7
    <2>2. i \notin tangled' => Agrees(i)'
      BY <1>7
    <2> QED
      BY <1>1, <1>2, <1>5, <1>7, <2>1, <2>2, ReviewEnds
  <1> QED
    BY <1>5, <1>6, <1>7

LEMMA FindResolve ==
    ASSUME FindInv, NEW k \in Reviews, Resolve(k)
    PROVE  FindInv'
  <1>1. review[k].pc = "resolve"
    BY DEF Resolve
  <1>2. PICK i \in 1 .. Len(rows), b \in 1 .. Len(raised) :
           /\ i = review[k].row /\ b = review[k].alert /\ b # 0 /\ raised \in Seq(RaisedRow) /\ raised[b] \in RaisedRow
           /\ i \notin tangled => ReviewKnows(k, i)
    BY <1>1, ReviewInHand
  <1>3. PICK e : e = [raised[b] EXCEPT !.active = FALSE]
    OBVIOUS
  <1>4. e \in RaisedRow /\ ~e.active
    BY <1>2, <1>3 DEF RaisedRow
  <1>5. /\ UNCHANGED <<rows, scan, declared, cache, clearing, unjust>> /\ review' = [review EXCEPT ![k] = NoReview]
        /\ \/ raised' = [raised EXCEPT ![b] = e] /\ tangled' = tangled
           \/ raised' = raised /\ tangled' = tangled \cup {i}
    BY <1>2, <1>3 DEF Resolve
  <1>6. CASE raised' = [raised EXCEPT ![b] = e] /\ tangled' = tangled
    <2>1. /\ raised' \in Seq(RaisedRow) /\ Len(raised') = Len(raised) /\ raised'[b] = e
          /\ \A a \in 1 .. Len(raised) : a # b => raised'[a] = raised[a]
      BY <1>2, <1>4, <1>6, OneReplaced
    <2>2. i \notin tangled' => Agrees(i)'
      BY <1>1, <1>2, <1>4, <1>5, <1>6, <2>1 DEF ReviewKnows, Agrees
    <2> QED
      BY <1>1, <1>2, <1>5, <1>6, <2>1, <2>2, ReviewEnds
  <1>7. CASE raised' = raised /\ tangled' = tangled \cup {i}
    <2>1. /\ raised' \in Seq(RaisedRow) /\ Len(raised') = Len(raised)
          /\ \A a \in 1 .. Len(raised) : a # b => raised'[a] = raised[a]
      BY <1>2, <1>7
    <2>2. i \notin tangled' => Agrees(i)'
      BY <1>7
    <2> QED
      BY <1>1, <1>2, <1>5, <1>7, <2>1, <2>2, ReviewEnds
  <1> QED
    BY <1>5, <1>6, <1>7

LEMMA FindRestarts ==
    ASSUME FindInv, Restarts
    PROVE  FindInv'
  <1>1. FindTyped /\ JustInv /\ OneOpenFinding /\ AlertsInv
    BY DEF FindInv
  <1>2. /\ UNCHANGED <<rows, raised, declared, unjust>>
        /\ tangled' = tangled \cup {i \in 1 .. Len(rows) : Handled(i)}
        /\ scan' = NoScan /\ review' = [k \in Reviews |-> NoReview] /\ cache' = NoCopy /\ clearing' = FALSE
    BY DEF Restarts
  <1>3. NoReview \in ReviewRow /\ NoReview.row = 0 /\ NoReview.alert = 0 /\ NoReview.pc = "idle"
    BY DEF NoReview, ReviewRow
  <1>4. NoScan \in ScanRow /\ NoScan.pc = "idle"
    BY DEF NoScan, ScanRow
  <1>5. review' \in [Reviews -> ReviewRow] /\ \A k \in Reviews : review'[k] = NoReview
    BY <1>2, <1>3
  <1>6. Len(rows) \in Nat /\ Len(raised) \in Nat
    BY <1>1, FindingsTypes
  <1>7. FindTyped'
    <2>1. cache' \in [fresh : BOOLEAN, keys : SUBSET Keys, old : BOOLEAN] /\ clearing' \in BOOLEAN
      BY <1>2 DEF NoCopy
    <2>2. rows' \in Seq(FindingRow) /\ raised' \in Seq(RaisedRow) /\ declared' \subseteq Keys /\ scan' \in ScanRow
          /\ \A i \in 1 .. Len(rows') : rows'[i].alert <= Len(raised')
      BY <1>1, <1>2, <1>4 DEF FindTyped
    <2>3. scan'.pc = "idle"
      BY <1>2, <1>4
    <2>4. \A k \in Reviews : review'[k].row <= Len(rows') /\ review'[k].alert <= Len(raised')
      BY <1>2, <1>3, <1>5, <1>6
    <2> QED
      BY <1>3, <1>5, <2>1, <2>2, <2>3, <2>4 DEF FindTyped, Holds
  <1>8. JustInv' /\ OneOpenFinding'
    BY <1>1, <1>2, <1>4 DEF JustInv, OneOpenFinding, NoCopy
  <1>9. ASSUME NEW i \in 1 .. Len(rows)
        PROVE  Minded(i)'
    <2>1. SUFFICES ASSUME i \notin tangled' PROVE Minded(i)'
      BY DEF Minded
    <2>2. Agrees(i)
      BY <1>1, <1>2, <2>1 DEF AlertsInv, Minded
    <2>3. Agrees(i)'
      BY <1>2, <2>2 DEF Agrees
    <2>4. i # 0
      BY <1>6
    <2> QED
      BY <1>2, <1>3, <1>4, <1>5, <2>3, <2>4 DEF Minded, Holds
  <1>10. AlertsApart'
    <2>1. \A j \in 1 .. Len(rows), a \in 1 .. Len(raised) : Refers(j, a)' => Refers(j, a)
      <3> TAKE j \in 1 .. Len(rows), a \in 1 .. Len(raised)
      <3>1. j # 0
        BY <1>6
      <3> QED
        BY <1>2, <1>3, <1>4, <1>5, <3>1 DEF Refers
    <2> QED
      BY <1>1, <1>2, <2>1 DEF AlertsInv, AlertsApart
  <1>11. NoneLost'
    <2>1. SUFFICES ASSUME tangled' = {}, NEW a \in 1 .. Len(raised) PROVE Owned(a)'
      BY <1>2 DEF NoneLost
    <2>2. tangled = {} /\ \A i \in 1 .. Len(rows) : ~Handled(i)
      BY <1>2, <2>1
    <2>3. scan.pc # "link"
      BY <1>1, <2>2 DEF FindTyped, Holds, Handled
    <2>4. \A k \in Reviews : review[k].pc # "link"
      <3> TAKE k \in Reviews
      <3> SUFFICES ASSUME review[k].pc = "link" PROVE FALSE
        OBVIOUS
      <3>1. review[k].row # 0 /\ review[k].row \in 0 .. Len(rows)
        BY <1>1, FindingsTypes DEF FindTyped
      <3>2. review[k].row \in 1 .. Len(rows)
        BY <1>6, <3>1
      <3> QED
        BY <2>2, <3>2 DEF Handled
    <2> QED
      BY <1>1, <1>2, <2>2, <2>3, <2>4 DEF AlertsInv, NoneLost, Owned
  <1> QED
    BY <1>2, <1>7, <1>8, <1>9, <1>10, <1>11 DEF FindInv, AlertsInv

(***************************************************************************)
(* The engine and the operators.                                           *)
(***************************************************************************)
\* An alert that is escalated or resolved by others has been told as before, and
\* does not become active, which is all that anybody relies on.
LEMMA FindAlertTouched ==
    ASSUME FindInv, NEW a \in 1 .. Len(raised), Escalate(a) \/ OperatorResolves(a)
    PROVE  FindInv'
  <1>1. FindTyped /\ JustInv /\ OneOpenFinding /\ AlertsInv
    BY DEF FindInv
  <1>2. raised \in Seq(RaisedRow) /\ raised[a] \in RaisedRow
    BY <1>1, FindingsTypes DEF FindTyped
  <1>3. PICK e \in RaisedRow : /\ raised' = [raised EXCEPT ![a] = e] /\ e.told = raised[a].told
                               /\ e.active => raised[a].active
    <2>1. CASE Escalate(a)
      <3>1. PICK e : e = [raised[a] EXCEPT !.escalated = TRUE]
        OBVIOUS
      <3>2. e \in RaisedRow /\ e.told = raised[a].told /\ e.active = raised[a].active
        BY <1>2, <3>1 DEF RaisedRow
      <3>3. raised' = [raised EXCEPT ![a] = e]
        BY <2>1, <3>1 DEF Escalate
      <3> QED
        BY <3>2, <3>3
    <2>2. CASE OperatorResolves(a)
      <3>1. PICK e : e = [raised[a] EXCEPT !.active = FALSE]
        OBVIOUS
      <3>2. e \in RaisedRow /\ e.told = raised[a].told /\ ~e.active
        BY <1>2, <3>1 DEF RaisedRow
      <3>3. raised' = [raised EXCEPT ![a] = e]
        BY <2>2, <3>1 DEF OperatorResolves
      <3> QED
        BY <3>2, <3>3
    <2> QED
      BY <2>1, <2>2
  <1>4. UNCHANGED <<rows, scan, review, declared, cache, clearing, tangled, unjust>>
    BY DEF Escalate, OperatorResolves
  <1>5. /\ raised' \in Seq(RaisedRow) /\ Len(raised') = Len(raised) /\ raised'[a] = e
        /\ \A b \in 1 .. Len(raised) : b # a => raised'[b] = raised[b]
    <2>1. e \in RaisedRow /\ raised' = [raised EXCEPT ![a] = e] /\ raised \in Seq(RaisedRow)
      BY <1>2, <1>3
    <2> QED
      BY <2>1, OneReplaced
  <1>6. FindTyped'
    BY <1>1, <1>4, <1>5 DEF FindTyped, Holds
  <1>7. JustInv' /\ OneOpenFinding'
    BY <1>1, <1>4 DEF JustInv, OneOpenFinding
  <1>8. ASSUME NEW j \in 1 .. Len(rows)
        PROVE  Minded(j)'
    <2>1. \A b \in 1 .. Len(raised) : /\ raised'[b].told = raised[b].told
                                      /\ raised'[b].active => raised[b].active
      <3> TAKE b \in 1 .. Len(raised)
      <3>1. CASE b = a
        BY <1>3, <1>5, <3>1
      <3>2. CASE b # a
        BY <1>5, <3>2
      <3> QED
        BY <3>1, <3>2
    <2>2. Untouched(j)
      BY <1>4, <2>1 DEF Untouched, Holds
    <2> QED
      BY <1>1, <2>2, Elsewhere DEF AlertsInv
  <1>9. AlertsApart'
    BY <1>1, <1>4, <1>5 DEF AlertsInv, AlertsApart, Refers
  <1>10. NoneLost'
    BY <1>1, <1>4, <1>5 DEF AlertsInv, NoneLost, Owned
  <1> QED
    BY <1>4, <1>6, <1>7, <1>8, <1>9, <1>10 DEF FindInv, AlertsInv

\* Every step of the scan, the reviews, the declarations and what others do to the
\* alerts keeps the invariant.
THEOREM FindingsStep == FindInv /\ [FindNext]_findVars => FindInv'
  <1> SUFFICES ASSUME FindInv, [FindNext]_findVars PROVE FindInv'
    OBVIOUS
  <1>1. CASE \E found \in SUBSET Keys : Scan(found)
    BY <1>1, FindScan
  <1>2. CASE Look \/ KeepCopy \/ RaiseAlert \/ LinkAlert \/ ScanEnds
    BY <1>2, FindLook, FindKeepCopy, FindRaiseAlert, FindLinkAlert, FindScanEnds
  <1>3. CASE \E key \in Keys : StoreRow(key)
    BY <1>3, FindStoreRow
  <1>4. CASE \E k \in Reviews : Judge(k) \/ RaiseConfirmed(k) \/ LinkConfirmed(k) \/ Tell(k) \/ Resolve(k)
    BY <1>4, FindJudge, FindRaiseConfirmed, FindLinkConfirmed, FindTell, FindResolve
  <1>5. CASE \E k \in Reviews, i \in 1 .. Len(rows) : Confirm(k, i) \/ Dismiss(k, i)
    BY <1>5, FindReview DEF Confirm, Dismiss
  <1>6. CASE \E keys \in SUBSET Keys : Declare(keys)
    BY <1>6, FindDeclare
  <1>7. CASE DropCopy \/ CopyExpires
    BY <1>7, FindCopyGoes
  <1>8. CASE Restarts
    BY <1>8, FindRestarts
  <1>9. CASE \E i \in 1 .. Len(rows) : SixHoursPass(i)
    BY <1>9, FindSixHours
  <1>11. CASE \E a \in 1 .. Len(raised) : Escalate(a) \/ OperatorResolves(a)
    BY <1>11, FindAlertTouched
  <1>10. CASE UNCHANGED findVars
    <2>1. /\ UNCHANGED <<rows, raised, scan, review, declared, cache, clearing, tangled, unjust>>
          /\ FindTyped /\ JustInv /\ OneOpenFinding /\ AlertsInv
      BY <1>10 DEF findVars, FindInv
    <2>2. SameRows /\ SameHold
      BY <2>1 DEF SameRows, SameHold
    <2>3. AlertsInv'
      BY <2>1, <2>2, AlertsRest
    <2>4. FindTyped'
      BY <2>1 DEF FindTyped, Holds
    <2>5. JustInv' /\ OneOpenFinding'
      BY <2>1 DEF JustInv, OneOpenFinding
    <2> QED
      BY <2>3, <2>4, <2>5 DEF FindInv
  <1> QED
    BY <1>1, <1>2, <1>3, <1>4, <1>5, <1>6, <1>7, <1>8, <1>9, <1>10, <1>11 DEF FindNext

LEMMA FindingsAre ==
    ASSUME FindInv
    PROVE  FindingsHonest
  <1>1. FindTyped /\ JustInv /\ OneOpenFinding /\ AlertsInv
    BY DEF FindInv
  <1>2. \A i \in 1 .. Len(rows) : ~Handled(i) /\ i \notin tangled => Agrees(i)
    BY <1>1 DEF AlertsInv, Minded
  <1>3. ASSUME NEW i \in 1 .. Len(rows), NEW j \in 1 .. Len(rows), i # j, rows[i].alert # 0
        PROVE  rows[i].alert # rows[j].alert
    <2>1. rows[i].alert \in 0 .. Len(raised) /\ Len(raised) \in Nat
      BY <1>1, FindingsTypes
    <2>2. rows[i].alert \in 1 .. Len(raised)
      BY <1>3, <2>1
    <2> QED
      BY <1>1, <1>3, <2>2 DEF AlertsInv, AlertsApart, Refers
  <1>4. tangled = {} => \A a \in 1 .. Len(raised) :
          \/ \E i \in 1 .. Len(rows) : rows[i].alert = a
          \/ scan.alert = a \/ \E k \in Reviews : review[k].alert = a
    BY <1>1 DEF AlertsInv, NoneLost, Owned
  <1>5. VerdictsKept
    BY <1>2, <1>3, <1>4 DEF VerdictsKept, Agrees
  <1> QED
    BY <1>1, <1>5 DEF FindingsHonest, JustInv

\* The feed keeps its word about what it does itself, whatever the detectors find,
\* however many review it, whoever else resolves or escalates its alerts, and
\* whenever a load is declared or the process restarts: no finding waits twice, its
\* alert follows the last verdict unless its handling was overtaken, cut off or
\* failed, and load declared before is not reported.
THEOREM FeedIsHonest == FindSpec => []FindingsHonest
  <1>1. FindInit => FindInv
    BY FindInitHolds
  <1>2. FindInv => FindingsHonest
    BY FindingsAre
  <1> QED
    BY <1>1, <1>2, FindingsStep, PTL DEF FindSpec

(***************************************************************************)
(* Uptime                                                                  *)
(*                                                                         *)
(* UptimeInv holds of every state of Uptime: the rows are stamped in the   *)
(* past, a pass under way has a verdict, and as long as no write was lost  *)
(* and no passes wrote against each other, what is remembered and what was *)
(* told is the newest row, or a pass wrote it and is about to remember it. *)
(* From it, PassesTold.                                                    *)
(***************************************************************************)

EventRow == [at : Nat, up : {"up", "down"}]
PassRow == [pc : {"idle", "compare", "create", "remember"}, v : Verdicts]
ApiRow == [up : BOOLEAN, booted : BOOLEAN, last : Verdicts, rolled : BOOLEAN, missed : BOOLEAN]
UpTyped ==
    /\ now \in Nat /\ verdict \in Verdicts
    /\ events \in Seq(EventRow)
    /\ \A i \in DOMAIN events : events[i].at <= now
    /\ api \in ApiRow
    /\ pass \in [Passes -> PassRow]
    /\ \A p \in Passes : pass[p] = Resting \/ (pass[p].pc # "idle" /\ pass[p].v # "none")
    /\ told \in Verdicts /\ muddled \in BOOLEAN

\* What is remembered, if the device was found at the start, and what was told, is
\* the newest row; a pass that wrote it and has not remembered it knows it.
UptimeInv ==
    /\ UpTyped
    /\ ~api.booted => api.last = "none" /\ told = "none" /\ \A p \in Passes : pass[p] = Resting
    /\ ~muddled =>
         /\ \A p \in Passes : pass[p].pc = "remember" => pass[p].v = Newest
         /\ (\A p \in Passes : pass[p].pc # "remember") =>
              /\ api.booted => Remembered
              /\ told # "none" => told = Newest

LEMMA UptimeStarts == UpInit => UptimeInv
  <1> SUFFICES ASSUME UpInit PROVE UptimeInv
    OBVIOUS
  <1>1. /\ now = 0 /\ verdict \in Verdicts /\ events = <<>> /\ told = "none" /\ muddled = FALSE
        /\ api = [up |-> TRUE, booted |-> FALSE, last |-> "none", rolled |-> FALSE, missed |-> FALSE]
        /\ \A p \in Passes : pass[p] = Resting
        /\ pass = [p \in Passes |-> Resting] /\ Resting \in PassRow
    BY DEF UpInit, Offline, Resting, PassRow, Verdicts
  <1>2. UpTyped
    <2>1. events \in Seq(EventRow) /\ DOMAIN events = {}
      BY <1>1
    <2> QED
      BY <1>1, <2>1 DEF UpTyped, Verdicts, ApiRow
  <1>3. api.booted = FALSE /\ api.last = "none" /\ \A p \in Passes : pass[p].pc # "remember"
    BY <1>1 DEF Resting
  <1> QED
    BY <1>1, <1>2, <1>3 DEF UptimeInv

\* Newest is of type Verdicts.
LEMMA NewestTyped ==
    ASSUME UpTyped
    PROVE  /\ Newest \in Verdicts
           /\ \A e \in EventRow :
                 /\ Append(events, e) \in Seq(EventRow)
                 /\ Append(events, e) # <<>> /\ Last(Append(events, e)) = e
                 /\ \A i \in DOMAIN Append(events, e) : Append(events, e)[i] = e
                                                       \/ (i \in DOMAIN events /\ Append(events, e)[i] = events[i])
  <1>1. events \in Seq(EventRow)
    BY DEF UpTyped
  <1>2. events # <<>> => events[Len(events)] \in EventRow
    BY <1>1
  <1>4. \A e \in EventRow :
           /\ Append(events, e) \in Seq(EventRow) /\ Append(events, e) # <<>>
           /\ Append(events, e)[Len(Append(events, e))] = e
           /\ \A i \in DOMAIN Append(events, e) : \/ Append(events, e)[i] = e
                                                 \/ (i \in DOMAIN events /\ Append(events, e)[i] = events[i])
    BY <1>1
  <1>3. Newest \in Verdicts
    BY <1>2 DEF Newest, Last, Verdicts, EventRow
  <1> QED
    BY <1>3, <1>4 DEF Last

LEMMA CollectKeeps ==
    ASSUME UptimeInv, NEW p \in Passes, Collect(p)
    PROVE  UptimeInv'
  <1>1. UpTyped /\ Newest \in Verdicts
    BY NewestTyped DEF UptimeInv
  <1>2. /\ UNCHANGED <<now, verdict, events, told, muddled>> /\ pass[p] = Resting
        /\ pass' = [pass EXCEPT ![p] = IF verdict = "none" THEN Resting ELSE [pc |-> "compare", v |-> verdict]]
        /\ IF api.booted THEN UNCHANGED api ELSE \E reached \in BOOLEAN : api' = Primed(reached)
    BY DEF Collect
  <1>3. /\ api' \in ApiRow
        /\ api'.booted /\ (api.booted => api' = api)
        /\ ~api.booted => api'.last = Newest \/ (api'.missed /\ api'.last = "none")
    <2>1. api \in ApiRow
      BY <1>1 DEF UpTyped
    <2>2. ~api.booted => api.last = "none"
      BY DEF UptimeInv
    <2>3. CASE api.booted
      BY <1>2, <2>1, <2>3
    <2>4. CASE ~api.booted
      <3>1. PICK reached \in BOOLEAN : api' = Primed(reached)
        BY <1>2, <2>4
      <3>2. CASE reached
        <4>1. api' = [api EXCEPT !.booted = TRUE, !.missed = FALSE, !.last = Newest]
          BY <2>2, <2>4, <3>1, <3>2 DEF Primed
        <4> QED
          BY <1>1, <2>1, <2>4, <4>1 DEF ApiRow
      <3>3. CASE ~reached
        <4>1. api' = [api EXCEPT !.booted = TRUE, !.missed = TRUE, !.last = "none"]
          BY <2>2, <2>4, <3>1, <3>3 DEF Primed
        <4> QED
          BY <1>1, <2>1, <2>4, <4>1 DEF ApiRow, Verdicts
      <3> QED
        BY <3>2, <3>3
    <2> QED
      BY <2>3, <2>4
  <1>4. /\ pass' \in [Passes -> PassRow]
        /\ \A q \in Passes : pass'[q] = Resting \/ (pass'[q].pc # "idle" /\ pass'[q].v # "none")
        /\ \A q \in Passes : pass'[q].pc = "remember" <=> pass[q].pc = "remember"
        /\ \A q \in Passes : pass'[q].pc = "remember" => pass'[q].v = pass[q].v
    BY <1>1, <1>2 DEF UpTyped, PassRow, Resting, Verdicts
  <1>5. Newest' = Newest
    BY <1>2 DEF Newest
  <1>6. UpTyped'
    BY <1>1, <1>2, <1>3, <1>4 DEF UpTyped
  <1>7. ~api.booted => told = "none"
    BY DEF UptimeInv
  <1>8. ~muddled /\ (\A q \in Passes : pass[q].pc # "remember") => Remembered'
    BY <1>3, <1>5 DEF UptimeInv, Remembered
  <1> QED
    BY <1>2, <1>3, <1>4, <1>5, <1>6, <1>7, <1>8 DEF UptimeInv

LEMMA CompareKeeps ==
    ASSUME UptimeInv, NEW p \in Passes, Compare(p)
    PROVE  UptimeInv'
  <1>1. UpTyped /\ pass[p].v \in Verdicts /\ pass[p].v # "none" /\ pass[p].pc = "compare" /\ api.booted
    BY DEF UptimeInv, UpTyped, Compare, PassRow, Resting
  <1>2. /\ UNCHANGED <<now, verdict, events, api, muddled>>
        /\ pass' = [pass EXCEPT ![p] = IF api.last = pass[p].v THEN Resting ELSE [@ EXCEPT !.pc = "create"]]
        /\ told' = IF api.last = pass[p].v THEN pass[p].v ELSE told
    BY DEF Compare
  <1>3. /\ pass' \in [Passes -> PassRow]
        /\ \A q \in Passes : pass'[q] = Resting \/ (pass'[q].pc # "idle" /\ pass'[q].v # "none")
        /\ \A q \in Passes : pass'[q].pc = "remember" <=> pass[q].pc = "remember"
        /\ \A q \in Passes : pass'[q].pc = "remember" => pass'[q].v = pass[q].v
    BY <1>1, <1>2 DEF UpTyped, PassRow, Resting, Verdicts
  <1>4. Newest' = Newest
    BY <1>2 DEF Newest
  <1>5. UpTyped'
    BY <1>1, <1>2, <1>3 DEF UpTyped
  <1>6. ~muddled /\ (\A q \in Passes : pass[q].pc # "remember") => Remembered /\ (told # "none" => told = Newest)
    BY <1>1 DEF UptimeInv, Remembered
  <1>7. api.last = pass[p].v /\ Remembered => pass[p].v = Newest
    BY <1>1 DEF Remembered
  <1>8. Remembered' <=> Remembered
    BY <1>2, <1>4 DEF Remembered
  <1> QED
    BY <1>1, <1>2, <1>3, <1>4, <1>5, <1>6, <1>7, <1>8 DEF UptimeInv

LEMMA CreateKeeps ==
    ASSUME UptimeInv, NEW p \in Passes, Create(p)
    PROVE  UptimeInv'
  <1>1. UpTyped /\ pass[p].v \in Verdicts /\ pass[p].v # "none" /\ pass[p].pc = "create" /\ api.booted
    BY DEF UptimeInv, UpTyped, Create, PassRow, Resting
  <1>2. /\ UNCHANGED <<now, verdict, api, told>>
        /\ pass' = [pass EXCEPT ![p].pc = "remember"]
    BY DEF Create
  <1>3. /\ pass' \in [Passes -> PassRow] /\ pass'[p].pc = "remember" /\ pass'[p].v = pass[p].v
        /\ \A q \in Passes : pass'[q] = Resting \/ (pass'[q].pc # "idle" /\ pass'[q].v # "none")
        /\ \A q \in Passes \ {p} : pass'[q] = pass[q]
    BY <1>1, <1>2 DEF UpTyped, PassRow, Resting, Verdicts
  <1>4. CASE events' = Append(events, [at |-> now, up |-> pass[p].v]) /\ muddled' = (muddled \/ Against(p))
    <2> DEFINE e == [at |-> now, up |-> pass[p].v]
    <2>1. e \in EventRow /\ e.at <= now
      BY <1>1 DEF UpTyped, Verdicts, EventRow
    <2>2. /\ events' \in Seq(EventRow) /\ events' # <<>> /\ Last(events') = e
          /\ \A i \in DOMAIN events' : events'[i] = e \/ (i \in DOMAIN events /\ events'[i] = events[i])
      BY <1>1, <1>4, <2>1, NewestTyped
    <2>3. UpTyped'
      BY <1>1, <1>2, <1>3, <1>4, <2>1, <2>2 DEF UpTyped, Against
    <2>4. Newest' = pass[p].v
      BY <2>2 DEF Newest
    <2>5. ASSUME ~muddled', NEW q \in Passes, pass'[q].pc = "remember"
          PROVE  pass'[q].v = pass[p].v
      BY <1>3, <1>4, <2>5 DEF Against
    <2> QED
      BY <1>1, <1>2, <1>3, <2>3, <2>4, <2>5 DEF UptimeInv
  <1>5. CASE muddled' = TRUE /\ UNCHANGED events
    <2>1. UpTyped'
      BY <1>1, <1>2, <1>3, <1>5 DEF UpTyped
    <2> QED
      BY <1>1, <1>2, <1>5, <2>1 DEF UptimeInv
  <1> QED
    BY <1>4, <1>5 DEF Create

LEMMA RememberKeeps ==
    ASSUME UptimeInv, NEW p \in Passes, Remember(p)
    PROVE  UptimeInv'
  <1>1. UpTyped /\ pass[p].v \in Verdicts /\ pass[p].pc = "remember" /\ api.booted
    BY DEF UptimeInv, UpTyped, Remember, PassRow, Resting
  <1>2. /\ UNCHANGED <<now, verdict, events, muddled>>
        /\ api' = [api EXCEPT !.last = pass[p].v] /\ told' = pass[p].v
        /\ pass' = [pass EXCEPT ![p] = Resting]
    BY DEF Remember
  <1>3. /\ pass' \in [Passes -> PassRow]
        /\ \A q \in Passes : pass'[q] = Resting \/ (pass'[q].pc # "idle" /\ pass'[q].v # "none")
        /\ \A q \in Passes : pass'[q].pc = "remember" => pass'[q] = pass[q]
    BY <1>1, <1>2 DEF UpTyped, PassRow, Resting, Verdicts
  <1>4. /\ api' \in ApiRow
        /\ api'.booted /\ api'.last = pass[p].v
    BY <1>1, <1>2 DEF UpTyped, ApiRow
  <1>5. Newest' = Newest /\ (~muddled => pass[p].v = Newest)
    BY <1>1, <1>2 DEF Newest, UptimeInv
  <1>6. UpTyped'
    BY <1>1, <1>2, <1>3, <1>4 DEF UpTyped
  <1>7. ~muddled => \A q \in Passes : pass[q].pc = "remember" => pass[q].v = Newest
    BY DEF UptimeInv
  <1>8. ~muddled => Remembered'
    BY <1>4, <1>5 DEF Remembered
  <1> QED
    BY <1>2, <1>3, <1>4, <1>5, <1>6, <1>7, <1>8 DEF UptimeInv

\* What neither time, rollups nor the start of the process disturb.
LEMMA UptimeRestKeeps ==
    ASSUME UptimeInv,
           \/ Tick \/ Boot \/ Rollup \/ Upsert \/ UNCHANGED upVars
    PROVE  UptimeInv'
  <1>1. UpTyped
    BY DEF UptimeInv
  <1>0. now \in Nat /\ verdict \in Verdicts
        /\ api \in ApiRow
    BY <1>1 DEF UpTyped
  <1> DEFINE Api == /\ api' \in ApiRow
                    /\ api'.booted = api.booted /\ api'.last = api.last /\ api'.missed = api.missed
             Calm == UNCHANGED <<events, pass, told, muddled>> /\ now' >= now /\ now' \in Nat /\ verdict' \in Verdicts
  <1>2. Calm /\ Api
    <2>1. CASE Tick
      <3>1. /\ UNCHANGED <<events, pass, told, muddled, api>> /\ now' = now + 1
            /\ verdict' \in Verdicts \ {"none"}
        BY <2>1 DEF Tick
      <3> QED
        BY <1>0, <3>1
    <2>2. CASE Boot
      <3>1. UNCHANGED <<events, pass, told, muddled, now, verdict>> /\ api' = [api EXCEPT !.up = TRUE]
        BY <2>2 DEF Boot
      <3>2. Api
        <4>1. api' = [api EXCEPT !.up = TRUE]
          BY <3>1
        <4> QED
          BY <1>0, <4>1 DEF ApiRow
      <3>3. Calm
        <4>1. now' = now /\ verdict' = verdict /\ UNCHANGED <<events, pass, told, muddled>>
          BY <3>1
        <4> QED
          BY <1>0, <4>1
      <3> QED
        BY <3>2, <3>3
    <2>3. CASE Rollup
      <3>1. UNCHANGED <<events, pass, told, muddled, now, verdict>> /\ api' = [api EXCEPT !.rolled = TRUE]
        BY <2>3 DEF Rollup
      <3>2. Api
        <4>1. api' = [api EXCEPT !.rolled = TRUE]
          BY <3>1
        <4> QED
          BY <1>0, <4>1 DEF ApiRow
      <3>3. Calm
        <4>1. now' = now /\ verdict' = verdict /\ UNCHANGED <<events, pass, told, muddled>>
          BY <3>1
        <4> QED
          BY <1>0, <4>1
      <3> QED
        BY <3>2, <3>3
    <2>4. CASE Upsert \/ UNCHANGED upVars
      <3>1. UNCHANGED <<events, pass, told, muddled, now, verdict, api>>
        BY <2>4 DEF Upsert, upVars
      <3> QED
        BY <1>0, <3>1
    <2> QED
      BY <2>1, <2>2, <2>3, <2>4
  <1>4. \A i \in DOMAIN events : events[i].at \in Nat /\ events[i].at <= now
    <2>1. \A i \in DOMAIN events : events[i] \in EventRow
      BY <1>1 DEF UpTyped
    <2> QED
      BY <1>1, <2>1 DEF UpTyped, EventRow
  <1>5. UpTyped'
    <2>1. \A i \in DOMAIN events' : events'[i].at <= now'
      BY <1>1, <1>2, <1>4 DEF UpTyped
    <2> QED
      BY <1>1, <1>2, <2>1 DEF UpTyped
  <1>6. Newest' = Newest /\ (Remembered' <=> Remembered)
    BY <1>2 DEF Newest, Remembered
  <1> QED
    BY <1>2, <1>5, <1>6 DEF UptimeInv

LEMMA CrashKeeps ==
    ASSUME UptimeInv, Crash
    PROVE  UptimeInv'
  <1>1. UpTyped
    BY DEF UptimeInv
  <1>2. /\ UNCHANGED <<now, verdict, events>> /\ told' = "none" /\ muddled' = FALSE
        /\ pass' = [p \in Passes |-> Resting]
        /\ api' = [up |-> FALSE, booted |-> FALSE, last |-> "none", rolled |-> FALSE, missed |-> FALSE]
    BY DEF Crash, Offline
  <1>3. /\ pass' \in [Passes -> PassRow]
        /\ \A q \in Passes : pass'[q] = Resting /\ pass'[q].pc # "remember"
    BY <1>2 DEF PassRow, Resting, Verdicts
  <1>4. UpTyped'
    BY <1>1, <1>2, <1>3 DEF UpTyped, Verdicts, ApiRow
  <1> QED
    BY <1>2, <1>3, <1>4 DEF UptimeInv

\* The inductive invariant of Uptime is kept by every step.
THEOREM UptimeStep == UptimeInv /\ [UpNext]_upVars => UptimeInv'
  <1> SUFFICES ASSUME UptimeInv, [UpNext]_upVars PROVE UptimeInv'
    OBVIOUS
  <1>1. CASE Tick \/ Boot \/ Rollup \/ Upsert \/ UNCHANGED upVars
    BY <1>1, UptimeRestKeeps
  <1>2. CASE Crash
    BY <1>2, CrashKeeps
  <1>3. ASSUME NEW p \in Passes, Collect(p) \/ Compare(p) \/ Create(p) \/ Remember(p) PROVE UptimeInv'
    BY <1>3, CollectKeeps, CompareKeeps, CreateKeeps, RememberKeeps
  <1> QED
    BY <1>1, <1>2, <1>3 DEF UpNext

LEMMA LastIsMax ==
    ASSUME NEW n \in Nat \ {0}
    PROVE  Max(1 .. n) = n
  <1>1. n \in 1 .. n /\ \A y \in 1 .. n : n >= y
    OBVIOUS
  <1>2. ASSUME NEW m \in 1 .. n, \A y \in 1 .. n : m >= y
        PROVE  m = n
    <2>1. m >= n
      BY <1>1, <1>2
    <2> QED
      BY <1>2, <2>1
  <1> QED
    BY <1>1, <1>2 DEF Max

LEMMA PassesAre ==
    ASSUME UptimeInv
    PROVE  PassesTold
  <1>1. UpTyped
    BY DEF UptimeInv
  <1>2. events # <<>> => StateAt(now) = Newest
    <2> SUFFICES ASSUME events # <<>> PROVE StateAt(now) = Newest
      OBVIOUS
    <2>1. events \in Seq(EventRow) /\ Len(events) \in Nat \ {0} /\ DOMAIN events = 1 .. Len(events)
      BY <1>1 DEF UpTyped
    <2>2. {i \in DOMAIN events : events[i].at <= now} = 1 .. Len(events)
      BY <1>1, <2>1 DEF UpTyped
    <2>3. Max(1 .. Len(events)) = Len(events)
      BY <2>1, LastIsMax
    <2>4. 1 .. Len(events) # {}
      BY <2>1
    <2> QED
      BY <2>2, <2>3, <2>4 DEF StateAt, Newest, Last
  <1>3. told # "none" /\ told = Newest => events # <<>>
    BY DEF Newest
  <1> QED
    BY <1>2, <1>3 DEF UptimeInv, PassesTold, Remembered

\* However passes overlap and whenever the process restarts, what is remembered of
\* the device is its newest row, or nothing when primeState() did not reach it, and
\* what the reports show now is what the last pass found, unless a write was lost or
\* two passes wrote against each other.
THEOREM PassesAreTold == UpSpec => []PassesTold
  <1>1. UpInit => UptimeInv
    BY UptimeStarts
  <1>2. UptimeInv => PassesTold
    BY PassesAre
  <1> QED
    BY <1>1, <1>2, UptimeStep, PTL DEF UpSpec

(***************************************************************************)
(* Detectors                                                               *)
(*                                                                         *)
(* What the operators that need no sum and no sorting answer, for every    *)
(* input: the schedule of declared load, whatever the number of hours and  *)
(* days, and the run of deviations that makes a behaviour.                 *)
(***************************************************************************)

LEMMA Remainder ==
    ASSUME NEW n \in Nat \ {0}, NEW x \in Nat
    PROVE  /\ x < n => x % n = x
           /\ n <= x /\ x < 2 * n => x % n = x - n
  OBVIOUS

LEMMA Multiples ==
    ASSUME NEW a \in Nat, NEW b \in Nat, NEW h \in Nat, a <= b
    PROVE  /\ a * h \in Nat /\ b * h \in Nat /\ a * h <= b * h
           /\ (b - a) * h \in Nat /\ b * h = a * h + (b - a) * h
  OBVIOUS

\* The day before, and how long ago, in hours, an hour of a day of the week was.
Before(day) == (day + Week - 1) % Week
Ago(day, hour, d, start) == (day * Hours + hour - (d * Hours + start) + Week * Hours) % (Week * Hours)

\* Less than a day has passed only since this hour of today, or of yesterday.
LEMMA WithinADay ==
    ASSUME NEW day \in 0 .. Week - 1, NEW d \in 0 .. Week - 1,
           NEW hour \in 0 .. Hours - 1, NEW start \in 0 .. Hours - 1
    PROVE  /\ Before(day) \in 0 .. Week - 1
           /\ d = day /\ hour >= start => Ago(day, hour, d, start) = hour - start
           /\ d = Before(day) /\ hour < start => Ago(day, hour, d, start) = Hours + hour - start
           /\ Ago(day, hour, d, start) < Hours => (d = day /\ hour >= start) \/ (d = Before(day) /\ hour < start)
  <1> DEFINE n == Week * Hours
             x == day * Hours + hour - (d * Hours + start) + n
  <1>0. /\ Week \in Nat \ {0} /\ Hours \in Nat \ {0} /\ day \in Nat /\ d \in Nat /\ hour \in Nat /\ start \in Nat
        /\ day < Week /\ d < Week /\ hour < Hours /\ start < Hours
    BY DetectorsAssumption
  <1>1. n \in Nat /\ Hours <= n /\ 1 * Hours = Hours
    BY <1>0, Multiples
  <1>2. Before(day) = IF day = 0 THEN Week - 1 ELSE day - 1
    <2>1. CASE day = 0
      BY <1>0, <2>1, Remainder DEF Before
    <2>2. CASE day # 0
      <3>1. day + Week - 1 \in Nat /\ Week <= day + Week - 1 /\ day + Week - 1 < 2 * Week
        BY <1>0, <2>2
      <3> DEFINE m == day + Week - 1
      <3>2. m % Week = m - Week
        <4>1. m \in Nat /\ Week <= m /\ m < 2 * Week
          BY <3>1
        <4> HIDE DEF m
        <4> QED
          BY <1>0, <4>1, Remainder
      <3> QED
        BY <1>0, <2>2, <3>2 DEF Before
    <2> QED
      BY <2>1, <2>2
  <1>3. CASE d < day
    <2> DEFINE k == day - d
    <2>1. k \in Nat /\ 1 <= k /\ k < Week /\ day * Hours = d * Hours + k * Hours /\ k * Hours \in Nat
          /\ d * Hours \in Nat
      BY <1>0, <1>3, Multiples
    <2>2. Hours <= k * Hours /\ k * Hours + Hours <= n /\ (2 <= k => 2 * Hours <= k * Hours)
      <3>1. Hours <= k * Hours
        BY <1>0, <1>1, <2>1, Multiples
      <3>2. n = k * Hours + (Week - k) * Hours /\ 1 * Hours <= (Week - k) * Hours
        BY <1>0, <1>1, <2>1, Multiples
      <3>3. 2 <= k => 2 * Hours <= k * Hours
        BY <1>0, <2>1, Multiples
      <3> HIDE DEF k, n
      <3> QED
        BY <1>0, <1>1, <2>1, <3>1, <3>2, <3>3
    <2>3. x = k * Hours + hour - start + n
      <3> HIDE DEF k, n
      <3> QED
        BY <1>0, <1>1, <2>1
    <2>4. x \in Nat /\ n <= x /\ x < 2 * n
      <3> HIDE DEF k, n, x
      <3> QED
        BY <1>0, <1>1, <2>1, <2>2, <2>3
    <2>5. Ago(day, hour, d, start) = x - n
      <3>1. x % n = x - n
        <4> HIDE DEF n, x
        <4> QED
          BY <1>0, <1>1, <2>4, Remainder
      <3> QED
        BY <3>1 DEF Ago
    <2>6. d = Before(day) <=> k = 1
      BY <1>0, <1>2, <1>3
    <2>7. k = 1 => k * Hours = Hours
      BY <1>1
    <2> HIDE DEF k, n, x
    <2> QED
      BY <1>0, <1>1, <1>2, <1>3, <2>1, <2>2, <2>3, <2>5, <2>6, <2>7
  <1>4. CASE d = day
    <2>1. x = hour - start + n /\ d * Hours \in Nat
      BY <1>0, <1>1, <1>4, Multiples
    <2>2. x \in Nat
      BY <1>0, <1>1, <2>1
    <2>3. CASE hour >= start
      <3>1. n <= x /\ x < 2 * n
        <4> HIDE DEF n, x
        <4> QED
          BY <1>0, <1>1, <2>1, <2>3
      <3>2. x % n = x - n
        <4> HIDE DEF n, x
        <4> QED
          BY <1>0, <1>1, <2>2, <3>1, Remainder
      <3>3. Ago(day, hour, d, start) = x - n
        BY <3>2 DEF Ago
      <3> HIDE DEF n, x
      <3> QED
        BY <1>0, <1>1, <1>2, <1>4, <2>1, <2>3, <3>3
    <2>4. CASE hour < start
      <3>1. x < n
        <4> HIDE DEF n, x
        <4> QED
          BY <1>0, <1>1, <2>1, <2>4
      <3>2. x % n = x
        <4> HIDE DEF n, x
        <4> QED
          BY <1>0, <1>1, <2>2, <3>1, Remainder
      <3>3. Ago(day, hour, d, start) = x
        BY <3>2 DEF Ago
      <3>4. d = Before(day) <=> Week = 1
        BY <1>0, <1>2, <1>4
      <3>5. Week = 1 => n = Hours
        BY <1>1
      <3>6. Week # 1 => 2 * Hours <= n
        BY <1>0, Multiples
      <3> HIDE DEF n, x
      <3> QED
        BY <1>0, <1>1, <1>2, <1>4, <2>1, <2>4, <3>3, <3>4, <3>5, <3>6
    <2> QED
      BY <1>0, <2>3, <2>4
  <1>5. CASE d > day
    <2> DEFINE j == d - day
               k == Week - j
    <2>1. j \in Nat /\ 1 <= j /\ j < Week /\ k \in Nat /\ 1 <= k /\ k < Week
      BY <1>0, <1>5
    <2>2. /\ d * Hours = day * Hours + j * Hours /\ j * Hours \in Nat /\ day * Hours \in Nat
          /\ n = j * Hours + k * Hours /\ k * Hours \in Nat
      BY <1>0, <1>5, <2>1, Multiples
    <2>3. Hours <= k * Hours /\ Hours <= j * Hours /\ (2 <= k => 2 * Hours <= k * Hours)
      BY <1>0, <1>1, <2>1, Multiples
    <2>4. x = k * Hours + hour - start
      <3> HIDE DEF k, n, j
      <3> QED
        BY <1>0, <1>1, <2>1, <2>2
    <2>5. x \in Nat /\ x < n
      <3> HIDE DEF k, n, j, x
      <3> QED
        BY <1>0, <1>1, <2>1, <2>2, <2>3, <2>4
    <2>6. Ago(day, hour, d, start) = x
      <3>1. x % n = x
        <4> HIDE DEF n, x
        <4> QED
          BY <1>0, <1>1, <2>5, Remainder
      <3> QED
        BY <3>1 DEF Ago
    <2>7. d = Before(day) <=> k = 1
      BY <1>0, <1>2, <1>5
    <2>8. k = 1 => k * Hours = Hours
      BY <1>1
    <2> HIDE DEF k, n, x, j
    <2> QED
      BY <1>0, <1>1, <1>2, <1>5, <2>1, <2>3, <2>4, <2>6, <2>7, <2>8
  <1>6. Before(day) \in 0 .. Week - 1
    BY <1>0, <1>2
  <1> QED
    BY <1>0, <1>3, <1>4, <1>5, <1>6

\* What is asked of a window is answered as it was declared.
LEMMA WindowsHold ==
    ASSUME NEW q, q.w \in Windows, q.day \in 0 .. Week - 1, q.hour \in 0 .. Hours - 1
    PROVE  WindowRight(q, InWindow(q.w, q.day, q.hour))
  <1> DEFINE w == q.w
             lasts == IF w.start < w.end THEN w.end - w.start ELSE Hours - w.start + w.end
  <1>1. /\ w.start \in 0 .. Hours - 1 /\ w.end \in 1 .. Hours /\ w.enabled \in BOOLEAN
        /\ Hours \in Nat \ {0} /\ Week \in Nat \ {0}
        /\ lasts <= Hours
    BY DetectorsAssumption DEF Windows
  <1>2. ASSUME NEW d \in 0 .. Week - 1, DayOk(w, d), Ago(q.day, q.hour, d, w.start) < lasts, w.enabled
        PROVE  InWindow(w, q.day, q.hour)
    <2>1. Ago(q.day, q.hour, d, w.start) \in Int
      BY <1>1, DetectorsAssumption DEF Ago
    <2>2. Ago(q.day, q.hour, d, w.start) < Hours
      BY <1>1, <1>2, <2>1
    <2>3. CASE d = q.day /\ q.hour >= w.start
      <3>1. Ago(q.day, q.hour, d, w.start) = q.hour - w.start
        BY <1>1, <2>3, WithinADay
      <3> QED
        BY <1>1, <1>2, <2>3, <3>1 DEF InWindow
    <2>4. CASE d = Before(q.day) /\ q.hour < w.start
      <3>1. Ago(q.day, q.hour, d, w.start) = Hours + q.hour - w.start
        BY <1>1, <2>4, WithinADay
      <3>2. ~(w.start < w.end) /\ q.hour < w.end
        BY <1>1, <1>2, <2>4, <3>1
      <3> QED
        BY <1>1, <1>2, <2>4, <3>2 DEF InWindow, Before
    <2> QED
      BY <1>1, <2>2, <2>3, <2>4, WithinADay
  <1>3. ASSUME InWindow(w, q.day, q.hour)
        PROVE  w.enabled /\ \E d \in 0 .. Week - 1 : DayOk(w, d) /\ Ago(q.day, q.hour, d, w.start) < lasts
    <2>1. CASE q.hour >= w.start
      <3>1. Ago(q.day, q.hour, q.day, w.start) = q.hour - w.start
        <4> HIDE DEF w, lasts
        <4> QED
          BY <1>1, <2>1, WithinADay
      <3>2. DayOk(w, q.day) /\ q.hour - w.start < lasts
        BY <1>1, <1>3, <2>1 DEF InWindow
      <3> QED
        BY <1>3, <3>1, <3>2 DEF InWindow
    <2>2. CASE q.hour < w.start
      <3>1. ~(w.start < w.end) /\ q.hour < w.end /\ DayOk(w, Before(q.day)) /\ w.enabled
        BY <1>1, <1>3, <2>2 DEF InWindow, Before
      <3>2. /\ Before(q.day) \in 0 .. Week - 1
            /\ Ago(q.day, q.hour, Before(q.day), w.start) = Hours + q.hour - w.start
        BY <1>1, <2>2, WithinADay
      <3>3. Hours + q.hour - w.start < lasts
        BY <1>1, <3>1
      <3> QED
        BY <3>1, <3>2, <3>3
    <2> QED
      BY <1>1, <2>1, <2>2
  <1>4. InWindow(w, q.day, q.hour) \in BOOLEAN
    BY DEF InWindow, DayOk
  <1> QED
    BY <1>2, <1>3, <1>4 DEF WindowRight, Ago

\* Max finds the greatest of some numbers up to n.
LEMMA GreatestOf ==
    ASSUME NEW n \in Nat, NEW S \in SUBSET (1 .. n), S # {}
    PROVE  Max(S) \in S /\ \A y \in S : y <= Max(S)
  <1> DEFINE rest == {n - i : i \in S}
  <1>1. rest \in SUBSET Nat /\ rest # {}
    <2>1. \A i \in S : i \in 1 .. n /\ n - i \in Nat
      OBVIOUS
    <2> QED
      BY <2>1
  <1>2. PICK r \in rest : \A y \in rest \ {r} : ~(<<y, r>> \in OpToRel(<, Nat))
    BY <1>1, NatLessThanWellFounded, WFMin
  <1>3. PICK m \in S : r = n - m
    BY <1>2
  <1>4. ASSUME NEW y \in S, y > m
        PROVE  FALSE
    <2>1. y \in 1 .. n /\ m \in 1 .. n
      BY <1>3
    <2>2. n - y \in Nat /\ r \in Nat /\ n - y < r
      BY <1>3, <1>4, <2>1
    <2>3. n - y \in rest \ {r}
      BY <2>2
    <2> QED
      BY <1>2, <2>2, <2>3 DEF OpToRel
  <1>5. \A y \in S : m >= y
    <2>1. \A y \in S : y \in 1 .. n /\ m \in 1 .. n
      BY <1>3
    <2> QED
      BY <1>4, <2>1
  <1>6. Max(S) \in S /\ \A y \in S : Max(S) >= y
    BY <1>3, <1>5 DEF Max
  <1> QED
    BY <1>6

\* Only a deviation that lasts is flagged: the last samples deviate, all of them,
\* and there is a whole window before them (behaviour.detector.ts).
THEOREM OnlyWhatLasts ==
    ASSUME NEW s \in Seq(Nat)
    PROVE  DetectBehaviour(s) <=> Len(s) >= Base + Run /\ \A i \in Len(s) - Run + 1 .. Len(s) : Breaches(s, i)
  <1> DEFINE quiet == {i \in 1 .. Len(s) : ~Breaches(s, i)}
             last == IF quiet = {} THEN 0 ELSE Max(quiet)
  <1>1. Len(s) \in Nat /\ Base \in Nat \ {0} /\ Run \in Nat \ {0}
    BY DetectorsAssumption
  <1>2. quiet # {} => last \in quiet /\ \A i \in quiet : i <= last
    <2> SUFFICES ASSUME quiet # {} PROVE last \in quiet /\ \A i \in quiet : i <= last
      OBVIOUS
    <2>1. quiet \in SUBSET (1 .. Len(s))
      OBVIOUS
    <2> QED
      BY <1>1, <2>1, GreatestOf
  <1>3. last \in 0 .. Len(s)
    BY <1>1, <1>2
  <1>4. DetectBehaviour(s) <=> Len(s) >= Base + Run /\ Len(s) - last >= Run
    BY DEF DetectBehaviour
  <1>5. ASSUME Len(s) >= Base + Run
        PROVE  Len(s) - last >= Run <=> \A i \in Len(s) - Run + 1 .. Len(s) : Breaches(s, i)
    <2>1. ASSUME Len(s) - last >= Run, NEW i \in Len(s) - Run + 1 .. Len(s)
          PROVE  Breaches(s, i)
      <3>1. i > last /\ i \in 1 .. Len(s)
        BY <1>1, <1>3, <1>5, <2>1
      <3>2. i \notin quiet
        <4> HIDE DEF last
        <4> QED
          BY <1>1, <1>2, <1>3, <3>1
      <3> QED
        BY <3>1, <3>2
    <2>2. ASSUME \A i \in Len(s) - Run + 1 .. Len(s) : Breaches(s, i)
          PROVE  Len(s) - last >= Run
      <3>1. CASE quiet = {}
        BY <1>1, <1>5, <3>1
      <3>2. CASE quiet # {}
        <4>1. last \in 1 .. Len(s) /\ ~Breaches(s, last)
          BY <1>2, <3>2
        <4>2. last \notin Len(s) - Run + 1 .. Len(s)
          BY <2>2, <4>1
        <4> HIDE DEF last
        <4> QED
          BY <1>1, <4>1, <4>2
      <3> QED
        BY <3>1, <3>2
    <2> QED
      BY <2>1, <2>2
  <1> QED
    BY <1>4, <1>5

\* A question about a window is of one, and its answer is inWindow().
AskedInv ==
    question.about = "window" =>
        /\ question.w \in Windows /\ question.day \in 0 .. Week - 1 /\ question.hour \in 0 .. Hours - 1
        /\ answer # Unanswered => answer[1] = InWindow(question.w, question.day, question.hour)

\* A window that crosses midnight holds on the declared evening and the morning
\* after it, for any number of hours in a day and of days in a week, and at no
\* other hour: load that was declared is hidden while it was declared.
THEOREM HoursAreDeclared == PureSpec => []DeclaredHours
  <1>1. PureInit => AskedInv
    <2> SUFFICES ASSUME PureInit, question.about = "window" PROVE AskedInv
      BY DEF AskedInv
    <2>1. question \in OfWindows
      <3>1. question \notin OfCosts /\ question \notin OfSeries /\ question \notin OfFailovers
        BY DEF OfCosts, OfSeries, OfFailovers
      <3>2. \A x \in OfAlerts : x.about = "alerts"
        BY DEF OfAlerts
      <3> QED
        BY <3>1, <3>2 DEF PureInit, Questions
    <2> QED
      BY <2>1 DEF PureInit, AskedInv, OfWindows
  <1>2. AskedInv /\ [Answer]_pureVars => AskedInv'
    <2> SUFFICES ASSUME AskedInv, [Answer]_pureVars, question'.about = "window" PROVE AskedInv'
      BY DEF AskedInv
    <2>1. CASE UNCHANGED pureVars
      BY <2>1 DEF AskedInv, pureVars, Unanswered
    <2>2. CASE Answer
      <3>1. question' = question /\ question.about = "window"
        BY <2>2 DEF Answer
      <3>2. answer' = <<InWindow(question.w, question.day, question.hour)>>
        BY <2>2, <3>1 DEF Answer
      <3> QED
        BY <3>1, <3>2 DEF AskedInv
    <2> QED
      BY <2>1, <2>2
  <1>3. AskedInv => DeclaredHours
    BY WindowsHold DEF AskedInv, DeclaredHours, WindowRight
  <1> QED
    BY <1>1, <1>2, <1>3, PTL DEF PureSpec

=============================================================================
