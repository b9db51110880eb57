------------------------------ MODULE Delivery ------------------------------
(***************************************************************************)
(* The notification delivery log of the alerting engine: a message is sent *)
(* to a channel and the attempt is written down; a sweep every minute sends *)
(* the failed ones again when they are due, quickly at first, slowly later, *)
(* and gives up on the old ones.  A sweep is not kept from starting while   *)
(* the last one still sends, and the operator's retry button runs the same  *)
(* code beside them: reading the row, sending and writing the row are       *)
(* three steps.                                                             *)
(*                                                                         *)
(* Left out: what a message says, the channel types, the fan-out of a group *)
(* into its members (each member is a message of its own here).  Time is    *)
(* counted in sweeps.                                                      *)
(***************************************************************************)
EXTENDS Integers, FiniteSets

CONSTANTS
    Messages,    \* deliveries, each with its row of the log
    Sweeps,      \* the sweeps that may run at the same time
    Button,      \* the operator's retry
    TakeMax,     \* rows one sweep takes (50)
    FastRetries, \* quick retries (3)
    Fast, Slow,  \* the two delays (3 minutes, an hour)
    MaxRowAge,   \* a delivery is given up after this long (3 days)
    MaxPresses,  \* bound: retries and deletions by hand
    MaxLogFaults \* bound: failing updates and restarts of the API

ASSUME DeliveryAssumption ==
    /\ TakeMax \in Nat \ {0} /\ FastRetries \in Nat
    /\ Fast \in Nat \ {0} /\ Slow \in Nat \ {0} /\ Fast <= Slow /\ MaxRowAge \in Nat \ {0}
    /\ MaxPresses \in Nat /\ MaxLogFaults \in Nat
    /\ Button \notin Sweeps

Workers == Sweeps \cup {Button}
NotDue == -1   \* nextRetryAt is null

VARIABLES
    log,      \* [Messages -> row]: the rows of NotificationLog
    worker,   \* [Workers -> what it is doing]
    \* observation and bounds
    tries,    \* [Messages -> Nat]: times the message was handed to its channel
    copies,   \* [Messages -> Nat]: times the channel took it
    crossed,  \* messages two workers had on their lists at once, or a person has sent again
    faults, clicks

deliveryVars == <<log, worker, tries, copies, crossed, faults, clicks>>

LogRow == [status : {"none", "sent", "failed", "gave_up", "deleted"}, attempts : Nat,
           due : NotDue .. Slow, age : 0 .. MaxRowAge, payload : BOOLEAN]
Exists(m) == log[m].status \notin {"none", "deleted"}

Task == [pc : {"idle", "next", "send", "write"}, list : SUBSET Messages,
         message : Messages \cup {"none"}, attempts : Nat, ok : BOOLEAN]
Free == [pc |-> "idle", list |-> {}, message |-> "none", attempts |-> 0, ok |-> FALSE]
Walks(list) == [pc |-> "next", list |-> list, message |-> "none", attempts |-> 0, ok |-> FALSE]

DeliveryInit ==
    /\ log = [m \in Messages |-> [status |-> "none", attempts |-> 0, due |-> NotDue, age |-> 0, payload |-> FALSE]]
    /\ worker = [w \in Workers |-> Free]
    /\ tries = [m \in Messages |-> 0]
    /\ copies = [m \in Messages |-> 0]
    /\ crossed = {}
    /\ faults = 0
    /\ clicks = 0

(***************************************************************************)
(* The first attempt.                                                      *)
(***************************************************************************)
(* logDelivery(): a failed attempt is due again after the quick delay. *)
Logged(ok, payload) ==
    [status |-> IF ok THEN "sent" ELSE "failed", attempts |-> 1,
     due |-> IF ok THEN NotDue ELSE Fast, age |-> 0, payload |-> payload]

(* dispatch(): send, then write the row.  A row that cannot be written is    *)
(* dropped, and the message with it.                                         *)
Dispatch(m) ==
    /\ log[m].status = "none"
    /\ tries' = [tries EXCEPT ![m] = 1]
    /\ \E ok \in BOOLEAN :
         /\ copies' = [copies EXCEPT ![m] = IF ok THEN 1 ELSE 0]
         /\ \/ log' = [log EXCEPT ![m] = Logged(ok, TRUE)] /\ UNCHANGED faults
            \/ /\ faults < MaxLogFaults /\ faults' = faults + 1
               /\ log' = [log EXCEPT ![m].status = "deleted"]
    /\ UNCHANGED <<worker, crossed, clicks>>

(* dispatchGroup() with no group or no active member: nothing is sent and no *)
(* message is saved.  The same row stands for a test of a channel that fails. *)
DispatchNobody(m) ==
    /\ log[m].status = "none"
    /\ log' = [log EXCEPT ![m] = Logged(FALSE, FALSE)]
    /\ UNCHANGED <<worker, tries, copies, crossed, faults, clicks>>

(***************************************************************************)
(* Retries.                                                                *)
(***************************************************************************)
\* Mutant: a row with no next retry counts as due.
DueNull == {m \in Messages : Exists(m) /\ log[m].status # "gave_up" /\ log[m].due <= 0}

Due == {m \in Messages : log[m].status = "failed" /\ log[m].due = 0}

(* retryDue(): at most TakeMax of the rows that are due, in no given order. *)
Sweep(w) ==
    /\ w \in Sweeps /\ worker[w].pc = "idle" /\ Due # {}
    /\ \E list \in SUBSET Due :
         /\ Cardinality(list) = IF Cardinality(Due) < TakeMax THEN Cardinality(Due) ELSE TakeMax
         /\ worker' = [worker EXCEPT ![w] = Walks(list)]
         /\ crossed' = crossed \cup {m \in list : \E v \in Workers : m \in worker[v].list}
    /\ UNCHANGED <<log, tries, copies, faults, clicks>>

Press(m) ==
    /\ worker[Button].pc = "idle" /\ Exists(m) /\ clicks < MaxPresses
    /\ clicks' = clicks + 1
    /\ crossed' = crossed \cup {m}
    /\ worker' = [worker EXCEPT ![Button] = Walks({m})]
    /\ UNCHANGED <<log, tries, copies, faults>>

Done(w, m) ==
    LET left == worker[w].list \ {m} IN
    worker' = [worker EXCEPT ![w] = IF left = {} THEN Free ELSE Walks(left)]

(* The row is read, and the message is about to be sent. *)
Holds(w, m) ==
    [pc |-> "send", list |-> worker[w].list, message |-> m, attempts |-> log[m].attempts, ok |-> FALSE]

InHand(m) == {w \in Workers : worker[w].pc \in {"send", "write"} /\ worker[w].message = m}

\* Mutant: a row without a message stays due.
ReadRowKeepsDue(w) ==
    /\ worker[w].pc = "next"
    /\ \E m \in worker[w].list :
         IF ~Exists(m) \/ ~log[m].payload THEN Done(w, m)
         ELSE worker' = [worker EXCEPT ![w] = Holds(w, m)]
    /\ UNCHANGED <<log, tries, copies, crossed, faults, clicks>>

(* retryLog() reads the row: whatever its status is by now, it is sent again, *)
(* unless it is gone or no message was saved with it.                         *)
ReadRow(w) ==
    /\ worker[w].pc = "next"
    /\ \E m \in worker[w].list :
         \/ /\ ~Exists(m)
            /\ Done(w, m)
            /\ UNCHANGED log
         \/ /\ Exists(m) /\ ~log[m].payload
            /\ log' = [log EXCEPT ![m].due = NotDue]
            /\ Done(w, m)
         \/ /\ Exists(m) /\ log[m].payload
            /\ worker' = [worker EXCEPT ![w] = Holds(w, m)]
            /\ UNCHANGED log
    /\ UNCHANGED <<tries, copies, crossed, faults, clicks>>

Send(w) ==
    LET m == worker[w].message IN
    /\ worker[w].pc = "send"
    /\ \E ok \in BOOLEAN :
         /\ worker' = [worker EXCEPT ![w] = [pc |-> "write", list |-> @.list, message |-> m,
                                            attempts |-> @.attempts, ok |-> ok]]
         /\ tries' = [tries EXCEPT ![m] = @ + 1]
         /\ copies' = IF ok THEN [copies EXCEPT ![m] = @ + 1] ELSE copies
    /\ UNCHANGED <<log, crossed, faults, clicks>>

Delay(attempts) == IF attempts <= FastRetries THEN Fast ELSE Slow

\* Mutant: a retry that works is not counted.
RetriedUncounted(w, ok) ==
    LET old == log[worker[w].message]
        attempts == IF ok THEN worker[w].attempts ELSE worker[w].attempts + 1
        aged == old.age >= MaxRowAge IN
    [old EXCEPT !.attempts = attempts,
                !.status = IF ok THEN "sent" ELSE IF aged THEN "gave_up" ELSE "failed",
                !.due = IF ok \/ aged THEN NotDue ELSE Delay(attempts)]

(* The row as the retry writes it, from the attempts it read before sending. *)
Retried(w, ok) ==
    LET old == log[worker[w].message]
        attempts == worker[w].attempts + 1
        aged == old.age >= MaxRowAge IN
    [status |-> IF ok THEN "sent" ELSE IF aged THEN "gave_up" ELSE "failed", attempts |-> attempts,
     due |-> IF ok \/ aged THEN NotDue ELSE Delay(attempts), age |-> old.age, payload |-> old.payload]

WriteRow(w) ==
    LET m == worker[w].message IN
    /\ worker[w].pc = "write"
    /\ log' = IF Exists(m) THEN [log EXCEPT ![m] = Retried(w, worker[w].ok)] ELSE log
    /\ Done(w, m)
    /\ UNCHANGED <<tries, copies, crossed, faults, clicks>>

(* The update after a send that worked throws: the handler that is meant for *)
(* a failed send records the message as failed.  An update that fails after  *)
(* a failed send leaves the row as it is.                                    *)
WriteFails(w) ==
    LET m == worker[w].message IN
    /\ worker[w].pc = "write" /\ faults < MaxLogFaults
    /\ faults' = faults + 1
    /\ log' = IF Exists(m) /\ worker[w].ok THEN [log EXCEPT ![m] = Retried(w, FALSE)] ELSE log
    /\ Done(w, m)
    /\ UNCHANGED <<tries, copies, crossed, clicks>>

(***************************************************************************)
(* The operator deletes a row, retention purges it, the API restarts, time *)
(* goes on.                                                                *)
(***************************************************************************)
Delete(m) ==
    /\ Exists(m) /\ clicks < MaxPresses
    /\ clicks' = clicks + 1
    /\ log' = [log EXCEPT ![m] = [status |-> "deleted", attempts |-> @.attempts, due |-> NotDue,
                                 age |-> @.age, payload |-> @.payload]]
    /\ UNCHANGED <<worker, tries, copies, crossed, faults>>

DeliveryRestart ==
    /\ \E w \in Workers : worker[w].pc # "idle"
    /\ faults < MaxLogFaults /\ faults' = faults + 1
    /\ worker' = [w \in Workers |-> Free]
    /\ UNCHANGED <<log, tries, copies, crossed, clicks>>

Older(m) ==
    [status |-> log[m].status, attempts |-> log[m].attempts,
     due |-> IF log[m].due > 0 THEN log[m].due - 1 ELSE log[m].due,
     age |-> IF Exists(m) /\ log[m].age < MaxRowAge THEN log[m].age + 1 ELSE log[m].age,
     payload |-> log[m].payload]

Elapse ==
    /\ \E m \in Messages : log[m].due > 0
    /\ log' = [m \in Messages |-> Older(m)]
    /\ UNCHANGED <<worker, tries, copies, crossed, faults, clicks>>

Work(w) == ReadRow(w) \/ Send(w) \/ WriteRow(w)

DeliveryNext ==
    \/ \E m \in Messages : Dispatch(m) \/ DispatchNobody(m) \/ Press(m) \/ Delete(m)
    \/ \E w \in Workers : Sweep(w) \/ Work(w) \/ WriteFails(w)
    \/ DeliveryRestart \/ Elapse

DeliverySpec == DeliveryInit /\ [][DeliveryNext]_deliveryVars

(* A sweep starts every minute; a send or a query comes back; time goes on. *)
DeliveryFairness ==
    /\ WF_deliveryVars(\E w \in Sweeps : Sweep(w))
    /\ \A w \in Workers : WF_deliveryVars(Work(w))
    /\ WF_deliveryVars(Elapse)
DeliveryFairSpec == DeliverySpec /\ DeliveryFairness

(***************************************************************************)
(* Properties.                                                             *)
(***************************************************************************)
(* The variables keep their types. *)
DeliveryTypeOK ==
    /\ log \in [Messages -> LogRow]
    /\ worker \in [Workers -> Task]
    /\ \A w \in Workers : worker[w].pc \in {"send", "write"} => worker[w].message \in worker[w].list
    /\ tries \in [Messages -> Nat] /\ copies \in [Messages -> Nat]
    /\ crossed \subseteq Messages /\ faults \in 0 .. MaxLogFaults /\ clicks \in 0 .. MaxPresses

(* A message reaches its channel at most once.  Two sweeps that overlap on a *)
(* row, the retry button, an update that fails and a restart between send    *)
(* and update are the ways to send it twice, and the only ones.              *)
SentOnce == faults = 0 => \A m \in Messages \ crossed : copies[m] <= 1

(* The number of attempts in the row is the number of times the message was  *)
(* handed over: no retry is lost, though each writes a count it read earlier. *)
AttemptsCount ==
    faults = 0 => \A m \in Messages \ crossed :
        (Exists(m) /\ log[m].payload) =>
            tries[m] = log[m].attempts + Cardinality({w \in InHand(m) : worker[w].pc = "write"})

(* A row says "sent" only of a message its channel took, and one that was     *)
(* taken is not reported failed, nobody interfering.                          *)
StatusHonest ==
    \A m \in Messages :
        /\ log[m].status = "sent" => copies[m] >= 1
        /\ (faults = 0 /\ m \notin crossed /\ log[m].status \in {"failed", "gave_up"} /\ InHand(m) = {})
              => copies[m] = 0

(* A failed delivery is scheduled exactly while a retry is still to come.     *)
ScheduledIffFailed ==
    \A m \in Messages :
        /\ log[m].due # NotDue => log[m].status = "failed"
        /\ (log[m].status = "failed" /\ log[m].payload) => log[m].due # NotDue

(* The engine does not give up before its time, however the retries fall.     *)
GivesUpLate == \A m \in Messages : log[m].status = "gave_up" => log[m].age >= MaxRowAge

(* A message goes out once, and what the log tells the operator of it is     *)
(* true: count, status and schedule.                                         *)
LogIsTrue == DeliveryTypeOK /\ SentOnce /\ AttemptsCount /\ StatusHonest /\ ScheduledIffFailed /\ GivesUpLate

(* Every delivery that failed is in the end sent, given up, deleted, or       *)
(* left unscheduled because no message was saved with it.                     *)
Settles == \A m \in Messages : (log[m].status = "failed") ~> (log[m].status # "failed" \/ log[m].due = NotDue)

=============================================================================
