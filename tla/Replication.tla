----------------------------- MODULE Replication -----------------------------
(***************************************************************************)
(* One replication set of a copy engine: the direction rules               *)
(* (api/src/modules/replication/direction.ts), and the service that runs   *)
(* copies on a timer, on request and through the agent of the primary,     *)
(* fails over, drills and fails back (replication.service.ts).             *)
(*                                                                         *)
(* A call of the service waits while a host copies, so calls, ticks and    *)
(* jobs of the agent interleave, and a copy lands long after the state it  *)
(* was admitted under was read.  Applications write to the node that DNS   *)
(* names; DNS is repointed by the operator, outside the program.           *)
(*                                                                         *)
(* The state column and the role that serves are one to one (activeRole),  *)
(* so the row keeps the role.  All three hosts are set and differ.  The    *)
(* columns that only report (status, the stamps, the runs and the trials)  *)
(* and sets of type block, which DRBD copies, are not modelled.            *)
(***************************************************************************)
EXTENDS Naturals, FiniteSets

CONSTANTS
    Operators,    \* operators, each with one request at a time
    Scheduler,    \* the timers tick() and fastTick()
    MaxWrites,    \* bound on the writes of applications
    MaxAsks,      \* bound on the requests of operators
    MaxFaults,    \* bound on copies and database calls that fail
    MaxRestarts   \* bound on restarts of the API

ASSUME SchedulerAssumption == Scheduler \notin Operators

ASSUME BoundsAssumption ==
    /\ MaxWrites \in Nat
    /\ MaxAsks \in Nat
    /\ MaxFaults \in Nat
    /\ MaxRestarts \in Nat

VARIABLES
    row,      \* the row of the set
    running,  \* the set is in the lock of runs in progress
    calls,    \* calls[c]: the request or tick c is busy with
    job,      \* the job of the agent
    strays,   \* copies that go on though the API no longer waits for them
    data,     \* data[r]: the writes on the node of role r
    serving,  \* the node that DNS names, which takes the writes
    count,    \* writes so far; the n-th write is n
    asks, faults, restarts,  \* observations: bounds used up
    seen      \* observations: [lossy: a copy landed under another state than
              \* it was admitted under, or failed unnoticed, or a promotion
              \* left writes of the secondary behind; stopped: stop() cleared
              \* the lock of a run; failover: a real failover was requested]

vars == <<row, running, calls, job, strays, data, serving, count,
          asks, faults, restarts, seen>>

Callers == Operators \cup {Scheduler}

-----------------------------------------------------------------------------
(***************************************************************************)
(* Directions (direction.ts)                                               *)
(***************************************************************************)

Roles == {"primary", "secondary", "tertiary"}

Dirs == {"p2s", "p2t", "s2t", "s2p"}

Source == [p2s |-> "primary", p2t |-> "primary",
           s2t |-> "secondary", s2p |-> "secondary"]

Target == [p2s |-> "secondary", p2t |-> "tertiary",
           s2t |-> "tertiary", s2p |-> "primary"]

\* Mutant: the code as it was before there was a guard.
GuardNothing(live, d) == d \in Dirs

\* guardDirection()
Guard(live, d) == Target[d] # live /\ Source[d] = live

NeedsReconcile(live, to) == live = "secondary" /\ to = "primary"

\* scheduledDirection(): at most one direction, the reverse one by opt-in.
Scheduled(r) ==
    {d \in {"p2s", "s2p"} : Source[d] = r.active /\ (d = "s2p" => r.reverse)}

-----------------------------------------------------------------------------
(***************************************************************************)
(* State                                                                   *)
(***************************************************************************)

Row == [active: Roles, enabled: BOOLEAN, reverse: BOOLEAN,
        driver: {"orchestrated", "agent"}]

\* asked: before runNow() reads the row; read: after; copying; answered: the
\* host is done; drill, promote: before the read and the write of promote().
Stage == {"idle", "asked", "read", "copying", "answered", "drill", "promote"}

\* "to" is "none" for a plain run.  "from" is the state runNow() read, and
\* "owed" what the secondary held when a fail-back was requested.
Call == [stage: Stage, dir: Dirs, from: Roles, to: Roles \cup {"none"},
         force: BOOLEAN, ok: BOOLEAN, owed: SUBSET Nat]

Idle == [stage |-> "idle", dir |-> "p2s", from |-> "primary", to |-> "none",
         force |-> FALSE, ok |-> FALSE, owed |-> {}]

TypeOK ==
    /\ row \in Row
    /\ running \in BOOLEAN
    /\ calls \in [Callers -> Call]
    /\ job \in {"none", "offered", "handed"}
    /\ strays \in SUBSET [dir: Dirs, from: Roles]
    /\ data \in [Roles -> SUBSET Nat]
    /\ serving \in Roles
    /\ count \in 0..MaxWrites
    /\ asks \in 0..MaxAsks
    /\ faults \in 0..MaxFaults
    /\ restarts \in 0..MaxRestarts
    /\ seen \in [lossy: BOOLEAN, stopped: BOOLEAN, failover: BOOLEAN]

Init ==
    /\ row \in {r \in Row : r.active = "primary" /\ r.enabled /\ ~r.reverse}
    /\ running = FALSE
    /\ calls = [c \in Callers |-> Idle]
    /\ job = "none"
    /\ strays = {}
    /\ data = [r \in Roles |-> {}]
    /\ serving = "primary"
    /\ count = 0
    /\ asks = 0 /\ faults = 0 /\ restarts = 0
    /\ seen = [lossy |-> FALSE, stopped |-> FALSE, failover |-> FALSE]

hosts == <<data, serving, count>>
bounds == <<asks, faults, restarts>>

\* A request of the operator o.
Ask(o) ==
    /\ asks < MaxAsks
    /\ asks' = asks + 1
    /\ calls[o].stage = "idle"
    /\ UNCHANGED <<faults, restarts>>

Fails ==
    /\ faults < MaxFaults
    /\ faults' = faults + 1
    /\ UNCHANGED <<asks, restarts>>

Becomes(c, call) == calls' = [calls EXCEPT ![c] = call]

\* rsync --delete: the target becomes what the source is now.
Land(d, from) ==
    /\ data' = [data EXCEPT ![Target[d]] = data[Source[d]]]
    /\ seen' = [seen EXCEPT !.lossy = @ \/ from # row.active]

-----------------------------------------------------------------------------
(***************************************************************************)
(* Outside the program: applications and DNS                               *)
(***************************************************************************)

Write ==
    /\ count < MaxWrites
    /\ count' = count + 1
    /\ data' = [data EXCEPT ![serving] = @ \cup {count + 1}]
    /\ UNCHANGED <<row, running, calls, job, strays, serving, bounds, seen>>

\* "Now repoint your external DNS": the operator does, sooner or later.
Repoint ==
    /\ serving # row.active
    /\ serving' = row.active
    /\ UNCHANGED <<row, running, calls, job, strays, data, count,
                   bounds, seen>>

-----------------------------------------------------------------------------
(***************************************************************************)
(* runNow()                                                                *)
(***************************************************************************)

Asked(d, to, force, owed) ==
    [Idle EXCEPT !.stage = "asked", !.dir = d, !.to = to,
                 !.force = force, !.owed = owed]

\* tick() and fastTick() run what is not in progress and due; the interval
\* since the last run may have passed at any time.
Tick ==
    /\ row.enabled /\ row.driver = "orchestrated"
    /\ ~running
    /\ calls[Scheduler].stage = "idle"
    /\ \E d \in Scheduled(row) : Becomes(Scheduler, Asked(d, "none", FALSE, {}))
    /\ UNCHANGED <<row, running, job, strays, hosts, bounds, seen>>

\* "Sync now"
RunNow(o) ==
    /\ Ask(o)
    /\ \E d \in Dirs :
           Becomes(o, [Idle EXCEPT !.stage = "read", !.dir = d,
                                   !.from = row.active])
    /\ UNCHANGED <<row, running, job, strays, hosts, seen>>

RunRead(c) ==
    /\ calls[c].stage = "asked"
    /\ Becomes(c, [calls[c] EXCEPT !.stage = "read", !.from = row.active])
    /\ UNCHANGED <<row, running, job, strays, hosts, bounds, seen>>

\* What is left of a fail-back that goes on: "force" if it is needed.
Goes(call, ok) ==
    [Idle EXCEPT !.stage = "promote", !.to = call.to,
                 !.force = call.force /\ ~ok, !.owed = call.owed]

\* Mutant: the answer of the reconciliation is not looked at.
AnswerAnyway(call, ok) ==
    IF call.to # "none" THEN Goes(call, ok) ELSE Idle

\* What a run leads to: a fail-back goes on if it succeeded or is forced.
Answer(call, ok) ==
    IF call.to # "none" /\ (ok \/ call.force)
    THEN Goes(call, ok)
    ELSE Idle

RunRefused(c) ==
    /\ calls[c].stage = "read"
    /\ Guard(calls[c].from, calls[c].dir) => running
    /\ Becomes(c, Answer(calls[c], FALSE))
    /\ UNCHANGED <<row, running, job, strays, hosts, bounds, seen>>

\* Mutant: the lock is taken and never looked at.
RunLocksAnyway(c) ==
    /\ calls[c].stage = "read"
    /\ Guard(calls[c].from, calls[c].dir)
    /\ running' = TRUE
    /\ Becomes(c, [calls[c] EXCEPT !.stage = "copying"])
    /\ UNCHANGED <<row, job, strays, hosts, bounds, seen>>

RunLocks(c) ==
    /\ calls[c].stage = "read"
    /\ Guard(calls[c].from, calls[c].dir)
    /\ ~running
    /\ running' = TRUE
    /\ Becomes(c, [calls[c] EXCEPT !.stage = "copying"])
    /\ UNCHANGED <<row, job, strays, hosts, bounds, seen>>

\* The run cannot be recorded, which happens outside try: the lock is kept.
RunLeaks(c) ==
    /\ calls[c].stage = "read"
    /\ Guard(calls[c].from, calls[c].dir)
    /\ ~running
    /\ running' = TRUE
    /\ Fails
    /\ Becomes(c, Answer(calls[c], FALSE))
    /\ UNCHANGED <<row, job, strays, hosts, seen>>

CopyLands(c) ==
    /\ calls[c].stage = "copying"
    /\ Land(calls[c].dir, calls[c].from)
    /\ Becomes(c, [calls[c] EXCEPT !.stage = "answered", !.ok = TRUE])
    /\ UNCHANGED <<row, running, job, strays, serving, count, bounds>>

\* A tool or a credential is missing, or a host does not answer.
CopyFails(c) ==
    /\ calls[c].stage = "copying"
    /\ Fails
    /\ Becomes(c, [calls[c] EXCEPT !.stage = "answered", !.ok = FALSE])
    /\ UNCHANGED <<row, running, job, strays, hosts, seen>>

\* The copy fails behind "| tail", whose exit code is all that is left of it,
\* and no exit code is looked at.
CopyFailsUnnoticed(c) ==
    /\ calls[c].stage = "copying"
    /\ Fails
    /\ Becomes(c, [calls[c] EXCEPT !.stage = "answered", !.ok = TRUE])
    /\ seen' = [seen EXCEPT !.lossy = TRUE]
    /\ UNCHANGED <<row, running, job, strays, hosts>>

\* sshRun() gives up waiting; nothing ends the command on the host.
CopyTimesOut(c) ==
    /\ calls[c].stage = "copying"
    /\ Fails
    /\ strays' = strays \cup {[dir |-> calls[c].dir, from |-> calls[c].from]}
    /\ Becomes(c, [calls[c] EXCEPT !.stage = "answered", !.ok = FALSE])
    /\ UNCHANGED <<row, running, job, hosts, seen>>

StrayLands ==
    \E s \in strays :
        /\ Land(s.dir, s.from)
        /\ strays' = strays \ {s}
        /\ UNCHANGED <<row, running, calls, job, serving, count, bounds>>

\* Mutant: the lock is not given back.
RunEndsLocked(c) ==
    /\ calls[c].stage = "answered"
    /\ Becomes(c, Answer(calls[c], calls[c].ok))
    /\ UNCHANGED <<row, running, job, strays, hosts, bounds, seen>>

\* finally, and the two writes that record the result.
RunEnds(c) ==
    /\ calls[c].stage = "answered"
    /\ running' = FALSE
    /\ Becomes(c, Answer(calls[c], calls[c].ok))
    /\ UNCHANGED <<row, job, strays, hosts, bounds, seen>>

-----------------------------------------------------------------------------
(***************************************************************************)
(* promote() and the drill                                                 *)
(***************************************************************************)

Promotion(to, force) ==
    IF NeedsReconcile(row.active, to)
    THEN Asked("s2p", to, force, data["secondary"])
    ELSE [Idle EXCEPT !.stage = "promote", !.to = to]

\* A request to promote.  The service offers the operator no drill here.
Promote(o) ==
    /\ Ask(o)
    /\ \E to \in Roles, force \in BOOLEAN :
        /\ Becomes(o, Promotion(to, force))
        /\ seen' = [seen EXCEPT !.failover = @ \/ to # "primary"]
    /\ UNCHANGED <<row, running, job, strays, hosts>>

\* simulateFailure(), then promote() to the secondary in mode simulated,
\* which reads the row again.
Drill(o) ==
    /\ Ask(o)
    /\ row.active = "primary"
    /\ Becomes(o, [Idle EXCEPT !.stage = "drill", !.to = "secondary"])
    /\ UNCHANGED <<row, running, job, strays, hosts, seen>>

DrillPromotes(o) ==
    /\ calls[o].stage = "drill"
    /\ Becomes(o, Promotion("secondary", FALSE))
    /\ UNCHANGED <<row, running, job, strays, hosts, bounds, seen>>

\* The new state is written by id; the verification after it changes nothing.
PromoteWrite(c) ==
    /\ calls[c].stage = "promote"
    /\ row' = [row EXCEPT !.active = calls[c].to]
    /\ seen' = [seen EXCEPT !.lossy = @ \/
                   /\ row.active = "secondary" /\ calls[c].to # "secondary"
                   /\ ~(data["secondary"] \subseteq data["primary"])]
    /\ Becomes(c, Idle)
    /\ UNCHANGED <<running, job, strays, hosts, bounds>>

-----------------------------------------------------------------------------
(***************************************************************************)
(* The agent of the primary, the switches of the set, and restarts         *)
(***************************************************************************)

\* A check-in finds the set due, then provisions keys over SSH ...
Checkin ==
    /\ job = "none"
    /\ row.enabled /\ row.driver = "agent" /\ row.active = "primary"
    /\ job' = "offered"
    /\ UNCHANGED <<row, running, calls, strays, hosts, bounds, seen>>

\* ... and hands out the job p2s without another look at the set.
JobHanded ==
    /\ job = "offered"
    /\ job' = "handed"
    /\ UNCHANGED <<row, running, calls, strays, hosts, bounds, seen>>

\* The report that follows writes columns that are not modelled.
JobLands ==
    /\ job = "handed"
    /\ job' = "none"
    /\ Land("p2s", "primary")
    /\ UNCHANGED <<row, running, calls, strays, serving, count, bounds>>

\* The answer of the check-in is lost, or the copy fails.
JobLost ==
    /\ job = "handed"
    /\ Fails
    /\ job' = "none"
    /\ UNCHANGED <<row, running, calls, strays, hosts, seen>>

Update(o) ==
    /\ Ask(o)
    /\ row' \in {r \in Row : r.active = row.active /\ r # row}
    /\ UNCHANGED <<running, calls, job, strays, hosts, seen>>

Stop(o) ==
    /\ Ask(o)
    /\ running' = FALSE
    /\ row' = [row EXCEPT !.enabled = FALSE]
    /\ seen' = [seen EXCEPT !.stopped = @ \/ running]
    /\ UNCHANGED <<calls, job, strays, hosts>>

\* Copies that were under way go on without the API.
Restart ==
    /\ restarts < MaxRestarts
    /\ restarts' = restarts + 1
    /\ running' = FALSE
    /\ calls' = [c \in Callers |-> Idle]
    /\ job' = IF job = "offered" THEN "none" ELSE job
    /\ strays' = strays \cup {[dir |-> calls[c].dir, from |-> calls[c].from] :
                                 c \in {k \in Callers : calls[k].stage = "copying"}}
    /\ UNCHANGED <<row, hosts, asks, faults, seen>>

-----------------------------------------------------------------------------

Continue(c) ==
    \/ RunRead(c) \/ RunRefused(c) \/ RunLocks(c) \/ RunLeaks(c)
    \/ CopyLands(c) \/ CopyFails(c) \/ CopyFailsUnnoticed(c) \/ CopyTimesOut(c)
    \/ RunEnds(c) \/ DrillPromotes(c) \/ PromoteWrite(c)

Request(o) == RunNow(o) \/ Promote(o) \/ Drill(o) \/ Update(o) \/ Stop(o)

Agent == Checkin \/ JobHanded \/ JobLands \/ JobLost

Next ==
    \/ Write \/ Repoint
    \/ Tick \/ StrayLands \/ Agent \/ Restart
    \/ \E o \in Operators : Request(o)
    \/ \E c \in Callers : Continue(c)

Spec == Init /\ [][Next]_vars

\* The timers fire, and find the interval passed at last; and a host or the
\* database answers a call in the end, be it with an error or through the
\* timeout of sshRun().
FairSpec ==
    /\ Spec
    /\ WF_vars(Tick)
    /\ \A c \in Callers : WF_vars(Continue(c))

-----------------------------------------------------------------------------
(***************************************************************************)
(* Properties                                                              *)
(***************************************************************************)

\* One run at a time per set: between two writes of the row the lock is held
\* exactly while a run is under way, and no two runs are, whoever started
\* them; unless stop() cleared the lock or the database failed at its start.
OneRunAtATime ==
    LET Runs == {c \in Callers : calls[c].stage \in {"copying", "answered"}} IN
    (~seen.stopped /\ faults = 0) =>
        /\ running <=> Runs # {}
        /\ \A c, d \in Runs : c = d

\* Every copy on its way was admitted under the state the set has now.
InStep ==
    /\ \A c \in Callers : calls[c].stage = "copying" => calls[c].from = row.active
    /\ \A s \in strays : s.from = row.active
    /\ job = "handed" => row.active = "primary"

\* No copy takes anything from the node that serves, whoever started it, as
\* long as none was admitted under another state than the present one.
LiveDataKept ==
    [][InStep => data[row.active] \subseteq data'[row.active]]_vars

\* A fail-back that is not forced brings home all that the secondary held when
\* it was requested, across faults that are noticed, refusals, restarts, stray
\* copies and the promotions of others, until the first loss of another kind.
FailbackKeepsWork ==
    [][\A c \in Callers :
          (PromoteWrite(c) /\ ~calls[c].force /\ ~seen.lossy)
              => calls[c].owed \subseteq data["primary"]]_vars

\* Again and again, for good, every direction the schedule covers has all the
\* writes of its source on its target, whatever operators do meanwhile, unless
\* a call failed.
Automatic ==
    IF row.enabled /\ row.driver = "orchestrated" THEN Scheduled(row) ELSE {}

ReplicaCatchesUp ==
    []<>(faults > 0 \/ \A d \in Automatic : data[Source[d]] \subseteq data[Target[d]])

=============================================================================
