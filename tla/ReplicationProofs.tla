-------------------------- MODULE ReplicationProofs --------------------------
(***************************************************************************)
(* Theorems of Replication, for any operators and any bound on writes,     *)
(* requests, faults and restarts.                                          *)
(***************************************************************************)
EXTENDS Replication, TLAPS

(***************************************************************************)
(* Types                                                                   *)
(***************************************************************************)

Nodes == [Roles -> SUBSET Nat]
Strays == SUBSET [dir: Dirs, from: Roles]
Flags == [lossy: BOOLEAN, stopped: BOOLEAN, failover: BOOLEAN]

SetType == row \in Row /\ running \in BOOLEAN /\ job \in {"none", "offered", "handed"}
HostType == data \in Nodes /\ serving \in Roles /\ count \in 0..MaxWrites
BoundType ==
    asks \in 0..MaxAsks /\ faults \in 0..MaxFaults /\ restarts \in 0..MaxRestarts

LEMMA TypeParts ==
    TypeOK <=> /\ SetType /\ HostType /\ BoundType
               /\ calls \in [Callers -> Call] /\ strays \in Strays /\ seen \in Flags
  BY DEF TypeOK, SetType, HostType, BoundType, Nodes, Strays, Flags

LEMMA TypeNext ==
    ASSUME SetType', HostType', BoundType', calls' \in [Callers -> Call],
           strays' \in Strays, seen' \in Flags
    PROVE  TypeOK'
  BY DEF TypeOK, SetType, HostType, BoundType, Nodes, Strays, Flags

LEMMA DirTypes ==
    /\ "p2s" \in Dirs /\ "s2p" \in Dirs
    /\ "primary" \in Roles /\ "secondary" \in Roles /\ "tertiary" \in Roles
    /\ \A d \in Dirs : Source[d] \in Roles /\ Target[d] \in Roles
  BY DEF Dirs, Roles, Source, Target

\* What a call can become.
LEMMA IdleType == Idle \in Call
  BY DirTypes DEF Idle, Call, Stage

LEMMA CallStages ==
    ASSUME NEW call \in Call, NEW stage \in Stage, NEW ok \in BOOLEAN,
           NEW from \in Roles
    PROVE  /\ [call EXCEPT !.stage = stage] \in Call
           /\ [call EXCEPT !.stage = stage, !.ok = ok] \in Call
           /\ [call EXCEPT !.stage = stage, !.from = from] \in Call
  BY DEF Call

LEMMA StageTypes == Stage = {"idle", "asked", "read", "copying", "answered",
                             "drill", "promote"}
  BY DEF Stage

LEMMA AskedType ==
    ASSUME NEW d \in Dirs, NEW to \in Roles \cup {"none"}, NEW force \in BOOLEAN,
           NEW owed \in SUBSET Nat
    PROVE  Asked(d, to, force, owed) \in Call
  BY IdleType, StageTypes DEF Asked, Call

LEMMA AnswerType ==
    ASSUME NEW call \in Call, NEW ok \in BOOLEAN
    PROVE  Answer(call, ok) \in Call
  <1>1. Goes(call, ok) \in Call
    BY IdleType, StageTypes DEF Goes, Call
  <1> QED
    BY <1>1, IdleType DEF Answer

LEMMA PromotionType ==
    ASSUME data \in Nodes, NEW to \in Roles, NEW force \in BOOLEAN
    PROVE  Promotion(to, force) \in Call
  <1>1. data["secondary"] \in SUBSET Nat
    BY DirTypes DEF Nodes
  <1>2. Asked("s2p", to, force, data["secondary"]) \in Call
    BY <1>1, AskedType, DirTypes
  <1>3. [Idle EXCEPT !.stage = "promote", !.to = to] \in Call
    BY IdleType, StageTypes DEF Call
  <1> QED
    BY <1>2, <1>3 DEF Promotion

LEMMA OneCall ==
    ASSUME calls \in [Callers -> Call], NEW c \in Callers, NEW call \in Call,
           Becomes(c, call)
    PROVE  /\ calls' \in [Callers -> Call]
           /\ calls'[c] = call
           /\ \A k \in Callers : k # c => calls'[k] = calls[k]
  BY DEF Becomes

LEMMA LandType ==
    ASSUME data \in Nodes, seen \in Flags, NEW d \in Dirs, NEW from, Land(d, from)
    PROVE  data' \in Nodes /\ seen' \in Flags
  <1>1. data[Source[d]] \in SUBSET Nat
    BY DirTypes DEF Nodes
  <1>2. data' \in Nodes
    BY <1>1, DirTypes DEF Land, Nodes
  <1>3. seen' \in Flags
    BY DEF Land, Flags
  <1> QED
    BY <1>2, <1>3

LEMMA AskType ==
    ASSUME BoundType, NEW o, Ask(o)
    PROVE  BoundType'
  BY BoundsAssumption DEF BoundType, Ask

LEMMA FailType ==
    ASSUME BoundType, Fails
    PROVE  BoundType' /\ faults' # 0
  BY BoundsAssumption DEF BoundType, Fails

(***************************************************************************)
(* The inductive invariant                                                 *)
(***************************************************************************)

\* A call that may promote names a role, a call that owes anything reconciles,
\* and a call that copies was admitted by the guard.
Shape(call) ==
    /\ call.stage = "promote" => call.to # "none"
    /\ (/\ call.owed # {}
        /\ call.stage \in {"asked", "read", "copying", "answered"})
            => call.dir = "s2p"
    /\ call.stage = "copying" => Guard(call.from, call.dir)

CallsInv ==
    /\ \A c \in Callers : Shape(calls[c])
    /\ \A s \in strays : Guard(s.from, s.dir)

\* Until a loss of another kind, what a call owes is on the secondary, and on
\* the primary too once the secondary does not serve or the call has copied.
Kept(call, active, nodes) ==
    /\ call.owed \subseteq nodes["secondary"]
    /\ (\/ active # "secondary"
        \/ call.stage = "answered" /\ call.ok
        \/ call.stage = "promote" /\ ~call.force)
            => call.owed \subseteq nodes["primary"]

KeptInv ==
    ~seen.lossy => \A c \in Callers : Kept(calls[c], row.active, data)

LEMMA InitType == Init => TypeOK
  <1> SUFFICES ASSUME Init PROVE TypeOK
    OBVIOUS
  <1>1. SetType /\ calls \in [Callers -> Call]
    BY IdleType DEF Init, SetType
  <1>2. HostType
    BY BoundsAssumption, DirTypes DEF Init, HostType, Nodes
  <1>3. BoundType
    BY BoundsAssumption DEF Init, BoundType
  <1>4. strays \in Strays /\ seen \in Flags
    BY DEF Init, Strays, Flags
  <1> QED
    BY <1>1, <1>2, <1>3, <1>4, TypeParts

(***************************************************************************)
(* How an action leaves the calls: what the invariants have to know        *)
(***************************************************************************)

\* The actions that move the call of c and neither a node nor the state.
Moves(c) ==
    \/ c = Scheduler /\ Tick
    \/ RunNow(c) \/ Promote(c) \/ Drill(c) \/ DrillPromotes(c)
    \/ RunRead(c) \/ RunRefused(c) \/ RunLocks(c) \/ RunLeaks(c)
    \/ CopyFails(c) \/ CopyFailsUnnoticed(c) \/ CopyTimesOut(c) \/ RunEnds(c)

LEMMA MovesType ==
    ASSUME TypeOK, NEW c \in Callers, Moves(c)
    PROVE  /\ calls' \in [Callers -> Call]
           /\ \A k \in Callers : k # c => calls'[k] = calls[k]
  <1> USE TypeParts
  <1>1. calls[c] \in Call /\ data \in Nodes /\ row.active \in Roles
    BY DEF HostType, SetType, Row
  <1>2. ASSUME NEW call \in Call, Becomes(c, call)
        PROVE  /\ calls' \in [Callers -> Call]
               /\ \A k \in Callers : k # c => calls'[k] = calls[k]
    BY <1>2, OneCall
  <1>3. CASE c = Scheduler /\ Tick
    <2>1. PICK d \in Scheduled(row) : Becomes(c, Asked(d, "none", FALSE, {}))
      BY <1>3 DEF Tick
    <2>2. d \in Dirs
      BY DirTypes DEF Scheduled
    <2>3. Asked(d, "none", FALSE, {}) \in Call
      BY <2>2, AskedType
    <2> QED
      BY <1>2, <2>1, <2>3
  <1>4. CASE RunNow(c)
    <2>1. PICK d \in Dirs : Becomes(c, [Idle EXCEPT !.stage = "read", !.dir = d,
                                                    !.from = row.active])
      BY <1>4 DEF RunNow
    <2>2. [Idle EXCEPT !.stage = "read", !.dir = d, !.from = row.active] \in Call
      BY <1>1, IdleType, StageTypes DEF Call
    <2> QED
      BY <1>2, <2>1, <2>2
  <1>5. CASE Promote(c)
    <2>1. PICK to \in Roles, force \in BOOLEAN : Becomes(c, Promotion(to, force))
      BY <1>5 DEF Promote
    <2> QED
      BY <1>1, <1>2, <2>1, PromotionType
  <1>6. CASE Drill(c)
    <2>1. [Idle EXCEPT !.stage = "drill", !.to = "secondary"] \in Call
      BY IdleType, StageTypes, DirTypes DEF Call
    <2> QED
      BY <1>2, <1>6, <2>1 DEF Drill
  <1>7. CASE DrillPromotes(c)
    BY <1>1, <1>2, <1>7, PromotionType, DirTypes DEF DrillPromotes
  <1>8. CASE RunRead(c) \/ RunLocks(c)
    BY <1>1, <1>2, <1>8, CallStages, StageTypes DEF RunRead, RunLocks
  <1>9. CASE RunRefused(c) \/ RunLeaks(c)
    BY <1>1, <1>2, <1>9, AnswerType DEF RunRefused, RunLeaks
  <1>10. CASE CopyFails(c) \/ CopyFailsUnnoticed(c) \/ CopyTimesOut(c)
    BY <1>1, <1>2, <1>10, CallStages, StageTypes
       DEF CopyFails, CopyFailsUnnoticed, CopyTimesOut
  <1>11. CASE RunEnds(c)
    <2>1. calls[c].ok \in BOOLEAN
      BY <1>1 DEF Call
    <2> QED
      BY <1>1, <1>2, <1>11, <2>1, AnswerType DEF RunEnds
  <1> QED
    BY <1>3, <1>4, <1>5, <1>6, <1>7, <1>8, <1>9, <1>10, <1>11 DEF Moves

LEMMA MovesFrame ==
    ASSUME NEW c \in Callers, Moves(c)
    PROVE  /\ UNCHANGED <<row, data, serving, count, job>>
           /\ UNCHANGED bounds \/ Ask(c) \/ Fails
           /\ UNCHANGED strays \/ CopyTimesOut(c)
           /\ UNCHANGED running \/ running' \in BOOLEAN
  BY DEF Moves, Tick, RunNow, Promote, Drill, DrillPromotes, RunRead, RunRefused,
         RunLocks, RunLeaks, CopyFails, CopyFailsUnnoticed, CopyTimesOut, RunEnds,
         hosts

LEMMA MovesSeen ==
    ASSUME TypeOK, NEW c \in Callers, Moves(c)
    PROVE  /\ seen' \in Flags
           /\ seen'.stopped = seen.stopped
           /\ ~seen'.lossy => ~seen.lossy
  <1>1. seen \in Flags
    BY TypeParts
  <1>2. CASE Promote(c)
    BY <1>1, <1>2 DEF Promote, Flags
  <1>3. CASE CopyFailsUnnoticed(c)
    BY <1>1, <1>3 DEF CopyFailsUnnoticed, Flags
  <1>4. CASE UNCHANGED seen
    BY <1>1, <1>4
  <1> QED
    BY <1>2, <1>3, <1>4
       DEF Moves, Tick, RunNow, Drill, DrillPromotes, RunRead, RunRefused,
           RunLocks, RunLeaks, CopyFails, CopyTimesOut, RunEnds

LEMMA MovesKeepType ==
    ASSUME TypeOK, NEW c \in Callers, Moves(c)
    PROVE  TypeOK'
  <1> USE TypeParts
  <1>1. SetType' /\ HostType'
    BY MovesFrame DEF SetType, HostType
  <1>2. BoundType'
    <2>1. CASE UNCHANGED bounds
      BY <2>1 DEF bounds, BoundType
    <2> QED
      BY <2>1, MovesFrame, AskType, FailType
  <1>3. strays' \in Strays
    <2>1. CASE CopyTimesOut(c)
      <3>1. calls[c] \in Call
        OBVIOUS
      <3>2. [dir |-> calls[c].dir, from |-> calls[c].from] \in [dir: Dirs, from: Roles]
        BY <3>1 DEF Call
      <3> QED
        BY <2>1, <3>2 DEF CopyTimesOut, Strays
    <2> QED
      BY <2>1, MovesFrame
  <1> QED
    BY <1>1, <1>2, <1>3, MovesType, MovesSeen, TypeNext

LEMMA WriteType ==
    ASSUME TypeOK, Write
    PROVE  data' \in Nodes /\ count' \in 0..MaxWrites
  <1>1. data \in Nodes /\ serving \in Roles /\ count \in 0..MaxWrites
    BY TypeParts DEF HostType
  <1>2. count + 1 \in 0..MaxWrites /\ count + 1 \in Nat
    BY <1>1, BoundsAssumption DEF Write
  <1>3. data[serving] \cup {count + 1} \in SUBSET Nat
    BY <1>1, <1>2 DEF Nodes
  <1> QED
    BY <1>1, <1>2, <1>3 DEF Write, Nodes

LEMMA NextType == TypeOK /\ CallsInv /\ [Next]_vars => TypeOK'
  <1> SUFFICES ASSUME TypeOK, CallsInv, [Next]_vars PROVE TypeOK'
    OBVIOUS
  <1> USE TypeParts
  <1>1. CASE Write
    <2>1. UNCHANGED <<row, running, calls, job, strays, serving, bounds, seen>>
      BY <1>1 DEF Write
    <2> QED
      BY <1>1, <2>1, WriteType, TypeNext DEF SetType, HostType, BoundType, bounds
  <1>2. CASE Repoint
    BY <1>2, TypeNext DEF Repoint, SetType, Row, HostType, BoundType, bounds
  <1>3. CASE StrayLands
    <2>1. PICK s \in strays : Land(s.dir, s.from) /\ strays' = strays \ {s}
      BY <1>3 DEF StrayLands
    <2>2. s.dir \in Dirs
      BY <2>1 DEF Strays
    <2>3. data' \in Nodes /\ seen' \in Flags
      BY <2>1, <2>2, LandType DEF HostType
    <2>4. strays' \in Strays
      BY <2>1 DEF Strays
    <2>5. UNCHANGED <<row, running, calls, job, serving, count, bounds>>
      BY <1>3 DEF StrayLands
    <2> QED
      BY <2>3, <2>4, <2>5, TypeNext DEF SetType, HostType, BoundType, bounds
  <1>4. CASE JobLands
    <2>1. data' \in Nodes /\ seen' \in Flags
      BY <1>4, LandType, DirTypes DEF JobLands, HostType
    <2>2. UNCHANGED <<row, running, calls, strays, serving, count, bounds>>
      BY <1>4 DEF JobLands
    <2>3. job' = "none"
      BY <1>4 DEF JobLands
    <2> QED
      BY <2>1, <2>2, <2>3, TypeNext DEF SetType, HostType, BoundType, bounds
  <1>5. CASE Checkin \/ JobHanded
    BY <1>5, TypeNext DEF Checkin, JobHanded, SetType, HostType, BoundType, bounds, hosts
  <1>6. CASE JobLost
    <2>1. BoundType'
      BY <1>6, FailType DEF JobLost
    <2> QED
      BY <1>6, <2>1, TypeNext DEF JobLost, SetType, HostType, hosts
  <1>7. CASE Restart
    <2>1. calls' \in [Callers -> Call]
      BY <1>7, IdleType DEF Restart
    <2>2. strays' \in Strays
      <3>1. \A c \in Callers :
                [dir |-> calls[c].dir, from |-> calls[c].from] \in [dir: Dirs, from: Roles]
        BY DEF Call
      <3> QED
        BY <1>7, <3>1 DEF Restart, Strays
    <2>3. BoundType'
      BY <1>7, BoundsAssumption DEF Restart, BoundType
    <2>4. SetType' /\ HostType' /\ seen' \in Flags
      BY <1>7 DEF Restart, SetType, HostType, hosts
    <2> QED
      BY <2>1, <2>2, <2>3, <2>4, TypeNext
  <1>8. ASSUME NEW o \in Operators, Update(o)
        PROVE  TypeOK'
    <2>1. BoundType'
      BY <1>8, AskType DEF Update
    <2>2. row' \in Row
      BY <1>8 DEF Update
    <2> QED
      BY <1>8, <2>1, <2>2, TypeNext DEF Update, SetType, HostType, hosts
  <1>9. ASSUME NEW o \in Operators, Stop(o)
        PROVE  TypeOK'
    <2>1. BoundType'
      BY <1>9, AskType DEF Stop
    <2>2. row' \in Row
      BY <1>9 DEF Stop, SetType, Row
    <2>3. seen' \in Flags
      BY <1>9 DEF Stop, Flags, SetType
    <2> QED
      BY <1>9, <2>1, <2>2, <2>3, TypeNext DEF Stop, SetType, HostType, hosts
  <1>10. ASSUME NEW c \in Callers, PromoteWrite(c)
         PROVE  TypeOK'
    <2>1. calls' \in [Callers -> Call]
      BY <1>10, IdleType, OneCall DEF PromoteWrite
    <2>2. seen' \in Flags
      BY <1>10 DEF PromoteWrite, Flags
    <2>3. calls[c].to \in Roles
      BY <1>10 DEF PromoteWrite, CallsInv, Shape, Call
    <2>4. SetType'
      BY <1>10, <2>3 DEF PromoteWrite, SetType, Row
    <2> QED
      BY <1>10, <2>1, <2>2, <2>4, TypeNext DEF PromoteWrite, HostType, BoundType, bounds, hosts
  <1>11. ASSUME NEW c \in Callers, CopyLands(c)
         PROVE  TypeOK'
    <2>1. calls[c] \in Call
      OBVIOUS
    <2>2. calls' \in [Callers -> Call]
      <3>1. [calls[c] EXCEPT !.stage = "answered", !.ok = TRUE] \in Call
        BY <2>1, StageTypes DEF Call
      <3> QED
        BY <1>11, <3>1, OneCall DEF CopyLands
    <2>3. data' \in Nodes /\ seen' \in Flags
      <3>1. calls[c].dir \in Dirs
        BY <2>1 DEF Call
      <3> QED
        BY <1>11, <3>1, LandType DEF CopyLands, HostType
    <2> QED
      BY <1>11, <2>2, <2>3, TypeNext DEF CopyLands, SetType, HostType, BoundType, bounds
  <1>12. CASE UNCHANGED vars
    BY <1>12, TypeNext DEF vars, SetType, HostType, BoundType
  <1>13. CASE \E c \in Callers : Moves(c)
    BY <1>13, MovesKeepType
  <1> QED
    BY <1>1, <1>2, <1>3, <1>4, <1>5, <1>6, <1>7, <1>8, <1>9, <1>10, <1>11, <1>12, <1>13
       DEF Next, Agent, Request, Continue, Moves, Callers

(***************************************************************************)
(* The shape of calls                                                      *)
(***************************************************************************)

LEMMA IdleShape ==
    /\ Idle.stage = "idle" /\ Idle.owed = {}
    /\ Shape(Idle)
  BY DEF Idle, Shape

LEMMA AskedShape ==
    ASSUME NEW d, NEW to, NEW force, NEW owed, owed # {} => d = "s2p"
    PROVE  Shape(Asked(d, to, force, owed))
  BY DEF Asked, Shape, Idle

LEMMA AnswerShape ==
    ASSUME NEW call \in Call, NEW ok \in BOOLEAN
    PROVE  Shape(Answer(call, ok))
  <1>1. CASE Answer(call, ok) = Idle
    BY <1>1, IdleShape
  <1>2. CASE Answer(call, ok) = Goes(call, ok) /\ call.to # "none"
    <2>1. Goes(call, ok).stage = "promote" /\ Goes(call, ok).to = call.to
      BY DEF Goes, Idle
    <2> QED
      BY <1>2, <2>1 DEF Shape
  <1> QED
    BY <1>1, <1>2 DEF Answer

LEMMA PromotionShape ==
    ASSUME NEW to \in Roles, NEW force
    PROVE  Shape(Promotion(to, force))
  <1>1. Shape(Asked("s2p", to, force, data["secondary"]))
    BY AskedShape
  <1>2. Shape([Idle EXCEPT !.stage = "promote", !.to = to])
    BY DEF Shape, Idle, Roles
  <1> QED
    BY <1>1, <1>2 DEF Promotion

LEMMA MovesShape ==
    ASSUME TypeOK, CallsInv, NEW c \in Callers, Moves(c)
    PROVE  Shape(calls'[c])
  <1> USE TypeParts
  <1>1. calls[c] \in Call /\ Shape(calls[c])
    BY DEF CallsInv
  <1>2. ASSUME NEW call, Becomes(c, call)
        PROVE  calls'[c] = call
    BY <1>2 DEF Becomes
  <1>3. CASE c = Scheduler /\ Tick
    <2>1. PICK d \in Scheduled(row) : Becomes(c, Asked(d, "none", FALSE, {}))
      BY <1>3 DEF Tick
    <2> QED
      BY <1>2, <2>1, AskedShape
  <1>4. CASE RunNow(c)
    <2>1. PICK d \in Dirs : Becomes(c, [Idle EXCEPT !.stage = "read", !.dir = d,
                                                    !.from = row.active])
      BY <1>4 DEF RunNow
    <2>2. Shape([Idle EXCEPT !.stage = "read", !.dir = d, !.from = row.active])
      BY DEF Shape, Idle
    <2> QED
      BY <1>2, <2>1, <2>2
  <1>5. CASE Promote(c)
    <2>1. PICK to \in Roles, force \in BOOLEAN : Becomes(c, Promotion(to, force))
      BY <1>5 DEF Promote
    <2> QED
      BY <1>2, <2>1, PromotionShape
  <1>6. CASE Drill(c)
    <2>1. Shape([Idle EXCEPT !.stage = "drill", !.to = "secondary"])
      BY DEF Shape, Idle
    <2> QED
      BY <1>2, <1>6, <2>1 DEF Drill
  <1>7. CASE DrillPromotes(c)
    BY <1>2, <1>7, PromotionShape, DirTypes DEF DrillPromotes
  <1>8. CASE RunRead(c)
    <2>1. Shape([calls[c] EXCEPT !.stage = "read", !.from = row.active])
      BY <1>1, <1>8 DEF RunRead, Shape, Call
    <2> QED
      BY <1>2, <1>8, <2>1 DEF RunRead
  <1>9. CASE RunLocks(c)
    <2>1. Shape([calls[c] EXCEPT !.stage = "copying"])
      BY <1>1, <1>9 DEF RunLocks, Shape, Call
    <2> QED
      BY <1>2, <1>9, <2>1 DEF RunLocks
  <1>10. CASE RunRefused(c) \/ RunLeaks(c)
    BY <1>1, <1>2, <1>10, AnswerShape DEF RunRefused, RunLeaks
  <1>11. CASE CopyFails(c) \/ CopyFailsUnnoticed(c) \/ CopyTimesOut(c)
    <2>1. calls[c].stage = "copying"
      BY <1>11 DEF CopyFails, CopyFailsUnnoticed, CopyTimesOut
    <2>2. \A ok \in BOOLEAN : Shape([calls[c] EXCEPT !.stage = "answered", !.ok = ok])
      BY <1>1, <2>1 DEF Shape, Call
    <2> QED
      BY <1>2, <1>11, <2>2 DEF CopyFails, CopyFailsUnnoticed, CopyTimesOut
  <1>12. CASE RunEnds(c)
    <2>1. calls[c].ok \in BOOLEAN
      BY <1>1 DEF Call
    <2> QED
      BY <1>1, <1>2, <1>12, <2>1, AnswerShape DEF RunEnds
  <1> QED
    BY <1>3, <1>4, <1>5, <1>6, <1>7, <1>8, <1>9, <1>10, <1>11, <1>12 DEF Moves

LEMMA InitShape == Init => CallsInv
  BY IdleShape DEF Init, CallsInv

LEMMA NextShape == TypeOK /\ CallsInv /\ [Next]_vars => CallsInv'
  <1> SUFFICES ASSUME TypeOK, CallsInv, [Next]_vars PROVE CallsInv'
    OBVIOUS
  <1> USE TypeParts
  <1>1. ASSUME UNCHANGED calls, strays' \subseteq strays
        PROVE  CallsInv'
    BY <1>1 DEF CallsInv
  <1>2. CASE \/ Write \/ Repoint \/ StrayLands \/ Agent \/ UNCHANGED vars
             \/ \E o \in Operators : Update(o) \/ Stop(o)
    BY <1>1, <1>2
       DEF Write, Repoint, StrayLands, Agent, Checkin, JobHanded, JobLands,
           JobLost, Update, Stop, vars
  <1>3. CASE Restart
    <2>1. \A c \in Callers : Shape(calls'[c])
      BY <1>3, IdleShape DEF Restart
    <2>2. \A s \in strays' : Guard(s.from, s.dir)
      BY <1>3 DEF Restart, CallsInv, Shape
    <2> QED
      BY <2>1, <2>2 DEF CallsInv
  <1>4. ASSUME NEW c \in Callers, Moves(c)
        PROVE  CallsInv'
    <2>1. \A k \in Callers : Shape(calls'[k])
      BY <1>4, MovesShape, MovesType DEF CallsInv
    <2>2. \A s \in strays' : Guard(s.from, s.dir)
      <3>1. CASE CopyTimesOut(c)
        BY <3>1 DEF CopyTimesOut, CallsInv, Shape
      <3>2. CASE UNCHANGED strays
        BY <3>2 DEF CallsInv
      <3> QED
        BY <1>4, <3>1, <3>2, MovesFrame
    <2> QED
      BY <2>1, <2>2 DEF CallsInv
  <1>5. ASSUME NEW c \in Callers, PromoteWrite(c)
        PROVE  CallsInv'
    BY <1>5, IdleShape, IdleType, OneCall DEF PromoteWrite, CallsInv
  <1>6. ASSUME NEW c \in Callers, CopyLands(c)
        PROVE  CallsInv'
    <2> DEFINE call == [calls[c] EXCEPT !.stage = "answered", !.ok = TRUE]
    <2>1. calls[c] \in Call /\ Shape(calls[c]) /\ calls[c].stage = "copying"
      BY <1>6 DEF CallsInv, CopyLands
    <2>2. call \in Call
      BY <2>1, StageTypes DEF Call
    <2>3. Shape(call)
      BY <2>1 DEF Shape, Call
    <2>4. Becomes(c, call) /\ strays' = strays
      BY <1>6 DEF CopyLands
    <2> HIDE DEF call
    <2> QED
      BY <2>2, <2>3, <2>4, OneCall DEF CallsInv
  <1> QED
    BY <1>2, <1>3, <1>4, <1>5, <1>6
       DEF Next, Agent, Request, Continue, Moves, Callers

(***************************************************************************)
(* The lock                                                                *)
(***************************************************************************)

Under(call) == call.stage \in {"copying", "answered"}

LEMMA LockMeans ==
    OneRunAtATime <=>
        ((~seen.stopped /\ faults = 0) =>
            /\ running <=> \E c \in Callers : Under(calls[c])
            /\ \A c, d \in Callers : Under(calls[c]) /\ Under(calls[d]) => c = d)
  BY DEF OneRunAtATime, Under

LEMMA LockNext ==
    ASSUME (~seen'.stopped /\ faults' = 0) =>
               /\ running' <=> \E c \in Callers : Under(calls'[c])
               /\ \A c, d \in Callers : Under(calls'[c]) /\ Under(calls'[d]) => c = d
    PROVE  OneRunAtATime'
  BY DEF OneRunAtATime, Under

\* Calls that are not under way.
LEMMA IdleWaits == ~Under(Idle)
  BY DEF Idle, Under

LEMMA AskedWaits ==
    ASSUME NEW d, NEW to, NEW force, NEW owed
    PROVE  ~Under(Asked(d, to, force, owed))
  BY DEF Asked, Idle, Under

LEMMA AnswerWaits ==
    ASSUME NEW call, NEW ok
    PROVE  ~Under(Answer(call, ok))
  <1>1. ~Under(Goes(call, ok))
    BY DEF Goes, Idle, Under
  <1> QED
    BY <1>1, IdleWaits DEF Answer

LEMMA PromotionWaits ==
    ASSUME NEW to, NEW force
    PROVE  ~Under(Promotion(to, force))
  <1>1. ~Under([Idle EXCEPT !.stage = "promote", !.to = to])
    BY DEF Idle, Under
  <1> QED
    BY <1>1, AskedWaits DEF Promotion

LEMMA InitLock == Init => OneRunAtATime
  BY IdleWaits, LockMeans DEF Init

\* The moves of a call that neither take the lock nor give it back, and do
\* not fail.
LEMMA Waiting ==
    ASSUME TypeOK, NEW c \in Callers,
           \/ c = Scheduler /\ Tick
           \/ RunNow(c) \/ Promote(c) \/ Drill(c) \/ DrillPromotes(c)
           \/ RunRead(c) \/ RunRefused(c) \/ PromoteWrite(c)
    PROVE  ~Under(calls[c]) /\ ~Under(calls'[c])
  <1>1. calls[c] \in Call
    BY TypeParts
  <1>2. ASSUME NEW call, Becomes(c, call)
        PROVE  calls'[c] = call
    BY <1>2, TypeParts DEF Becomes
  <1>3. CASE c = Scheduler /\ Tick
    <2>1. PICK d \in Scheduled(row) : Becomes(c, Asked(d, "none", FALSE, {}))
      BY <1>3 DEF Tick
    <2> QED
      BY <1>2, <1>3, <2>1, AskedWaits DEF Tick, Under
  <1>4. CASE RunNow(c)
    <2>1. PICK d \in Dirs : Becomes(c, [Idle EXCEPT !.stage = "read", !.dir = d,
                                                    !.from = row.active])
      BY <1>4 DEF RunNow
    <2>2. ~Under([Idle EXCEPT !.stage = "read", !.dir = d, !.from = row.active])
      BY DEF Under, Idle
    <2> QED
      BY <1>2, <1>4, <2>1, <2>2 DEF RunNow, Ask, Under
  <1>5. CASE Promote(c)
    <2>1. PICK to \in Roles, force \in BOOLEAN : Becomes(c, Promotion(to, force))
      BY <1>5 DEF Promote
    <2> QED
      BY <1>2, <1>5, <2>1, PromotionWaits DEF Promote, Ask, Under
  <1>6. CASE Drill(c)
    <2>1. ~Under([Idle EXCEPT !.stage = "drill", !.to = "secondary"])
      BY DEF Under, Idle
    <2> QED
      BY <1>2, <1>6, <2>1 DEF Drill, Ask, Under
  <1>7. CASE DrillPromotes(c)
    BY <1>2, <1>7, PromotionWaits DEF DrillPromotes, Under
  <1>8. CASE RunRead(c)
    <2>1. ~Under([calls[c] EXCEPT !.stage = "read", !.from = row.active])
      BY <1>1 DEF Under, Call
    <2> QED
      BY <1>2, <1>8, <2>1 DEF RunRead, Under
  <1>9. CASE RunRefused(c)
    BY <1>2, <1>9, AnswerWaits DEF RunRefused, Under
  <1>10. CASE PromoteWrite(c)
    BY <1>2, <1>10, IdleWaits DEF PromoteWrite, Under
  <1> QED
    BY <1>3, <1>4, <1>5, <1>6, <1>7, <1>8, <1>9, <1>10

LEMMA NextLock == TypeOK /\ OneRunAtATime /\ [Next]_vars => OneRunAtATime'
  <1> SUFFICES ASSUME TypeOK, OneRunAtATime, [Next]_vars PROVE OneRunAtATime'
    OBVIOUS
  <1> USE TypeParts
  <1>1. calls \in [Callers -> Call] /\ seen \in Flags
    OBVIOUS
  <1>2. ASSUME UNCHANGED <<running, faults>>, seen'.stopped = seen.stopped,
               \A c \in Callers : Under(calls'[c]) <=> Under(calls[c])
        PROVE  OneRunAtATime'
    BY <1>2, LockMeans, LockNext
  <1>3. ASSUME Fails
        PROVE  OneRunAtATime'
    BY <1>3, FailType DEF OneRunAtATime
  <1>4. CASE \/ Write \/ Repoint \/ Checkin \/ JobHanded \/ UNCHANGED vars
             \/ \E o \in Operators : Update(o)
    BY <1>2, <1>4 DEF Write, Repoint, Checkin, JobHanded, Update, Ask, vars, bounds
  <1>5. CASE StrayLands \/ JobLands
    <2>1. seen'.stopped = seen.stopped
      BY <1>1, <1>5 DEF StrayLands, JobLands, Land, Flags
    <2> QED
      BY <1>2, <1>5, <2>1 DEF StrayLands, JobLands, bounds
  <1>6. CASE JobLost
    BY <1>3, <1>6 DEF JobLost
  <1>7. CASE Restart
    <2>1. ~running' /\ \A c \in Callers : ~Under(calls'[c])
      BY <1>7, IdleWaits DEF Restart
    <2> QED
      BY <2>1, LockMeans, LockNext
  <1>8. ASSUME NEW o \in Operators, Stop(o)
        PROVE  OneRunAtATime'
    <2>1. UNCHANGED calls /\ ~running' /\ faults' = faults
      BY <1>8 DEF Stop, Ask
    <2>2. seen'.stopped <=> seen.stopped \/ running
      BY <1>1, <1>8 DEF Stop, Flags
    <2> QED
      BY <2>1, <2>2, LockMeans, LockNext
  <1>9. ASSUME NEW c \in Callers, RunLocks(c)
        PROVE  OneRunAtATime'
    <2>1. calls'[c] = [calls[c] EXCEPT !.stage = "copying"]
          /\ \A k \in Callers : k # c => calls'[k] = calls[k]
      BY <1>1, <1>9 DEF RunLocks, Becomes
    <2>2. Under(calls'[c])
      BY <1>1, <2>1 DEF Under, Call
    <2>3. ~running /\ running' /\ UNCHANGED <<faults, seen>>
      BY <1>9 DEF RunLocks, bounds
    <2> QED
      BY <2>1, <2>2, <2>3, LockMeans, LockNext
  <1>10. ASSUME NEW c \in Callers, RunEnds(c)
         PROVE  OneRunAtATime'
    <2>1. ~Under(calls'[c]) /\ \A k \in Callers : k # c => calls'[k] = calls[k]
      BY <1>1, <1>10, AnswerWaits DEF RunEnds, Becomes
    <2>2. Under(calls[c])
      BY <1>10 DEF RunEnds, Under
    <2>3. ~running' /\ UNCHANGED <<faults, seen>>
      BY <1>10 DEF RunEnds, bounds
    <2> QED
      BY <2>1, <2>2, <2>3, LockMeans, LockNext
  <1>11. ASSUME NEW c \in Callers, CopyLands(c)
         PROVE  OneRunAtATime'
    <2>1. calls'[c] = [calls[c] EXCEPT !.stage = "answered", !.ok = TRUE]
          /\ \A k \in Callers : k # c => calls'[k] = calls[k]
      BY <1>1, <1>11 DEF CopyLands, Becomes
    <2>2. Under(calls[c]) /\ Under(calls'[c])
      BY <1>1, <1>11, <2>1 DEF CopyLands, Under, Call
    <2>3. seen'.stopped = seen.stopped
      BY <1>1, <1>11 DEF CopyLands, Land, Flags
    <2> QED
      BY <1>2, <1>11, <2>1, <2>2, <2>3 DEF CopyLands, bounds
  <1>12. ASSUME NEW c \in Callers,
                RunLeaks(c) \/ CopyFails(c) \/ CopyFailsUnnoticed(c) \/ CopyTimesOut(c)
         PROVE  OneRunAtATime'
    BY <1>3, <1>12 DEF RunLeaks, CopyFails, CopyFailsUnnoticed, CopyTimesOut
  <1>13. ASSUME NEW c \in Callers,
                \/ c = Scheduler /\ Tick
                \/ RunNow(c) \/ Promote(c) \/ Drill(c) \/ DrillPromotes(c)
                \/ RunRead(c) \/ RunRefused(c) \/ PromoteWrite(c)
         PROVE  OneRunAtATime'
    <2>1. ~Under(calls[c]) /\ ~Under(calls'[c])
      BY <1>13, Waiting
    <2>2. \A k \in Callers : k # c => calls'[k] = calls[k]
      BY <1>1, <1>13
         DEF Tick, RunNow, Promote, Drill, DrillPromotes, RunRead, RunRefused,
             PromoteWrite, Becomes
    <2>3. UNCHANGED <<running, faults>>
      BY <1>13
         DEF Tick, RunNow, Promote, Drill, DrillPromotes, RunRead, RunRefused,
             PromoteWrite, Ask, bounds
    <2>4. seen'.stopped = seen.stopped
      BY <1>1, <1>13
         DEF Tick, RunNow, Promote, Drill, DrillPromotes, RunRead, RunRefused,
             PromoteWrite, Flags
    <2> QED
      BY <1>2, <2>1, <2>2, <2>3, <2>4
  <1> QED
    BY <1>4, <1>5, <1>6, <1>7, <1>8, <1>9, <1>10, <1>11, <1>12, <1>13
       DEF Next, Agent, Request, Continue, Callers

(***************************************************************************)
(* The node that serves                                                    *)
(***************************************************************************)

LEMMA LandSpares ==
    ASSUME TypeOK, NEW d \in Dirs, NEW from, Land(d, from), Guard(row.active, d)
    PROVE  data'[row.active] = data[row.active]
  <1>1. data \in Nodes /\ Target[d] # row.active
    BY TypeParts DEF HostType, Guard
  <1> QED
    BY <1>1 DEF Land, Nodes

LEMMA NextSpares ==
    TypeOK /\ CallsInv /\ [Next]_vars
        => [InStep => data[row.active] \subseteq data'[row.active]]_vars
  <1> SUFFICES ASSUME TypeOK, CallsInv, Next, InStep
               PROVE  data[row.active] \subseteq data'[row.active]
    OBVIOUS
  <1> USE TypeParts
  <1>1. CASE UNCHANGED data
    BY <1>1
  <1>2. CASE Write
    BY <1>2 DEF Write, HostType, SetType, Row, Nodes
  <1>3. CASE StrayLands
    <2>1. PICK s \in strays : Land(s.dir, s.from)
      BY <1>3 DEF StrayLands
    <2>2. s.dir \in Dirs /\ Guard(row.active, s.dir)
      BY <2>1 DEF Strays, CallsInv, InStep
    <2> QED
      BY <2>1, <2>2, LandSpares
  <1>4. CASE JobLands
    <2>1. Land("p2s", "primary") /\ row.active = "primary"
      BY <1>4 DEF JobLands, InStep
    <2>2. Guard("primary", "p2s")
      BY DEF Guard, Source, Target
    <2> QED
      BY <2>1, <2>2, DirTypes, LandSpares
  <1>5. ASSUME NEW c \in Callers, CopyLands(c)
        PROVE  data[row.active] \subseteq data'[row.active]
    <2>1. calls[c].dir \in Dirs /\ Guard(row.active, calls[c].dir)
      BY <1>5 DEF CopyLands, CallsInv, Shape, InStep, Call
    <2> QED
      BY <1>5, <2>1, LandSpares DEF CopyLands
  <1>6. ASSUME NEW c \in Callers, Moves(c) \/ PromoteWrite(c)
        PROVE  data[row.active] \subseteq data'[row.active]
    BY <1>1, <1>6, MovesFrame DEF PromoteWrite, hosts
  <1>7. CASE \/ Repoint \/ Checkin \/ JobHanded \/ JobLost \/ Restart
             \/ \E o \in Operators : Update(o) \/ Stop(o)
    BY <1>1, <1>7 DEF Repoint, Checkin, JobHanded, JobLost, Restart, Update, Stop, hosts
  <1> QED
    BY <1>2, <1>3, <1>4, <1>5, <1>6, <1>7
       DEF Next, Agent, Request, Continue, Moves, Callers

(***************************************************************************)
(* What a fail-back owes                                                   *)
(***************************************************************************)

LEMMA KeptNothing ==
    ASSUME NEW call, NEW active, NEW nodes, call.owed = {}
    PROVE  Kept(call, active, nodes)
  BY DEF Kept

LEMMA KeptAlike ==
    ASSUME NEW call, NEW new, NEW active, NEW nodes, Kept(call, active, nodes),
           new.owed = call.owed,
           (\/ new.stage = "answered" /\ new.ok
            \/ new.stage = "promote" /\ ~new.force)
               => call.stage = "answered" /\ call.ok
    PROVE  Kept(new, active, nodes)
  BY DEF Kept

LEMMA KeptGrows ==
    ASSUME NEW call, NEW active, NEW nodes, NEW more, Kept(call, active, nodes),
           nodes["primary"] \subseteq more["primary"],
           nodes["secondary"] \subseteq more["secondary"]
    PROVE  Kept(call, active, more)
  BY DEF Kept

\* A copy that the guard admits under the present state.
LEMMA KeptLands ==
    ASSUME NEW call, NEW active \in Roles, NEW nodes \in Nodes, NEW d \in Dirs,
           Guard(active, d), Kept(call, active, nodes)
    PROVE  LET after == [nodes EXCEPT ![Target[d]] = nodes[Source[d]]]
           IN  /\ Kept(call, active, after)
               /\ d = "s2p" => call.owed \subseteq after["primary"]
                              /\ call.owed \subseteq after["secondary"]
  <1> DEFINE after == [nodes EXCEPT ![Target[d]] = nodes[Source[d]]]
  <1>1. CASE d = "p2s"
    <2>1. active # "secondary"
      BY <1>1 DEF Guard, Target
    <2>2. call.owed \subseteq nodes["primary"]
      BY <2>1 DEF Kept
    <2>3. after["primary"] = nodes["primary"] /\ after["secondary"] = nodes["primary"]
      BY <1>1, DirTypes DEF Source, Target, Nodes
    <2> QED
      BY <1>1, <2>2, <2>3 DEF Kept
  <1>2. CASE d = "s2p"
    <2>1. call.owed \subseteq nodes["secondary"]
      BY DEF Kept
    <2>2. after["primary"] = nodes["secondary"] /\ after["secondary"] = nodes["secondary"]
      BY <1>2, DirTypes DEF Source, Target, Nodes
    <2> QED
      BY <1>2, <2>1, <2>2 DEF Kept
  <1>3. CASE d = "p2t" \/ d = "s2t"
    <2>1. after["primary"] = nodes["primary"] /\ after["secondary"] = nodes["secondary"]
      BY <1>3, DirTypes DEF Source, Target, Nodes
    <2> QED
      BY <1>3, <2>1, KeptGrows
  <1> QED
    BY <1>1, <1>2, <1>3 DEF Dirs

\* An answer promotes without force only if the copy was answered well.
LEMMA KeptAnswer ==
    ASSUME NEW call \in Call, NEW ok \in BOOLEAN, NEW active, NEW nodes,
           Kept(call, active, nodes), ok => call.stage = "answered" /\ call.ok
    PROVE  Kept(Answer(call, ok), active, nodes)
  <1>1. CASE Answer(call, ok) = Idle
    BY <1>1, IdleShape, KeptNothing
  <1>2. CASE Answer(call, ok) = Goes(call, ok) /\ (ok \/ call.force)
    <2>1. /\ Goes(call, ok).owed = call.owed
          /\ Goes(call, ok).stage = "promote"
          /\ Goes(call, ok).force = (call.force /\ ~ok)
      BY DEF Goes, Idle
    <2>2. ~Goes(call, ok).force => ok
      BY <1>2, <2>1
    <2> QED
      BY <1>2, <2>1, <2>2, KeptAlike
  <1> QED
    BY <1>1, <1>2 DEF Answer

LEMMA KeptPromotion ==
    ASSUME NEW to, NEW force
    PROVE  Kept(Promotion(to, force), row.active, data)
  <1>1. CASE NeedsReconcile(row.active, to)
    <2>1. /\ Promotion(to, force).owed = data["secondary"]
          /\ Promotion(to, force).stage = "asked"
      BY <1>1 DEF Promotion, Asked, Idle
    <2>2. row.active = "secondary"
      BY <1>1 DEF NeedsReconcile
    <2> QED
      BY <2>1, <2>2 DEF Kept
  <1>2. CASE ~NeedsReconcile(row.active, to)
    <2>1. Promotion(to, force).owed = {}
      BY <1>2 DEF Promotion, Idle
    <2> QED
      BY <2>1, KeptNothing
  <1> QED
    BY <1>1, <1>2

LEMMA MovesKept ==
    ASSUME TypeOK, NEW c \in Callers, Moves(c), ~seen'.lossy,
           Kept(calls[c], row.active, data)
    PROVE  Kept(calls'[c], row.active, data)
  <1> USE TypeParts
  <1>1. calls[c] \in Call
    OBVIOUS
  <1>2. ASSUME NEW call, Becomes(c, call)
        PROVE  calls'[c] = call
    BY <1>2 DEF Becomes
  <1>3. CASE c = Scheduler /\ Tick
    <2>1. PICK d \in Scheduled(row) : Becomes(c, Asked(d, "none", FALSE, {}))
      BY <1>3 DEF Tick
    <2>2. Asked(d, "none", FALSE, {}).owed = {}
      BY DEF Asked, Idle
    <2> QED
      BY <1>2, <2>1, <2>2, KeptNothing
  <1>4. CASE RunNow(c)
    <2>1. PICK d \in Dirs : Becomes(c, [Idle EXCEPT !.stage = "read", !.dir = d,
                                                    !.from = row.active])
      BY <1>4 DEF RunNow
    <2>2. [Idle EXCEPT !.stage = "read", !.dir = d, !.from = row.active].owed = {}
      BY DEF Idle
    <2> QED
      BY <1>2, <2>1, <2>2, KeptNothing
  <1>5. CASE Promote(c)
    <2>1. PICK to \in Roles, force \in BOOLEAN : Becomes(c, Promotion(to, force))
      BY <1>5 DEF Promote
    <2> QED
      BY <1>2, <2>1, KeptPromotion
  <1>6. CASE Drill(c)
    <2>1. [Idle EXCEPT !.stage = "drill", !.to = "secondary"].owed = {}
      BY DEF Idle
    <2> QED
      BY <1>2, <1>6, <2>1, KeptNothing DEF Drill
  <1>7. CASE DrillPromotes(c)
    BY <1>2, <1>7, KeptPromotion DEF DrillPromotes
  <1>8. CASE RunRead(c)
    <2> DEFINE new == [calls[c] EXCEPT !.stage = "read", !.from = row.active]
    <2>1. new.owed = calls[c].owed /\ new.stage = "read"
      BY <1>1 DEF Call
    <2>2. Kept(new, row.active, data)
      <3> HIDE DEF new
      <3> QED
        BY <2>1, KeptAlike
    <2> QED
      BY <1>2, <1>8, <2>2 DEF RunRead
  <1>9. CASE RunLocks(c)
    <2>1. Kept([calls[c] EXCEPT !.stage = "copying"], row.active, data)
      BY <1>1, KeptAlike DEF Call
    <2> QED
      BY <1>2, <1>9, <2>1 DEF RunLocks
  <1>10. CASE RunRefused(c) \/ RunLeaks(c)
    BY <1>1, <1>2, <1>10, KeptAnswer DEF RunRefused, RunLeaks
  <1>11. CASE CopyFails(c) \/ CopyTimesOut(c)
    <2> DEFINE new == [calls[c] EXCEPT !.stage = "answered", !.ok = FALSE]
    <2>1. new.owed = calls[c].owed /\ new.stage = "answered" /\ ~new.ok
      BY <1>1 DEF Call
    <2>2. Kept(new, row.active, data)
      <3> HIDE DEF new
      <3> QED
        BY <2>1, KeptAlike
    <2> QED
      BY <1>2, <1>11, <2>2 DEF CopyFails, CopyTimesOut
  <1>12. CASE CopyFailsUnnoticed(c)
    BY <1>12 DEF CopyFailsUnnoticed, Flags
  <1>13. CASE RunEnds(c)
    <2>1. calls[c].stage = "answered" /\ calls[c].ok \in BOOLEAN
      BY <1>1, <1>13 DEF Call, RunEnds
    <2> QED
      BY <1>1, <1>2, <1>13, <2>1, KeptAnswer DEF RunEnds
  <1> QED
    BY <1>3, <1>4, <1>5, <1>6, <1>7, <1>8, <1>9, <1>10, <1>11, <1>12, <1>13
       DEF Moves

LEMMA InitKept == Init => KeptInv
  BY IdleShape, KeptNothing DEF Init, KeptInv

LEMMA NextKept == TypeOK /\ CallsInv /\ KeptInv /\ [Next]_vars => KeptInv'
  <1> SUFFICES ASSUME TypeOK, CallsInv, KeptInv, [Next]_vars, ~seen'.lossy,
                      NEW k \in Callers
               PROVE  Kept(calls'[k], row'.active, data')
    BY DEF KeptInv
  <1> USE TypeParts
  <1>1. /\ calls \in [Callers -> Call] /\ seen \in Flags
        /\ row \in Row /\ data \in Nodes /\ serving \in Roles
    BY DEF SetType, HostType
  <1>2. ASSUME ~seen.lossy
        PROVE  Kept(calls[k], row.active, data)
    BY <1>2 DEF KeptInv
  <1>3. ASSUME UNCHANGED <<calls, data>>, row'.active = row.active, ~seen.lossy
        PROVE  Kept(calls'[k], row'.active, data')
    BY <1>2, <1>3
  <1>4. CASE \/ Repoint \/ Checkin \/ JobHanded \/ JobLost \/ UNCHANGED vars
             \/ \E o \in Operators : Update(o)
    BY <1>1, <1>3, <1>4
       DEF Repoint, Checkin, JobHanded, JobLost, Update, Row, vars, hosts
  <1>5. ASSUME NEW o \in Operators, Stop(o)
        PROVE  Kept(calls'[k], row'.active, data')
    <2>1. row'.active = row.active /\ ~seen.lossy
      BY <1>1, <1>5 DEF Stop, Row, Flags
    <2> QED
      BY <1>3, <1>5, <2>1 DEF Stop, hosts
  <1>6. CASE Write
    <2>1. ~seen.lossy /\ UNCHANGED <<row, calls>>
      BY <1>6 DEF Write
    <2>2. \A r \in Roles : data[r] \subseteq data'[r]
      BY <1>1, <1>6 DEF Write, Nodes
    <2> QED
      BY <1>2, <2>1, <2>2, DirTypes, KeptGrows
  <1>7. CASE Restart
    BY <1>7, IdleShape, KeptNothing DEF Restart
  <1>8. ASSUME NEW d \in Dirs, NEW from, Land(d, from), Guard(from, d),
               UNCHANGED row
        PROVE  /\ ~seen.lossy
               /\ Kept(calls[k], row'.active, data')
               /\ d = "s2p" => calls[k].owed \subseteq data'["primary"]
                              /\ calls[k].owed \subseteq data'["secondary"]
    <2>1. ~seen.lossy /\ from = row.active
      BY <1>1, <1>8 DEF Land, Flags
    <2>2. row.active \in Roles
      BY <1>1 DEF Row
    <2> QED
      BY <1>1, <1>2, <1>8, <2>1, <2>2, KeptLands DEF Land
  <1>9. CASE StrayLands
    <2>1. PICK s \in strays : Land(s.dir, s.from)
      BY <1>9 DEF StrayLands
    <2>2. s.dir \in Dirs /\ Guard(s.from, s.dir)
      BY <2>1 DEF Strays, CallsInv
    <2> QED
      BY <1>8, <1>9, <2>1, <2>2 DEF StrayLands
  <1>10. CASE JobLands
    <2>1. Guard("primary", "p2s")
      BY DEF Guard, Source, Target
    <2> QED
      BY <1>8, <1>10, <2>1, DirTypes DEF JobLands
  <1>11. ASSUME NEW c \in Callers, CopyLands(c)
         PROVE  Kept(calls'[k], row'.active, data')
    <2>1. calls[c] \in Call /\ Shape(calls[c]) /\ calls[c].stage = "copying"
      BY <1>1, <1>11 DEF CopyLands, CallsInv
    <2>2. /\ Land(calls[c].dir, calls[c].from) /\ UNCHANGED row
          /\ calls[c].dir \in Dirs /\ Guard(calls[c].from, calls[c].dir)
      BY <1>11, <2>1 DEF CopyLands, Shape, Call
    <2>3. CASE k # c
      <3>1. calls'[k] = calls[k]
        BY <1>1, <1>11, <2>3 DEF CopyLands, Becomes
      <3> QED
        BY <1>8, <2>2, <3>1
    <2>4. CASE k = c
      <3>1. calls'[c].owed = calls[c].owed
        BY <1>1, <1>11, <2>1 DEF CopyLands, Becomes, Call
      <3>2. calls[c].owed = {} \/ calls[c].dir = "s2p"
        BY <2>1 DEF Shape
      <3>3. CASE calls[c].owed = {}
        BY <2>4, <3>1, <3>3, KeptNothing
      <3>4. CASE calls[c].dir = "s2p"
        BY <1>8, <2>2, <2>4, <3>1, <3>4 DEF Kept
      <3> QED
        BY <3>2, <3>3, <3>4
    <2> QED
      BY <2>3, <2>4
  <1>12. ASSUME NEW c \in Callers, PromoteWrite(c)
         PROVE  Kept(calls'[k], row'.active, data')
    <2>1. CASE k = c
      BY <1>1, <1>12, <2>1, IdleShape, KeptNothing DEF PromoteWrite, Becomes
    <2>2. CASE k # c
      <3>1. /\ calls'[k] = calls[k] /\ UNCHANGED data
            /\ row'.active = calls[c].to
        BY <1>1, <1>12, <2>2 DEF PromoteWrite, Becomes, Row, hosts
      <3>2. /\ ~seen.lossy
            /\ (row.active = "secondary" /\ calls[c].to # "secondary")
                   => data["secondary"] \subseteq data["primary"]
        BY <1>1, <1>12 DEF PromoteWrite, Flags
      <3> QED
        BY <1>2, <3>1, <3>2 DEF Kept
    <2> QED
      BY <2>1, <2>2
  <1>13. ASSUME NEW c \in Callers, Moves(c)
         PROVE  Kept(calls'[k], row'.active, data')
    <2>1. ~seen.lossy
      BY <1>13, MovesSeen
    <2>2. UNCHANGED <<row, data>>
      BY <1>13, MovesFrame
    <2>3. CASE k # c
      BY <1>2, <1>13, <2>1, <2>2, <2>3, MovesType
    <2>4. CASE k = c
      BY <1>2, <1>13, <2>1, <2>2, <2>4, MovesKept
    <2> QED
      BY <2>3, <2>4
  <1> QED
    BY <1>4, <1>5, <1>6, <1>7, <1>9, <1>10, <1>11, <1>12, <1>13
       DEF Next, Agent, Request, Continue, Moves, Callers

LEMMA FailbackStep ==
    TypeOK /\ KeptInv
        => [\A c \in Callers :
               (PromoteWrite(c) /\ ~calls[c].force /\ ~seen.lossy)
                   => calls[c].owed \subseteq data["primary"]]_vars
  BY DEF KeptInv, Kept, PromoteWrite

(***************************************************************************)
(* The theorems                                                            *)
(***************************************************************************)

Inv == TypeOK /\ CallsInv /\ OneRunAtATime /\ KeptInv

LEMMA Invariant == Spec => []Inv
  <1>1. Init => Inv
    BY InitType, InitShape, InitLock, InitKept DEF Inv
  <1>2. Inv /\ [Next]_vars => Inv'
    BY NextType, NextShape, NextLock, NextKept DEF Inv
  <1> QED
    BY <1>1, <1>2, PTL DEF Spec

\* Every column, call, job, copy and node of a set keeps its type, whatever
\* requests, ticks, check-ins, faults and restarts of the service come.
THEOREM TypeCorrect == Spec => []TypeOK
  <1>1. Inv => TypeOK
    BY DEF Inv
  <1> QED
    BY <1>1, Invariant, PTL

\* The lock of runNow() is held exactly while a run is under way and admits
\* one run of a set at a time, for any number of operators, until stop()
\* clears it under a run or the database fails between it and its "try".
THEOREM OneRunAtATimeHolds == Spec => []OneRunAtATime
  <1>1. Inv => OneRunAtATime
    BY DEF Inv
  <1> QED
    BY <1>1, Invariant, PTL

\* guardDirection() protects the node that serves from every copy that was
\* admitted under the state the set still has, whoever started the copy and
\* whoever waits for it: a run, a copy left behind or the job of the agent.
THEOREM LiveDataKeptHolds == Spec => LiveDataKept
  <1>1. Inv /\ [Next]_vars => [InStep => data[row.active] \subseteq data'[row.active]]_vars
    BY NextSpares DEF Inv
  <1> QED
    BY <1>1, Invariant, PTL DEF Spec, LiveDataKept

\* promote() does not write the state of a fail-back it was not forced into
\* before all that the secondary held at the request is on the primary, for
\* any interleaving with other promotions and copies, while nothing is lost
\* in one of the ways that seen.lossy records.
THEOREM FailbackKeepsWorkHolds == Spec => FailbackKeepsWork
  <1>1. Inv /\ [Next]_vars
            => [\A c \in Callers :
                   (PromoteWrite(c) /\ ~calls[c].force /\ ~seen.lossy)
                       => calls[c].owed \subseteq data["primary"]]_vars
    BY FailbackStep DEF Inv
  <1> QED
    BY <1>1, Invariant, PTL DEF Spec, FailbackKeepsWork

=============================================================================
