------------------------------- MODULE Fabric -------------------------------
(***************************************************************************)
(* A network fabric between two clouds (fabric.service.ts, with what the   *)
(* adapters' fabricGateway, fabricConnection and fabricTeardown do): the   *)
(* staged pipeline that creates a gateway and a connection on each side,   *)
(* and the operators' calls beside it.                                     *)
(*                                                                         *)
(* advance() does one stage; a set in memory keeps a second one out, and   *)
(* nothing else.  What a stage creates in a cloud is written to the row    *)
(* after it.  On one side (AWS) every call creates a thing anew and the    *)
(* address is known later; on the other (Azure, GCP) a name is the id.     *)
(* Networks cost nothing and are left out.                                 *)
(***************************************************************************)
EXTENDS Naturals, FiniteSets

CONSTANTS
    Anew, Named,        \* the side whose ids are new each time, the side of names
    MaxNames,           \* bound: names, of which an edit gives another
    MaxFabricEvents     \* bound: calls of operators other than edits, and failures

Sides == {Anew, Named}
ASSUME FabricAssumption == Anew # Named /\ MaxNames \in Nat /\ MaxFabricEvents \in Nat

VARIABLES
    fabric,     \* the row
    things,     \* what is billed: gateways, and connections with what they join
    ready,      \* gateways that are up, connections whose address is assigned
    work,       \* the advance() under way: its stage, the row it read, what it created
    teardown,   \* the deprovision() under way: the row it read, the sides that are left
    causes,     \* observation: what has happened that the platform does not look after
    fabricEvents

fabVars == <<fabric, things, ready, work, teardown, causes, fabricEvents>>

Stages == <<"net_a", "net_b", "gw_a", "gw_b", "conn", "handoff", "done">>
After(stage) == Stages[(CHOOSE n \in 1 .. 6 : Stages[n] = stage) + 1]
SideOf(stage) == IF stage = "gw_a" THEN Anew ELSE Named
Other(s) == CHOOSE o \in Sides : o # s
Blank == [s \in Sides |-> 0]
Unaddressed == [s \in Sides |-> FALSE]

Draft == [there |-> TRUE, armed |-> FALSE, status |-> "draft", stage |-> "net_a", name |-> 1,
          gw |-> Blank, ip |-> Unaddressed, con |-> Blank]
Nothing == [kind |-> "nothing", side |-> Anew, id |-> 0, own |-> 0, peer |-> 0]
Thing(kind, s, id) == [kind |-> kind, side |-> s, id |-> id, own |-> 0, peer |-> 0]
Wired(s, id, own, peer) == [kind |-> "con", side |-> s, id |-> id, own |-> own, peer |-> peer]
NoWork == [pc |-> "idle", f |-> Draft, made |-> Nothing]
NoTeardown == [on |-> FALSE, f |-> Draft, left |-> {}]

FabInit ==
    /\ fabric = Draft /\ things = {} /\ ready = {} /\ work = NoWork /\ teardown = NoTeardown
    /\ causes = {} /\ fabricEvents = 0

FabricEvent == fabricEvents < MaxFabricEvents /\ fabricEvents' = fabricEvents + 1
Because(why, cause) == causes' = IF why THEN causes \cup {cause} ELSE causes
Recorded(f) == {Thing("gw", s, f.gw[s]) : s \in Sides} \cup {Thing("con", s, f.con[s]) : s \in Sides}
Billed(f) == {t \in things : \E r \in Recorded(f) : t.kind = r.kind /\ t.side = r.side /\ t.id = r.id}

\* A new id (there are as many as can come to be in use), or the fabric's name.
NewId(s, f) ==
    IF s = Named THEN f.name
    ELSE CHOOSE n \in 1 .. MaxFabricEvents + 8 :
           /\ \A t \in things : t.side = Anew => t.id # n
           /\ n \notin {fabric.gw[Anew], fabric.con[Anew], f.gw[Anew], f.con[Anew]}

(***************************************************************************)
(* advance().                                                              *)
(***************************************************************************)
Begin ==
    /\ work.pc = "idle" /\ fabric.there /\ fabric.armed /\ fabric.status \notin {"error", "up"}
    /\ fabric.stage # "done"
    /\ work' = [pc |-> fabric.stage, f |-> fabric, made |-> Nothing]
    /\ Because(teardown.on, "overlap")
    /\ UNCHANGED <<fabric, things, ready, teardown, fabricEvents>>

\* Any error: the row says so, whatever has become of it.
Errs == fabric' = IF fabric.there THEN [fabric EXCEPT !.status = "error"] ELSE fabric

\* The cloud refuses before it has created anything, or after.
StageFails ==
    /\ work.pc \notin {"idle", "save"} /\ FabricEvent
    /\ Errs /\ work' = NoWork
    /\ \/ UNCHANGED <<things, causes>>
       \/ /\ work.pc \in {"gw_a", "gw_b"}
          /\ LET s == SideOf(work.pc) IN things' = things \cup {Thing("gw", s, NewId(s, work.f))}
          /\ causes' = causes \cup {"half done"}
    /\ UNCHANGED <<ready, teardown>>

\* A network, the end of the connections, the hand-over to the monitor.
EasyStage ==
    /\ work.pc \in {"net_a", "net_b", "joined", "handoff"}
    /\ fabric' = IF ~fabric.there THEN fabric
                 ELSE CASE work.pc = "joined" -> [fabric EXCEPT !.stage = "handoff"]
                        [] work.pc = "handoff" -> [fabric EXCEPT !.stage = "done", !.status = "up"]
                        [] OTHER -> [fabric EXCEPT !.stage = After(work.pc)]
    /\ work' = NoWork
    /\ UNCHANGED <<things, ready, teardown, causes, fabricEvents>>

MakeGateway ==
    LET s == SideOf(work.pc)
        made == Thing("gw", s, NewId(s, work.f)) IN
    /\ work.pc \in {"gw_a", "gw_b"}
    /\ things' = things \cup {made}
    /\ work' = [work EXCEPT !.pc = "save", !.made = made]
    /\ UNCHANGED <<fabric, ready, teardown, causes, fabricEvents>>

\* Mutant: the sides in the other order.
NamedFirst(f) ==
    IF f.con[Named] = 0 THEN {Named} ELSE IF f.con[Anew] = 0 THEN {Anew} ELSE {}

\* The side with late addresses first; a side that has a connection is passed.
NextToConnect(f) ==
    IF f.con[Anew] = 0 THEN {Anew} ELSE IF f.con[Named] = 0 THEN {Named} ELSE {}

\* connect(): the addresses that have come meanwhile are written first.
Addressed(f) == [f EXCEPT !.ip[Anew] = @ \/ Thing("con", Anew, f.con[Anew]) \in ready]

PollAddress ==
    /\ work.pc = "conn" /\ fabric.there /\ Addressed(fabric) # fabric
    /\ fabric' = Addressed(fabric)
    /\ work' = [work EXCEPT !.f = Addressed(fabric)]
    /\ UNCHANGED <<things, ready, teardown, causes, fabricEvents>>

Connect ==
    LET f == work.f IN
    /\ work.pc = "conn" /\ (fabric.there => Addressed(fabric) = fabric)
    /\ IF NextToConnect(f) = {}
       THEN work' = [work EXCEPT !.pc = "joined"] /\ UNCHANGED <<fabric, things>>
       ELSE \E s \in NextToConnect(f) :
              LET made == Wired(s, NewId(s, f), f.gw[s], f.gw[Other(s)]) IN
              IF ~f.ip[Other(s)] THEN work' = NoWork /\ UNCHANGED <<fabric, things>>
              ELSE IF s = Named /\ Thing("gw", s, f.gw[s]) \notin ready
              THEN /\ work' = NoWork /\ UNCHANGED things
                   /\ fabric' = IF fabric.there THEN [fabric EXCEPT !.status = "connecting"] ELSE fabric
              ELSE /\ things' = {t \in things : t.kind # "con" \/ t.side # s \/ t.id # made.id} \cup {made}
                   /\ work' = [work EXCEPT !.pc = "save", !.made = made]
                   /\ UNCHANGED fabric
    /\ UNCHANGED <<ready, teardown, causes, fabricEvents>>

\* What was created is written to the row, if there is one; connect() reads it again.
Saved(f, t) ==
    IF t.kind = "gw"
    THEN [f EXCEPT !.gw[t.side] = t.id, !.ip[t.side] = t.side = Named,
                   !.stage = IF t.side = Anew THEN "gw_b" ELSE "conn",
                   !.status = IF t.side = Anew THEN @ ELSE "connecting"]
    ELSE [f EXCEPT !.con[t.side] = t.id]

Save ==
    /\ work.pc = "save"
    /\ IF ~fabric.there THEN work' = NoWork /\ UNCHANGED fabric
       ELSE /\ fabric' = Saved(fabric, work.made)
            /\ work' = IF work.made.kind = "gw" THEN NoWork
                       ELSE [pc |-> "conn", f |-> fabric', made |-> Nothing]
    /\ UNCHANGED <<things, ready, teardown, causes, fabricEvents>>

Advance == Begin \/ EasyStage \/ MakeGateway \/ PollAddress \/ Connect \/ Save

(***************************************************************************)
(* The clouds: a gateway comes up, a connection gets its address.          *)
(***************************************************************************)
Matures(t) ==
    /\ t \in things /\ Thing(t.kind, t.side, t.id) \notin ready
    /\ ready' = ready \cup {Thing(t.kind, t.side, t.id)}
    /\ UNCHANGED <<fabric, things, work, teardown, causes, fabricEvents>>

(***************************************************************************)
(* Operators, and the process.                                             *)
(***************************************************************************)
\* Nothing is asked of the row but that it is there; the page hides the button of an armed one.
Arm ==
    /\ fabric.there /\ ~fabric.armed /\ FabricEvent
    /\ fabric' = [fabric EXCEPT !.armed = TRUE, !.status = "provisioning", !.stage = "net_a"]
    /\ Because(Billed(fabric) # {} \/ work.pc # "idle", "armed over")
    /\ UNCHANGED <<things, ready, work, teardown>>

\* Only a draft or a failed one; a failed one becomes a draft, and keeps its ids.
Edit ==
    /\ fabric.there /\ (fabric.armed => fabric.status \in {"error", "draft"})
    /\ fabric.name < MaxNames
    /\ fabric' = [fabric EXCEPT !.name = @ + 1, !.armed = @ /\ fabric.status # "error",
                                !.status = IF @ = "error" THEN "draft" ELSE @]
    /\ Because(Billed(fabric) # {} \/ work.pc # "idle", "edited over")
    /\ UNCHANGED <<things, ready, work, teardown, fabricEvents>>

\* Mutant: a retry begins with the first stage.
StartedOver(f) == [f EXCEPT !.status = "provisioning", !.stage = "net_a"]

Resumed(f) == [f EXCEPT !.status = "provisioning"]

Retry ==
    /\ fabric.there /\ fabric.status = "error" /\ FabricEvent
    /\ fabric' = Resumed(fabric)
    /\ UNCHANGED <<things, ready, work, teardown, causes>>

RemoveFabric ==
    /\ fabric.there /\ FabricEvent
    /\ fabric' = [Draft EXCEPT !.there = FALSE]
    /\ Because(things # {} \/ work.pc # "idle", "removed")
    /\ UNCHANGED <<things, ready, work, teardown>>

Deprovision ==
    /\ fabric.there /\ ~teardown.on /\ Billed(fabric) # {} /\ FabricEvent
    /\ teardown' = [on |-> TRUE, f |-> fabric, left |-> Sides]
    /\ Because(work.pc # "idle", "overlap")
    /\ UNCHANGED <<fabric, things, ready, work>>

\* fabricTeardown(): the recorded gateway, and the recorded connection or the one of the name.
Reached(f, s) ==
    {t \in things : t.side = s /\ t.id = IF t.kind = "gw" THEN f.gw[s]
                                         ELSE IF s = Named THEN f.name ELSE f.con[s]}

\* One side after the other; what is refused is a line in the log.
TearDownSide ==
    LET s == IF Anew \in teardown.left THEN Anew ELSE Named IN
    /\ teardown.on /\ teardown.left # {}
    /\ teardown' = [teardown EXCEPT !.left = @ \ {s}]
    /\ \E gone \in SUBSET Reached(teardown.f, s) :
         /\ things' = things \ gone
         /\ ready' = ready \ {Thing(t.kind, t.side, t.id) : t \in gone}
         /\ IF gone = Reached(teardown.f, s) THEN UNCHANGED <<causes, fabricEvents>>
            ELSE FabricEvent /\ causes' = causes \cup {"refused"}
    /\ UNCHANGED <<fabric, work>>

Reset ==
    /\ teardown.on /\ teardown.left = {}
    /\ fabric' = IF fabric.there THEN [Draft EXCEPT !.name = fabric.name] ELSE fabric
    /\ teardown' = NoTeardown
    /\ UNCHANGED <<things, ready, work, causes, fabricEvents>>

FabRestart ==
    /\ FabricEvent
    /\ work' = NoWork /\ teardown' = NoTeardown
    /\ Because(work.made # Nothing \/ teardown.on, "crash")
    /\ UNCHANGED <<fabric, things, ready>>

FabNext ==
    \/ Advance \/ StageFails \/ Arm \/ Edit \/ Retry \/ RemoveFabric
    \/ Deprovision \/ TearDownSide \/ Reset \/ FabRestart
    \/ \E t \in things : Matures(t)

\* The timer goes on, calls come back, the clouds finish what they began.
FabDuty(k) ==
    \/ k = 1 /\ Advance
    \/ k = 2 /\ (TearDownSide \/ Reset)
    \/ k = 3 /\ \E t \in things : Matures(t)
FabSpec == FabInit /\ [][FabNext]_fabVars /\ \A k \in 1 .. 3 : WF_fabVars(FabDuty(k))

(***************************************************************************)
(* Properties.                                                             *)
(***************************************************************************)
(* The variables keep their types. *)
FabTypes ==
    /\ fabric.status \in {"draft", "provisioning", "connecting", "up", "error"}
    /\ work.pc \in {"idle", "net_a", "net_b", "gw_a", "gw_b", "conn", "joined", "handoff", "save"}
    /\ causes \subseteq {"overlap", "half done", "armed over", "edited over", "removed", "refused", "crash"}
    /\ fabricEvents \in 0 .. MaxFabricEvents

(* While none of the causes has happened: what is billed is on the row, or   *)
(* about to be; nothing is billed unless it was armed ("nothing billable is  *)
(* created until the fabric is ARMED"); and when it is up, each side has one *)
(* connection, of its own gateway to the other's.                            *)
BillsAreKnown == \A t \in things : t = work.made \/ t \in Billed(fabric)
UpIsWired ==
    fabric.status = "up" /\ ~teardown.on =>
        things = UNION {{Thing("gw", s, fabric.gw[s]),
                         Wired(s, fabric.con[s], fabric.gw[s], fabric.gw[Other(s)])} : s \in Sides}
FabricHonest ==
    /\ FabTypes
    /\ causes = {} => BillsAreKnown /\ (fabric.armed \/ things = {}) /\ UpIsWired

(* One that is armed comes up or says that it failed, in the end, however    *)
(* often it was retried, edited or torn down: unless a tear-down overlapped  *)
(* a stage or was cut off, for then it may wait for the address of a         *)
(* connection that is no more.                                               *)
FabricSettled ==
    ~fabric.armed \/ fabric.status \in {"up", "error"} \/ causes \cap {"overlap", "crash"} # {}
FabricSettles == []<>FabricSettled

=============================================================================
