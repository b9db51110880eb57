-------------------------- MODULE RemoteHubProofs --------------------------
(***************************************************************************)
(* Theorems of RemoteHub, for any operators, sessions and hosts - be they  *)
(* finitely many or not - any limits, and any number of dials and faults;  *)
(* and, from "Files over the media socket" on, of FileTransfer, for any    *)
(* windows, transfers and paths, any number of chunks and of drops.        *)
(***************************************************************************)
EXTENDS RemoteHub, FileTransfer, FiniteSetTheorems, TLAPS

(***************************************************************************)
(* Types                                                                   *)
(***************************************************************************)
RowType == [host : Hosts \cup {None}, status : {"none", "requested", "active", "ended"}]
AskingType == [pc : {"idle", "counting", "creating"}, host : Hosts \cup {None}, got : Sessions \cup {None}]
SlotType == [there : BOOLEAN, agent : {"none", "on", "dead"}, viewers : SUBSET Operators,
             ghosts : Nat, had : BOOLEAN, timer : BOOLEAN]
ViewerType == [pc : {"closed", "checking", "on", "refused"}, at : Sessions \cup {None},
               stale : BOOLEAN, open : BOOLEAN]

(***************************************************************************)
(* The inductive invariants                                                *)
(***************************************************************************)
LiveSet == {s \in Sessions : Live(s)}

\* What a request knows when it creates, as long as no two have overlapped.
RequestKnows(o) ==
    /\ asking[o].pc # "idle" => asking[o].host \in Hosts /\ LiveOn(asking[o].host) = {}
    /\ asking[o].pc = "creating" => Cardinality(LiveSet) < MaxConcurrent

SharedInv ==
    /\ IsFiniteSet(LiveSet)
    /\ ~crossed =>
         /\ \A s, t \in LiveSet : row[s].host = row[t].host => s = t
         /\ Cardinality(LiveSet) <= MaxConcurrent
         /\ \A o, p \in Operators : asking[o].pc # "idle" /\ asking[p].pc # "idle" => o = p
         /\ \A o \in Operators : RequestKnows(o)

\* A handshake belongs to a session that was active, and holds its slot or a dropped one.
Handshakes ==
    \A o \in Operators :
        /\ viewer[o].pc \in {"checking", "on"} => viewer[o].at \in Sessions
        /\ viewer[o].pc = "checking" => /\ row[viewer[o].at].status # "none"
                                        /\ IF viewer[o].stale THEN viewer[o].at \in excused
                                           ELSE slot[viewer[o].at].there

\* No slot has viewers before its session was asked for, and each has finitely many.
Slots ==
    \A s \in Sessions :
        /\ IsFiniteSet(slot[s].viewers)
        /\ slot[s].had => row[s].status # "none"

Watched(s) == {o \in Operators : viewer[o].pc = "on" /\ viewer[o].at = s}

SlotTells(s) ==
    /\ slot[s].viewers = Watched(s) /\ slot[s].ghosts = 0
    /\ slot[s].timer => slot[s].viewers = {}
    /\ ~slot[s].there => ~slot[s].timer /\ ~slot[s].had
    /\ slot[s].viewers # {} => slot[s].had
    /\ (Live(s) /\ slot[s].had /\ slot[s].viewers = {}) => (slot[s].timer \/ s \in ending)

WatchedInv == TypeOK /\ Handshakes /\ Slots /\ \A s \in Sessions \ excused : SlotTells(s)

(***************************************************************************)
(* The limit and the shared session                                        *)
(***************************************************************************)
\* Live sessions only end, and requests go on or are given up.
LEMMA SharedQuiet ==
    ASSUME SharedInv, LiveSet' \subseteq LiveSet, \A s \in LiveSet' : row'[s].host = row[s].host,
           crossed' = crossed, \A o \in Operators : asking'[o] = asking[o] \/ asking'[o].pc = "idle"
    PROVE  SharedInv'
  <1>1. IsFiniteSet(LiveSet)
    BY DEF SharedInv
  <1>2. IsFiniteSet(LiveSet') /\ Cardinality(LiveSet') <= Cardinality(LiveSet)
    BY <1>1, FS_Subset
  <1>3. Cardinality(LiveSet) \in Nat /\ Cardinality(LiveSet') \in Nat
    BY <1>1, <1>2, FS_CardinalityType
  <1>4. ASSUME ~crossed'
        PROVE  /\ \A s, t \in LiveSet' : row'[s].host = row'[t].host => s = t
               /\ Cardinality(LiveSet') <= MaxConcurrent
               /\ \A o, p \in Operators : asking'[o].pc # "idle" /\ asking'[p].pc # "idle" => o = p
               /\ \A o \in Operators : RequestKnows(o)'
    <2>1. /\ \A s, t \in LiveSet : row[s].host = row[t].host => s = t
          /\ Cardinality(LiveSet) <= MaxConcurrent
          /\ \A o, p \in Operators : asking[o].pc # "idle" /\ asking[p].pc # "idle" => o = p
          /\ \A o \in Operators : RequestKnows(o)
      BY <1>4 DEF SharedInv
    <2>2. Cardinality(LiveSet') <= MaxConcurrent
      BY <1>2, <1>3, <2>1, HubAssumption
    <2>3. ASSUME NEW o \in Operators PROVE RequestKnows(o)'
      <3>1. CASE asking'[o].pc = "idle"
        BY <3>1 DEF RequestKnows
      <3>2. CASE asking'[o] = asking[o] /\ asking[o].pc # "idle"
        <4>1. asking[o].host \in Hosts /\ LiveOn(asking[o].host) = {}
          BY <2>1, <3>2 DEF RequestKnows
        <4>2. LiveOn(asking[o].host)' = {}
          BY <3>2, <4>1 DEF LiveOn, LiveSet
        <4>3. asking[o].pc = "creating" => Cardinality(LiveSet') < MaxConcurrent
          BY <1>2, <1>3, <2>1, HubAssumption DEF RequestKnows
        <4> QED
          BY <3>2, <4>1, <4>2, <4>3 DEF RequestKnows
      <3> QED
        BY <3>1, <3>2
    <2> QED
      BY <2>1, <2>2, <2>3
  <1> QED
    BY <1>2, <1>4 DEF SharedInv

LEMMA SharedAsk ==
    ASSUME SharedInv, TypeOK, NEW o \in Operators, Ask(o)
    PROVE  SharedInv'
  <1>1. PICK h \in Wants[o] :
            asking' = [asking EXCEPT ![o] =
                IF LiveOn(h) # {} THEN [pc |-> "idle", host |-> None, got |-> CHOOSE s \in LiveOn(h) : TRUE]
                ELSE [pc |-> "counting", host |-> h, got |-> None]]
    BY DEF Ask
  <1>2. row' = row /\ crossed' = (crossed \/ \E p \in Operators : asking[p].pc # "idle")
    BY DEF Ask
  <1>3. h \in Hosts
    BY HubAssumption
  <1>4. LiveSet' = LiveSet /\ LiveOn(h)' = LiveOn(h)
    BY <1>2 DEF LiveSet, LiveOn, Live
  <1>5. /\ \A p \in Operators : p # o => asking'[p] = asking[p]
        /\ asking'[o].pc = "idle" \/ (asking'[o].pc = "counting" /\ asking'[o].host = h /\ LiveOn(h) = {})
    BY <1>1 DEF TypeOK
  <1>6. ASSUME ~crossed'
        PROVE  /\ \A s, t \in LiveSet' : row'[s].host = row'[t].host => s = t
               /\ Cardinality(LiveSet') <= MaxConcurrent
               /\ \A p, q \in Operators : asking'[p].pc # "idle" /\ asking'[q].pc # "idle" => p = q
               /\ \A p \in Operators : RequestKnows(p)'
    <2>1. ~crossed /\ \A p \in Operators : asking[p].pc = "idle"
      BY <1>2, <1>6 DEF TypeOK
    <2>2. RequestKnows(o)'
      BY <1>3, <1>4, <1>5 DEF RequestKnows
    <2>3. \A p \in Operators : p # o => RequestKnows(p)'
      BY <1>5, <2>1 DEF RequestKnows
    <2> QED
      BY <1>2, <1>4, <1>5, <2>1, <2>2, <2>3 DEF SharedInv
  <1> QED
    BY <1>4, <1>6 DEF SharedInv

LEMMA SharedCount ==
    ASSUME SharedInv, TypeOK, NEW o \in Operators, Count(o)
    PROVE  SharedInv'
  <1>1. /\ asking[o].pc = "counting" /\ row' = row /\ crossed' = crossed
        /\ asking' = [asking EXCEPT ![o] = IF Cardinality(LiveSet) >= MaxConcurrent THEN NoRequest
                                           ELSE [@ EXCEPT !.pc = "creating"]]
    BY DEF Count, LiveSet
  <1>2. LiveSet' = LiveSet /\ \A h \in Hosts : LiveOn(h)' = LiveOn(h)
    BY <1>1 DEF LiveSet, LiveOn, Live
  <1>3. Cardinality(LiveSet) \in Nat
    BY FS_CardinalityType DEF SharedInv
  <1>4. /\ \A p \in Operators : p # o => asking'[p] = asking[p]
        /\ \/ asking'[o].pc = "idle"
           \/ asking'[o].pc = "creating" /\ asking'[o].host = asking[o].host /\ Cardinality(LiveSet) < MaxConcurrent
    <2>1. asking[o] \in AskingType /\ asking \in [Operators -> AskingType]
      BY DEF TypeOK, AskingType
    <2>2. CASE Cardinality(LiveSet) >= MaxConcurrent
      BY <1>1, <2>1, <2>2 DEF NoRequest
    <2>3. CASE ~(Cardinality(LiveSet) >= MaxConcurrent)
      <3>1. Cardinality(LiveSet) < MaxConcurrent
        BY <1>3, <2>3, HubAssumption
      <3>2. asking'[o] = [asking[o] EXCEPT !.pc = "creating"]
        BY <1>1, <2>1, <2>3
      <3> QED
        BY <1>1, <2>1, <3>1, <3>2 DEF AskingType
    <2> QED
      BY <2>2, <2>3
  <1>5. ASSUME ~crossed'
        PROVE  /\ \A p, q \in Operators : asking'[p].pc # "idle" /\ asking'[q].pc # "idle" => p = q
               /\ \A p \in Operators : RequestKnows(p)'
    <2>1. /\ \A p, q \in Operators : asking[p].pc # "idle" /\ asking[q].pc # "idle" => p = q
          /\ \A p \in Operators : RequestKnows(p)
      BY <1>1, <1>5 DEF SharedInv
    <2>2. asking[o].host \in Hosts /\ LiveOn(asking[o].host) = {}
      BY <1>1, <2>1 DEF RequestKnows
    <2>3. RequestKnows(o)'
      BY <1>2, <1>4, <2>2 DEF RequestKnows
    <2>4. \A p \in Operators : p # o => asking[p].pc = "idle"
      BY <1>1, <2>1
    <2>5. \A p \in Operators : p # o => RequestKnows(p)'
      BY <1>4, <2>4 DEF RequestKnows
    <2> QED
      BY <1>4, <2>3, <2>4, <2>5
  <1> QED
    BY <1>1, <1>2, <1>5 DEF SharedInv

LEMMA CreateWhat ==
    ASSUME TypeOK, NEW o \in Operators, Create(o)
    PROVE  \E s \in Sessions :
               /\ row[s].status = "none"
               /\ row' = [row EXCEPT ![s] = [host |-> asking[o].host, status |-> "requested"]]
               /\ asking' = [asking EXCEPT ![o] = [NoRequest EXCEPT !.got = s]]
  <1> DEFINE n == CHOOSE s \in Sessions : row[s].status = "none"
  <1>1. n \in Sessions /\ row[n].status = "none"
    BY DEF Create
  <1>2. /\ row' = [row EXCEPT ![n] = [host |-> asking[o].host, status |-> "requested"]]
        /\ asking' = [asking EXCEPT ![o] = [NoRequest EXCEPT !.got = n]]
    BY DEF Create
  <1> HIDE DEF n
  <1> QED
    BY <1>1, <1>2

LEMMA SharedCreate ==
    ASSUME SharedInv, TypeOK, NEW o \in Operators, Create(o)
    PROVE  SharedInv'
  <1>1. PICK s \in Sessions :
               /\ row[s].status = "none"
               /\ row' = [row EXCEPT ![s] = [host |-> asking[o].host, status |-> "requested"]]
               /\ asking' = [asking EXCEPT ![o] = [NoRequest EXCEPT !.got = s]]
    BY CreateWhat
  <1>2. asking[o].pc = "creating" /\ crossed' = crossed
    BY DEF Create
  <1>3. /\ row'[s].host = asking[o].host /\ row'[s].status = "requested"
        /\ \A t \in Sessions : t # s => row'[t] = row[t]
    BY <1>1 DEF TypeOK
  <1>4. LiveSet' = LiveSet \cup {s} /\ s \notin LiveSet
    BY <1>1, <1>3 DEF LiveSet, Live
  <1>5. IsFiniteSet(LiveSet') /\ Cardinality(LiveSet') = Cardinality(LiveSet) + 1
    BY <1>4, FS_AddElement DEF SharedInv
  <1>6. Cardinality(LiveSet) \in Nat
    BY FS_CardinalityType DEF SharedInv
  <1>7. asking'[o].pc = "idle" /\ \A p \in Operators : p # o => asking'[p] = asking[p]
    BY <1>1 DEF TypeOK, NoRequest
  <1>8. ASSUME ~crossed'
        PROVE  /\ \A t, u \in LiveSet' : row'[t].host = row'[u].host => t = u
               /\ Cardinality(LiveSet') <= MaxConcurrent
               /\ \A p, q \in Operators : asking'[p].pc # "idle" /\ asking'[q].pc # "idle" => p = q
               /\ \A p \in Operators : RequestKnows(p)'
    <2>1. /\ \A t, u \in LiveSet : row[t].host = row[u].host => t = u
          /\ \A p, q \in Operators : asking[p].pc # "idle" /\ asking[q].pc # "idle" => p = q
          /\ RequestKnows(o)
      BY <1>2, <1>8 DEF SharedInv
    <2>2. LiveOn(asking[o].host) = {} /\ Cardinality(LiveSet) < MaxConcurrent
      BY <1>2, <2>1 DEF RequestKnows
    <2>3. \A t \in LiveSet : row[t].host # asking[o].host
      BY <2>2 DEF LiveOn, LiveSet
    <2>4. \A t, u \in LiveSet' : row'[t].host = row'[u].host => t = u
      <3> SUFFICES ASSUME NEW t \in LiveSet', NEW u \in LiveSet', row'[t].host = row'[u].host PROVE t = u
        OBVIOUS
      <3>1. /\ t # s => t \in LiveSet /\ row'[t] = row[t]
            /\ u # s => u \in LiveSet /\ row'[u] = row[u]
        BY <1>3, <1>4 DEF LiveSet
      <3> QED
        BY <1>3, <2>1, <2>3, <3>1
    <2>5. Cardinality(LiveSet') <= MaxConcurrent
      BY <1>5, <1>6, <2>2, HubAssumption
    <2>6. \A p \in Operators : asking'[p].pc = "idle"
      BY <1>2, <1>7, <2>1
    <2> QED
      BY <2>4, <2>5, <2>6 DEF RequestKnows
  <1> QED
    BY <1>5, <1>8 DEF SharedInv

LEMMA SharedInit == Init => SharedInv
  <1> SUFFICES ASSUME Init PROVE SharedInv
    OBVIOUS
  <1>1. LiveSet = {} /\ \A o \in Operators : asking[o].pc = "idle"
    BY DEF Init, LiveSet, Live, NoRequest
  <1>2. IsFiniteSet(LiveSet) /\ Cardinality(LiveSet) = 0
    BY <1>1, FS_EmptySet
  <1> QED
    BY <1>1, <1>2, HubAssumption DEF SharedInv, RequestKnows

LEMMA SharedStep == SharedInv /\ TypeOK /\ [Next]_vars => SharedInv'
  <1> SUFFICES ASSUME SharedInv, TypeOK, [Next]_vars PROVE SharedInv'
    OBVIOUS
  <1>1. ASSUME NEW o \in Operators, Ask(o) \/ Count(o) \/ Create(o) PROVE SharedInv'
    BY <1>1, SharedAsk, SharedCount, SharedCreate
  <1>2. ASSUME NEW o \in Operators, Stop(o) PROVE SharedInv'
    <2>1. /\ asking[o].got \in Sessions /\ row' = [row EXCEPT ![asking[o].got].status = "ended"]
          /\ UNCHANGED <<asking, crossed>>
      BY <1>2 DEF Stop, TypeOK
    <2>2. /\ \A s \in Sessions : s # asking[o].got => row'[s] = row[s]
          /\ row'[asking[o].got].status = "ended"
      BY <2>1 DEF TypeOK
    <2>3. LiveSet' \subseteq LiveSet /\ \A s \in LiveSet' : row'[s].host = row[s].host
      BY <2>2 DEF LiveSet, Live
    <2> QED
      BY <2>1, <2>3, SharedQuiet
  <1>3. ASSUME NEW s \in Sessions, Activate(s) PROVE SharedInv'
    <2>1. row' = [row EXCEPT ![s].status = "active"] /\ row[s].status = "requested" /\ UNCHANGED <<asking, crossed>>
      BY <1>3 DEF Activate
    <2>2. /\ \A t \in Sessions : t # s => row'[t] = row[t]
          /\ row'[s].status = "active" /\ row'[s].host = row[s].host
      BY <2>1 DEF TypeOK
    <2>3. LiveSet' \subseteq LiveSet /\ \A t \in LiveSet' : row'[t].host = row[t].host
      BY <2>1, <2>2 DEF LiveSet, Live
    <2> QED
      BY <2>1, <2>3, SharedQuiet
  <1>4. ASSUME NEW s \in Sessions, EndLands(s) PROVE SharedInv'
    <2>1. /\ UNCHANGED <<asking, crossed>>
          /\ row' = [row EXCEPT ![s].status = IF Live(s) THEN "ended" ELSE @] \/ row' = row
      BY <1>4 DEF EndLands
    <2>2. /\ \A t \in Sessions : t # s => row'[t] = row[t]
          /\ row'[s].host = row[s].host /\ (row'[s].status = "ended" \/ row'[s].status = row[s].status)
      BY <2>1 DEF TypeOK
    <2>3. LiveSet' \subseteq LiveSet /\ \A t \in LiveSet' : row'[t].host = row[t].host
      BY <2>2 DEF LiveSet, Live
    <2> QED
      BY <2>1, <2>3, SharedQuiet
  <1>5. CASE Restart
    <2>1. UNCHANGED <<row, crossed>> /\ \A o \in Operators : asking'[o].pc = "idle"
      BY <1>5 DEF Restart, NoRequest
    <2>2. LiveSet' = LiveSet
      BY <2>1 DEF LiveSet, Live
    <2> QED
      BY <2>1, <2>2, SharedQuiet
  <1>6. CASE UNCHANGED rowState
    <2>1. UNCHANGED <<row, asking, crossed>>
      BY <1>6 DEF rowState
    <2>2. LiveSet' = LiveSet
      BY <2>1 DEF LiveSet, Live
    <2> QED
      BY <2>1, <2>2, SharedQuiet
  <1>7. ASSUME NEW o \in Operators, Connect(o) \/ Wire(o) \/ Rejected(o) \/ Hang(o) PROVE UNCHANGED rowState
    BY <1>7 DEF Connect, Wire, Rejected, Hang
  <1>8. ASSUME NEW s \in Sessions, GraceEnds(s) \/ Sweep(s) \/ AgentDials(s) \/ AttachAgent(s) \/ AgentHangs(s)
        PROVE  UNCHANGED rowState
    BY <1>8 DEF GraceEnds, Sweep, AgentDials, AttachAgent, AgentHangs
  <1>9. CASE UNCHANGED vars
    BY <1>6, <1>9 DEF vars, rowState
  <1> QED
    BY <1>1, <1>2, <1>3, <1>4, <1>5, <1>6, <1>7, <1>8, <1>9 DEF Next

(***************************************************************************)
(* Who watches, and the grace timer                                        *)
(***************************************************************************)
LEMMA TypeParts ==
    ASSUME TypeOK
    PROVE  /\ row \in [Sessions -> RowType] /\ asking \in [Operators -> AskingType]
           /\ slot \in [Sessions -> SlotType] /\ viewer \in [Operators -> ViewerType]
           /\ agent \in [Sessions -> {"off", "checking", "lost", "on"}]
           /\ ending \subseteq Sessions /\ crossed \in BOOLEAN /\ excused \subseteq Sessions
           /\ faults \in 0 .. MaxFaults
  BY DEF TypeOK, RowType, AskingType, SlotType, ViewerType

LEMMA TypeWhole ==
    ASSUME row \in [Sessions -> RowType], asking \in [Operators -> AskingType],
           slot \in [Sessions -> SlotType], viewer \in [Operators -> ViewerType],
           agent \in [Sessions -> {"off", "checking", "lost", "on"}],
           ending \subseteq Sessions, crossed \in BOOLEAN, excused \subseteq Sessions,
           faults \in 0 .. MaxFaults
    PROVE  TypeOK
  BY DEF TypeOK, RowType, AskingType, SlotType, ViewerType

\* Another session's step leaves what a slot tells.
LEMMA TellsKept ==
    ASSUME NEW s \in Sessions, SlotTells(s), slot'[s].viewers = slot[s].viewers, slot'[s].ghosts = slot[s].ghosts,
           slot'[s].timer = slot[s].timer, slot'[s].had = slot[s].had, slot[s].there => slot'[s].there,
           Watched(s)' = Watched(s), Live(s)' => Live(s) \/ ~slot[s].had, s \in ending => s \in ending' \/ ~Live(s)'
    PROVE  SlotTells(s)'
  BY DEF SlotTells

LEMMA WatchedInit == Init => WatchedInv
  <1> SUFFICES ASSUME Init PROVE WatchedInv
    OBVIOUS
  <1>1. NoSlot \in SlotType /\ NoSlot.viewers = {} /\ ~NoSlot.had /\ ~NoSlot.timer /\ NoSlot.ghosts = 0
    BY DEF NoSlot, SlotType
  <1>2. /\ \A s \in Sessions : slot[s] = NoSlot /\ row[s].status = "none"
        /\ \A o \in Operators : viewer[o].pc = "closed"
    BY DEF Init, Closed
  <1>3. TypeOK
    <2>1. slot \in [Sessions -> SlotType]
      BY <1>1 DEF Init
    <2>2. row \in [Sessions -> RowType] /\ asking \in [Operators -> AskingType] /\ viewer \in [Operators -> ViewerType]
      BY DEF Init, RowType, AskingType, ViewerType, NoRequest, Closed
    <2>3. faults \in 0 .. MaxFaults
      BY HubAssumption DEF Init
    <2> QED
      BY <2>1, <2>2, <2>3, TypeWhole DEF Init
  <1>4. Handshakes /\ Slots
    BY <1>1, <1>2, FS_EmptySet DEF Handshakes, Slots
  <1>5. \A s \in Sessions : SlotTells(s)
    BY <1>1, <1>2 DEF SlotTells, Watched
  <1> QED
    BY <1>3, <1>4, <1>5 DEF WatchedInv

\* The rows move and the hub does not: no row is forgotten, and a session that
\* becomes live is a new one.
LEMMA RowSteps ==
    ASSUME WatchedInv, UNCHANGED hubState,
           row' \in [Sessions -> RowType], asking' \in [Operators -> AskingType], crossed' \in BOOLEAN,
           \A s \in Sessions : row[s].status # "none" => row'[s].status # "none",
           \A s \in Sessions : Live(s)' => Live(s) \/ row[s].status = "none"
    PROVE  WatchedInv'
  <1>1. UNCHANGED <<slot, viewer, agent, ending, excused, faults>> /\ TypeOK
    BY DEF hubState, WatchedInv
  <1>2. TypeOK'
    BY <1>1, TypeParts DEF TypeOK, RowType, AskingType, SlotType, ViewerType
  <1>3. Handshakes'
    BY <1>1 DEF WatchedInv, Handshakes
  <1>4. Slots'
    BY <1>1 DEF WatchedInv, Slots
  <1>5. ASSUME NEW s \in Sessions \ excused' PROVE SlotTells(s)'
    <2>1. SlotTells(s) /\ Watched(s)' = Watched(s)
      BY <1>1, <1>5 DEF WatchedInv, Watched
    <2>2. Live(s)' => Live(s) \/ ~slot[s].had
      BY DEF WatchedInv, Slots
    <2> QED
      BY <1>1, <2>1, <2>2, TellsKept
  <1> QED
    BY <1>2, <1>3, <1>4, <1>5 DEF WatchedInv

LEMMA WatchedRows ==
    ASSUME WatchedInv,
           (\E o \in Operators : Ask(o) \/ Count(o) \/ Create(o) \/ Stop(o)) \/ \E s \in Sessions : Activate(s)
    PROVE  WatchedInv'
  <1>1. TypeOK /\ row \in [Sessions -> RowType] /\ asking \in [Operators -> AskingType] /\ crossed \in BOOLEAN
    BY TypeParts DEF WatchedInv
  <1>2. ASSUME NEW o \in Operators, Ask(o) PROVE WatchedInv'
    <2>1. UNCHANGED <<row, hubState>> /\ crossed' \in BOOLEAN
      BY <1>1, <1>2 DEF Ask
    <2> DEFINE joined(h) == CHOOSE s \in LiveOn(h) : TRUE
    <2>2. PICK h \in Wants[o] :
            asking' = [asking EXCEPT ![o] =
                IF LiveOn(h) # {} THEN [pc |-> "idle", host |-> None, got |-> joined(h)]
                ELSE [pc |-> "counting", host |-> h, got |-> None]]
      BY <1>2 DEF Ask
    <2>3. h \in Hosts
      BY HubAssumption
    <2>4. LiveOn(h) # {} => joined(h) \in Sessions
      BY DEF LiveOn
    <2> HIDE DEF joined
    <2>5. asking' \in [Operators -> AskingType]
      BY <1>1, <2>2, <2>3, <2>4 DEF AskingType
    <2> QED
      BY <1>1, <2>1, <2>5, RowSteps DEF Live
  <1>3. ASSUME NEW o \in Operators, Count(o) PROVE WatchedInv'
    <2>1. UNCHANGED <<row, crossed, hubState>>
      BY <1>3 DEF Count
    <2>2. asking' \in [Operators -> AskingType]
      BY <1>1, <1>3 DEF Count, AskingType, NoRequest
    <2> QED
      BY <1>1, <2>1, <2>2, RowSteps DEF Live
  <1>4. ASSUME NEW o \in Operators, Create(o) PROVE WatchedInv'
    <2>1. PICK s \in Sessions :
               /\ row[s].status = "none"
               /\ row' = [row EXCEPT ![s] = [host |-> asking[o].host, status |-> "requested"]]
               /\ asking' = [asking EXCEPT ![o] = [NoRequest EXCEPT !.got = s]]
      BY <1>1, <1>4, CreateWhat
    <2>2. asking[o].host \in Hosts \cup {None} /\ UNCHANGED <<crossed, hubState>>
      BY <1>1, <1>4 DEF Create, AskingType
    <2>3. row' \in [Sessions -> RowType] /\ asking' \in [Operators -> AskingType]
      BY <1>1, <2>1, <2>2 DEF RowType, AskingType, NoRequest
    <2>4. row'[s].status = "requested" /\ \A t \in Sessions : t # s => row'[t] = row[t]
      BY <1>1, <2>1
    <2> QED
      BY <1>1, <2>1, <2>2, <2>3, <2>4, RowSteps DEF Live
  <1>5. ASSUME NEW o \in Operators, Stop(o) PROVE WatchedInv'
    <2> DEFINE s == asking[o].got
    <2>1. /\ s \in Sessions /\ Live(s) /\ row' = [row EXCEPT ![s].status = "ended"]
          /\ UNCHANGED <<asking, crossed, hubState>>
      BY <1>1, <1>5 DEF Stop, AskingType
    <2>2. /\ row' \in [Sessions -> RowType] /\ row'[s].status = "ended"
          /\ \A t \in Sessions : t # s => row'[t] = row[t]
      BY <1>1, <2>1 DEF RowType
    <2> QED
      BY <1>1, <2>1, <2>2, RowSteps DEF Live
  <1>6. ASSUME NEW s \in Sessions, Activate(s) PROVE WatchedInv'
    <2>1. /\ row[s].status = "requested" /\ row' = [row EXCEPT ![s].status = "active"]
          /\ UNCHANGED <<asking, crossed, hubState>>
      BY <1>6 DEF Activate
    <2>2. /\ row' \in [Sessions -> RowType] /\ row'[s].status = "active"
          /\ \A t \in Sessions : t # s => row'[t] = row[t]
      BY <1>1, <2>1 DEF RowType
    <2> QED
      BY <1>1, <2>1, <2>2, RowSteps DEF Live
  <1> QED
    BY <1>2, <1>3, <1>4, <1>5, <1>6

LEMMA WatchedEndLands ==
    ASSUME WatchedInv, NEW s \in Sessions, EndLands(s)
    PROVE  WatchedInv'
  <1>1. /\ TypeOK /\ row \in [Sessions -> RowType] /\ ending \subseteq Sessions /\ excused \subseteq Sessions
        /\ faults \in 0 .. MaxFaults
    BY TypeParts DEF WatchedInv
  <1>2. ending' = ending \ {s} /\ UNCHANGED <<asking, crossed, slot, viewer, agent>>
    BY DEF EndLands
  <1>3. /\ row' \in [Sessions -> RowType] /\ excused' \subseteq Sessions /\ faults' \in 0 .. MaxFaults
        /\ excused \subseteq excused' /\ \A t \in Sessions : row[t].status # "none" => row'[t].status # "none"
        /\ \A t \in Sessions : Live(t)' => Live(t)
        /\ s \notin excused' => ~Live(s)'
    <2>1. CASE row' = [row EXCEPT ![s].status = IF Live(s) THEN "ended" ELSE @] /\ UNCHANGED <<excused, faults>>
      <3>1. /\ row' \in [Sessions -> RowType] /\ \A t \in Sessions : t # s => row'[t] = row[t]
            /\ row'[s].status = IF Live(s) THEN "ended" ELSE row[s].status
        BY <1>1, <2>1 DEF RowType
      <3> QED
        BY <1>1, <2>1, <3>1 DEF Live
    <2>2. CASE faults < MaxFaults /\ faults' = faults + 1 /\ excused' = excused \cup {s} /\ UNCHANGED row
      BY <1>1, <2>2, HubAssumption DEF Live
    <2> QED
      BY <2>1, <2>2 DEF EndLands
  <1>4. TypeOK'
    BY <1>1, <1>2, <1>3, TypeParts DEF TypeOK, RowType, AskingType, SlotType, ViewerType
  <1>5. Handshakes'
    BY <1>2, <1>3 DEF WatchedInv, Handshakes
  <1>6. Slots'
    BY <1>2, <1>3 DEF WatchedInv, Slots
  <1>7. ASSUME NEW t \in Sessions \ excused' PROVE SlotTells(t)'
    <2>1. SlotTells(t) /\ Watched(t)' = Watched(t)
      BY <1>2, <1>3, <1>7 DEF WatchedInv, Watched
    <2> QED
      BY <1>2, <1>3, <1>7, <2>1, TellsKept
  <1> QED
    BY <1>4, <1>5, <1>6, <1>7 DEF WatchedInv

LEMMA WatchedConnect ==
    ASSUME WatchedInv, NEW o \in Operators, Connect(o)
    PROVE  WatchedInv'
  <1> DEFINE s == asking[o].got
             new == [pc |-> "checking", at |-> s, stale |-> FALSE, open |-> TRUE]
  <1>1. /\ TypeOK /\ asking \in [Operators -> AskingType] /\ slot \in [Sessions -> SlotType]
        /\ viewer \in [Operators -> ViewerType]
    BY TypeParts DEF WatchedInv
  <1>2. /\ s \in Sessions /\ row[s].status = "active" /\ viewer[o].pc = "closed"
        /\ slot' = [slot EXCEPT ![s] = IF @.there THEN @ ELSE NewSlot] /\ viewer' = [viewer EXCEPT ![o] = new]
        /\ UNCHANGED <<row, asking, crossed, agent, ending, excused, faults>>
    BY <1>1 DEF Connect, rowState, AskingType
  <1>3. NewSlot \in SlotType /\ NewSlot.there /\ NewSlot.viewers = {} /\ ~NewSlot.had /\ ~NewSlot.timer /\ NewSlot.ghosts = 0
    BY DEF NewSlot, NoSlot, SlotType
  <1>4. /\ slot' \in [Sessions -> SlotType] /\ slot'[s].there
        /\ \A t \in Sessions : t # s => slot'[t] = slot[t]
        /\ slot[s].there => slot'[s] = slot[s]
        /\ ~slot[s].there => slot'[s] = NewSlot
    BY <1>1, <1>2, <1>3
  <1>5. /\ viewer' \in [Operators -> ViewerType] /\ viewer'[o] = new
        /\ \A p \in Operators : p # o => viewer'[p] = viewer[p]
    BY <1>1, <1>2 DEF ViewerType
  <1>6. TypeOK'
    BY <1>1, <1>2, <1>4, <1>5, TypeParts DEF TypeOK, RowType, AskingType, SlotType, ViewerType
  <1>7. Handshakes'
    <2>1. \A t \in Sessions : slot[t].there => slot'[t].there
      BY <1>4
    <2> QED
      BY <1>2, <1>4, <1>5, <2>1 DEF WatchedInv, Handshakes
  <1>8. Slots'
    BY <1>2, <1>3, <1>4, FS_EmptySet DEF WatchedInv, Slots
  <1>9. ASSUME NEW t \in Sessions \ excused' PROVE SlotTells(t)'
    <2>1. SlotTells(t) /\ Watched(t)' = Watched(t)
      BY <1>2, <1>5, <1>9 DEF WatchedInv, Watched
    <2>2. CASE slot'[t] = slot[t]
      BY <1>2, <2>1, <2>2, TellsKept DEF Live
    <2>3. CASE t = s /\ ~slot[s].there
      BY <1>3, <1>4, <2>1, <2>3 DEF SlotTells
    <2> QED
      BY <1>4, <2>2, <2>3
  <1> QED
    BY <1>6, <1>7, <1>8, <1>9 DEF WatchedInv

\* What an operator's socket does: its own state changes, and of the slots at
\* most the one it is at.
LEMMA HandshakesKept ==
    ASSUME Handshakes, NEW o \in Operators, \A p \in Operators : p # o => viewer'[p] = viewer[p],
           row' = row, excused \subseteq excused', \A t \in Sessions : slot[t].there => slot'[t].there,
           \/ viewer'[o].pc \notin {"checking", "on"}
           \/ viewer[o].pc \in {"checking", "on"} /\ viewer'[o].at = viewer[o].at
              /\ (viewer'[o].pc = "on" \/ (viewer'[o].pc = viewer[o].pc /\ viewer'[o].stale = viewer[o].stale))
    PROVE  Handshakes'
  <1>1. ASSUME NEW p \in Operators, p # o
        PROVE  /\ viewer'[p].pc \in {"checking", "on"} => viewer'[p].at \in Sessions
               /\ viewer'[p].pc = "checking" => /\ row'[viewer'[p].at].status # "none"
                                                /\ IF viewer'[p].stale THEN viewer'[p].at \in excused'
                                                   ELSE slot'[viewer'[p].at].there
    BY <1>1 DEF Handshakes
  <1>2. /\ viewer'[o].pc \in {"checking", "on"} => viewer'[o].at \in Sessions
        /\ viewer'[o].pc = "checking" => /\ row'[viewer'[o].at].status # "none"
                                         /\ IF viewer'[o].stale THEN viewer'[o].at \in excused'
                                            ELSE slot'[viewer'[o].at].there
    BY DEF Handshakes
  <1> QED
    BY <1>1, <1>2 DEF Handshakes

LEMMA WatchedWire ==
    ASSUME WatchedInv, NEW o \in Operators, Wire(o)
    PROVE  WatchedInv'
  <1> DEFINE me == viewer[o]
             s == me.at
  <1>1. /\ TypeOK /\ slot \in [Sessions -> SlotType] /\ viewer \in [Operators -> ViewerType]
        /\ Handshakes /\ Slots /\ excused \subseteq Sessions
    BY TypeParts DEF WatchedInv
  <1>2. me.pc = "checking" /\ UNCHANGED <<row, asking, crossed, agent, ending, faults>>
    BY DEF Wire, rowState
  <1>3. s \in Sessions /\ row[s].status # "none" /\ (me.stale => s \in excused) /\ (~me.stale => slot[s].there)
    BY <1>1, <1>2 DEF Handshakes
  <1>4. Closed \in ViewerType /\ Closed.pc = "closed"
    BY DEF Closed, ViewerType
  <1>5. \A t \in Sessions : Live(t)' <=> Live(t)
    BY <1>2 DEF Live
  <1>6. CASE \/ /\ me.stale
                /\ viewer' = [viewer EXCEPT ![o] = IF me.open THEN [me EXCEPT !.pc = "on"] ELSE Closed]
                /\ UNCHANGED <<slot, excused>>
             \/ /\ viewer' = [viewer EXCEPT ![o] = [Closed EXCEPT !.pc = "refused"]]
                /\ UNCHANGED <<slot, excused>>
    <2>1. /\ viewer' \in [Operators -> ViewerType] /\ \A p \in Operators : p # o => viewer'[p] = viewer[p]
          /\ UNCHANGED <<slot, excused>>
          /\ viewer'[o].pc \notin {"checking", "on"} \/ (viewer'[o].pc = "on" /\ viewer'[o].at = s /\ me.stale)
      <3>1. CASE me.stale /\ me.open /\ viewer' = [viewer EXCEPT ![o] = [me EXCEPT !.pc = "on"]] /\ UNCHANGED <<slot, excused>>
        BY <1>1, <3>1 DEF ViewerType
      <3>2. CASE viewer' = [viewer EXCEPT ![o] = Closed] /\ UNCHANGED <<slot, excused>>
        BY <1>1, <1>4, <3>2
      <3>3. CASE viewer' = [viewer EXCEPT ![o] = [Closed EXCEPT !.pc = "refused"]] /\ UNCHANGED <<slot, excused>>
        <4>1. [Closed EXCEPT !.pc = "refused"] \in ViewerType /\ [Closed EXCEPT !.pc = "refused"].pc = "refused"
          BY <1>4 DEF ViewerType
        <4> QED
          BY <1>1, <3>3, <4>1
      <3> QED
        BY <1>6, <3>1, <3>2, <3>3
    <2>2. TypeOK'
      BY <1>1, <1>2, <2>1, TypeParts DEF TypeOK, RowType, AskingType, SlotType, ViewerType
    <2>3. Handshakes'
      BY <1>1, <1>2, <2>1, HandshakesKept
    <2>4. Slots'
      BY <1>1, <1>2, <2>1 DEF Slots
    <2>5. ASSUME NEW t \in Sessions \ excused' PROVE SlotTells(t)'
      <3>1. SlotTells(t) /\ (me.stale => t # s)
        BY <1>3, <2>1, <2>5 DEF WatchedInv
      <3>2. Watched(t)' = Watched(t)
        BY <1>2, <2>1, <3>1 DEF Watched
      <3> QED
        BY <1>2, <1>5, <2>1, <3>1, <3>2, TellsKept
    <2> QED
      BY <2>2, <2>3, <2>4, <2>5 DEF WatchedInv
  <1>7. CASE /\ ~me.stale /\ slot' = [slot EXCEPT ![s] = Joined(@, o, me.open)]
             /\ viewer' = [viewer EXCEPT ![o] = IF me.open THEN [me EXCEPT !.pc = "on"] ELSE Closed]
             /\ excused' = IF me.open THEN excused ELSE excused \cup {s}
    <2>1. /\ viewer' \in [Operators -> ViewerType] /\ \A p \in Operators : p # o => viewer'[p] = viewer[p]
          /\ me.open => viewer'[o].pc = "on" /\ viewer'[o].at = s
          /\ ~me.open => viewer'[o].pc = "closed"
      BY <1>1, <1>4, <1>7 DEF ViewerType
    <2>2. slot[s] \in SlotType
      BY <1>1, <1>3
    <2>3. Joined(slot[s], o, me.open) \in SlotType
      BY <2>2 DEF Joined, SlotType
    <2>4. /\ slot' \in [Sessions -> SlotType] /\ slot'[s] = Joined(slot[s], o, me.open)
          /\ \A t \in Sessions : t # s => slot'[t] = slot[t]
      BY <1>1, <1>3, <1>7, <2>3
    <2>5. /\ slot'[s].there = slot[s].there /\ slot'[s].had /\ ~slot'[s].timer
          /\ slot'[s].viewers = IF me.open THEN slot[s].viewers \cup {o} ELSE slot[s].viewers
          /\ me.open => slot'[s].ghosts = slot[s].ghosts
      BY <2>4 DEF Joined
    <2>6. excused \subseteq excused' /\ excused' \subseteq Sessions /\ (s \notin excused' => me.open)
      BY <1>1, <1>3, <1>7
    <2>7. TypeOK'
      BY <1>1, <1>2, <2>1, <2>4, <2>6, TypeParts DEF TypeOK, RowType, AskingType, SlotType, ViewerType
    <2>8. Handshakes'
      <3>1. \A t \in Sessions : slot[t].there => slot'[t].there
        BY <2>4, <2>5
      <3>2. \/ viewer'[o].pc \notin {"checking", "on"}
            \/ viewer'[o].pc = "on" /\ viewer'[o].at = s
        BY <2>1
      <3> QED
        BY <1>1, <1>2, <2>1, <2>6, <3>1, <3>2, HandshakesKept
    <2>9. Slots'
      <3>1. IsFiniteSet(slot[s].viewers)
        BY <1>1, <1>3 DEF Slots
      <3>2. IsFiniteSet(slot'[s].viewers)
        BY <2>5, <3>1, FS_AddElement
      <3> QED
        BY <1>1, <1>2, <1>3, <2>4, <3>2 DEF Slots
    <2>10. ASSUME NEW t \in Sessions \ excused' PROVE SlotTells(t)'
      <3>1. SlotTells(t)
        BY <2>6, <2>10 DEF WatchedInv
      <3>2. CASE t # s
        <4>1. Watched(t)' = Watched(t)
          BY <1>2, <2>1, <3>2 DEF Watched
        <4> QED
          BY <1>2, <1>5, <2>4, <3>1, <3>2, <4>1, TellsKept
      <3>3. CASE t = s
        <4>1. me.open /\ Watched(t)' = Watched(t) \cup {o}
          BY <1>2, <2>1, <2>6, <2>10, <3>3 DEF Watched
        <4>2. slot'[t].viewers = Watched(t)' /\ slot'[t].ghosts = 0 /\ slot'[t].viewers # {}
          BY <2>5, <3>1, <3>3, <4>1 DEF SlotTells
        <4> QED
          BY <1>3, <1>7, <2>5, <3>3, <4>2 DEF SlotTells
      <3> QED
        BY <3>2, <3>3
    <2> QED
      BY <2>7, <2>8, <2>9, <2>10 DEF WatchedInv
  <1> QED
    BY <1>6, <1>7 DEF Wire

LEMMA WatchedRejected ==
    ASSUME WatchedInv, NEW o \in Operators, Rejected(o)
    PROVE  WatchedInv'
  <1>1. /\ TypeOK /\ viewer \in [Operators -> ViewerType] /\ Handshakes /\ Slots /\ faults \in 0 .. MaxFaults
    BY TypeParts DEF WatchedInv
  <1>2. /\ viewer[o].pc = "checking" /\ faults' \in 0 .. MaxFaults
        /\ viewer' = [viewer EXCEPT ![o] = Closed]
        /\ UNCHANGED <<row, asking, crossed, slot, agent, ending, excused>>
    BY <1>1, HubAssumption DEF Rejected, rowState
  <1>3. /\ viewer' \in [Operators -> ViewerType] /\ viewer'[o].pc = "closed"
        /\ \A p \in Operators : p # o => viewer'[p] = viewer[p]
    BY <1>1, <1>2 DEF Closed, ViewerType
  <1>4. TypeOK'
    BY <1>1, <1>2, <1>3, TypeParts DEF TypeOK, RowType, AskingType, SlotType, ViewerType
  <1>5. Handshakes'
    BY <1>1, <1>2, <1>3, HandshakesKept
  <1>6. Slots'
    BY <1>1, <1>2 DEF Slots
  <1>7. ASSUME NEW t \in Sessions \ excused' PROVE SlotTells(t)'
    <2>1. SlotTells(t) /\ Watched(t)' = Watched(t)
      BY <1>2, <1>3, <1>7 DEF WatchedInv, Watched
    <2> QED
      BY <1>2, <2>1, TellsKept DEF Live
  <1> QED
    BY <1>4, <1>5, <1>6, <1>7 DEF WatchedInv

LEMMA WatchedHang ==
    ASSUME WatchedInv, NEW o \in Operators, Hang(o)
    PROVE  WatchedInv'
  <1> DEFINE me == viewer[o]
             s == me.at
  <1>1. /\ TypeOK /\ slot \in [Sessions -> SlotType] /\ viewer \in [Operators -> ViewerType]
        /\ Handshakes /\ Slots
    BY TypeParts DEF WatchedInv
  <1>2. me.pc \in {"checking", "on"} /\ UNCHANGED <<row, asking, crossed, agent, ending, excused, faults>>
    BY DEF Hang, rowState
  <1>3. s \in Sessions
    BY <1>1, <1>2 DEF Handshakes
  <1>4. \A t \in Sessions : Live(t)' <=> Live(t)
    BY <1>2 DEF Live
  <1>5. CASE me.pc = "on"
    <2>1. /\ viewer' = [viewer EXCEPT ![o] = Closed]
          /\ slot' = IF slot[s].there THEN Gone(o) ELSE slot
      BY <1>5 DEF Hang
    <2>2. /\ viewer' \in [Operators -> ViewerType] /\ viewer'[o].pc = "closed"
          /\ \A p \in Operators : p # o => viewer'[p] = viewer[p]
      BY <1>1, <2>1 DEF Closed, ViewerType
    <2>3. /\ slot' \in [Sessions -> SlotType] /\ \A t \in Sessions : t # s => slot'[t] = slot[t]
          /\ slot'[s].there = slot[s].there /\ slot'[s].had = slot[s].had /\ slot'[s].ghosts = slot[s].ghosts
          /\ slot'[s].viewers \subseteq slot[s].viewers
          /\ slot[s].there => /\ slot'[s].viewers = slot[s].viewers \ {o}
                              /\ slot'[s].timer = (slot[s].timer \/ (slot[s].viewers \ {o} = {} /\ slot[s].ghosts = 0 /\ slot[s].had))
      <3>1. CASE ~slot[s].there
        BY <1>1, <2>1, <3>1
      <3>2. CASE slot[s].there
        <4> DEFINE left == slot[s].viewers \ {o}
                   timed == slot[s].timer \/ (left = {} /\ slot[s].ghosts = 0 /\ slot[s].had)
                   mid == [slot[s] EXCEPT !.viewers = left]
                   new == [mid EXCEPT !.timer = timed]
        <4>1. slot[s] \in SlotType /\ timed \in BOOLEAN
          BY <1>1, <1>3 DEF SlotType
        <4>2. slot' = [slot EXCEPT ![s] = new]
          BY <1>1, <1>3, <2>1, <3>2 DEF Gone
        <4>3. /\ mid \in SlotType /\ mid.there = slot[s].there /\ mid.had = slot[s].had
              /\ mid.ghosts = slot[s].ghosts /\ mid.viewers = left
          BY <4>1 DEF SlotType
        <4> HIDE DEF mid, timed
        <4>4. /\ new \in SlotType /\ new.there = slot[s].there /\ new.had = slot[s].had
              /\ new.ghosts = slot[s].ghosts /\ new.viewers = left /\ new.timer = timed
          BY <4>1, <4>3 DEF SlotType
        <4> HIDE DEF new
        <4>5. /\ slot' \in [Sessions -> SlotType] /\ slot'[s] = new
              /\ \A t \in Sessions : t # s => slot'[t] = slot[t]
          BY <1>1, <1>3, <4>2, <4>4
        <4> QED
          BY <4>4, <4>5 DEF timed
      <3> QED
        BY <3>1, <3>2
    <2>4. TypeOK'
      BY <1>1, <1>2, <2>2, <2>3, TypeParts DEF TypeOK, RowType, AskingType, SlotType, ViewerType
    <2>5. Handshakes'
      <3>1. \A t \in Sessions : slot[t].there => slot'[t].there
        BY <2>3
      <3> QED
        BY <1>1, <1>2, <2>2, <3>1, HandshakesKept
    <2>6. Slots'
      <3>1. IsFiniteSet(slot'[s].viewers)
        BY <1>1, <1>3, <2>3, FS_Subset DEF Slots
      <3> QED
        BY <1>1, <1>2, <2>3, <3>1 DEF Slots
    <2>7. ASSUME NEW t \in Sessions \ excused' PROVE SlotTells(t)'
      <3>1. SlotTells(t)
        BY <1>2, <2>7 DEF WatchedInv
      <3>2. CASE t # s
        <4>1. Watched(t)' = Watched(t)
          BY <2>2, <1>5, <3>2 DEF Watched
        <4> QED
          BY <1>2, <1>4, <2>3, <3>1, <3>2, <4>1, TellsKept
      <3>3. CASE t = s
        <4>1. o \in slot[s].viewers /\ slot[s].had /\ slot[s].there /\ slot[s].ghosts = 0
          BY <1>5, <3>1, <3>3 DEF SlotTells, Watched
        <4>2. Watched(t)' = Watched(t) \ {o}
          BY <1>5, <2>2 DEF Watched
        <4>3. slot'[t].viewers = slot[t].viewers \ {o} /\ slot[t].viewers = Watched(t) /\ ~slot[t].timer
          BY <2>3, <3>1, <3>3, <4>1 DEF SlotTells
        <4>4. slot'[t].timer <=> slot'[t].viewers = {}
          BY <2>3, <3>3, <4>1, <4>3
        <4> QED
          BY <2>3, <3>3, <4>1, <4>2, <4>3, <4>4 DEF SlotTells
      <3> QED
        BY <3>2, <3>3
    <2> QED
      BY <2>4, <2>5, <2>6, <2>7 DEF WatchedInv
  <1>6. CASE me.pc = "checking"
    <2>1. viewer' = [viewer EXCEPT ![o].open = FALSE] /\ slot' = slot
      BY <1>6 DEF Hang
    <2>2. /\ viewer' \in [Operators -> ViewerType] /\ viewer'[o].pc = "checking"
          /\ viewer'[o].at = s /\ viewer'[o].stale = me.stale
          /\ \A p \in Operators : p # o => viewer'[p] = viewer[p]
      BY <1>1, <1>6, <2>1 DEF ViewerType
    <2>3. TypeOK'
      BY <1>1, <1>2, <2>1, <2>2, TypeParts DEF TypeOK, RowType, AskingType, SlotType, ViewerType
    <2>4. Handshakes'
      BY <1>1, <1>2, <1>6, <2>1, <2>2, HandshakesKept
    <2>5. Slots'
      BY <1>1, <1>2, <2>1 DEF Slots
    <2>6. ASSUME NEW t \in Sessions \ excused' PROVE SlotTells(t)'
      <3>1. SlotTells(t) /\ Watched(t)' = Watched(t)
        BY <1>2, <1>6, <2>2, <2>6 DEF WatchedInv, Watched
      <3> QED
        BY <1>2, <1>4, <2>1, <3>1, TellsKept
    <2> QED
      BY <2>3, <2>4, <2>5, <2>6 DEF WatchedInv
  <1> QED
    BY <1>2, <1>5, <1>6

LEMMA WatchedGraceEnds ==
    ASSUME WatchedInv, NEW s \in Sessions, GraceEnds(s)
    PROVE  WatchedInv'
  <1>1. TypeOK /\ slot \in [Sessions -> SlotType] /\ ending \subseteq Sessions /\ Handshakes /\ Slots
    BY TypeParts DEF WatchedInv
  <1>2. /\ slot[s].timer /\ slot' = [slot EXCEPT ![s].timer = FALSE]
        /\ ending' = IF Size(s) = 0 THEN ending \cup {s} ELSE ending
        /\ UNCHANGED <<row, asking, crossed, viewer, agent, excused, faults>>
    BY DEF GraceEnds, rowState
  <1>3. /\ slot' \in [Sessions -> SlotType] /\ \A t \in Sessions : t # s => slot'[t] = slot[t]
        /\ slot'[s].there = slot[s].there /\ slot'[s].had = slot[s].had /\ slot'[s].ghosts = slot[s].ghosts
        /\ slot'[s].viewers = slot[s].viewers /\ ~slot'[s].timer
    BY <1>1, <1>2 DEF SlotType
  <1>4. ending \subseteq ending' /\ ending' \subseteq Sessions
    BY <1>1, <1>2
  <1>5. TypeOK'
    BY <1>1, <1>2, <1>3, <1>4, TypeParts DEF TypeOK, RowType, AskingType, SlotType, ViewerType
  <1>6. Handshakes'
    <2>1. \A t \in Sessions : slot'[t].there = slot[t].there
      BY <1>3
    <2> QED
      BY <1>1, <1>2, <2>1 DEF Handshakes
  <1>7. Slots'
    BY <1>1, <1>2, <1>3 DEF Slots
  <1>8. ASSUME NEW t \in Sessions \ excused' PROVE SlotTells(t)'
    <2>1. SlotTells(t) /\ Watched(t)' = Watched(t) /\ (Live(t)' <=> Live(t))
      BY <1>2, <1>8 DEF WatchedInv, Watched, Live
    <2>2. CASE t # s
      BY <1>3, <1>4, <2>1, <2>2, TellsKept
    <2>3. CASE t = s
      <3>1. slot[s].viewers = {} /\ slot[s].ghosts = 0
        BY <1>2, <2>1, <2>3 DEF SlotTells
      <3>2. Size(s) = 0
        BY <3>1, FS_EmptySet DEF Size
      <3>3. s \in ending'
        BY <1>2, <3>2
      <3> QED
        BY <1>3, <2>1, <2>3, <3>3 DEF SlotTells
    <2> QED
      BY <2>2, <2>3
  <1> QED
    BY <1>5, <1>6, <1>7, <1>8 DEF WatchedInv

LEMMA WatchedSweep ==
    ASSUME WatchedInv, NEW s \in Sessions, Sweep(s)
    PROVE  WatchedInv'
  <1>1. /\ TypeOK /\ slot \in [Sessions -> SlotType] /\ viewer \in [Operators -> ViewerType]
        /\ Handshakes /\ Slots /\ excused \subseteq Sessions
    BY TypeParts DEF WatchedInv
  <1>2. /\ slot[s].there /\ Size(s) = 0 /\ slot' = [slot EXCEPT ![s] = NoSlot]
        /\ viewer' = [o \in Operators |->
                        IF viewer[o].pc = "checking" /\ viewer[o].at = s
                        THEN [viewer[o] EXCEPT !.stale = TRUE] ELSE viewer[o]]
        /\ excused' = IF slot[s].timer \/ \E o \in Operators : viewer[o].pc = "checking" /\ viewer[o].at = s
                      THEN excused \cup {s} ELSE excused
        /\ UNCHANGED <<row, asking, crossed, agent, ending, faults>>
    BY DEF Sweep, rowState
  <1>3. NoSlot \in SlotType /\ NoSlot.viewers = {} /\ ~NoSlot.had /\ ~NoSlot.timer /\ NoSlot.ghosts = 0
    BY DEF NoSlot, SlotType
  <1>4. slot' \in [Sessions -> SlotType] /\ slot'[s] = NoSlot /\ \A t \in Sessions : t # s => slot'[t] = slot[t]
    BY <1>1, <1>2, <1>3
  <1>5. /\ viewer' \in [Operators -> ViewerType]
        /\ \A o \in Operators : /\ viewer'[o].pc = viewer[o].pc /\ viewer'[o].at = viewer[o].at
                                /\ viewer'[o].stale = (viewer[o].stale \/ (viewer[o].pc = "checking" /\ viewer[o].at = s))
    <2>1. ASSUME NEW o \in Operators
          PROVE  /\ viewer'[o] \in ViewerType /\ viewer'[o].pc = viewer[o].pc /\ viewer'[o].at = viewer[o].at
                 /\ viewer'[o].stale = (viewer[o].stale \/ (viewer[o].pc = "checking" /\ viewer[o].at = s))
      <3>1. viewer[o] \in ViewerType
        BY <1>1
      <3>2. CASE viewer[o].pc = "checking" /\ viewer[o].at = s
        <4>1. viewer'[o] = [viewer[o] EXCEPT !.stale = TRUE]
          BY <1>2, <3>2
        <4> QED
          BY <3>1, <3>2, <4>1 DEF ViewerType
      <3>3. CASE ~(viewer[o].pc = "checking" /\ viewer[o].at = s)
        <4>1. viewer'[o] = viewer[o] /\ viewer[o].stale \in BOOLEAN
          BY <1>2, <3>1, <3>3 DEF ViewerType
        <4> QED
          BY <3>1, <3>3, <4>1
      <3> QED
        BY <3>2, <3>3
    <2>2. viewer' = [o \in Operators |-> viewer'[o]]
      BY <1>2
    <2> QED
      BY <2>1, <2>2
  <1>6. excused \subseteq excused' /\ excused' \subseteq Sessions
    BY <1>1, <1>2
  <1>7. TypeOK'
    BY <1>1, <1>2, <1>4, <1>5, <1>6, TypeParts DEF TypeOK, RowType, AskingType, SlotType, ViewerType
  <1>8. Handshakes'
    <2> SUFFICES ASSUME NEW o \in Operators
                 PROVE  /\ viewer'[o].pc \in {"checking", "on"} => viewer'[o].at \in Sessions
                        /\ viewer'[o].pc = "checking" => /\ row'[viewer'[o].at].status # "none"
                                                         /\ IF viewer'[o].stale THEN viewer'[o].at \in excused'
                                                            ELSE slot'[viewer'[o].at].there
      BY DEF Handshakes
    <2>1. /\ viewer[o].pc \in {"checking", "on"} => viewer[o].at \in Sessions
          /\ viewer[o].pc = "checking" => /\ row[viewer[o].at].status # "none"
                                          /\ IF viewer[o].stale THEN viewer[o].at \in excused
                                             ELSE slot[viewer[o].at].there
      BY <1>1 DEF Handshakes
    <2>2. CASE viewer[o].pc = "checking" /\ viewer[o].at = s
      <3>1. s \in excused' /\ viewer'[o].stale
        BY <1>2, <1>5, <2>2
      <3> QED
        BY <1>2, <1>5, <2>1, <2>2, <3>1
    <2>3. CASE viewer[o].pc # "checking" \/ viewer[o].at # s
      <3>1. viewer[o].pc = "checking" => viewer'[o].stale = viewer[o].stale
        <4> HAVE viewer[o].pc = "checking"
        <4>1. viewer[o].stale \in BOOLEAN
          BY <1>1 DEF ViewerType
        <4> QED
          BY <1>5, <2>3, <4>1
      <3> QED
        BY <1>2, <1>4, <1>5, <1>6, <2>1, <2>3, <3>1
    <2> QED
      BY <2>2, <2>3
  <1>9. Slots'
    BY <1>1, <1>2, <1>3, <1>4, FS_EmptySet DEF Slots
  <1>10. ASSUME NEW t \in Sessions \ excused' PROVE SlotTells(t)'
    <2>1. SlotTells(t) /\ Watched(t)' = Watched(t) /\ (Live(t)' <=> Live(t))
      BY <1>2, <1>5, <1>6, <1>10 DEF WatchedInv, Watched, Live
    <2>2. CASE t # s
      BY <1>2, <1>4, <2>1, <2>2, TellsKept
    <2>3. CASE t = s
      <3>1. IsFiniteSet(slot[s].viewers) /\ slot[s].ghosts = 0
        BY <1>1, <2>1, <2>3 DEF Slots, SlotTells
      <3>2. Cardinality(slot[s].viewers) = 0
        BY <1>2, <3>1, FS_CardinalityType DEF Size
      <3>3. slot[s].viewers = {}
        BY <3>1, <3>2, FS_EmptySet
      <3> QED
        BY <1>3, <1>4, <2>1, <2>3, <3>3 DEF SlotTells
    <2> QED
      BY <2>2, <2>3
  <1> QED
    BY <1>7, <1>8, <1>9, <1>10 DEF WatchedInv

\* The agent's side leaves the viewers and the timer alone.
LEMMA WatchedAgent ==
    ASSUME WatchedInv, NEW s \in Sessions, AgentDials(s) \/ AttachAgent(s) \/ AgentHangs(s)
    PROVE  WatchedInv'
  <1>1. /\ TypeOK /\ slot \in [Sessions -> SlotType] /\ agent \in [Sessions -> {"off", "checking", "lost", "on"}]
        /\ Handshakes /\ Slots
    BY TypeParts DEF WatchedInv
  <1>2. UNCHANGED <<row, asking, crossed, viewer, ending, excused, faults>>
    BY DEF AgentDials, AttachAgent, AgentHangs, rowState
  <1>3. /\ agent' \in [Sessions -> {"off", "checking", "lost", "on"}]
        /\ slot' \in [Sessions -> SlotType] /\ \A t \in Sessions : t # s => slot'[t] = slot[t]
        /\ \/ /\ slot'[s].there = slot[s].there /\ slot'[s].viewers = slot[s].viewers
              /\ slot'[s].ghosts = slot[s].ghosts /\ slot'[s].had = slot[s].had /\ slot'[s].timer = slot[s].timer
           \/ /\ ~slot[s].there /\ slot'[s].there /\ slot'[s].viewers = {}
              /\ slot'[s].ghosts = 0 /\ ~slot'[s].had /\ ~slot'[s].timer
    <2>1. CASE AgentDials(s)
      BY <1>1, <2>1 DEF AgentDials
    <2>2. CASE AttachAgent(s)
      <3> DEFINE held == IF slot[s].there THEN slot[s] ELSE NewSlot
                 new == [held EXCEPT !.agent = IF agent[s] = "checking" THEN "on" ELSE "dead"]
      <3>1. agent' \in [Sessions -> {"off", "checking", "lost", "on"}] /\ slot' = [slot EXCEPT ![s] = new]
        BY <1>1, <2>2 DEF AttachAgent
      <3>2. /\ NewSlot \in SlotType /\ NewSlot.there /\ NewSlot.viewers = {} /\ NewSlot.ghosts = 0
            /\ ~NewSlot.had /\ ~NewSlot.timer
        BY DEF NewSlot, NoSlot, SlotType
      <3>3. held \in SlotType
        BY <1>1, <3>2
      <3>4. /\ (slot[s].there /\ held = slot[s]) \/ (~slot[s].there /\ held = NewSlot)
        OBVIOUS
      <3> HIDE DEF held
      <3>5. /\ new \in SlotType /\ new.there = held.there /\ new.viewers = held.viewers
            /\ new.ghosts = held.ghosts /\ new.had = held.had /\ new.timer = held.timer
        BY <3>3 DEF SlotType
      <3> HIDE DEF new
      <3>6. slot' \in [Sessions -> SlotType] /\ slot'[s] = new /\ \A t \in Sessions : t # s => slot'[t] = slot[t]
        BY <1>1, <3>1, <3>5
      <3> QED
        BY <3>1, <3>2, <3>4, <3>5, <3>6
    <2>3. CASE AgentHangs(s)
      <3> DEFINE what == IF agent[s] = "on" /\ slot[s].agent = "on" THEN "none" ELSE slot[s].agent
                 new == [slot[s] EXCEPT !.agent = what]
      <3>1. agent' \in [Sessions -> {"off", "checking", "lost", "on"}] /\ slot' = [slot EXCEPT ![s] = new]
        BY <1>1, <2>3 DEF AgentHangs
      <3>2. what \in {"none", "on", "dead"} /\ slot[s] \in SlotType
        BY <1>1 DEF SlotType
      <3> HIDE DEF what
      <3>3. /\ new \in SlotType /\ new.there = slot[s].there /\ new.viewers = slot[s].viewers
            /\ new.ghosts = slot[s].ghosts /\ new.had = slot[s].had /\ new.timer = slot[s].timer
        BY <3>2 DEF SlotType
      <3> HIDE DEF new
      <3>4. slot' \in [Sessions -> SlotType] /\ slot'[s] = new /\ \A t \in Sessions : t # s => slot'[t] = slot[t]
        BY <1>1, <3>1, <3>3
      <3> QED
        BY <3>1, <3>3, <3>4
    <2> QED
      BY <2>1, <2>2, <2>3
  <1>4. TypeOK'
    BY <1>1, <1>2, <1>3, TypeParts DEF TypeOK, RowType, AskingType, SlotType, ViewerType
  <1>5. Handshakes'
    <2>1. \A t \in Sessions : slot[t].there => slot'[t].there
      BY <1>3
    <2> QED
      BY <1>1, <1>2, <2>1 DEF Handshakes
  <1>6. Slots'
    BY <1>1, <1>2, <1>3, FS_EmptySet DEF Slots
  <1>7. ASSUME NEW t \in Sessions \ excused' PROVE SlotTells(t)'
    <2>1. SlotTells(t) /\ Watched(t)' = Watched(t) /\ (Live(t)' <=> Live(t))
      BY <1>2, <1>7 DEF WatchedInv, Watched, Live
    <2>2. CASE /\ slot'[t].there = slot[t].there /\ slot'[t].viewers = slot[t].viewers
               /\ slot'[t].ghosts = slot[t].ghosts /\ slot'[t].had = slot[t].had /\ slot'[t].timer = slot[t].timer
      BY <1>2, <2>1, <2>2, TellsKept
    <2>3. CASE /\ ~slot[t].there /\ slot'[t].there /\ slot'[t].viewers = {}
               /\ slot'[t].ghosts = 0 /\ ~slot'[t].had /\ ~slot'[t].timer
      <3>1. slot[t].viewers = {}
        BY <2>1, <2>3 DEF SlotTells
      <3> QED
        BY <2>1, <2>3, <3>1 DEF SlotTells
    <2> QED
      BY <1>3, <2>2, <2>3
  <1> QED
    BY <1>4, <1>5, <1>6, <1>7 DEF WatchedInv

LEMMA WatchedRestart == WatchedInv /\ Restart => WatchedInv'
  <1> SUFFICES ASSUME WatchedInv, Restart PROVE WatchedInv'
    OBVIOUS
  <1>1. /\ TypeOK /\ asking \in [Operators -> AskingType] /\ ending \subseteq Sessions /\ excused \subseteq Sessions
        /\ faults \in 0 .. MaxFaults
    BY TypeParts DEF WatchedInv
  <1>2. /\ faults' \in 0 .. MaxFaults /\ excused' = excused \cup ending \cup {s \in Sessions : slot[s].there}
        /\ slot' = [s \in Sessions |-> NoSlot] /\ viewer' = [o \in Operators |-> Closed]
        /\ agent' = [s \in Sessions |-> "off"] /\ ending' = {}
        /\ asking' = [o \in Operators |-> [NoRequest EXCEPT !.got = asking[o].got]]
        /\ UNCHANGED <<row, crossed>>
    BY <1>1, HubAssumption DEF Restart
  <1>3. NoSlot \in SlotType /\ NoSlot.viewers = {} /\ ~NoSlot.had /\ ~NoSlot.timer /\ NoSlot.ghosts = 0
    BY DEF NoSlot, SlotType
  <1>4. Closed \in ViewerType /\ Closed.pc = "closed"
    BY DEF Closed, ViewerType
  <1>5. /\ \A o \in Operators : viewer'[o].pc = "closed"
        /\ \A s \in Sessions : slot'[s] = NoSlot
    BY <1>2, <1>4
  <1>6. TypeOK'
    <2>1. asking' \in [Operators -> AskingType]
      BY <1>1, <1>2 DEF AskingType, NoRequest
    <2>2. slot' \in [Sessions -> SlotType] /\ viewer' \in [Operators -> ViewerType]
      BY <1>2, <1>3, <1>4
    <2>3. excused' \subseteq Sessions /\ agent' \in [Sessions -> {"off", "checking", "lost", "on"}]
      BY <1>1, <1>2
    <2> QED
      BY <1>1, <1>2, <2>1, <2>2, <2>3, TypeParts DEF TypeOK, RowType, AskingType, SlotType, ViewerType
  <1>7. Handshakes'
    BY <1>5 DEF Handshakes
  <1>8. Slots'
    BY <1>3, <1>5, FS_EmptySet DEF Slots
  <1>9. ASSUME NEW t \in Sessions \ excused' PROVE SlotTells(t)'
    <2>1. Watched(t)' = {}
      BY <1>5 DEF Watched
    <2> QED
      BY <1>3, <1>5, <2>1 DEF SlotTells
  <1> QED
    BY <1>6, <1>7, <1>8, <1>9 DEF WatchedInv

LEMMA WatchedStep == WatchedInv /\ [Next]_vars => WatchedInv'
  <1> SUFFICES ASSUME WatchedInv, [Next]_vars PROVE WatchedInv'
    OBVIOUS
  <1>1. ASSUME NEW o \in Operators, Connect(o) \/ Wire(o) \/ Rejected(o) \/ Hang(o) PROVE WatchedInv'
    BY <1>1, WatchedConnect, WatchedWire, WatchedRejected, WatchedHang
  <1>2. ASSUME NEW s \in Sessions,
               GraceEnds(s) \/ EndLands(s) \/ Sweep(s) \/ AgentDials(s) \/ AttachAgent(s) \/ AgentHangs(s)
        PROVE  WatchedInv'
    BY <1>2, WatchedGraceEnds, WatchedEndLands, WatchedSweep, WatchedAgent
  <1>3. CASE (\E o \in Operators : Ask(o) \/ Count(o) \/ Create(o) \/ Stop(o)) \/ \E s \in Sessions : Activate(s)
    BY <1>3, WatchedRows
  <1>4. CASE Restart
    BY <1>4, WatchedRestart
  <1>5. CASE UNCHANGED vars
    <2>1. UNCHANGED <<row, asking, crossed, hubState>>
      BY <1>5 DEF vars, hubState
    <2>2. row \in [Sessions -> RowType] /\ asking \in [Operators -> AskingType] /\ crossed \in BOOLEAN
      BY TypeParts DEF WatchedInv
    <2> QED
      BY <2>1, <2>2, RowSteps DEF Live
  <1> QED
    BY <1>1, <1>2, <1>3, <1>4, <1>5 DEF Next

\* Handshakes, slots and the grace timer agree, except where excused.
THEOREM WatchedInvariant == Spec => []WatchedInv
  BY WatchedInit, WatchedStep, PTL DEF Spec

\* Frames go to those who watch and to nobody else, and a live session that
\* lost its last viewer is timed to end, whatever handshakes, hang-ups, sweeps
\* and restarts come in whichever order.
THEOREM ViewersWatched == Spec => []WatchedOrTimed
  <1>1. WatchedInv => WatchedOrTimed
    BY DEF WatchedInv, SlotTells, Watched, WatchedOrTimed
  <1> QED
    BY <1>1, WatchedInvariant, PTL

\* Of how many members a set has, when no two of them differ.
LEMMA AtMostOne ==
    ASSUME NEW S, \A x, y \in S : x = y
    PROVE  Cardinality(S) <= 1
  <1>1. CASE S = {}
    BY <1>1, FS_EmptySet
  <1>2. CASE S # {}
    <2>1. PICK x \in S : S = {x}
      BY <1>2
    <2> QED
      BY <2>1, FS_Singleton
  <1> QED
    BY <1>1, <1>2

\* While no two requests overlapped, a host has at most one live session and
\* there are never more of them than remoteMaxConcurrent.
THEOREM LimitKept == Spec => []SharedWithinLimit
  <1>1. SharedInv => SharedWithinLimit
    <2> SUFFICES ASSUME SharedInv, ~crossed
                 PROVE  /\ \A h \in Hosts : Cardinality(LiveOn(h)) <= 1
                        /\ Cardinality({s \in Sessions : Live(s)}) <= MaxConcurrent
      BY DEF SharedWithinLimit
    <2>1. \A s, t \in LiveSet : row[s].host = row[t].host => s = t
      BY DEF SharedInv
    <2>2. ASSUME NEW h \in Hosts PROVE Cardinality(LiveOn(h)) <= 1
      <3>1. \A s, t \in LiveOn(h) : s = t
        BY <2>1 DEF LiveOn, LiveSet
      <3> QED
        BY <3>1, AtMostOne
    <2> QED
      BY <2>2 DEF SharedInv, LiveSet
  <1>2. WatchedInv => TypeOK
    BY DEF WatchedInv
  <1> QED
    BY <1>1, <1>2, SharedInit, SharedStep, WatchedInvariant, PTL DEF Spec


(***************************************************************************)
(* Files over the media socket                                             *)
(*                                                                         *)
(* TransferInv holds of every state of FileTransfer: it is typed, every    *)
(* message tells the truth about what it is of, and while a transfer that  *)
(* overlaps no other is under way, nothing else is - so that what is       *)
(* queued and what lies on the disk say how far it has come.  From that,   *)
(* VerifiedIsIntact.                                                       *)
(***************************************************************************)
Bytes == Seq(Transfers \X Nat)
Tags == {"none", "cancelled", "replaced", "sent", "verified", "mismatch", "failed"}
XferRow ==
    [way : {"none", "put", "ask", "offer", "get"},
     pc : {"new", "asked", "offered", "streaming", "ended", "told"},
     owner : Windows \cup {Nothing}, rid : Nat, path : Paths \cup {Nothing}, next : 1 .. Chunks + 1,
     hashed : BOOLEAN, told : [tag : Tags, path : Paths \cup {Nothing}, version : Nat], saved : Bytes]
MsgRow ==
    [t : {"put", "ask", "get", "chunk", "end", "dest", "pull", "sent", "got"}, rid : Nat, of : Transfers,
     path : Paths \cup Transfers \cup {Nothing}, bytes : Bytes, version : Nat]
Collected == [of : Transfers \cup {Nothing}, chunks : Bytes]

Drawn == {t \in Transfers : xfer[t].rid >= 100}
TransferTyped ==
    /\ xfer \in [Transfers -> XferRow] /\ IsFiniteSet(Drawn)
    /\ reqId \in [Windows -> Nat]
    /\ dl \in [Windows -> Collected]
    /\ digesting \in [Windows -> Seq([dl : Collected, bytes : Bytes])]
    /\ toAgent \in Seq(MsgRow) /\ toViewer \in [Windows -> Seq(MsgRow)]
    /\ tray \in [up : Paths \cup {Nothing}, upPath : Paths \cup {Nothing}, dialog : Transfers \cup {Nothing}]
    /\ disk \in [Paths -> [bytes : Bytes, version : Nat]]
    /\ mingled \subseteq Transfers /\ hurt \subseteq Transfers /\ drops \in 0 .. MaxDrops

(***************************************************************************)
(* What a message, a download and a digest stand for.                      *)
(***************************************************************************)
\* A transfer of which something was sent: asked for, or pulled from the chat window.
Begun(t) == xfer[t].pc # "new" /\ ~(xfer[t].pc = "offered" /\ xfer[t].rid = 0)
IsGet(t) == xfer[t].way = "get"

\* What lies at p was closed at version v with these bytes, or p was written again.
Sealed(p, v, bytes) ==
    /\ p \in Paths /\ v <= disk[p].version
    /\ disk[p].version = v => disk[p].bytes = bytes /\ tray.up # p

AgentMsg(m) ==
    /\ Begun(m.of) /\ m.t \in {"put", "ask", "get", "chunk", "end"}
    /\ m.t = "put" => m.path \in Paths
    /\ IsGet(m.of) <=> m.t = "get"
ViewerMsg(m) ==
    /\ Begun(m.of) /\ m.t \in {"chunk", "dest", "pull", "sent", "got"}
    /\ m.t \in {"dest", "pull", "sent"} => m.path \in Paths \cup {Nothing}
    /\ m.t = "sent" /\ m.path # Nothing => Sealed(m.path, m.version, m.bytes)
    /\ m.t = "got" /\ m.path # Nothing => m.bytes = Content(m.of)
    /\ IsGet(m.of) <=> m.t \in {"chunk", "got"}
Digest(o, d) ==
    /\ d.dl.of \in Transfers /\ Begun(d.dl.of) /\ IsGet(d.dl.of) /\ xfer[d.dl.of].owner = o
    /\ \E u \in Transfers : d.bytes = Content(u)
Collects(o, t) == xfer[t].owner = o /\ xfer[t].pc = "asked" /\ IsGet(t)

MessagesTell ==
    /\ \A i \in DOMAIN toAgent : AgentMsg(toAgent[i])
    /\ \A o \in Windows : \A i \in DOMAIN toViewer[o] : ViewerMsg(toViewer[o][i])
    /\ \A o \in Windows : \A i \in DOMAIN digesting[o] : Digest(o, digesting[o][i])
    /\ \A o \in Windows : dl[o].of # Nothing => Collects(o, dl[o].of)
    /\ tray.dialog # Nothing => Begun(tray.dialog) /\ ~IsGet(tray.dialog)
    /\ tray.up # Nothing => tray.upPath = tray.up
    /\ \A t \in Transfers : xfer[t].pc \in {"offered", "streaming", "ended"} => ~IsGet(t)

Verified(t) ==
    xfer[t].told.tag = "verified" =>
        IF IsGet(t) THEN \E u \in Transfers : xfer[t].saved = Content(u)
        ELSE Sealed(xfer[t].told.path, xfer[t].told.version, Content(t))
MixInv == TransferTyped /\ MessagesTell /\ \A t \in Transfers : Verified(t)

(***************************************************************************)
(* A transfer nobody crossed, on a socket that held: while it is under way *)
(* nothing else is, and what lies where tells how far it has come.         *)
(***************************************************************************)
Clean(t) == t \notin mingled /\ t \notin hurt

Alone(t) ==
    /\ \A u \in Transfers : UnderWay(u) => u = t
    /\ \A i \in DOMAIN toAgent : toAgent[i].of = t
    /\ \A o \in Windows : \A i \in DOMAIN toViewer[o] : toViewer[o][i].of = t
    /\ \A o \in Windows : \A i \in DOMAIN digesting[o] : digesting[o][i].dl.of = t
    /\ tray.dialog \in {Nothing, t}

Seen(t) == toViewer[xfer[t].owner]
About(m, kind, t) == m.t = kind /\ m.of = t /\ m.rid = xfer[t].rid

\* The upload stream is open at p, and so much of the file lies there.
Written(t, p, n) ==
    /\ p \in Paths /\ tray.up = p /\ Len(disk[p].bytes) = n
    /\ \A i \in 1 .. n : disk[p].bytes[i] = <<t, i>>
\* The chunks after n are the first of the queue to the agent.
Follow(t, n, last) ==
    \A i \in 1 .. last : /\ About(toAgent[i], "chunk", t)
                         /\ toAgent[i].bytes = <<<<t, n + i>>>>

\* What lies where, while the upload ...
Requested(t) ==   \* ... waits for its destination,
    \/ Len(toAgent) = 1 /\ About(toAgent[1], xfer[t].way, t) /\ Seen(t) = <<>> /\ tray.dialog = Nothing
       /\ (xfer[t].way = "put" => toAgent[1].path = xfer[t].path)
    \/ toAgent = <<>> /\ Seen(t) = <<>> /\ tray.dialog = t
    \/ toAgent = <<>> /\ tray.dialog = Nothing /\ Len(Seen(t)) = 1 /\ About(Seen(t)[1], "dest", t)
       /\ (Seen(t)[1].path # Nothing => Written(t, Seen(t)[1].path, 0))
Pulled(t) ==      \* ... has been accepted in the chat window,
    /\ toAgent = <<>> /\ tray.dialog = Nothing /\ Len(Seen(t)) = 1 /\ About(Seen(t)[1], "pull", t)
    /\ Seen(t)[1].path # Nothing /\ Written(t, Seen(t)[1].path, 0)
Streams(t) ==     \* ... is being sent,
    /\ tray.dialog = Nothing /\ Seen(t) = <<>>
    /\ xfer[t].hashed = (xfer[t].next > 1)
    /\ \E n \in 0 .. Chunks :
         /\ Written(t, xfer[t].path, n) /\ n + Len(toAgent) = xfer[t].next - 1
         /\ Follow(t, n, Len(toAgent))
Ends(t) ==        \* ... has been sent,
    /\ tray.dialog = Nothing /\ xfer[t].hashed
    /\ \/ /\ Seen(t) = <<>> /\ Len(toAgent) > 0 /\ About(toAgent[Len(toAgent)], "end", t)
          /\ \E n \in 0 .. Chunks :
               /\ Written(t, xfer[t].path, n) /\ n + Len(toAgent) = Chunks + 1
               /\ Follow(t, n, Len(toAgent) - 1)
       \/ /\ toAgent = <<>> /\ Len(Seen(t)) = 1 /\ About(Seen(t)[1], "sent", t)
          /\ xfer[t].path # Nothing /\ Seen(t)[1].path = xfer[t].path /\ Seen(t)[1].bytes = Content(t)

\* What was collected of a download, and what is still to come.
Arriving(t, q) ==
    LET got == dl[xfer[t].owner].chunks IN
    \/ Len(q) = 1 /\ q[1].t = "got" /\ q[1].path = Nothing /\ got = <<>>
    \/ /\ Len(q) > 0 /\ Len(got) + Len(q) = Chunks + 1
       /\ \A i \in 1 .. Len(got) : got[i] = <<t, i>>
       /\ \A i \in 1 .. Len(q) - 1 : q[i].t = "chunk" /\ q[i].bytes = <<<<t, Len(got) + i>>>>
       /\ q[Len(q)].t = "got" /\ q[Len(q)].path # Nothing /\ q[Len(q)].bytes = Content(t)
Fetched(t) ==
    LET o == xfer[t].owner IN
    /\ dl[o].of = t /\ tray.dialog = Nothing
    /\ \/ Len(toAgent) = 1 /\ toAgent[1].t = "get" /\ Seen(t) = <<>> /\ digesting[o] = <<>> /\ dl[o].chunks = <<>>
       \/ toAgent = <<>> /\ digesting[o] = <<>> /\ Arriving(t, Seen(t))
       \/ /\ toAgent = <<>> /\ Seen(t) = <<>> /\ Len(digesting[o]) = 1
          /\ digesting[o][1].dl.chunks = Content(t) /\ digesting[o][1].bytes = Content(t)

\* Nothing that was said of it can change what was told.
Silent(t) ==
    /\ \A i \in DOMAIN toAgent : ~(toAgent[i].t = "end" /\ toAgent[i].of = t)
    /\ xfer[t].owner \in Windows =>
         /\ \A i \in DOMAIN Seen(t) : ~(Seen(t)[i].t = "sent" /\ Seen(t)[i].of = t)
         /\ \A i \in DOMAIN digesting[xfer[t].owner] : digesting[xfer[t].owner][i].dl.of # t
Settled(t) ==
    LET x == xfer[t] IN
    \/ x.told.tag \in {"cancelled", "replaced", "failed"}
    \/ /\ x.told.tag = "verified"
       /\ IF IsGet(t) THEN x.saved = Content(t) ELSE x.told.path = x.path

Place(t) ==
    LET x == xfer[t] IN
    /\ UnderWay(t) => Alone(t) /\ x.owner \in Windows
    /\ x.pc # "told" => x.told.tag = "none"
    /\ x.pc = "new" => x = Fresh
    /\ x.pc = "asked" /\ ~IsGet(t) => x.way \in {"put", "ask"} /\ ~x.hashed /\ x.next = 1 /\ Requested(t)
    /\ x.pc = "asked" /\ IsGet(t) => Fetched(t)
    /\ x.pc = "offered" => x.way = "offer" /\ x.owner \in Windows /\ ~x.hashed /\ x.next = 1 /\ (x.rid # 0 => Pulled(t))
    /\ x.pc = "streaming" => ~IsGet(t) /\ Streams(t)
    /\ x.pc = "ended" => ~IsGet(t) /\ Ends(t)
    /\ x.pc = "told" => Settled(t) /\ Silent(t)

TransferInv == MixInv /\ \A t \in Transfers : Clean(t) => Place(t)

(***************************************************************************)
(* Sequences and rows.                                                     *)
(***************************************************************************)
LEMMA AppendedHolds ==
    ASSUME NEW S, NEW s \in Seq(S), NEW x \in S
    PROVE  /\ Append(s, x) \in Seq(S) /\ Len(Append(s, x)) = Len(s) + 1
           /\ Append(s, x)[Len(s) + 1] = x
           /\ \A i \in DOMAIN s : Append(s, x)[i] = s[i]
           /\ \A i \in DOMAIN Append(s, x) : i \in DOMAIN s \/ i = Len(s) + 1
  OBVIOUS

LEMMA TailHolds ==
    ASSUME NEW S, NEW s \in Seq(S), s # <<>>
    PROVE  /\ Tail(s) \in Seq(S) /\ Len(Tail(s)) = Len(s) - 1 /\ Len(s) > 0
           /\ Head(s) = s[1] /\ s[1] \in S /\ 1 \in DOMAIN s
           /\ \A i \in DOMAIN Tail(s) : i + 1 \in DOMAIN s /\ Tail(s)[i] = s[i + 1]
  OBVIOUS

LEMMA JoinedHolds ==
    ASSUME NEW S, NEW s \in Seq(S), NEW r \in Seq(S)
    PROVE  /\ s \o r \in Seq(S) /\ Len(s \o r) = Len(s) + Len(r)
           /\ \A i \in DOMAIN s : (s \o r)[i] = s[i]
           /\ \A i \in DOMAIN r : (s \o r)[Len(s) + i] = r[i]
           /\ \A i \in DOMAIN (s \o r) : i \in DOMAIN s \/ i - Len(s) \in DOMAIN r
  OBVIOUS

LEMMA LastTaken ==
    ASSUME NEW S, NEW q \in Seq(S), Len(q) = 1
    PROVE  q # <<>> /\ Tail(q) = <<>>
  <1>1. q # <<>>
    OBVIOUS
  <1>2. Tail(q) \in Seq(S) /\ Len(Tail(q)) = Len(q) - 1
    BY <1>1, TailHolds
  <1>3. Len(Tail(q)) = 0
    BY <1>2
  <1>4. PICK r \in Seq(S) : r = Tail(q) /\ Len(r) = 0
    BY <1>2, <1>3
  <1>5. r = <<>>
    BY <1>4
  <1> QED
    BY <1>1, <1>4, <1>5

\* A sequence of one.
LEMMA OneHolds ==
    ASSUME NEW S, NEW x \in S
    PROVE  <<x>> \in Seq(S) /\ Len(<<x>>) = 1 /\ <<x>>[1] = x /\ DOMAIN <<x>> = {1}
  OBVIOUS

LEMMA ContentTyped ==
    ASSUME NEW t \in Transfers
    PROVE  /\ Content(t) \in Bytes /\ Len(Content(t)) = Chunks /\ DOMAIN Content(t) = 1 .. Chunks
           /\ \A i \in 1 .. Chunks : Content(t)[i] = <<t, i>>
  <1>1. Chunks \in Nat
    BY TransferAssumption DEF TransferAssumption
  <1> QED
    BY <1>1 DEF Content, Bytes

LEMMA FreshTyped ==
    /\ Fresh \in XferRow /\ <<>> \in Bytes /\ NoDownload \in Collected
    /\ Quiet \in [up : Paths \cup {Nothing}, upPath : Paths \cup {Nothing}, dialog : Transfers \cup {Nothing}]
  <1>1. Chunks \in Nat \ {0}
    BY TransferAssumption DEF TransferAssumption
  <1>2. <<>> \in Bytes
    BY DEF Bytes
  <1> QED
    BY <1>1, <1>2 DEF Fresh, XferRow, NotTold, NoDownload, Collected, Quiet, Tags

LEMMA MsgTyped ==
    ASSUME NEW kind \in {"put", "ask", "get", "chunk", "end", "dest", "pull", "sent", "got"}, NEW rid \in Nat,
           NEW t \in Transfers
    PROVE  Msg(kind, rid, t) \in MsgRow
  BY FreshTyped DEF Msg, MsgRow

LEMMA NamesDiffer == Nothing \notin Transfers /\ Nothing \notin Paths /\ Chunks \in Nat \ {0}
  BY TransferAssumption DEF TransferAssumption

(***************************************************************************)
(* What a step keeps of the messages.                                      *)
(***************************************************************************)
\* Rows go on, and what was closed stays closed.
Grows ==
    /\ \A t \in Transfers : Begun(t) => Begun(t)' /\ xfer'[t].way = xfer[t].way /\ xfer'[t].owner = xfer[t].owner
    /\ \A p \in Paths, v \in Nat, b \in Bytes : Sealed(p, v, b) => Sealed(p, v, b)'

\* Every message was there, or is right.
AgentGets ==
    \A i \in DOMAIN toAgent' : (\E j \in DOMAIN toAgent : toAgent'[i] = toAgent[j]) \/ AgentMsg(toAgent[i])'
ViewersGet ==
    \A o \in Windows : \A i \in DOMAIN toViewer'[o] :
        (\E j \in DOMAIN toViewer[o] : toViewer'[o][i] = toViewer[o][j]) \/ ViewerMsg(toViewer[o][i])'
DigestsGet ==
    \A o \in Windows : \A i \in DOMAIN digesting'[o] :
        (\E j \in DOMAIN digesting[o] : digesting'[o][i] = digesting[o][j]) \/ Digest(o, digesting[o][i])'

LEMMA MessageStays ==
    ASSUME Grows, NEW m \in MsgRow
    PROVE  (AgentMsg(m) => AgentMsg(m)') /\ (ViewerMsg(m) => ViewerMsg(m)')
  <1>1. m.of \in Transfers /\ m.version \in Nat /\ m.bytes \in Bytes
    BY DEF MsgRow
  <1>2. Begun(m.of) => Begun(m.of)' /\ (IsGet(m.of) <=> IsGet(m.of)')
    BY <1>1 DEF Grows, IsGet
  <1>3. Sealed(m.path, m.version, m.bytes) => Sealed(m.path, m.version, m.bytes)'
    BY <1>1 DEF Grows, Sealed
  <1>4. AgentMsg(m) => AgentMsg(m)'
    BY <1>2 DEF AgentMsg
  <1>5. ViewerMsg(m) => ViewerMsg(m)'
    BY <1>2, <1>3 DEF ViewerMsg
  <1> QED
    BY <1>4, <1>5

LEMMA DigestStays ==
    ASSUME Grows, NEW o \in Windows, NEW d, Digest(o, d)
    PROVE  Digest(o, d)'
  BY DEF Grows, Digest, IsGet

LEMMA MessagesKept ==
    ASSUME MixInv, TransferTyped', Grows, AgentGets, ViewersGet, DigestsGet,
           \A o \in Windows : dl'[o].of # Nothing => Collects(o, dl[o].of)',
           tray'.dialog # Nothing => Begun(tray.dialog)' /\ ~IsGet(tray.dialog)',
           tray'.up # Nothing => tray'.upPath = tray'.up,
           \A t \in Transfers : xfer'[t].pc \in {"offered", "streaming", "ended"} => ~IsGet(t)'
    PROVE  MessagesTell'
  <1>1. \A i \in DOMAIN toAgent' : AgentMsg(toAgent[i])'
    <2> TAKE i \in DOMAIN toAgent'
    <2>1. CASE \E j \in DOMAIN toAgent : toAgent'[i] = toAgent[j]
      <3>1. PICK j \in DOMAIN toAgent : toAgent'[i] = toAgent[j]
        BY <2>1
      <3>2. AgentMsg(toAgent[j]) /\ toAgent[j] \in MsgRow
        BY DEF MixInv, MessagesTell, TransferTyped
      <3>3. \A m \in MsgRow : AgentMsg(m) => AgentMsg(m)'
        BY MessageStays
      <3>4. PICK m \in MsgRow : m = toAgent[j]
        BY <3>2
      <3>5. AgentMsg(m)'
        BY <3>2, <3>3, <3>4
      <3> QED
        BY <3>1, <3>4, <3>5 DEF AgentMsg
    <2> QED
      BY <2>1 DEF AgentGets
  <1>2. \A o \in Windows : \A i \in DOMAIN toViewer'[o] : ViewerMsg(toViewer[o][i])'
    <2> TAKE o \in Windows
    <2> TAKE i \in DOMAIN toViewer'[o]
    <2>1. CASE \E j \in DOMAIN toViewer[o] : toViewer'[o][i] = toViewer[o][j]
      <3>1. PICK j \in DOMAIN toViewer[o] : toViewer'[o][i] = toViewer[o][j]
        BY <2>1
      <3>2. ViewerMsg(toViewer[o][j]) /\ toViewer[o][j] \in MsgRow
        BY DEF MixInv, MessagesTell, TransferTyped
      <3>3. \A m \in MsgRow : ViewerMsg(m) => ViewerMsg(m)'
        BY MessageStays
      <3>4. PICK m \in MsgRow : m = toViewer[o][j]
        BY <3>2
      <3>5. ViewerMsg(m)'
        BY <3>2, <3>3, <3>4
      <3> QED
        BY <3>1, <3>4, <3>5 DEF ViewerMsg
    <2> QED
      BY <2>1 DEF ViewersGet
  <1>3. \A o \in Windows : \A i \in DOMAIN digesting'[o] : Digest(o, digesting[o][i])'
    <2> TAKE o \in Windows
    <2> TAKE i \in DOMAIN digesting'[o]
    <2>1. CASE \E j \in DOMAIN digesting[o] : digesting'[o][i] = digesting[o][j]
      <3>1. PICK j \in DOMAIN digesting[o] : digesting'[o][i] = digesting[o][j]
        BY <2>1
      <3>2. PICK d : d = digesting[o][j]
        OBVIOUS
      <3>3. Digest(o, d)
        BY <3>2 DEF MixInv, MessagesTell
      <3>4. Digest(o, d)'
        BY <3>3, DigestStays
      <3> QED
        BY <3>1, <3>2, <3>4 DEF Digest
    <2> QED
      BY <2>1 DEF DigestsGet
  <1> QED
    BY <1>1, <1>2, <1>3 DEF MessagesTell

\* The queues, as the steps change them.
LEMMA AgentKeeps ==
    ASSUME TransferTyped, toAgent' = toAgent \/ (toAgent # <<>> /\ toAgent' = Tail(toAgent)) \/ toAgent' = <<>>
    PROVE  AgentGets
  <1>1. toAgent \in Seq(MsgRow)
    BY DEF TransferTyped
  <1>2. CASE toAgent # <<>> /\ toAgent' = Tail(toAgent)
    BY <1>1, <1>2, TailHolds DEF AgentGets
  <1> QED
    BY <1>2 DEF AgentGets

LEMMA AgentAppends ==
    ASSUME TransferTyped, NEW m \in MsgRow, toAgent' = Append(toAgent, m), AgentMsg(m)'
    PROVE  AgentGets
  <1>1. toAgent \in Seq(MsgRow)
    BY DEF TransferTyped
  <1>2. \A i \in DOMAIN toAgent' : i \in DOMAIN toAgent \/ i = Len(toAgent) + 1
    BY <1>1, AppendedHolds
  <1>3. toAgent'[Len(toAgent) + 1] = m /\ \A i \in DOMAIN toAgent : toAgent'[i] = toAgent[i]
    BY <1>1, AppendedHolds
  <1> QED
    BY <1>2, <1>3 DEF AgentGets, AgentMsg

LEMMA ViewersKeep ==
    ASSUME TransferTyped,
           \A o \in Windows : \/ toViewer'[o] = toViewer[o] \/ toViewer'[o] = <<>>
                              \/ toViewer[o] # <<>> /\ toViewer'[o] = Tail(toViewer[o])
    PROVE  ViewersGet
  <1> SUFFICES ASSUME NEW o \in Windows
               PROVE  \A i \in DOMAIN toViewer'[o] : \E j \in DOMAIN toViewer[o] : toViewer'[o][i] = toViewer[o][j]
    BY DEF ViewersGet
  <1>1. toViewer[o] \in Seq(MsgRow)
    BY DEF TransferTyped
  <1>2. CASE toViewer[o] # <<>> /\ toViewer'[o] = Tail(toViewer[o])
    BY <1>1, <1>2, TailHolds
  <1> QED
    BY <1>2

\* What is broadcast is behind what was there.
LEMMA BroadcastDoes ==
    ASSUME TransferTyped, NEW ms \in Seq(MsgRow), Broadcast(ms)
    PROVE  /\ toViewer' \in [Windows -> Seq(MsgRow)]
           /\ (\A i \in DOMAIN ms : ViewerMsg(ms[i])') => ViewersGet
  <1>1. ASSUME NEW o \in Windows
        PROVE  /\ toViewer'[o] \in Seq(MsgRow)
               /\ \A i \in DOMAIN toViewer'[o] : \/ i \in DOMAIN toViewer[o] /\ toViewer'[o][i] = toViewer[o][i]
                                                 \/ \E j \in DOMAIN ms : toViewer'[o][i] = ms[j]
    <2>1. toViewer[o] \in Seq(MsgRow) /\ toViewer'[o] = toViewer[o] \o ms
      BY DEF TransferTyped, Broadcast
    <2>2. /\ toViewer'[o] \in Seq(MsgRow)
          /\ \A i \in DOMAIN toViewer[o] : toViewer'[o][i] = toViewer[o][i]
          /\ \A i \in DOMAIN ms : toViewer'[o][Len(toViewer[o]) + i] = ms[i]
          /\ \A i \in DOMAIN toViewer'[o] : i \in DOMAIN toViewer[o] \/ i - Len(toViewer[o]) \in DOMAIN ms
      BY <2>1, JoinedHolds
    <2>3. \A i \in DOMAIN toViewer'[o] : i \in Nat /\ Len(toViewer[o]) \in Nat
      BY <2>1, <2>2
    <2>4. ASSUME NEW i \in DOMAIN toViewer'[o], i - Len(toViewer[o]) \in DOMAIN ms
          PROVE  toViewer'[o][i] = ms[i - Len(toViewer[o])]
      <3>1. Len(toViewer[o]) + (i - Len(toViewer[o])) = i
        BY <2>3
      <3> QED
        BY <2>2, <2>4, <3>1
    <2> QED
      BY <2>2, <2>4
  <1>2. toViewer' = [o \in Windows |-> toViewer[o] \o ms]
    BY DEF Broadcast
  <1>3. ASSUME \A i \in DOMAIN ms : ViewerMsg(ms[i])'
        PROVE  ViewersGet
    <2> SUFFICES ASSUME NEW o \in Windows, NEW i \in DOMAIN toViewer'[o],
                        NEW j \in DOMAIN ms, toViewer'[o][i] = ms[j]
                 PROVE  ViewerMsg(toViewer[o][i])'
      BY <1>1 DEF ViewersGet
    <2> QED
      BY <1>3 DEF ViewerMsg
  <1> QED
    BY <1>1, <1>2, <1>3

(***************************************************************************)
(* What a step keeps of the disk and of the rows.                          *)
(***************************************************************************)
\* Every path that was sealed is.
SealsKept == \A p \in Paths, v \in Nat, b \in Bytes : Sealed(p, v, b) => Sealed(p, v, b)'

LEMMA SealsQuiet ==
    ASSUME disk' = disk, tray'.up = tray.up \/ tray'.up = Nothing
    PROVE  SealsKept
  BY NamesDiffer DEF SealsKept, Sealed

LEMMA SealsOpen ==
    ASSUME TransferTyped, NEW p \in Paths, tray'.up = p,
           disk' = [disk EXCEPT ![p] = [bytes |-> <<>>, version |-> @.version + 1]]
    PROVE  /\ SealsKept /\ disk' \in [Paths -> [bytes : Bytes, version : Nat]]
           /\ disk'[p].bytes = <<>>
  <1>1. disk \in [Paths -> [bytes : Bytes, version : Nat]] /\ disk[p].version \in Nat
    BY DEF TransferTyped
  <1>2. <<>> \in Bytes
    BY FreshTyped
  <1>3. disk'[p].version = disk[p].version + 1 /\ disk'[p].bytes = <<>> /\ \A q \in Paths : q # p => disk'[q] = disk[q]
    BY <1>1
  <1>4. SealsKept
    BY <1>1, <1>3 DEF SealsKept, Sealed
  <1> QED
    BY <1>1, <1>2, <1>3, <1>4

LEMMA SealsWrite ==
    ASSUME TransferTyped, tray.up \in Paths, tray' = tray, NEW b \in Bytes,
           disk' = [disk EXCEPT ![tray.up].bytes = b]
    PROVE  SealsKept /\ disk' \in [Paths -> [bytes : Bytes, version : Nat]]
  <1>1. disk \in [Paths -> [bytes : Bytes, version : Nat]]
    BY DEF TransferTyped
  <1>2. /\ \A q \in Paths : disk'[q].version = disk[q].version
        /\ \A q \in Paths : q # tray.up => disk'[q] = disk[q]
    BY <1>1
  <1>3. SealsKept
    BY <1>2 DEF SealsKept, Sealed
  <1> QED
    BY <1>1, <1>3

LEMMA GrowsWhen ==
    ASSUME SealsKept,
           \A u \in Transfers : \/ xfer'[u] = xfer[u] \/ ~Begun(u)
                                \/ /\ xfer'[u].way = xfer[u].way /\ xfer'[u].owner = xfer[u].owner
                                   /\ Begun(u) => Begun(u)'
    PROVE  Grows
  BY DEF Grows, SealsKept, Begun

\* A row of its own is written: at most its id is a new one.
LEMMA RowWritten ==
    ASSUME TransferTyped, NEW t \in Transfers, NEW r \in XferRow, xfer' = [xfer EXCEPT ![t] = r]
    PROVE  /\ xfer' \in [Transfers -> XferRow] /\ IsFiniteSet(Drawn')
           /\ xfer'[t] = r /\ \A u \in Transfers : u # t => xfer'[u] = xfer[u]
  <1>1. xfer \in [Transfers -> XferRow] /\ IsFiniteSet(Drawn)
    BY DEF TransferTyped
  <1>2. xfer'[t] = r /\ \A u \in Transfers : u # t => xfer'[u] = xfer[u]
    BY <1>1
  <1>3. Drawn' \subseteq Drawn \cup {t}
    BY <1>2 DEF Drawn
  <1>4. IsFiniteSet(Drawn')
    BY <1>1, <1>3, FS_AddElement, FS_Subset
  <1> QED
    BY <1>1, <1>2, <1>4

LEMMA RowsWritten ==
    ASSUME TransferTyped, xfer' \in [Transfers -> XferRow],
           \A u \in Transfers : xfer'[u].rid \in {xfer[u].rid} \/ xfer'[u].rid < 100 
    PROVE  IsFiniteSet(Drawn')
  <1>1. xfer \in [Transfers -> XferRow] /\ IsFiniteSet(Drawn)
    BY DEF TransferTyped
  <1>2. \A u \in Transfers : xfer'[u].rid \in Nat
    BY DEF XferRow
  <1>3. Drawn' \subseteq Drawn
    BY <1>2 DEF Drawn
  <1> QED
    BY <1>1, <1>3, FS_Subset

LEMMA VerifiedKept ==
    ASSUME MixInv, SealsKept, xfer' \in [Transfers -> XferRow],
           \A u \in Transfers :
               xfer'[u].told.tag = "verified" =>
                   \/ Verified(u)'
                   \/ /\ xfer'[u].told = xfer[u].told /\ xfer'[u].saved = xfer[u].saved
                      /\ xfer'[u].way = xfer[u].way
    PROVE  \A u \in Transfers : Verified(u)'
  <1> SUFFICES ASSUME NEW u \in Transfers, xfer'[u].told.tag = "verified",
                      xfer'[u].told = xfer[u].told, xfer'[u].saved = xfer[u].saved, xfer'[u].way = xfer[u].way
               PROVE  Verified(u)'
    BY DEF Verified
  <1>1. Verified(u) /\ xfer[u].told.tag = "verified" /\ xfer[u] \in XferRow
    BY DEF MixInv, TransferTyped
  <1>2. CASE IsGet(u)
    <2>1. IsGet(u)'
      BY <1>2 DEF IsGet
    <2> QED
      BY <1>1, <1>2, <2>1 DEF Verified, Content
  <1>3. CASE ~IsGet(u)
    <2>1. Sealed(xfer[u].told.path, xfer[u].told.version, Content(u))
      BY <1>1, <1>3 DEF Verified
    <2>2. xfer[u].told.path \in Paths /\ xfer[u].told.version \in Nat /\ Content(u) \in Bytes
      BY <1>1, <2>1, ContentTyped DEF Sealed, XferRow
    <2>3. PICK p \in Paths, v \in Nat, b \in Bytes :
              p = xfer[u].told.path /\ v = xfer[u].told.version /\ b = Content(u)
      BY <2>2
    <2>4. Sealed(p, v, b)'
      BY <2>1, <2>3 DEF SealsKept
    <2>5. ~IsGet(u)'
      BY <1>3 DEF IsGet
    <2> QED
      BY <2>3, <2>4, <2>5 DEF Verified, Sealed, Content
  <1> QED
    BY <1>2, <1>3

(***************************************************************************)
(* Every step of a window keeps what the messages stand for.               *)
(***************************************************************************)
\* Most steps leave the disk, the tray, the downloads and the digests alone.
LEMMA MixKept ==
    ASSUME MixInv, TransferTyped', SealsKept, AgentGets, ViewersGet, DigestsGet,
           \A u \in Transfers : \/ xfer'[u] = xfer[u] \/ (xfer[u].pc = "new" /\ xfer'[u].told.tag = "none")
                                \/ /\ xfer'[u].way = xfer[u].way /\ xfer'[u].owner = xfer[u].owner
                                   /\ Begun(u) => Begun(u)'
                                   /\ \/ xfer'[u].told.tag # "verified"
                                      \/ xfer'[u].told = xfer[u].told /\ xfer'[u].saved = xfer[u].saved
                                      \/ Verified(u)',
           \A o \in Windows : dl'[o].of # Nothing => Collects(o, dl[o].of)',
           tray'.dialog # Nothing => Begun(tray.dialog)' /\ ~IsGet(tray.dialog)',
           tray'.up # Nothing => tray'.upPath = tray'.up,
           \A t \in Transfers : xfer'[t].pc \in {"offered", "streaming", "ended"} => ~IsGet(t)'
    PROVE  MixInv'
  <1>1. Grows
    BY GrowsWhen DEF Begun
  <1>2. MessagesTell'
    BY <1>1, MessagesKept
  <1>3. xfer' \in [Transfers -> XferRow]
    BY DEF TransferTyped
  <1>4. \A u \in Transfers : Verified(u)'
    BY <1>3, VerifiedKept
  <1> QED
    BY <1>2, <1>4 DEF MixInv

LEMMA SameQueues ==
    /\ toAgent' = toAgent => AgentGets
    /\ toViewer' = toViewer => ViewersGet
    /\ digesting' = digesting => DigestsGet
  BY DEF AgentGets, ViewersGet, DigestsGet

\* A dialog and the downloads stay right while their transfers do.
LEMMA DialogStays ==
    ASSUME MixInv, tray'.dialog = tray.dialog,
           \A u \in Transfers : Begun(u) => Begun(u)' /\ (IsGet(u) <=> IsGet(u)')
    PROVE  tray'.dialog # Nothing => Begun(tray.dialog)' /\ ~IsGet(tray.dialog)'
  <1>1. tray.dialog \in Transfers \cup {Nothing} /\ (tray.dialog # Nothing => Begun(tray.dialog) /\ ~IsGet(tray.dialog))
    BY DEF MixInv, TransferTyped, MessagesTell
  <1> SUFFICES ASSUME NEW u \in Transfers, tray'.dialog = u, Begun(u), ~IsGet(u)
               PROVE  Begun(tray.dialog)' /\ ~IsGet(tray.dialog)'
    BY <1>1
  <1>2. Begun(u)' /\ ~IsGet(u)'
    OBVIOUS
  <1> QED
    BY <1>2 DEF Begun, IsGet

LEMMA DownloadsStay ==
    ASSUME MixInv, dl' = dl, \A u \in Transfers : xfer[u].pc = "asked" /\ IsGet(u) => xfer'[u] = xfer[u]
    PROVE  \A o \in Windows : dl'[o].of # Nothing => Collects(o, dl[o].of)'
  <1> SUFFICES ASSUME NEW o \in Windows, dl[o].of # Nothing
               PROVE  Collects(o, dl[o].of)'
    OBVIOUS
  <1>1. dl[o].of \in Transfers /\ Collects(o, dl[o].of)
    BY DEF MixInv, TransferTyped, MessagesTell, Collected
  <1>2. xfer'[dl[o].of] = xfer[dl[o].of]
    BY <1>1 DEF Collects
  <1> QED
    BY <1>1, <1>2 DEF Collects, IsGet

\* A start adds transfers to those that overlapped another, itself first.
LEMMA StartsMingles ==
    ASSUME NEW t \in Transfers, Starts(t), mingled \subseteq Transfers
    PROVE  /\ mingled' \subseteq Transfers /\ mingled \subseteq mingled'
           /\ (Busy => t \in mingled') /\ \A u \in Transfers : UnderWay(u) => u \in mingled'
  <1>1. CASE Busy
    BY <1>1 DEF Starts
  <1>2. CASE ~Busy
    <2>1. \A u \in Transfers : ~UnderWay(u)
      BY <1>2 DEF Busy
    <2> QED
      BY <1>2, <2>1 DEF Starts
  <1> QED
    BY <1>1, <1>2

LEMMA MixUpload ==
    ASSUME MixInv, NEW o \in Windows, NEW t \in Transfers, NEW way \in {"put", "ask"}, xfer[t].pc = "new",
           Upload(o, t, way)
    PROVE  /\ MixInv' /\ \A u \in Transfers : u # t => xfer'[u] = xfer[u]
           /\ xfer'[t].way = way /\ xfer'[t].pc = "asked" /\ xfer'[t].owner = o /\ xfer'[t].told.tag = "none"
           /\ ~xfer'[t].hashed /\ xfer'[t].next = 1
           /\ Len(toAgent') = Len(toAgent) + 1
           /\ \A i \in DOMAIN toAgent' : (\E j \in DOMAIN toAgent : toAgent'[i] = toAgent[j]) \/ i = Len(toAgent) + 1
           /\ LET m == toAgent'[Len(toAgent) + 1] IN
              m.t = way /\ m.of = t /\ m.rid = xfer'[t].rid /\ m.path = xfer'[t].path
  <1> USE NamesDiffer
  <1>0. TransferTyped /\ reqId[o] \in Nat
    BY DEF MixInv, TransferTyped
  <1>1. PICK p \in IF way = "put" THEN To[t] ELSE {Nothing} :
          /\ xfer' = [xfer EXCEPT ![t] = [Fresh EXCEPT !.way = way, !.pc = "asked", !.owner = o, !.rid = reqId[o], !.path = p]]
          /\ Send([Msg(way, reqId[o], t) EXCEPT !.path = p])
    BY DEF Upload
  <1>2. p \in Paths \cup {Nothing} /\ (way = "put" => p \in Paths)
    BY <1>1, TransferAssumption DEF TransferAssumption
  <1>3. PICK r \in XferRow :
          r = [Fresh EXCEPT !.way = way, !.pc = "asked", !.owner = o, !.rid = reqId[o], !.path = p]
    BY <1>0, <1>2, FreshTyped DEF XferRow
  <1>4. r.way = way /\ r.pc = "asked" /\ r.owner = o /\ r.told.tag = "none"
        /\ ~r.hashed /\ r.next = 1 /\ r.rid = reqId[o] /\ r.path = p
    BY <1>3 DEF Fresh, NotTold
  <1>5. /\ xfer' \in [Transfers -> XferRow] /\ IsFiniteSet(Drawn')
        /\ xfer'[t] = r /\ \A u \in Transfers : u # t => xfer'[u] = xfer[u]
    BY <1>0, <1>1, <1>3, RowWritten
  <1>6. PICK m \in MsgRow : m = [Msg(way, reqId[o], t) EXCEPT !.path = p]
    <2>1. Msg(way, reqId[o], t) \in MsgRow
      BY <1>0, MsgTyped
    <2> QED
      BY <1>2, <2>1 DEF MsgRow
  <1>7. m.of = t /\ m.t = way /\ m.path = p /\ m.rid = reqId[o] /\ toAgent' = Append(toAgent, m)
    BY <1>1, <1>6 DEF Msg, Send
  <1>8. AgentMsg(m)'
    BY <1>2, <1>4, <1>5, <1>7 DEF AgentMsg, Begun, IsGet
  <1>9. AgentGets
    BY <1>0, <1>7, <1>8, AgentAppends
  <1>10. toAgent' \in Seq(MsgRow)
    BY <1>0, <1>7, AppendedHolds DEF TransferTyped
  <1>11. /\ UNCHANGED <<dl, digesting, toViewer, tray, disk, hurt, drops>>
         /\ reqId' \in [Windows -> Nat] /\ mingled' \subseteq Transfers
    BY <1>0 DEF Upload, Starts, TransferTyped
  <1>12. TransferTyped'
    BY <1>0, <1>5, <1>10, <1>11 DEF TransferTyped
  <1>13. ViewersGet /\ DigestsGet /\ SealsKept
    BY <1>11, SameQueues, SealsQuiet
  <1>14. \A u \in Transfers : Begun(u) => Begun(u)' /\ (IsGet(u) <=> IsGet(u)')
    BY <1>5, <1>4 DEF Begun, IsGet
  <1>15. tray'.dialog # Nothing => Begun(tray.dialog)' /\ ~IsGet(tray.dialog)'
    BY <1>11, <1>14, DialogStays
  <1>16. \A w \in Windows : dl'[w].of # Nothing => Collects(w, dl[w].of)'
    BY <1>11, <1>5, DownloadsStay
  <1>17. \A u \in Transfers : xfer'[u].pc \in {"offered", "streaming", "ended"} => ~IsGet(u)'
    BY <1>5, <1>4 DEF IsGet, MixInv, MessagesTell
  <1>18. tray'.up # Nothing => tray'.upPath = tray'.up
    BY <1>11 DEF MixInv, MessagesTell
  <1>19. \A u \in Transfers : \/ xfer'[u] = xfer[u] \/ (xfer[u].pc = "new" /\ xfer'[u].told.tag = "none")
    BY <1>4, <1>5
  <1>20. MixInv'
    BY <1>19, <1>9, <1>12, <1>13, <1>15, <1>16, <1>17, <1>18, MixKept
  <1>21. /\ Len(toAgent') = Len(toAgent) + 1 /\ toAgent'[Len(toAgent) + 1] = m
         /\ \A i \in DOMAIN toAgent' : (\E j \in DOMAIN toAgent : toAgent'[i] = toAgent[j]) \/ i = Len(toAgent) + 1
    <2>1. toAgent \in Seq(MsgRow)
      BY <1>0 DEF TransferTyped
    <2> QED
      BY <2>1, <1>7, AppendedHolds
  <1> QED
    BY <1>4, <1>5, <1>7, <1>20, <1>21

LEMMA MixOffer ==
    ASSUME MixInv, NEW o \in Windows, NEW t \in Transfers, xfer[t].pc = "new", Offer(o, t)
    PROVE  /\ MixInv' /\ \A u \in Transfers : u # t => xfer'[u] = xfer[u]
           /\ xfer'[t] = [Fresh EXCEPT !.way = "offer", !.pc = "offered", !.owner = o]
  <1> USE NamesDiffer
  <1>0. TransferTyped
    BY DEF MixInv
  <1>3. PICK r \in XferRow : r = [Fresh EXCEPT !.way = "offer", !.pc = "offered", !.owner = o]
    BY <1>0, FreshTyped DEF XferRow
  <1>4. r.way = "offer" /\ r.pc = "offered" /\ r.owner = o /\ r.told.tag = "none" /\ r.rid = 0
    BY <1>3 DEF Fresh, NotTold
  <1>5. /\ xfer' \in [Transfers -> XferRow] /\ IsFiniteSet(Drawn')
        /\ xfer'[t] = r /\ \A u \in Transfers : u # t => xfer'[u] = xfer[u]
    BY <1>0, <1>3, RowWritten DEF Offer
  <1>11. UNCHANGED <<reqId, dl, digesting, toAgent, toViewer, tray, disk, ghosts>>
    BY DEF Offer
  <1>12. TransferTyped'
    BY <1>0, <1>5, <1>11 DEF TransferTyped, ghosts
  <1>13. AgentGets /\ ViewersGet /\ DigestsGet /\ SealsKept
    BY <1>11, SameQueues, SealsQuiet
  <1>14. \A u \in Transfers : Begun(u) => Begun(u)' /\ (IsGet(u) <=> IsGet(u)')
    BY <1>5, <1>4 DEF Begun, IsGet
  <1>15. tray'.dialog # Nothing => Begun(tray.dialog)' /\ ~IsGet(tray.dialog)'
    BY <1>11, <1>14, DialogStays
  <1>16. \A w \in Windows : dl'[w].of # Nothing => Collects(w, dl[w].of)'
    BY <1>11, <1>5, DownloadsStay
  <1>17. \A u \in Transfers : xfer'[u].pc \in {"offered", "streaming", "ended"} => ~IsGet(u)'
    BY <1>5, <1>4 DEF IsGet, MixInv, MessagesTell
  <1>18. tray'.up # Nothing => tray'.upPath = tray'.up
    BY <1>11 DEF MixInv, MessagesTell
  <1>19. \A u \in Transfers : \/ xfer'[u] = xfer[u] \/ (xfer[u].pc = "new" /\ xfer'[u].told.tag = "none")
    BY <1>4, <1>5
  <1> QED
    BY <1>3, <1>5, <1>19, <1>12, <1>13, <1>15, <1>16, <1>17, <1>18, MixKept

LEMMA MixDownload ==
    ASSUME MixInv, NEW o \in Windows, NEW t \in Transfers, xfer[t].pc = "new", Download(o, t)
    PROVE  /\ MixInv' /\ \A u \in Transfers : u # t /\ u # dl[o].of => xfer'[u] = xfer[u]
           /\ xfer'[t].way = "get" /\ xfer'[t].pc = "asked" /\ xfer'[t].owner = o /\ xfer'[t].told.tag = "none"
           /\ dl'[o].of = t /\ dl'[o].chunks = <<>>
           /\ Len(toAgent') = Len(toAgent) + 1
           /\ \A i \in DOMAIN toAgent' : (\E j \in DOMAIN toAgent : toAgent'[i] = toAgent[j]) \/ i = Len(toAgent) + 1
           /\ toAgent'[Len(toAgent) + 1].t = "get" /\ toAgent'[Len(toAgent) + 1].of = t
  <1> USE NamesDiffer
  <1>0. /\ TransferTyped /\ reqId[o] \in Nat /\ xfer \in [Transfers -> XferRow]
        /\ dl[o].of \in Transfers \cup {Nothing} /\ dl \in [Windows -> Collected]
    BY DEF MixInv, TransferTyped, Collected
  <1>3. PICK r \in XferRow : r = [Fresh EXCEPT !.way = "get", !.pc = "asked", !.owner = o, !.rid = reqId[o]]
    BY <1>0, FreshTyped DEF XferRow
  <1>4. r.way = "get" /\ r.pc = "asked" /\ r.owner = o /\ r.told.tag = "none"
    BY <1>3 DEF Fresh, NotTold
  <1>a. xfer' = [u \in Transfers |->
                  IF u = t THEN r
                  ELSE IF u = dl[o].of THEN [xfer[u] EXCEPT !.pc = "told", !.told.tag = "replaced"]
                  ELSE xfer[u]]
    BY <1>3 DEF Download
  <1>b. ASSUME NEW u \in Transfers, u = dl[o].of, u # t
        PROVE  /\ xfer'[u] \in XferRow /\ xfer'[u].pc = "told" /\ xfer'[u].told.tag = "replaced"
               /\ xfer'[u].way = xfer[u].way /\ xfer'[u].owner = xfer[u].owner
    <2>1. xfer[u] \in XferRow
      BY <1>0
    <2>2. xfer'[u] = [xfer[u] EXCEPT !.pc = "told", !.told.tag = "replaced"]
      BY <1>a, <1>b
    <2>3. xfer[u].told \in [tag : Tags, path : Paths \cup {Nothing}, version : Nat]
      BY <2>1 DEF XferRow
    <2>4. PICK l \in [tag : Tags, path : Paths \cup {Nothing}, version : Nat] :
            l = [xfer[u].told EXCEPT !.tag = "replaced"]
      BY <2>3 DEF Tags
    <2>5. l.tag = "replaced" /\ xfer'[u] = [xfer[u] EXCEPT !.pc = "told", !.told = l]
      BY <2>1, <2>2, <2>3, <2>4 DEF XferRow
    <2> QED
      BY <2>1, <2>5 DEF XferRow
  <1>5. /\ xfer' \in [Transfers -> XferRow]
        /\ xfer'[t] = r /\ \A u \in Transfers : u # t /\ u # dl[o].of => xfer'[u] = xfer[u]
    <2>1. \A u \in Transfers : xfer'[u] \in XferRow
      BY <1>0, <1>a, <1>b
    <2> QED
      BY <1>a, <2>1
  <1>c. IsFiniteSet(Drawn')
    <2>1. Drawn' \subseteq Drawn \cup {t}
      <3>1. ASSUME NEW u \in Transfers, u # t
            PROVE  xfer'[u].rid = xfer[u].rid
        <4>1. xfer[u] \in XferRow
          BY <1>0
        <4> QED
          BY <1>a, <3>1, <4>1 DEF XferRow
      <3> QED
        BY <3>1 DEF Drawn
    <2>2. IsFiniteSet(Drawn)
      BY <1>0 DEF TransferTyped
    <2> QED
      BY <2>1, <2>2, FS_AddElement, FS_Subset
  <1>6. PICK m \in MsgRow : m = Msg("get", reqId[o], t)
    BY <1>0, MsgTyped
  <1>7. m.of = t /\ m.t = "get" /\ toAgent' = Append(toAgent, m)
    BY <1>6 DEF Msg, Send, Download
  <1>8. AgentMsg(m)'
    BY <1>4, <1>5, <1>7 DEF AgentMsg, Begun, IsGet
  <1>9. AgentGets
    BY <1>0, <1>7, <1>8, AgentAppends
  <1>10. toAgent' \in Seq(MsgRow)
    BY <1>0, <1>7, AppendedHolds DEF TransferTyped
  <1>11. /\ UNCHANGED <<digesting, toViewer, tray, disk, hurt, drops>>
         /\ reqId' \in [Windows -> Nat] /\ mingled' \subseteq Transfers
         /\ dl' = [dl EXCEPT ![o] = [of |-> t, chunks |-> <<>>]]
    <2>1. mingled' \subseteq Transfers
      <3>1. Starts(t) /\ mingled \subseteq Transfers
        BY <1>0 DEF Download, TransferTyped
      <3> QED
        BY <3>1, StartsMingles
    <2>2. reqId' \in [Windows -> Nat]
      <3>1. reqId' = [reqId EXCEPT ![o] = @ + 1] /\ reqId \in [Windows -> Nat]
        BY <1>0 DEF Download, TransferTyped
      <3> QED
        BY <3>1, <1>0
    <2> QED
      BY <2>1, <2>2 DEF Download
  <1>d. dl' \in [Windows -> Collected]
    BY <1>0, <1>11, FreshTyped DEF Collected
  <1>12. TransferTyped'
    BY <1>0, <1>5, <1>c, <1>d, <1>10, <1>11 DEF TransferTyped
  <1>13. ViewersGet /\ DigestsGet /\ SealsKept
    BY <1>11, SameQueues, SealsQuiet
  <1>14. \A u \in Transfers : Begun(u) => Begun(u)' /\ (IsGet(u) <=> IsGet(u)')
    BY <1>5, <1>4, <1>b DEF Begun, IsGet
  <1>15. tray'.dialog # Nothing => Begun(tray.dialog)' /\ ~IsGet(tray.dialog)'
    BY <1>11, <1>14, DialogStays
  <1>16. \A w \in Windows : dl'[w].of # Nothing => Collects(w, dl[w].of)'
    <2> SUFFICES ASSUME NEW w \in Windows, dl'[w].of # Nothing
                 PROVE  Collects(w, dl[w].of)'
      OBVIOUS
    <2>1. CASE w = o
      <3>1. dl'[w].of = t
        BY <1>0, <1>11, <2>1
      <3> QED
        BY <3>1, <2>1, <1>4, <1>5 DEF Collects, IsGet
    <2>2. CASE w # o
      <3>1. dl'[w] = dl[w]
        BY <1>0, <1>11, <2>2
      <3>2. dl[w].of \in Transfers /\ Collects(w, dl[w].of)
        BY <3>1 DEF MixInv, TransferTyped, MessagesTell, Collected
      <3>3. dl[w].of # t /\ dl[w].of # dl[o].of
        BY <3>2, <2>2, <1>0 DEF Collects, MixInv, MessagesTell
      <3>4. xfer'[dl[w].of] = xfer[dl[w].of]
        BY <3>2, <3>3, <1>5
      <3> QED
        BY <3>1, <3>2, <3>4 DEF Collects, IsGet
    <2> QED
      BY <2>1, <2>2
  <1>17. \A u \in Transfers : xfer'[u].pc \in {"offered", "streaming", "ended"} => ~IsGet(u)'
    BY <1>5, <1>4, <1>b DEF IsGet, MixInv, MessagesTell
  <1>18. tray'.up # Nothing => tray'.upPath = tray'.up
    BY <1>11 DEF MixInv, MessagesTell
  <1>19. \A u \in Transfers : \/ xfer'[u] = xfer[u] \/ (xfer[u].pc = "new" /\ xfer'[u].told.tag = "none")
                              \/ /\ xfer'[u].way = xfer[u].way /\ xfer'[u].owner = xfer[u].owner
                                 /\ Begun(u) => Begun(u)'
                                 /\ xfer'[u].told.tag # "verified"
    <2> TAKE u \in Transfers
    <2>1. CASE u = t
      BY <2>1, <1>4, <1>5
    <2>2. CASE u # t /\ u = dl[o].of
      BY <2>2, <1>b, <1>14
    <2> QED
      BY <2>1, <2>2, <1>5
  <1>20. MixInv'
    BY <1>19, <1>9, <1>12, <1>13, <1>15, <1>16, <1>17, <1>18, MixKept
  <1>21. /\ Len(toAgent') = Len(toAgent) + 1 /\ toAgent'[Len(toAgent) + 1] = m
         /\ \A i \in DOMAIN toAgent' : (\E j \in DOMAIN toAgent : toAgent'[i] = toAgent[j]) \/ i = Len(toAgent) + 1
    <2>1. toAgent \in Seq(MsgRow)
      BY <1>0 DEF TransferTyped
    <2> QED
      BY <2>1, <1>7, AppendedHolds
  <1>22. dl'[o].of = t /\ dl'[o].chunks = <<>>
    BY <1>0, <1>11
  <1> QED
    BY <1>4, <1>5, <1>7, <1>20, <1>21, <1>22

\* Rows that go on, of transfers that had begun or not.
RowsGoOn ==
    \A u \in Transfers :
        \/ xfer'[u] = xfer[u]
        \/ /\ xfer'[u].way = xfer[u].way /\ xfer'[u].owner = xfer[u].owner
           /\ (Begun(u) => Begun(u)')
           /\ (xfer'[u].pc \in {"offered", "streaming", "ended"} => ~IsGet(u))
           /\ \/ xfer'[u].told.tag # "verified"
              \/ xfer'[u].told = xfer[u].told /\ xfer'[u].saved = xfer[u].saved
              \/ Verified(u)'

LEMMA MixRows ==
    ASSUME MixInv, TransferTyped', SealsKept, AgentGets, ViewersGet, DigestsGet, RowsGoOn,
           \A o \in Windows : dl'[o].of # Nothing => Collects(o, dl[o].of)',
           \/ tray'.dialog = tray.dialog \/ tray'.dialog = Nothing
           \/ \E u \in Transfers : tray'.dialog = u /\ Begun(u) /\ ~IsGet(u),
           tray'.up # Nothing => tray'.upPath = tray'.up
    PROVE  MixInv'
  <1>1. \A u \in Transfers : Begun(u) => Begun(u)' /\ (IsGet(u) <=> IsGet(u)')
    BY DEF RowsGoOn, IsGet, Begun
  <1>2. tray'.dialog # Nothing => Begun(tray.dialog)' /\ ~IsGet(tray.dialog)'
    <2>1. CASE tray'.dialog = tray.dialog
      BY <1>1, <2>1, DialogStays
    <2>2. CASE \E u \in Transfers : tray'.dialog = u /\ Begun(u) /\ ~IsGet(u)
      <3>1. PICK u \in Transfers : tray'.dialog = u /\ Begun(u) /\ ~IsGet(u)
        BY <2>2
      <3>2. Begun(u)' /\ ~IsGet(u)'
        BY <3>1, <1>1
      <3> QED
        BY <3>1, <3>2 DEF Begun, IsGet
    <2> QED
      BY <2>1, <2>2
  <1>3. \A u \in Transfers : xfer'[u].pc \in {"offered", "streaming", "ended"} => ~IsGet(u)'
    BY DEF RowsGoOn, IsGet, MixInv, MessagesTell
  <1>4. \A u \in Transfers : \/ xfer'[u] = xfer[u]
                             \/ /\ xfer'[u].way = xfer[u].way /\ xfer'[u].owner = xfer[u].owner
                                /\ (Begun(u) => Begun(u)')
                                /\ \/ xfer'[u].told.tag # "verified"
                                   \/ xfer'[u].told = xfer[u].told /\ xfer'[u].saved = xfer[u].saved
                                   \/ Verified(u)'
    BY DEF RowsGoOn
  <1> QED
    BY <1>2, <1>3, <1>4, MixKept

\* What is told of a transfer.
LEMMA ToldRow ==
    ASSUME NEW x \in XferRow, NEW tag \in Tags
    PROVE  \E r \in XferRow :
              /\ r = [x EXCEPT !.pc = "told", !.told.tag = tag]
              /\ r.pc = "told" /\ r.told.tag = tag /\ r.way = x.way /\ r.owner = x.owner /\ r.rid = x.rid
              /\ r.path = x.path /\ r.saved = x.saved
  <1>1. x.told \in [tag : Tags, path : Paths \cup {Nothing}, version : Nat]
    BY DEF XferRow
  <1>2. PICK l \in [tag : Tags, path : Paths \cup {Nothing}, version : Nat] : l = [x.told EXCEPT !.tag = tag]
    BY <1>1
  <1>3. l.tag = tag
    BY <1>1, <1>2
  <1>4. PICK r \in XferRow : r = [x EXCEPT !.pc = "told", !.told = l]
    BY DEF XferRow
  <1>5. r = [x EXCEPT !.pc = "told", !.told.tag = tag]
    BY <1>2, <1>4 DEF XferRow
  <1> QED
    BY <1>3, <1>4, <1>5 DEF XferRow

LEMMA MixTimeout ==
    ASSUME MixInv, NEW t \in Transfers, Timeout(t)
    PROVE  MixInv' /\ xfer'[t].pc = "told" /\ xfer'[t].told.tag = "cancelled" /\ xfer'[t].owner = xfer[t].owner
           /\ xfer'[t].way = xfer[t].way /\ \A u \in Transfers : u # t => xfer'[u] = xfer[u]
  <1>0. TransferTyped /\ xfer \in [Transfers -> XferRow] /\ xfer[t] \in XferRow
    BY DEF MixInv, TransferTyped
  <1>1. PICK r \in XferRow :
              /\ r = [xfer[t] EXCEPT !.pc = "told", !.told.tag = "cancelled"]
              /\ r.pc = "told" /\ r.told.tag = "cancelled" /\ r.way = xfer[t].way /\ r.owner = xfer[t].owner
    <2>1. "cancelled" \in Tags
      BY DEF Tags
    <2>2. PICK x \in XferRow, tag \in Tags : x = xfer[t] /\ tag = "cancelled"
      BY <1>0, <2>1
    <2>3. PICK r \in XferRow :
              /\ r = [x EXCEPT !.pc = "told", !.told.tag = tag]
              /\ r.pc = "told" /\ r.told.tag = tag /\ r.way = x.way /\ r.owner = x.owner
      BY ToldRow
    <2> QED
      BY <2>2, <2>3
  <1>2. xfer' = [xfer EXCEPT ![t] = r]
    BY <1>0, <1>1 DEF Timeout, XferRow
  <1>5. /\ xfer' \in [Transfers -> XferRow] /\ IsFiniteSet(Drawn')
        /\ xfer'[t] = r /\ \A u \in Transfers : u # t => xfer'[u] = xfer[u]
    BY <1>0, <1>2, RowWritten
  <1>11. UNCHANGED <<reqId, dl, digesting, toAgent, toViewer, tray, disk, ghosts>> /\ ~IsGet(t)
    BY DEF Timeout, IsGet
  <1>12. TransferTyped'
    BY <1>0, <1>5, <1>11 DEF TransferTyped, ghosts
  <1>13. AgentGets /\ ViewersGet /\ DigestsGet /\ SealsKept
    BY <1>11, SameQueues, SealsQuiet
  <1>14. RowsGoOn
    BY <1>1, <1>5 DEF RowsGoOn, Begun
  <1>16. \A w \in Windows : dl'[w].of # Nothing => Collects(w, dl[w].of)'
    BY <1>11, <1>5, DownloadsStay
  <1>18. tray'.up # Nothing => tray'.upPath = tray'.up
    BY <1>11 DEF MixInv, MessagesTell
  <1> QED
    BY <1>1, <1>5, <1>11, <1>12, <1>13, <1>14, <1>16, <1>18, MixRows

LEMMA MixStream ==
    ASSUME MixInv, NEW t \in Transfers, Stream(t)
    PROVE  MixInv'
  <1> USE NamesDiffer
  <1>0. TransferTyped /\ xfer \in [Transfers -> XferRow] /\ xfer[t] \in XferRow /\ xfer[t].rid \in Nat
    BY DEF MixInv, TransferTyped, XferRow
  <1>1. xfer[t].pc = "streaming" /\ ~IsGet(t) /\ Begun(t)
    BY DEF Stream, MixInv, MessagesTell, Begun
  <1>2. PICK m \in MsgRow, r \in XferRow :
          /\ m.of = t /\ m.t \in {"chunk", "end"} /\ toAgent' = Append(toAgent, m)
          /\ xfer' = [xfer EXCEPT ![t] = r] /\ r.way = xfer[t].way /\ r.owner = xfer[t].owner
          /\ r.pc \in {"streaming", "ended"} /\ r.told = xfer[t].told /\ r.saved = xfer[t].saved
    <2>1. CASE xfer[t].next <= Chunks
      <3>1. xfer[t].next \in 1 .. Chunks /\ Content(t)[xfer[t].next] \in Transfers \X Nat
        <4>1. xfer[t].next \in 1 .. Chunks
          BY <1>0, <2>1 DEF XferRow
        <4>2. Content(t)[xfer[t].next] = <<t, xfer[t].next>>
          BY <4>1, ContentTyped
        <4> QED
          BY <4>1, <4>2
      <3>2. PICK b \in Bytes : b = <<Content(t)[xfer[t].next]>>
        BY <3>1, OneHolds DEF Bytes
      <3>3. PICK n \in MsgRow : n = Msg("chunk", xfer[t].rid, t)
        BY <1>0, MsgTyped
      <3>4. PICK m \in MsgRow : m = [Msg("chunk", xfer[t].rid, t) EXCEPT !.bytes = <<Content(t)[xfer[t].next]>>]
        BY <3>2, <3>3 DEF MsgRow
      <3>5. m.of = t /\ m.t = "chunk" /\ toAgent' = Append(toAgent, m)
        BY <3>4, <2>1 DEF Msg, Stream, Send
      <3>6. PICK r \in XferRow :
              r = [xfer[t] EXCEPT !.next = xfer[t].next + 1, !.hashed = xfer[t].hashed \/ xfer[t].next = 1]
        <4>1. xfer[t].next + 1 \in 1 .. Chunks + 1
          BY <3>1
        <4> QED
          BY <1>0, <4>1 DEF XferRow
      <3>7. xfer' = [xfer EXCEPT ![t] = r]
        BY <1>0, <3>6, <2>1 DEF Stream, XferRow
      <3>8. /\ r.way = xfer[t].way /\ r.owner = xfer[t].owner /\ r.pc = "streaming"
            /\ r.told = xfer[t].told /\ r.saved = xfer[t].saved
        BY <1>0, <1>1, <3>6 DEF XferRow
      <3> QED
        BY <3>5, <3>7, <3>8
    <2>2. CASE ~(xfer[t].next <= Chunks)
      <3>1. PICK m \in MsgRow : m = Msg("end", xfer[t].rid, t)
        BY <1>0, MsgTyped
      <3>2. PICK r \in XferRow : r = [xfer[t] EXCEPT !.pc = "ended"]
        BY <1>0 DEF XferRow
      <3>3. xfer' = [xfer EXCEPT ![t] = r] /\ toAgent' = Append(toAgent, m)
        BY <1>0, <3>1, <3>2, <2>2 DEF Stream, XferRow, Send
      <3> QED
        BY <1>0, <3>1, <3>2, <3>3 DEF XferRow, Msg
    <2> QED
      BY <2>1, <2>2
  <1>5. /\ xfer' \in [Transfers -> XferRow] /\ IsFiniteSet(Drawn')
        /\ xfer'[t] = r /\ \A u \in Transfers : u # t => xfer'[u] = xfer[u]
    BY <1>0, <1>2, RowWritten
  <1>8. AgentMsg(m)'
    BY <1>1, <1>2, <1>5 DEF AgentMsg, Begun, IsGet
  <1>9. AgentGets
    BY <1>0, <1>2, <1>8, AgentAppends
  <1>10. toAgent' \in Seq(MsgRow)
    BY <1>0, <1>2, AppendedHolds DEF TransferTyped
  <1>11. UNCHANGED <<reqId, dl, digesting, toViewer, tray, disk, ghosts>>
    BY DEF Stream
  <1>12. TransferTyped'
    BY <1>0, <1>5, <1>10, <1>11 DEF TransferTyped, ghosts
  <1>13. ViewersGet /\ DigestsGet /\ SealsKept
    BY <1>11, SameQueues, SealsQuiet
  <1>14. RowsGoOn
    BY <1>1, <1>2, <1>5 DEF RowsGoOn, Begun
  <1>16. \A w \in Windows : dl'[w].of # Nothing => Collects(w, dl[w].of)'
    BY <1>1, <1>11, <1>5, DownloadsStay
  <1>18. tray'.up # Nothing => tray'.upPath = tray'.up
    BY <1>11 DEF MixInv, MessagesTell
  <1> QED
    BY <1>9, <1>11, <1>12, <1>13, <1>14, <1>16, <1>18, MixRows

LEMMA MixDrops ==
    ASSUME MixInv, Reconnect \/ \E o \in Windows : WindowDrops(o)
    PROVE  MixInv'
  <1> USE NamesDiffer
  <1>0. TransferTyped
    BY DEF MixInv
  <1>1. /\ UNCHANGED <<xfer, reqId, dl, digesting, disk, mingled>>
        /\ toAgent' = toAgent \/ toAgent' = <<>>
        /\ tray' = tray \/ tray' = Quiet
        /\ drops < MaxDrops /\ drops' = drops + 1
    BY DEF Reconnect, WindowDrops
  <1>2. /\ toViewer' \in [Windows -> Seq(MsgRow)]
        /\ \A o \in Windows : toViewer'[o] = toViewer[o] \/ toViewer'[o] = <<>>
    <2>1. toViewer \in [Windows -> Seq(MsgRow)] /\ <<>> \in Seq(MsgRow)
      BY <1>0 DEF TransferTyped
    <2>2. CASE Reconnect
      BY <2>1, <2>2 DEF Reconnect
    <2>3. CASE \E o \in Windows : WindowDrops(o)
      BY <2>1, <2>3 DEF WindowDrops
    <2> QED
      BY <2>2, <2>3
  <1>3. hurt' \subseteq Transfers
    <2>1. CASE Reconnect
      BY <1>0, <2>1 DEF Reconnect, TransferTyped
    <2>2. CASE \E o \in Windows : WindowDrops(o)
      BY <1>0, <2>2 DEF WindowDrops, TransferTyped
    <2> QED
      BY <2>1, <2>2
  <1>4. drops' \in 0 .. MaxDrops /\ toAgent' \in Seq(MsgRow)
    <2>1. drops \in 0 .. MaxDrops /\ MaxDrops \in Nat /\ toAgent \in Seq(MsgRow) /\ <<>> \in Seq(MsgRow)
      BY <1>0, TransferAssumption DEF TransferTyped, TransferAssumption
    <2>2. drops' \in 0 .. MaxDrops
      BY <1>1, <2>1
    <2> QED
      BY <1>1, <2>1, <2>2
  <1>5. tray' \in [up : Paths \cup {Nothing}, upPath : Paths \cup {Nothing}, dialog : Transfers \cup {Nothing}]
    BY <1>0, <1>1, FreshTyped DEF TransferTyped
  <1>6. IsFiniteSet(Drawn')
    BY <1>0, <1>1 DEF TransferTyped, Drawn
  <1>12. TransferTyped'
    BY <1>0, <1>1, <1>2, <1>3, <1>4, <1>5, <1>6 DEF TransferTyped
  <1>13. AgentGets /\ ViewersGet /\ DigestsGet
    BY <1>0, <1>1, <1>2, SameQueues, AgentKeeps, ViewersKeep
  <1>14. SealsKept
    BY <1>1, SealsQuiet DEF Quiet
  <1>15. RowsGoOn
    BY <1>1 DEF RowsGoOn
  <1>16. \A w \in Windows : dl'[w].of # Nothing => Collects(w, dl[w].of)'
    BY <1>1, DownloadsStay
  <1>18. (tray'.up # Nothing => tray'.upPath = tray'.up) /\ (tray'.dialog = tray.dialog \/ tray'.dialog = Nothing)
    BY <1>1 DEF MixInv, MessagesTell, Quiet
  <1> QED
    BY <1>12, <1>13, <1>14, <1>15, <1>16, <1>18, MixRows

\* A window handles the first message it got.
LEMMA MixView ==
    ASSUME MixInv, NEW o \in Windows, toViewer[o] # <<>>, toViewer' = [toViewer EXCEPT ![o] = Tail(@)],
           UNCHANGED <<reqId, toAgent, tray, disk, ghosts>>,
           xfer' \in [Transfers -> XferRow], IsFiniteSet(Drawn'), RowsGoOn,
           dl' \in [Windows -> Collected], \A w \in Windows : dl'[w].of # Nothing => Collects(w, dl[w].of)',
           digesting' \in [Windows -> Seq([dl : Collected, bytes : Bytes])], DigestsGet
    PROVE  MixInv'
  <1>1. TransferTyped /\ toViewer[o] \in Seq(MsgRow) /\ toViewer \in [Windows -> Seq(MsgRow)]
    BY DEF MixInv, TransferTyped
  <1>2. Tail(toViewer[o]) \in Seq(MsgRow)
    BY <1>1, TailHolds
  <1>3. toViewer' \in [Windows -> Seq(MsgRow)]
    BY <1>1, <1>2
  <1>4. TransferTyped'
    BY <1>1, <1>3 DEF TransferTyped, ghosts
  <1>5. ViewersGet
    <2>1. \A w \in Windows : toViewer'[w] = toViewer[w] \/ (toViewer[w] # <<>> /\ toViewer'[w] = Tail(toViewer[w]))
      BY <1>1
    <2> QED
      BY <1>1, <2>1, ViewersKeep
  <1>6. AgentGets /\ SealsKept
    BY SameQueues, SealsQuiet
  <1>7. tray'.up # Nothing => tray'.upPath = tray'.up
    BY DEF MixInv, MessagesTell
  <1> QED
    BY <1>4, <1>5, <1>6, <1>7, MixRows

LEMMA FirstOfViewer ==
    ASSUME MixInv, NEW o \in Windows, toViewer[o] # <<>>
    PROVE  /\ Head(toViewer[o]) = toViewer[o][1] /\ Head(toViewer[o]) \in MsgRow /\ ViewerMsg(Head(toViewer[o]))
           /\ Tail(toViewer[o]) \in Seq(MsgRow)
  <1>1. toViewer[o] \in Seq(MsgRow)
    BY DEF MixInv, TransferTyped
  <1>2. /\ Tail(toViewer[o]) \in Seq(MsgRow) /\ Head(toViewer[o]) = toViewer[o][1] /\ toViewer[o][1] \in MsgRow
        /\ 1 \in DOMAIN toViewer[o]
    BY <1>1, TailHolds
  <1>3. ViewerMsg(toViewer[o][1])
    BY <1>2 DEF MixInv, MessagesTell
  <1>4. PICK m : m = toViewer[o][1]
    OBVIOUS
  <1>5. ViewerMsg(m) /\ m = Head(toViewer[o])
    BY <1>2, <1>3, <1>4
  <1> QED
    BY <1>2, <1>5

LEMMA MixDestination ==
    ASSUME MixInv, NEW o \in Windows, toViewer[o] # <<>>, toViewer' = [toViewer EXCEPT ![o] = Tail(@)],
           UNCHANGED <<reqId, toAgent, tray, disk, ghosts>>, NEW m, m = Head(toViewer[o]), Destination(o, m)
    PROVE  MixInv'
  <1> USE NamesDiffer
  <1>0. TransferTyped /\ xfer \in [Transfers -> XferRow] /\ IsFiniteSet(Drawn)
    BY DEF MixInv, TransferTyped
  <1>1. m \in MsgRow /\ ViewerMsg(m)
    BY FirstOfViewer
  <1>2. m.rid \in Nat /\ m.of \in Transfers /\ m.path \in Paths \cup {Nothing}
    BY <1>1 DEF Destination, ViewerMsg, MsgRow
  <1>a. PICK waits :
             waits = IF m.t = "pull" THEN {t \in {m.of} : xfer[t].owner = o /\ xfer[t].pc = "offered"}
                     ELSE {t \in Mine(o, m) : xfer[t].pc = "asked" /\ xfer[t].way \in {"put", "ask"}}
    OBVIOUS
  <1>3. xfer' = [t \in Transfers |->
                  IF t \notin waits THEN xfer[t]
                  ELSE IF m.path = Nothing THEN [xfer[t] EXCEPT !.pc = "told", !.told.tag = "cancelled"]
                  ELSE [xfer[t] EXCEPT !.pc = "streaming", !.rid = m.rid, !.path = m.path]]
    BY <1>a DEF Destination
  <1>4. ASSUME NEW t \in Transfers, t \in waits
        PROVE  /\ ~IsGet(t) /\ (t = m.of \/ xfer[t].rid = m.rid)
               /\ xfer'[t] \in XferRow /\ xfer'[t].pc \in {"told", "streaming"}
               /\ xfer'[t].way = xfer[t].way /\ xfer'[t].owner = xfer[t].owner
               /\ \/ xfer'[t].told.tag = "cancelled"
                  \/ xfer'[t].told = xfer[t].told /\ xfer'[t].saved = xfer[t].saved
               /\ (xfer'[t].rid = m.rid \/ xfer'[t].rid = xfer[t].rid)
    <2>1. xfer[t] \in XferRow
      BY <1>0
    <2>2. ~IsGet(t) /\ (t = m.of \/ xfer[t].rid = m.rid)
      BY <1>a, <1>4 DEF Mine, IsGet, MixInv, MessagesTell
    <2>3. CASE m.path = Nothing
      <3>1. xfer'[t] = [xfer[t] EXCEPT !.pc = "told", !.told.tag = "cancelled"]
        BY <1>3, <1>4, <2>3
      <3>2. PICK g \in Tags : g = "cancelled"
        BY DEF Tags
      <3>3. PICK x \in XferRow : x = xfer[t]
        BY <2>1
      <3>4. PICK r \in XferRow :
              /\ r = [x EXCEPT !.pc = "told", !.told.tag = g]
              /\ r.pc = "told" /\ r.told.tag = g /\ r.way = x.way /\ r.owner = x.owner /\ r.rid = x.rid
              /\ r.path = x.path /\ r.saved = x.saved
        BY ToldRow, Zenon
      <3>5. xfer'[t] = r
        BY <3>1, <3>2, <3>3, <3>4
      <3> QED
        BY <2>2, <3>2, <3>3, <3>4, <3>5
    <2>4. CASE m.path # Nothing
      <3>1. xfer'[t] = [xfer[t] EXCEPT !.pc = "streaming", !.rid = m.rid, !.path = m.path]
        BY <1>3, <1>4, <2>4
      <3> QED
        BY <2>1, <2>2, <3>1, <1>2 DEF XferRow
    <2> QED
      BY <2>3, <2>4
  <1>5. \A t \in Transfers : t \notin waits => xfer'[t] = xfer[t]
    BY <1>3
  <1>6. xfer' \in [Transfers -> XferRow]
    <2>1. \A t \in Transfers : xfer'[t] \in XferRow
      BY <1>0, <1>4, <1>5
    <2> QED
      BY <1>3, <2>1
  <1>7. IsFiniteSet(Drawn')
    <2>1. Drawn' \subseteq Drawn \cup {m.of}
      BY <1>4, <1>5 DEF Drawn
    <2> QED
      BY <1>0, <2>1, FS_AddElement, FS_Subset
  <1>8. RowsGoOn
    <2>1. ASSUME NEW t \in Transfers, t \in waits
          PROVE  \/ xfer'[t].told.tag # "verified"
                 \/ xfer'[t].told = xfer[t].told /\ xfer'[t].saved = xfer[t].saved
      BY <1>4, <2>1
    <2> QED
      BY <1>4, <1>5, <2>1 DEF RowsGoOn, Begun
  <1>9. UNCHANGED <<dl, digesting>>
    BY DEF Destination
  <1>10. \A t \in Transfers : xfer[t].pc = "asked" /\ IsGet(t) => xfer'[t] = xfer[t]
    BY <1>4, <1>5
  <1>11. \A w \in Windows : dl'[w].of # Nothing => Collects(w, dl[w].of)'
    BY <1>9, <1>10, DownloadsStay
  <1>12. /\ dl' \in [Windows -> Collected] /\ digesting' \in [Windows -> Seq([dl : Collected, bytes : Bytes])]
         /\ DigestsGet
    BY <1>0, <1>9, SameQueues DEF TransferTyped
  <1> QED
    BY <1>6, <1>7, <1>8, <1>11, <1>12, MixView

LEMMA MixSent ==
    ASSUME MixInv, NEW o \in Windows, toViewer[o] # <<>>, toViewer' = [toViewer EXCEPT ![o] = Tail(@)],
           UNCHANGED <<reqId, toAgent, tray, disk, ghosts>>, NEW m, m = Head(toViewer[o]), Sent(o, m)
    PROVE  MixInv'
  <1> USE NamesDiffer
  <1>0. TransferTyped /\ xfer \in [Transfers -> XferRow] /\ IsFiniteSet(Drawn)
    BY DEF MixInv, TransferTyped
  <1>1. m \in MsgRow /\ ViewerMsg(m) /\ m.t = "sent"
    BY FirstOfViewer DEF Sent
  <1>2. m.version \in Nat /\ m.path \in Paths \cup {Nothing}
    BY <1>1 DEF ViewerMsg, MsgRow
  <1> DEFINE tag(t) == IF ~xfer[t].hashed \/ m.path = Nothing THEN "sent"
                       ELSE IF Agrees(m.bytes, Content(t)) THEN "verified" ELSE "mismatch"
  <1>3. PICK about :
          /\ about = {t \in Mine(o, m) : /\ xfer[t].way # "get"
                                         /\ xfer[t].pc \in {"streaming", "ended"} \/ m.of = t}
          /\ xfer' = [t \in Transfers |->
                  IF t \notin about THEN xfer[t]
                  ELSE [xfer[t] EXCEPT !.pc = IF @ = "ended" THEN "told" ELSE @, !.hashed = FALSE,
                                       !.told = [tag |-> tag(t), path |-> m.path, version |-> m.version]]]
    BY DEF Sent
  <1>4. ASSUME NEW t \in Transfers, t \in about
        PROVE  /\ ~IsGet(t) /\ xfer'[t] \in XferRow
               /\ xfer'[t].pc = (IF xfer[t].pc = "ended" THEN "told" ELSE xfer[t].pc)
               /\ xfer'[t].way = xfer[t].way /\ xfer'[t].owner = xfer[t].owner /\ xfer'[t].rid = xfer[t].rid
               /\ xfer'[t].told.tag = tag(t) /\ xfer'[t].told.path = m.path /\ xfer'[t].told.version = m.version
    <2>1. xfer[t] \in XferRow
      BY <1>0
    <2>2. ~IsGet(t)
      BY <1>3, <1>4 DEF IsGet
    <2>a. PICK g \in Tags : g = tag(t)
      BY DEF Tags
    <2> HIDE DEF tag
    <2>3. PICK l \in [tag : Tags, path : Paths \cup {Nothing}, version : Nat] :
              l = [tag |-> tag(t), path |-> m.path, version |-> m.version]
      BY <1>2, <2>a
    <2>b. l.tag = tag(t) /\ l.path = m.path /\ l.version = m.version
      BY <2>3
    <2>4. PICK c \in {"new", "asked", "offered", "streaming", "ended", "told"} :
              c = IF xfer[t].pc = "ended" THEN "told" ELSE xfer[t].pc
      BY <2>1 DEF XferRow
    <2>5. xfer'[t] = [xfer[t] EXCEPT !.pc = c, !.hashed = FALSE, !.told = l]
      BY <1>3, <1>4, <2>3, <2>4, <2>1 DEF XferRow
    <2>6. /\ xfer'[t] \in XferRow /\ xfer'[t].pc = c /\ xfer'[t].told = l
          /\ xfer'[t].way = xfer[t].way /\ xfer'[t].owner = xfer[t].owner /\ xfer'[t].rid = xfer[t].rid
      BY <2>1, <2>5 DEF XferRow
    <2> QED
      BY <2>2, <2>b, <2>4, <2>6
  <1>5. \A t \in Transfers : t \notin about => xfer'[t] = xfer[t]
    BY <1>3
  <1>6. xfer' \in [Transfers -> XferRow]
    <2>1. \A t \in Transfers : xfer'[t] \in XferRow
      BY <1>0, <1>4, <1>5
    <2> QED
      BY <1>3, <2>1
  <1>7. IsFiniteSet(Drawn')
    <2>1. Drawn' = Drawn
      BY <1>4, <1>5 DEF Drawn
    <2> QED
      BY <1>0, <2>1
  <1>8. RowsGoOn
    <2>1. ASSUME NEW t \in Transfers, t \in about, xfer'[t].told.tag = "verified"
          PROVE  Verified(t)'
      <3>1. tag(t) = "verified" /\ xfer'[t].told.path = m.path /\ xfer'[t].told.version = m.version
        BY <1>4, <2>1
      <3>2. m.path # Nothing /\ m.bytes = Content(t)
        BY <3>1 DEF Agrees
      <3>3. Sealed(m.path, m.version, m.bytes)
        BY <1>1, <3>2 DEF ViewerMsg
      <3>4. m.path \in Paths /\ m.version <= disk'[m.path].version
            /\ (disk'[m.path].version = m.version => disk'[m.path].bytes = Content(t) /\ tray'.up # m.path)
        BY <3>2, <3>3 DEF Sealed
      <3>5. ~IsGet(t)'
        BY <1>4, <2>1 DEF IsGet
      <3> QED
        BY <3>1, <3>4, <3>5 DEF Verified, Sealed, Content
    <2>2. ASSUME NEW t \in Transfers, t \in about
          PROVE  Begun(t) => Begun(t)'
      BY <1>4, <2>2 DEF Begun
    <2> HIDE DEF tag
    <2> QED
      BY <1>4, <1>5, <2>1, <2>2 DEF RowsGoOn
  <1>9. UNCHANGED <<dl, digesting>>
    BY DEF Sent
  <1>10. \A t \in Transfers : xfer[t].pc = "asked" /\ IsGet(t) => xfer'[t] = xfer[t]
    BY <1>4, <1>5
  <1>11. \A w \in Windows : dl'[w].of # Nothing => Collects(w, dl[w].of)'
    BY <1>9, <1>10, DownloadsStay
  <1>12. /\ dl' \in [Windows -> Collected] /\ digesting' \in [Windows -> Seq([dl : Collected, bytes : Bytes])]
         /\ DigestsGet
    BY <1>0, <1>9, SameQueues DEF TransferTyped
  <1> QED
    BY <1>6, <1>7, <1>8, <1>11, <1>12, MixView

LEMMA MixCollect ==
    ASSUME MixInv, NEW o \in Windows, toViewer[o] # <<>>, toViewer' = [toViewer EXCEPT ![o] = Tail(@)],
           UNCHANGED <<reqId, toAgent, tray, disk, ghosts>>, NEW m, m = Head(toViewer[o]), Collect(o, m)
    PROVE  MixInv'
  <1> USE NamesDiffer
  <1>0. TransferTyped /\ dl \in [Windows -> Collected] /\ dl[o] \in Collected /\ dl[o].chunks \in Bytes
    BY DEF MixInv, TransferTyped, Collected
  <1>1. m \in MsgRow /\ m.bytes \in Bytes
    BY FirstOfViewer DEF MsgRow
  <1>2. PICK c \in Bytes : c = IF dl[o].of = Nothing THEN dl[o].chunks ELSE dl[o].chunks \o m.bytes
    <2>1. dl[o].chunks \o m.bytes \in Bytes
      BY <1>0, <1>1 DEF Bytes
    <2> QED
      BY <1>0, <2>1
  <1>3. dl' = [dl EXCEPT ![o].chunks = c] /\ UNCHANGED <<xfer, digesting>>
    BY <1>2 DEF Collect
  <1>4. dl' \in [Windows -> Collected] /\ \A w \in Windows : dl'[w].of = dl[w].of
    BY <1>0, <1>2, <1>3 DEF Collected
  <1>5. \A w \in Windows : dl'[w].of # Nothing => Collects(w, dl[w].of)'
    <2> SUFFICES ASSUME NEW w \in Windows, dl[w].of # Nothing
                 PROVE  Collects(w, dl[w].of)'
      BY <1>4
    <2>1. Collects(w, dl[w].of)
      BY DEF MixInv, MessagesTell
    <2> QED
      BY <1>3, <1>4, <2>1 DEF Collects, IsGet
  <1>6. /\ xfer' \in [Transfers -> XferRow] /\ IsFiniteSet(Drawn')
        /\ digesting' \in [Windows -> Seq([dl : Collected, bytes : Bytes])] /\ DigestsGet
    BY <1>0, <1>3, SameQueues DEF TransferTyped, Drawn
  <1>7. RowsGoOn
    BY <1>3 DEF RowsGoOn
  <1> QED
    BY <1>4, <1>5, <1>6, <1>7, MixView

\* The transfer that is collected is told, and nothing is collected.
LEMMA DownloadEnds ==
    ASSUME MixInv, NEW o \in Windows, dl' = [dl EXCEPT ![o] = NoDownload],
           \A t \in Transfers : xfer[t].owner # o => xfer'[t] = xfer[t]
    PROVE  /\ dl' \in [Windows -> Collected]
           /\ \A w \in Windows : dl'[w].of # Nothing => Collects(w, dl[w].of)'
  <1>0. dl \in [Windows -> Collected]
    BY DEF MixInv, TransferTyped
  <1>1. dl' \in [Windows -> Collected] /\ dl'[o] = NoDownload
    BY <1>0, FreshTyped
  <1>2. ASSUME NEW w \in Windows, dl'[w].of # Nothing
        PROVE  Collects(w, dl[w].of)'
    <2>1. w # o /\ dl'[w] = dl[w]
      BY <1>0, <1>1, <1>2 DEF NoDownload
    <2>2. dl[w].of \in Transfers /\ Collects(w, dl[w].of)
      BY <1>0, <1>2, <2>1 DEF MixInv, MessagesTell, Collected
    <2>3. xfer'[dl[w].of] = xfer[dl[w].of]
      BY <2>1, <2>2 DEF Collects
    <2> QED
      BY <2>1, <2>2, <2>3 DEF Collects, IsGet
  <1> QED
    BY <1>1, <1>2

LEMMA MixDownloaded ==
    ASSUME MixInv, NEW o \in Windows, toViewer[o] # <<>>, toViewer' = [toViewer EXCEPT ![o] = Tail(@)],
           UNCHANGED <<reqId, toAgent, tray, disk, ghosts>>, NEW m, m = Head(toViewer[o]), Downloaded(o, m)
    PROVE  MixInv'
  <1> USE NamesDiffer
  <1>0. /\ TransferTyped /\ dl \in [Windows -> Collected] /\ dl[o] \in Collected
        /\ digesting \in [Windows -> Seq([dl : Collected, bytes : Bytes])]
        /\ xfer \in [Transfers -> XferRow] /\ IsFiniteSet(Drawn)
    BY DEF MixInv, TransferTyped
  <1>1. m \in MsgRow /\ m.bytes \in Bytes /\ m.of \in Transfers /\ ViewerMsg(m) /\ m.t = "got"
    BY FirstOfViewer DEF MsgRow, Downloaded
  <1>2. CASE dl[o].of # Nothing /\ m.path # Nothing
    <2>1. UNCHANGED <<xfer, dl>>
      BY <1>2 DEF Downloaded
    <2>2. PICK d \in [dl : Collected, bytes : Bytes] : d = [dl |-> dl[o], bytes |-> m.bytes]
      BY <1>0, <1>1
    <2>3. digesting' = [digesting EXCEPT ![o] = Append(@, d)]
      BY <1>2, <2>2 DEF Downloaded
    <2>4. digesting[o] \in Seq([dl : Collected, bytes : Bytes])
      BY <1>0
    <2>5. /\ Append(digesting[o], d) \in Seq([dl : Collected, bytes : Bytes])
          /\ Append(digesting[o], d)[Len(digesting[o]) + 1] = d
          /\ \A i \in DOMAIN digesting[o] : Append(digesting[o], d)[i] = digesting[o][i]
          /\ \A i \in DOMAIN Append(digesting[o], d) : i \in DOMAIN digesting[o] \/ i = Len(digesting[o]) + 1
      BY <2>4, AppendedHolds
    <2>6. digesting' \in [Windows -> Seq([dl : Collected, bytes : Bytes])]
      BY <1>0, <2>3, <2>5
    <2>7. Digest(o, d)'
      <3>1. dl[o].of \in Transfers /\ Collects(o, dl[o].of)
        BY <1>0, <1>2 DEF MixInv, MessagesTell, Collected
      <3>2. d.bytes = Content(m.of) /\ d.dl.of = dl[o].of
        BY <1>1, <1>2, <2>2 DEF ViewerMsg
      <3> QED
        BY <1>1, <2>1, <3>1, <3>2 DEF Digest, Collects, Begun, IsGet, Content
    <2>8. DigestsGet
      <3> SUFFICES ASSUME NEW w \in Windows, NEW i \in DOMAIN digesting'[w],
                          ~ \E j \in DOMAIN digesting[w] : digesting'[w][i] = digesting[w][j]
                   PROVE  Digest(w, digesting[w][i])'
        BY DEF DigestsGet
      <3>1. w = o /\ digesting'[w][i] = d
        BY <1>0, <2>3, <2>5
      <3> QED
        BY <2>7, <3>1 DEF Digest
    <2>9. \A w \in Windows : dl'[w].of # Nothing => Collects(w, dl[w].of)'
      BY <2>1, DownloadsStay
    <2>10. RowsGoOn
      BY <2>1 DEF RowsGoOn
    <2>11. xfer' \in [Transfers -> XferRow] /\ IsFiniteSet(Drawn') /\ dl' \in [Windows -> Collected]
      BY <1>0, <2>1 DEF Drawn
    <2> QED
      BY <2>6, <2>8, <2>9, <2>10, <2>11, MixView
  <1>3. CASE ~(dl[o].of # Nothing /\ m.path # Nothing)
    <2> DEFINE ends(t) == t = dl[o].of \/ (dl[o].of = Nothing /\ t \in Mine(o, m) /\ m.of = t)
    <2>1. /\ xfer' = [t \in Transfers |->
                          IF ends(t) THEN [xfer[t] EXCEPT !.pc = "told", !.told.tag = "failed"] ELSE xfer[t]]
          /\ dl' = [dl EXCEPT ![o] = NoDownload] /\ UNCHANGED digesting
      BY <1>3 DEF Downloaded
    <2>2. ASSUME NEW t \in Transfers, ends(t)
          PROVE  xfer[t].owner = o
      BY <2>2 DEF Mine, Collects, MixInv, MessagesTell
    <2> HIDE DEF ends
    <2>3. ASSUME NEW t \in Transfers, ends(t)
          PROVE  /\ xfer'[t] \in XferRow /\ xfer'[t].pc = "told" /\ xfer'[t].told.tag = "failed"
                 /\ xfer'[t].way = xfer[t].way /\ xfer'[t].owner = xfer[t].owner /\ xfer'[t].rid = xfer[t].rid
      <3>1. PICK x \in XferRow, tag \in Tags : x = xfer[t] /\ tag = "failed"
        BY <1>0 DEF Tags
      <3>2. PICK r \in XferRow :
              /\ r = [x EXCEPT !.pc = "told", !.told.tag = tag]
              /\ r.pc = "told" /\ r.told.tag = tag /\ r.way = x.way /\ r.owner = x.owner /\ r.rid = x.rid
              /\ r.path = x.path /\ r.saved = x.saved
        BY ToldRow, Zenon
      <3>3. xfer'[t] = r
        BY <2>1, <2>3, <3>1, <3>2
      <3> QED
        BY <3>1, <3>2, <3>3
    <2>4. \A t \in Transfers : ~ends(t) => xfer'[t] = xfer[t]
      BY <2>1
    <2>5. xfer' \in [Transfers -> XferRow]
      <3>1. \A t \in Transfers : xfer'[t] \in XferRow
        BY <1>0, <2>3, <2>4
      <3> QED
        BY <2>1, <3>1
    <2>6. IsFiniteSet(Drawn')
      <3>1. Drawn' = Drawn
        BY <2>3, <2>4 DEF Drawn
      <3> QED
        BY <1>0, <3>1
    <2>7. RowsGoOn
      BY <2>3, <2>4 DEF RowsGoOn, Begun
    <2>8. /\ dl' \in [Windows -> Collected]
          /\ \A w \in Windows : dl'[w].of # Nothing => Collects(w, dl[w].of)'
      BY <2>1, <2>2, <2>4, DownloadEnds
    <2>9. digesting' \in [Windows -> Seq([dl : Collected, bytes : Bytes])] /\ DigestsGet
      BY <1>0, <2>1, SameQueues
    <2> QED
      BY <2>5, <2>6, <2>7, <2>8, <2>9, MixView
  <1> QED
    BY <1>2, <1>3

LEMMA MixViews ==
    ASSUME MixInv, NEW o \in Windows, View(o)
    PROVE  MixInv'
  <1>1. PICK m : m = Head(toViewer[o])
    OBVIOUS
  <1>2. /\ toViewer[o] # <<>> /\ toViewer' = [toViewer EXCEPT ![o] = Tail(@)]
        /\ UNCHANGED <<reqId, toAgent, tray, disk, ghosts>>
        /\ Destination(o, m) \/ Sent(o, m) \/ Collect(o, m) \/ Downloaded(o, m)
    BY <1>1 DEF View
  <1> QED
    BY <1>1, <1>2, MixDestination, MixSent, MixCollect, MixDownloaded

LEMMA MixDigested ==
    ASSUME MixInv, NEW o \in Windows, Digested(o)
    PROVE  /\ MixInv'
           /\ digesting[o] # <<>> /\ digesting' = [digesting EXCEPT ![o] = Tail(@)]
           /\ LET d == digesting[o][1] IN
                     /\ d.dl.of \in Transfers
                     /\ \A t \in Transfers : t # d.dl.of => xfer'[t] = xfer[t]
                     /\ xfer'[d.dl.of].pc = "told" /\ xfer'[d.dl.of].saved = d.dl.chunks
                     /\ xfer'[d.dl.of].owner = o /\ xfer[d.dl.of].owner = o /\ IsGet(d.dl.of) /\ xfer'[d.dl.of].way = "get"
                     /\ (d.dl.chunks = d.bytes => xfer'[d.dl.of].told.tag = "verified")
  <1> USE NamesDiffer
  <1>0. /\ TransferTyped /\ xfer \in [Transfers -> XferRow]
        /\ digesting \in [Windows -> Seq([dl : Collected, bytes : Bytes])]
        /\ digesting[o] \in Seq([dl : Collected, bytes : Bytes]) /\ digesting[o] # <<>>
    BY DEF MixInv, TransferTyped, Digested
  <1>1. /\ Head(digesting[o]) = digesting[o][1] /\ 1 \in DOMAIN digesting[o]
        /\ digesting[o][1] \in [dl : Collected, bytes : Bytes]
        /\ Tail(digesting[o]) \in Seq([dl : Collected, bytes : Bytes])
        /\ \A i \in DOMAIN Tail(digesting[o]) : i + 1 \in DOMAIN digesting[o] /\ Tail(digesting[o])[i] = digesting[o][i + 1]
    BY <1>0, TailHolds
  <1>2. PICK d \in [dl : Collected, bytes : Bytes] : d = digesting[o][1]
    BY <1>1
  <1>3. Digest(o, d)
    BY <1>1, <1>2 DEF MixInv, MessagesTell
  <1>4. PICK t \in Transfers : t = d.dl.of /\ Begun(t) /\ IsGet(t) /\ xfer[t].owner = o
    BY <1>3 DEF Digest
  <1>5. PICK tag \in Tags : tag = IF Agrees(d.dl.chunks, d.bytes) THEN "verified" ELSE "mismatch"
    BY DEF Tags
  <1>6. PICK x \in XferRow : x = xfer[t]
    BY <1>0
  <1>7. PICK q \in XferRow :
              /\ q = [x EXCEPT !.pc = "told", !.told.tag = tag]
              /\ q.pc = "told" /\ q.told.tag = tag /\ q.way = x.way /\ q.owner = x.owner /\ q.rid = x.rid
              /\ q.path = x.path /\ q.saved = x.saved
    BY ToldRow, Zenon
  <1>8. d.dl.chunks \in Bytes
    BY <1>2 DEF Collected
  <1>9. PICK r \in XferRow : r = [q EXCEPT !.saved = d.dl.chunks]
    BY <1>8 DEF XferRow
  <1>10. /\ r.pc = "told" /\ r.told.tag = tag /\ r.way = x.way /\ r.owner = x.owner /\ r.rid = x.rid
         /\ r.saved = d.dl.chunks
    BY <1>7, <1>8, <1>9 DEF XferRow
  <1>11. r = [x EXCEPT !.pc = "told", !.saved = d.dl.chunks, !.told.tag = tag]
    BY <1>7, <1>9 DEF XferRow
  <1>12. xfer' = [xfer EXCEPT ![t] = r]
    <2>1. xfer' = [xfer EXCEPT ![t].pc = "told", ![t].saved = d.dl.chunks, ![t].told.tag = tag]
      BY <1>1, <1>2, <1>4, <1>5 DEF Digested
    <2> QED
      BY <1>0, <1>6, <1>11, <2>1 DEF XferRow
  <1>13. /\ xfer' \in [Transfers -> XferRow] /\ IsFiniteSet(Drawn')
         /\ xfer'[t] = r /\ \A u \in Transfers : u # t => xfer'[u] = xfer[u]
    BY <1>0, <1>12, RowWritten
  <1>14. /\ digesting' = [digesting EXCEPT ![o] = Tail(@)] /\ dl' = [dl EXCEPT ![o] = NoDownload]
         /\ UNCHANGED <<reqId, toAgent, toViewer, tray, disk, ghosts>>
    BY DEF Digested
  <1>15. /\ dl' \in [Windows -> Collected]
         /\ \A w \in Windows : dl'[w].of # Nothing => Collects(w, dl[w].of)'
    BY <1>4, <1>13, <1>14, DownloadEnds
  <1>16. digesting' \in [Windows -> Seq([dl : Collected, bytes : Bytes])]
    BY <1>0, <1>1, <1>14
  <1>17. DigestsGet
    BY <1>0, <1>1, <1>14 DEF DigestsGet
  <1>18. TransferTyped'
    BY <1>0, <1>13, <1>14, <1>15, <1>16 DEF TransferTyped, ghosts
  <1>19. RowsGoOn
    <2>1. IsGet(t)' /\ Begun(t)'
      BY <1>4, <1>6, <1>10, <1>13 DEF IsGet, Begun
    <2>2. r.told.tag = "verified" => Verified(t)'
      <3> SUFFICES ASSUME tag = "verified"
                   PROVE  Verified(t)'
        BY <1>10
      <3>1. d.dl.chunks = d.bytes
        BY <1>5 DEF Agrees
      <3>2. PICK u \in Transfers : d.bytes = Content(u)
        BY <1>3 DEF Digest
      <3> QED
        BY <1>10, <1>13, <2>1, <3>1, <3>2 DEF Verified, Content
    <2> QED
      BY <1>6, <1>10, <1>13, <2>1, <2>2 DEF RowsGoOn
  <1>20. AgentGets /\ ViewersGet /\ SealsKept
    BY <1>14, SameQueues, SealsQuiet
  <1>21. tray'.up # Nothing => tray'.upPath = tray'.up
    BY <1>14 DEF MixInv, MessagesTell
  <1>22. MixInv'
    BY <1>14, <1>15, <1>17, <1>18, <1>19, <1>20, <1>21, MixRows
  <1>23. d.dl.chunks = d.bytes => r.told.tag = "verified"
    BY <1>5, <1>10 DEF Agrees
  <1>24. IsGet(t)'
    BY <1>4, <1>6, <1>10, <1>13 DEF IsGet
  <1> QED
    BY <1>0, <1>2, <1>4, <1>6, <1>10, <1>13, <1>14, <1>22, <1>23, <1>24 DEF IsGet

(***************************************************************************)
(* Every step of the agent keeps what the messages stand for.              *)
(***************************************************************************)
TrayRow == [up : Paths \cup {Nothing}, upPath : Paths \cup {Nothing}, dialog : Transfers \cup {Nothing}]
DiskRow == [bytes : Bytes, version : Nat]

LEMMA MixServe ==
    ASSUME MixInv, UNCHANGED <<xfer, reqId, dl, digesting, ghosts>>, toAgent' \in Seq(MsgRow), AgentGets,
           toViewer' \in [Windows -> Seq(MsgRow)], ViewersGet,
           tray' \in TrayRow, disk' \in [Paths -> DiskRow], SealsKept,
           \/ tray'.dialog = tray.dialog \/ tray'.dialog = Nothing
           \/ \E u \in Transfers : tray'.dialog = u /\ Begun(u) /\ ~IsGet(u),
           tray'.up # Nothing => tray'.upPath = tray'.up
    PROVE  MixInv'
  <1>1. TransferTyped
    BY DEF MixInv
  <1>2. TransferTyped'
    BY <1>1 DEF TransferTyped, ghosts, Drawn, TrayRow, DiskRow
  <1>3. DigestsGet /\ RowsGoOn
    BY SameQueues DEF RowsGoOn
  <1>4. \A w \in Windows : dl'[w].of # Nothing => Collects(w, dl[w].of)'
    BY DownloadsStay
  <1> QED
    BY <1>2, <1>3, <1>4, MixRows

\* A message about the destination or the end of an upload.
LEMMA TellsViewers ==
    ASSUME TransferTyped, NEW m \in MsgRow, Broadcast(<<m>>)
    PROVE  toViewer' \in [Windows -> Seq(MsgRow)] /\ (ViewerMsg(m)' => ViewersGet)
  <1>1. PICK ms \in Seq(MsgRow) : ms = <<m>> /\ DOMAIN ms = {1} /\ ms[1] = m
    BY OneHolds
  <1>2. Broadcast(ms)
    BY <1>1
  <1>3. /\ toViewer' \in [Windows -> Seq(MsgRow)]
        /\ (\A i \in DOMAIN ms : ViewerMsg(ms[i])') => ViewersGet
    BY <1>2, BroadcastDoes
  <1>4. ViewerMsg(m)' => \A i \in DOMAIN ms : ViewerMsg(ms[i])'
    BY <1>1 DEF ViewerMsg
  <1> QED
    BY <1>3, <1>4

LEMMA TellsAppend ==
    ASSUME TransferTyped, NEW a \in MsgRow, Broadcast(<<a>>)
    PROVE  \A w \in Windows : toViewer'[w] = Append(toViewer[w], a)
  <1> SUFFICES ASSUME NEW w \in Windows
               PROVE  toViewer'[w] = Append(toViewer[w], a)
    OBVIOUS
  <1>1. toViewer[w] \in Seq(MsgRow) /\ toViewer'[w] = toViewer[w] \o <<a>>
    BY DEF TransferTyped, Broadcast
  <1>2. PICK s \in Seq(MsgRow) : s = toViewer[w]
    BY <1>1
  <1>3. s \o <<a>> = Append(s, a)
    OBVIOUS
  <1> QED
    BY <1>1, <1>2, <1>3

LEMMA CreateKeeps ==
    ASSUME MixInv, NEW p \in Paths, NEW m, NEW kind \in {"dest", "pull"}, m.rid \in Nat, m.of \in Transfers,
           tray' \in TrayRow, tray'.up = p,
           disk' = [disk EXCEPT ![p] = [bytes |-> <<>>, version |-> @.version + 1]],
           Broadcast(<<[Msg(kind, m.rid, m.of) EXCEPT !.path = p]>>)
    PROVE  /\ disk' \in [Paths -> DiskRow] /\ SealsKept /\ disk'[p].bytes = <<>>
           /\ toViewer' \in [Windows -> Seq(MsgRow)] /\ (Begun(m.of)' /\ ~IsGet(m.of)' => ViewersGet)
           /\ \E a \in MsgRow : /\ a.t = kind /\ a.of = m.of /\ a.rid = m.rid /\ a.path = p
                                /\ \A w \in Windows : toViewer'[w] = Append(toViewer[w], a)
  <1> USE NamesDiffer
  <1>0. TransferTyped
    BY DEF MixInv
  <1>1. disk' \in [Paths -> DiskRow] /\ SealsKept /\ disk'[p].bytes = <<>>
    BY <1>0, SealsOpen DEF DiskRow
  <1>2. PICK b \in MsgRow : b = Msg(kind, m.rid, m.of)
    BY MsgTyped
  <1>3. PICK a \in MsgRow : a = [Msg(kind, m.rid, m.of) EXCEPT !.path = p]
    BY <1>2 DEF MsgRow
  <1>4. a.t = kind /\ a.of = m.of /\ a.rid = m.rid /\ a.path = p
    BY <1>3 DEF Msg
  <1>5. Broadcast(<<a>>)
    BY <1>3
  <1>6. toViewer' \in [Windows -> Seq(MsgRow)] /\ (ViewerMsg(a)' => ViewersGet)
    BY <1>0, <1>5, TellsViewers
  <1>7. Begun(m.of)' /\ ~IsGet(m.of)' => ViewerMsg(a)'
    BY <1>4 DEF ViewerMsg, Begun, IsGet
  <1>8. \A w \in Windows : toViewer'[w] = Append(toViewer[w], a)
    BY <1>5, <1>0, TellsAppend
  <1> QED
    BY <1>1, <1>4, <1>6, <1>7, <1>8

LEMMA NoDestinationKeeps ==
    ASSUME MixInv, NEW m, m.rid \in Nat, m.of \in Transfers, NoDestination(m)
    PROVE  /\ disk' = disk /\ SealsKept /\ tray' \in TrayRow /\ tray'.up = Nothing /\ tray'.dialog = Nothing
           /\ toViewer' \in [Windows -> Seq(MsgRow)] /\ (Begun(m.of)' /\ ~IsGet(m.of)' => ViewersGet)
           /\ \E a \in MsgRow : /\ a.t = "dest" /\ a.of = m.of /\ a.rid = m.rid /\ a.path = Nothing
                                /\ \A w \in Windows : toViewer'[w] = Append(toViewer[w], a)
  <1> USE NamesDiffer
  <1>0. TransferTyped /\ tray \in TrayRow
    BY DEF MixInv, TransferTyped, TrayRow
  <1>1. tray' \in TrayRow /\ tray'.up = Nothing /\ tray'.dialog = Nothing /\ disk' = disk
    BY <1>0 DEF NoDestination, TrayRow
  <1>2. PICK a \in MsgRow : a = Msg("dest", m.rid, m.of)
    BY MsgTyped
  <1>3. a.t = "dest" /\ a.of = m.of /\ a.rid = m.rid /\ a.path = Nothing /\ Broadcast(<<a>>)
    BY <1>2 DEF Msg, NoDestination
  <1>4. toViewer' \in [Windows -> Seq(MsgRow)] /\ (ViewerMsg(a)' => ViewersGet)
    BY <1>0, <1>3, TellsViewers
  <1>5. Begun(m.of)' /\ ~IsGet(m.of)' => ViewerMsg(a)'
    BY <1>3 DEF ViewerMsg, Begun, IsGet
  <1>6. \A w \in Windows : toViewer'[w] = Append(toViewer[w], a)
    BY <1>3, <1>0, TellsAppend
  <1> QED
    BY <1>1, <1>3, <1>4, <1>5, <1>6, SealsQuiet

\* What the agent sends of a file that is asked for.
LEMMA GetSends ==
    ASSUME NEW m \in MsgRow
    PROVE  \E ms \in Seq(MsgRow) :
             /\ ms = [i \in 1 .. Chunks |-> [Msg("chunk", m.rid, m.of) EXCEPT !.bytes = <<Content(m.of)[i]>>]]
                     \o <<[Msg("got", m.rid, m.of) EXCEPT !.path = m.of, !.bytes = Content(m.of)]>>
             /\ Len(ms) = Chunks + 1
             /\ \A i \in 1 .. Chunks : ms[i].t = "chunk" /\ ms[i].of = m.of /\ ms[i].bytes = <<<<m.of, i>>>>
             /\ ms[Chunks + 1].t = "got" /\ ms[Chunks + 1].of = m.of /\ ms[Chunks + 1].path = m.of
             /\ ms[Chunks + 1].bytes = Content(m.of)
  <1> USE NamesDiffer
  <1>0. m.rid \in Nat /\ m.of \in Transfers
    BY DEF MsgRow
  <1>1. PICK q \in [1 .. Chunks -> MsgRow] :
             /\ q = [i \in 1 .. Chunks |-> [Msg("chunk", m.rid, m.of) EXCEPT !.bytes = <<Content(m.of)[i]>>]]
             /\ \A i \in 1 .. Chunks : q[i].t = "chunk" /\ q[i].of = m.of /\ q[i].bytes = <<<<m.of, i>>>>
    <2> DEFINE entry(i) == [Msg("chunk", m.rid, m.of) EXCEPT !.bytes = <<Content(m.of)[i]>>]
    <2>1. ASSUME NEW i \in 1 .. Chunks
          PROVE  entry(i) \in MsgRow /\ entry(i).t = "chunk" /\ entry(i).of = m.of /\ entry(i).bytes = <<<<m.of, i>>>>
      <3>1. Content(m.of)[i] = <<m.of, i>> /\ <<m.of, i>> \in Transfers \X Nat
        BY <1>0, ContentTyped
      <3>2. PICK b \in Bytes : b = <<Content(m.of)[i]>>
        BY <3>1, OneHolds DEF Bytes
      <3>3. PICK a \in MsgRow : a = Msg("chunk", m.rid, m.of)
        BY <1>0, MsgTyped
      <3>4. entry(i) = [a EXCEPT !.bytes = b]
        BY <3>2, <3>3
      <3>5. a.t = "chunk" /\ a.of = m.of
        BY <3>3 DEF Msg
      <3>6. entry(i) \in MsgRow /\ entry(i).t = a.t /\ entry(i).of = a.of /\ entry(i).bytes = b
        BY <3>4 DEF MsgRow
      <3> QED
        BY <3>1, <3>2, <3>5, <3>6
    <2>2. PICK q : q = [i \in 1 .. Chunks |-> entry(i)]
      OBVIOUS
    <2> HIDE DEF entry
    <2>3. q \in [1 .. Chunks -> MsgRow] /\ \A i \in 1 .. Chunks : q[i] = entry(i)
      BY <2>1, <2>2
    <2>4. \A i \in 1 .. Chunks : q[i].t = "chunk" /\ q[i].of = m.of /\ q[i].bytes = <<<<m.of, i>>>>
      BY <2>1, <2>3
    <2> QED
      BY <2>2, <2>3, <2>4 DEF entry
  <1>2. q \in Seq(MsgRow) /\ Len(q) = Chunks /\ DOMAIN q = 1 .. Chunks
    BY <1>1
  <1>3. PICK z \in MsgRow : /\ z = [Msg("got", m.rid, m.of) EXCEPT !.path = m.of, !.bytes = Content(m.of)]
                            /\ z.t = "got" /\ z.of = m.of /\ z.path = m.of /\ z.bytes = Content(m.of)
    <2>1. PICK a \in MsgRow : a = Msg("got", m.rid, m.of) /\ a.t = "got" /\ a.of = m.of
      BY <1>0, MsgTyped DEF Msg
    <2>2. Content(m.of) \in Bytes
      BY <1>0, ContentTyped
    <2>3. PICK z \in MsgRow : z = [a EXCEPT !.path = m.of, !.bytes = Content(m.of)]
      BY <1>0, <2>2 DEF MsgRow
    <2> QED
      BY <2>1, <2>3 DEF MsgRow
  <1>4. PICK e \in Seq(MsgRow) : e = <<z>> /\ Len(e) = 1 /\ e[1] = z /\ DOMAIN e = {1}
    BY OneHolds
  <1>5. /\ q \o e \in Seq(MsgRow) /\ Len(q \o e) = Chunks + 1
        /\ \A i \in 1 .. Chunks : (q \o e)[i] = q[i]
        /\ (q \o e)[Chunks + 1] = z
    BY <1>2, <1>4, JoinedHolds
  <1>6. PICK ms \in Seq(MsgRow) : ms = q \o e
    BY <1>5
  <1>7. \A i \in 1 .. Chunks : ms[i].t = "chunk" /\ ms[i].of = m.of /\ ms[i].bytes = <<<<m.of, i>>>>
    BY <1>1, <1>5, <1>6
  <1>8. ms = [i \in 1 .. Chunks |-> [Msg("chunk", m.rid, m.of) EXCEPT !.bytes = <<Content(m.of)[i]>>]]
             \o <<[Msg("got", m.rid, m.of) EXCEPT !.path = m.of, !.bytes = Content(m.of)]>>
    BY <1>1, <1>3, <1>4, <1>6, Zenon
  <1>9. /\ Len(ms) = Chunks + 1 /\ ms[Chunks + 1].t = "got" /\ ms[Chunks + 1].of = m.of
        /\ ms[Chunks + 1].path = m.of /\ ms[Chunks + 1].bytes = Content(m.of)
    BY <1>3, <1>5, <1>6
  <1> QED
    BY <1>7, <1>8, <1>9, Zenon

\* The message the agent handles.
LEMMA FirstOfAgent ==
    ASSUME MixInv, toAgent # <<>>, toAgent' = Tail(toAgent)
    PROVE  /\ Head(toAgent) = toAgent[1] /\ Head(toAgent) \in MsgRow /\ AgentMsg(Head(toAgent))
           /\ toAgent' \in Seq(MsgRow) /\ AgentGets
  <1>1. toAgent \in Seq(MsgRow) /\ TransferTyped
    BY DEF MixInv, TransferTyped
  <1>2. /\ Tail(toAgent) \in Seq(MsgRow) /\ Head(toAgent) = toAgent[1] /\ toAgent[1] \in MsgRow
        /\ 1 \in DOMAIN toAgent
    BY <1>1, TailHolds
  <1>3. AgentMsg(toAgent[1])
    BY <1>2 DEF MixInv, MessagesTell
  <1>4. PICK m : m = toAgent[1]
    OBVIOUS
  <1>5. AgentMsg(m) /\ m = Head(toAgent)
    BY <1>2, <1>3, <1>4
  <1>6. AgentGets
    BY <1>1, AgentKeeps
  <1> QED
    BY <1>2, <1>4, <1>5, <1>6

LEMMA EndKeeps ==
    ASSUME MixInv, NEW m \in MsgRow, AgentMsg(m), UNCHANGED xfer, End(m)
    PROVE  /\ disk' = disk /\ SealsKept /\ tray' \in TrayRow /\ tray'.up = Nothing /\ tray'.dialog = tray.dialog
           /\ tray'.upPath = tray.upPath
           /\ toViewer' \in [Windows -> Seq(MsgRow)] /\ ViewersGet
           /\ \E a \in MsgRow : /\ a.t = "sent" /\ a.of = m.of /\ a.rid = m.rid /\ a.path = tray.upPath
                                /\ (tray.upPath # Nothing => a.bytes = disk[tray.upPath].bytes)
                                /\ \A w \in Windows : toViewer'[w] = Append(toViewer[w], a)
  <1> USE NamesDiffer
  <1>0. /\ TransferTyped /\ tray \in TrayRow /\ disk \in [Paths -> DiskRow] /\ m.rid \in Nat /\ m.of \in Transfers
        /\ m.t = "end" /\ Begun(m.of) /\ ~IsGet(m.of)
    BY DEF MixInv, TransferTyped, TrayRow, DiskRow, MsgRow, End, AgentMsg
  <1>1. tray' \in TrayRow /\ tray'.up = Nothing /\ tray'.dialog = tray.dialog /\ tray'.upPath = tray.upPath /\ disk' = disk
    BY <1>0 DEF End, TrayRow
  <1>2. PICK p \in Paths \cup {Nothing} : p = tray.upPath
    BY <1>0 DEF TrayRow
  <1>3. PICK b \in Bytes, v \in Nat :
          /\ b = IF p = Nothing THEN <<>> ELSE disk[p].bytes
          /\ v = IF p = Nothing THEN 0 ELSE disk[p].version
    BY <1>0, FreshTyped DEF DiskRow
  <1>4. PICK n \in MsgRow : n = Msg("sent", m.rid, m.of) /\ n.t = "sent" /\ n.of = m.of /\ n.rid = m.rid
    BY <1>0, MsgTyped DEF Msg
  <1>5. PICK a \in MsgRow : a = [n EXCEPT !.path = p, !.bytes = b, !.version = v]
    BY DEF MsgRow
  <1>6. a.t = "sent" /\ a.of = m.of /\ a.rid = m.rid /\ a.path = p /\ a.bytes = b /\ a.version = v
    BY <1>4, <1>5 DEF MsgRow
  <1>7. Broadcast(<<a>>)
    BY <1>2, <1>3, <1>4, <1>5 DEF End
  <1>8. ViewerMsg(a)'
    <2>1. p # Nothing => p \in Paths /\ v <= disk'[p].version /\ disk'[p].bytes = b /\ tray'.up # p
      BY <1>0, <1>1, <1>3 DEF DiskRow
    <2> QED
      BY <1>0, <1>6, <2>1 DEF ViewerMsg, Begun, IsGet, Sealed
  <1>9. toViewer' \in [Windows -> Seq(MsgRow)] /\ ViewersGet
    BY <1>0, <1>7, <1>8, TellsViewers
  <1>10. \A w \in Windows : toViewer'[w] = Append(toViewer[w], a)
    BY <1>7, <1>0, TellsAppend
  <1> QED
    BY <1>1, <1>2, <1>3, <1>6, <1>9, <1>10, SealsQuiet

LEMMA GetKeeps ==
    ASSUME MixInv, NEW m \in MsgRow, AgentMsg(m), UNCHANGED xfer, Get(m)
    PROVE  /\ UNCHANGED <<tray, disk>>
           /\ toViewer' \in [Windows -> Seq(MsgRow)] /\ ViewersGet
           /\ \E ms \in Seq(MsgRow) :
                /\ \A w \in Windows : toViewer'[w] = toViewer[w] \o ms
                /\ \/ /\ Len(ms) = Chunks + 1
                      /\ \A i \in 1 .. Chunks : ms[i].t = "chunk" /\ ms[i].of = m.of /\ ms[i].bytes = <<<<m.of, i>>>>
                      /\ ms[Chunks + 1].t = "got" /\ ms[Chunks + 1].of = m.of /\ ms[Chunks + 1].path = m.of
                      /\ ms[Chunks + 1].bytes = Content(m.of)
                   \/ Len(ms) = 1 /\ ms[1].t = "got" /\ ms[1].of = m.of /\ ms[1].path = Nothing
  <1> USE NamesDiffer
  <1>0. TransferTyped /\ m.rid \in Nat /\ m.of \in Transfers /\ m.t = "get" /\ Begun(m.of) /\ IsGet(m.of)
    BY DEF MixInv, MsgRow, Get, AgentMsg
  <1>1. PICK ms \in Seq(MsgRow) :
             /\ ms = [i \in 1 .. Chunks |-> [Msg("chunk", m.rid, m.of) EXCEPT !.bytes = <<Content(m.of)[i]>>]]
                     \o <<[Msg("got", m.rid, m.of) EXCEPT !.path = m.of, !.bytes = Content(m.of)]>>
             /\ Len(ms) = Chunks + 1
             /\ \A i \in 1 .. Chunks : ms[i].t = "chunk" /\ ms[i].of = m.of /\ ms[i].bytes = <<<<m.of, i>>>>
             /\ ms[Chunks + 1].t = "got" /\ ms[Chunks + 1].of = m.of /\ ms[Chunks + 1].path = m.of
             /\ ms[Chunks + 1].bytes = Content(m.of)
    BY GetSends, Zenon
  <1>2. PICK a \in MsgRow : a = Msg("got", m.rid, m.of) /\ a.t = "got" /\ a.of = m.of /\ a.path = Nothing
    BY <1>0, MsgTyped DEF Msg
  <1>3. CASE Broadcast(ms)
    <2>1. ASSUME NEW i \in DOMAIN ms
          PROVE  ViewerMsg(ms[i])'
      <3>1. i \in 1 .. Chunks + 1
        BY <1>1
      <3>2. CASE i \in 1 .. Chunks
        BY <1>0, <1>1, <3>2 DEF ViewerMsg, Begun, IsGet
      <3>3. CASE i = Chunks + 1
        BY <1>0, <1>1, <3>3 DEF ViewerMsg, Begun, IsGet, Content
      <3> QED
        BY <3>1, <3>2, <3>3
    <2>2. toViewer' \in [Windows -> Seq(MsgRow)] /\ ViewersGet
      BY <1>0, <1>3, <2>1, BroadcastDoes
    <2>3. UNCHANGED <<tray, disk>>
      BY DEF Get
    <2>4. \A w \in Windows : toViewer'[w] = toViewer[w] \o ms
      BY <1>3 DEF Broadcast
    <2> QED
      BY <1>1, <2>2, <2>3, <2>4
  <1>4. CASE Broadcast(<<a>>)
    <2>1. ViewerMsg(a)'
      BY <1>0, <1>2 DEF ViewerMsg, Begun, IsGet
    <2>2. toViewer' \in [Windows -> Seq(MsgRow)] /\ ViewersGet
      BY <1>0, <1>4, <2>1, TellsViewers
    <2>3. UNCHANGED <<tray, disk>>
      BY DEF Get
    <2>4. PICK ss \in Seq(MsgRow) : ss = <<a>> /\ Len(ss) = 1 /\ ss[1] = a
      BY OneHolds
    <2>5. (\A w \in Windows : toViewer'[w] = toViewer[w] \o ss) /\ ss[1].t = "got" /\ ss[1].of = m.of /\ ss[1].path = Nothing
      BY <1>2, <1>4, <2>4 DEF Broadcast
    <2> QED
      BY <2>2, <2>3, <2>4, <2>5
  <1>5. Broadcast(ms) \/ Broadcast(<<a>>)
    <2>1. \/ Broadcast([i \in 1 .. Chunks |-> [Msg("chunk", m.rid, m.of) EXCEPT !.bytes = <<Content(m.of)[i]>>]]
                     \o <<[Msg("got", m.rid, m.of) EXCEPT !.path = m.of, !.bytes = Content(m.of)]>>)
          \/ Broadcast(<<Msg("got", m.rid, m.of)>>)
      BY DEF Get
    <2> QED
      BY <1>1, <1>2, <2>1, Zenon
  <1> QED
    BY <1>3, <1>4, <1>5

LEMMA ChunkKeeps ==
    ASSUME MixInv, NEW m \in MsgRow, Chunk(m)
    PROVE  /\ UNCHANGED <<tray, toViewer>> /\ disk' \in [Paths -> DiskRow] /\ SealsKept
           /\ (tray.up = Nothing => disk' = disk)
           /\ (tray.up # Nothing => tray.up \in Paths /\ disk'[tray.up].bytes = disk[tray.up].bytes \o m.bytes)
  <1> USE NamesDiffer
  <1>0. TransferTyped /\ tray.up \in Paths \cup {Nothing} /\ disk \in [Paths -> DiskRow] /\ m.bytes \in Bytes
    BY DEF MixInv, TransferTyped, DiskRow, MsgRow
  <1>1. CASE tray.up = Nothing
    BY <1>0, <1>1, SealsQuiet DEF Chunk
  <1>2. CASE tray.up # Nothing
    <2>1. tray.up \in Paths /\ disk[tray.up].bytes \in Bytes
      BY <1>0, <1>2 DEF DiskRow
    <2>2. PICK b \in Bytes : b = disk[tray.up].bytes \o m.bytes
      BY <1>0, <2>1, JoinedHolds DEF Bytes
    <2>3. UNCHANGED <<tray, toViewer>> /\ disk' = [disk EXCEPT ![tray.up].bytes = b]
      BY <1>2, <2>2 DEF Chunk
    <2>4. SealsKept /\ disk' \in [Paths -> DiskRow]
      BY <1>0, <2>1, <2>3, SealsWrite DEF DiskRow
    <2>5. disk'[tray.up].bytes = b
      BY <1>0, <2>1, <2>3 DEF DiskRow
    <2> QED
      BY <1>2, <2>1, <2>2, <2>3, <2>4, <2>5
  <1> QED
    BY <1>1, <1>2

LEMMA MixHandle ==
    ASSUME MixInv, Handle
    PROVE  MixInv'
  <1> USE NamesDiffer
  <1>1. PICK m : m = Head(toAgent)
    OBVIOUS
  <1>2. /\ toAgent # <<>> /\ toAgent' = Tail(toAgent) /\ UNCHANGED <<xfer, reqId, dl, digesting, ghosts>>
        /\ Put(m) \/ AskWhere(m) \/ Chunk(m) \/ End(m) \/ Get(m)
    BY <1>1 DEF Handle
  <1>3. m \in MsgRow /\ AgentMsg(m) /\ toAgent' \in Seq(MsgRow) /\ AgentGets /\ m.rid \in Nat /\ m.of \in Transfers
    BY <1>1, <1>2, FirstOfAgent DEF MsgRow
  <1>4. Begun(m.of) /\ Begun(m.of)' /\ (IsGet(m.of)' <=> IsGet(m.of)) /\ (IsGet(m.of) <=> m.t = "get")
    BY <1>2, <1>3 DEF Begun, IsGet, AgentMsg
  <1>5. TransferTyped /\ tray \in TrayRow /\ disk \in [Paths -> DiskRow] /\ toViewer \in [Windows -> Seq(MsgRow)]
    BY DEF MixInv, TransferTyped, TrayRow, DiskRow
  <1>6. tray.up # Nothing => tray.upPath = tray.up
    BY DEF MixInv, MessagesTell
  <1>7. CASE m.t = "put" /\ CreateFile(m.path, m, "dest")
    <2>1. m.path \in Paths
      BY <1>3, <1>7 DEF AgentMsg
    <2>2. tray' \in TrayRow /\ tray'.up = m.path /\ tray'.upPath = m.path /\ tray'.dialog = Nothing
      BY <1>7, <2>1 DEF CreateFile, TrayRow
    <2>3. disk' \in [Paths -> DiskRow] /\ SealsKept /\ toViewer' \in [Windows -> Seq(MsgRow)] /\ ViewersGet
      BY <1>3, <1>4, <1>7, <2>1, <2>2, CreateKeeps DEF CreateFile
    <2> QED
      BY <1>2, <1>3, <2>2, <2>3, MixServe
  <1>8. CASE m.t = "put" /\ NoDestination(m)
    <2>1. /\ disk' = disk /\ SealsKept /\ tray' \in TrayRow /\ tray'.up = Nothing /\ tray'.dialog = Nothing
          /\ toViewer' \in [Windows -> Seq(MsgRow)] /\ ViewersGet
      BY <1>3, <1>4, <1>8, NoDestinationKeeps
    <2> QED
      BY <1>2, <1>3, <1>5, <2>1, MixServe
  <1>9. CASE AskWhere(m)
    <2>1. tray' \in TrayRow /\ tray'.up = Nothing /\ tray'.dialog = m.of /\ UNCHANGED <<disk, toViewer>> /\ m.t = "ask"
      BY <1>3, <1>5, <1>9 DEF AskWhere, TrayRow
    <2>2. SealsKept /\ ViewersGet
      BY <2>1, SealsQuiet, SameQueues
    <2> QED
      BY <1>2, <1>3, <1>4, <1>5, <2>1, <2>2, MixServe
  <1>10. CASE Chunk(m)
    <2>1. UNCHANGED <<tray, toViewer>> /\ disk' \in [Paths -> DiskRow] /\ SealsKept
      BY <1>3, <1>10, ChunkKeeps
    <2>2. ViewersGet
      BY <2>1, SameQueues
    <2> QED
      BY <1>2, <1>3, <1>5, <1>6, <2>1, <2>2, MixServe
  <1>11. CASE End(m)
    <2>1. /\ disk' = disk /\ SealsKept /\ tray' \in TrayRow /\ tray'.up = Nothing /\ tray'.dialog = tray.dialog
          /\ toViewer' \in [Windows -> Seq(MsgRow)] /\ ViewersGet
      BY <1>2, <1>3, <1>11, EndKeeps
    <2> QED
      BY <1>2, <1>3, <1>5, <2>1, MixServe
  <1>12. CASE Get(m)
    <2>1. UNCHANGED <<tray, disk>> /\ toViewer' \in [Windows -> Seq(MsgRow)] /\ ViewersGet
      BY <1>2, <1>3, <1>12, GetKeeps
    <2>2. SealsKept
      BY <2>1, SealsQuiet
    <2> QED
      BY <1>2, <1>3, <1>5, <1>6, <2>1, <2>2, MixServe
  <1> QED
    BY <1>2, <1>7, <1>8, <1>9, <1>10, <1>11, <1>12 DEF Put

LEMMA MixAnswer ==
    ASSUME MixInv, Answer
    PROVE  MixInv'
  <1> USE NamesDiffer
  <1>1. PICK m : m = Msg("dest", xfer[tray.dialog].rid, tray.dialog)
    OBVIOUS
  <1>2. /\ tray.dialog # Nothing /\ UNCHANGED <<xfer, reqId, dl, digesting, toAgent, ghosts>>
        /\ (\E p \in To[m.of] : CreateFile(p, m, "dest")) \/ NoDestination(m)
    BY <1>1 DEF Answer
  <1>3. TransferTyped /\ tray.dialog \in Transfers /\ xfer \in [Transfers -> XferRow] /\ toAgent \in Seq(MsgRow)
        /\ disk \in [Paths -> DiskRow]
    BY <1>2 DEF MixInv, TransferTyped, DiskRow
  <1>4. m.of = tray.dialog /\ m.rid = xfer[tray.dialog].rid /\ m.rid \in Nat /\ To[m.of] \subseteq Paths
    BY <1>1, <1>3, TransferAssumption DEF Msg, XferRow, TransferAssumption
  <1>5. Begun(m.of)' /\ ~IsGet(m.of)' /\ AgentGets
    BY <1>2, <1>4, SameQueues DEF MixInv, MessagesTell, Begun, IsGet
  <1>6. CASE \E p \in To[m.of] : CreateFile(p, m, "dest")
    <2>1. PICK p \in Paths : CreateFile(p, m, "dest")
      BY <1>4, <1>6
    <2>2. tray' \in TrayRow /\ tray'.up = p /\ tray'.upPath = p /\ tray'.dialog = Nothing
      BY <2>1 DEF CreateFile, TrayRow
    <2>3. disk' \in [Paths -> DiskRow] /\ SealsKept /\ toViewer' \in [Windows -> Seq(MsgRow)] /\ ViewersGet
      BY <1>3, <1>4, <1>5, <2>1, <2>2, CreateKeeps DEF CreateFile
    <2> QED
      BY <1>2, <1>3, <1>5, <2>2, <2>3, MixServe
  <1>7. CASE NoDestination(m)
    <2>1. /\ disk' = disk /\ SealsKept /\ tray' \in TrayRow /\ tray'.up = Nothing /\ tray'.dialog = Nothing
          /\ toViewer' \in [Windows -> Seq(MsgRow)] /\ ViewersGet
      BY <1>3, <1>4, <1>5, <1>7, NoDestinationKeeps
    <2> QED
      BY <1>2, <1>3, <1>5, <2>1, MixServe
  <1> QED
    BY <1>2, <1>6, <1>7

LEMMA MixPull ==
    ASSUME MixInv, NEW t \in Transfers, Pull(t)
    PROVE  /\ MixInv'
           /\ \E p \in Paths, a \in MsgRow :
                /\ tray'.up = p /\ tray'.dialog = tray.dialog /\ disk'[p].bytes = <<>>
                /\ \A w \in Windows : toViewer'[w] = Append(toViewer[w], a)
                /\ a.t = "pull" /\ a.of = t /\ a.path = p /\ a.rid # 0
                /\ xfer'[t] = [xfer[t] EXCEPT !.rid = a.rid] /\ \A u \in Transfers : u # t => xfer'[u] = xfer[u]
  <1> USE NamesDiffer
  <1>1. PICK c : c = Cardinality(Drawn)
    OBVIOUS
  <1>2. TransferTyped /\ xfer \in [Transfers -> XferRow] /\ xfer[t] \in XferRow /\ tray \in TrayRow
    BY DEF MixInv, TransferTyped, TrayRow
  <1>3. c \in Nat /\ 100 + c \in Nat /\ 100 + c # 0
    BY <1>1, <1>2, FS_CardinalityType DEF TransferTyped
  <1>4. PICK m \in MsgRow : m = Msg("pull", 100 + c, t) /\ m.t = "pull" /\ m.rid = 100 + c /\ m.of = t
    BY <1>3, MsgTyped DEF Msg
  <1>5. /\ \E p \in To[t] : /\ tray' = [tray EXCEPT !.up = p, !.upPath = p]
                            /\ disk' = [disk EXCEPT ![p] = [bytes |-> <<>>, version |-> @.version + 1]]
                            /\ Broadcast(<<[m EXCEPT !.path = p]>>)
        /\ xfer' = [xfer EXCEPT ![t].rid = m.rid]
    BY <1>1, <1>4 DEF Pull, Drawn
  <1>6. PICK p \in To[t] : /\ tray' = [tray EXCEPT !.up = p, !.upPath = p]
                            /\ disk' = [disk EXCEPT ![p] = [bytes |-> <<>>, version |-> @.version + 1]]
                            /\ Broadcast(<<[m EXCEPT !.path = p]>>)
    BY <1>5
  <1>7. p \in Paths
    BY TransferAssumption DEF TransferAssumption
  <1>8. tray' \in TrayRow /\ tray'.up = p /\ tray'.upPath = p /\ tray'.dialog = tray.dialog
    BY <1>2, <1>6, <1>7 DEF TrayRow
  <1>9. Broadcast(<<[Msg("pull", m.rid, m.of) EXCEPT !.path = p]>>) /\ m.rid \in Nat /\ m.of \in Transfers
    BY <1>3, <1>4, <1>6
  <1>10. /\ disk' \in [Paths -> DiskRow] /\ SealsKept /\ disk'[p].bytes = <<>>
         /\ toViewer' \in [Windows -> Seq(MsgRow)] /\ (Begun(m.of)' /\ ~IsGet(m.of)' => ViewersGet)
    <2>1. PICK kind \in {"dest", "pull"} : kind = "pull"
      OBVIOUS
    <2>2. Broadcast(<<[Msg(kind, m.rid, m.of) EXCEPT !.path = p]>>)
      BY <1>9, <2>1
    <2>3. disk' = [disk EXCEPT ![p] = [bytes |-> <<>>, version |-> @.version + 1]]
      BY <1>6
    <2> QED
      BY <2>2, <2>3, <1>7, <1>8, <1>9, CreateKeeps
  <1>a. PICK a \in MsgRow : a = [m EXCEPT !.path = p]
    BY <1>7 DEF MsgRow
  <1>b. /\ a.t = "pull" /\ a.of = t /\ a.rid = m.rid /\ a.path = p
        /\ \A w \in Windows : toViewer'[w] = Append(toViewer[w], a)
    <2>1. Broadcast(<<a>>)
      BY <1>a, <1>6
    <2>2. \A w \in Windows : toViewer'[w] = Append(toViewer[w], a)
      BY <1>2, <2>1, TellsAppend
    <2> QED
      BY <1>a, <1>4, <2>2 DEF MsgRow
  <1>11. PICK r \in XferRow : r = [xfer[t] EXCEPT !.rid = m.rid]
    BY <1>2, <1>9 DEF XferRow
  <1>12. xfer' = [xfer EXCEPT ![t] = r]
    BY <1>2, <1>5, <1>11 DEF XferRow
  <1>13. /\ xfer' \in [Transfers -> XferRow] /\ IsFiniteSet(Drawn')
         /\ xfer'[t] = r /\ \A u \in Transfers : u # t => xfer'[u] = xfer[u]
    BY <1>2, <1>12, RowWritten
  <1>14. xfer[t].pc = "offered" /\ ~IsGet(t)
    BY DEF Pull, MixInv, MessagesTell
  <1>15. Begun(t)' /\ ~IsGet(t)' /\ r.way = xfer[t].way /\ r.owner = xfer[t].owner /\ r.told = xfer[t].told
         /\ r.saved = xfer[t].saved
    BY <1>2, <1>3, <1>4, <1>11, <1>13, <1>14 DEF Begun, IsGet, XferRow
  <1>16. UNCHANGED <<reqId, dl, digesting, toAgent, hurt, drops>> /\ Starts(t)
    BY DEF Pull
  <1>17. mingled' \subseteq Transfers
    BY <1>2, <1>16, StartsMingles DEF TransferTyped
  <1>18. TransferTyped'
    BY <1>2, <1>8, <1>10, <1>13, <1>16, <1>17 DEF TransferTyped, TrayRow, DiskRow
  <1>19. AgentGets /\ DigestsGet /\ ViewersGet
    BY <1>4, <1>10, <1>15, <1>16, SameQueues
  <1>20. RowsGoOn
    BY <1>13, <1>14, <1>15 DEF RowsGoOn
  <1>21. \A w \in Windows : dl'[w].of # Nothing => Collects(w, dl[w].of)'
    BY <1>13, <1>14, <1>16, DownloadsStay
  <1>22. MixInv'
    BY <1>8, <1>10, <1>18, <1>19, <1>20, <1>21, MixRows
  <1>23. /\ tray'.up = p /\ tray'.dialog = tray.dialog /\ disk'[p].bytes = <<>> /\ a.rid # 0
         /\ xfer'[t] = [xfer[t] EXCEPT !.rid = a.rid]
    BY <1>3, <1>4, <1>8, <1>10, <1>11, <1>13, <1>b
  <1> QED
    BY <1>7, <1>13, <1>22, <1>23, <1>b, Zenon

LEMMA MixInit ==
    ASSUME TransferInit
    PROVE  MixInv
  <1> USE NamesDiffer
  <1>1. xfer \in [Transfers -> XferRow] /\ \A t \in Transfers : xfer[t] = Fresh
    BY FreshTyped DEF TransferInit
  <1>2. \A t \in Transfers : xfer[t].rid = 0 /\ xfer[t].pc = "new" /\ xfer[t].told.tag = "none" /\ ~UnderWay(t)
    BY <1>1 DEF Fresh, NotTold, UnderWay
  <1>3. IsFiniteSet(Drawn)
    <2>1. Drawn = {}
      BY <1>2 DEF Drawn
    <2> QED
      BY <2>1, FS_EmptySet
  <1>4. /\ dl \in [Windows -> Collected] /\ tray \in TrayRow /\ tray = Quiet /\ \A o \in Windows : dl[o] = NoDownload
        /\ digesting \in [Windows -> Seq([dl : Collected, bytes : Bytes])]
        /\ toViewer \in [Windows -> Seq(MsgRow)] /\ toAgent = <<>>
        /\ \A o \in Windows : toViewer[o] = <<>> /\ digesting[o] = <<>>
    BY FreshTyped DEF TransferInit, TrayRow
  <1>5. disk \in [Paths -> DiskRow] /\ reqId \in [Windows -> Nat]
    BY FreshTyped DEF TransferInit, DiskRow
  <1>6. mingled = {} /\ hurt = {} /\ drops \in 0 .. MaxDrops
    BY TransferAssumption DEF TransferInit, TransferAssumption
  <1>7. TransferTyped
    BY <1>1, <1>3, <1>4, <1>5, <1>6 DEF TransferTyped, TrayRow, DiskRow
  <1>8. MessagesTell
    BY <1>2, <1>4 DEF MessagesTell, Quiet, NoDownload
  <1> QED
    BY <1>2, <1>7, <1>8 DEF MixInv, Verified

LEMMA MixNext ==
    ASSUME MixInv, [TransferNext]_transferVars
    PROVE  MixInv'
  <1>1. CASE TransferNext
    <2>1. CASE /\ \E t \in Transfers : xfer[t].pc = "new"
               /\ \E o \in By[Unused], way \in As[Unused] :
                    \/ way \in {"put", "ask"} /\ Upload(o, Unused, way)
                    \/ way = "offer" /\ Offer(o, Unused)
                    \/ way = "get" /\ Download(o, Unused)
      <3>1. Unused \in Transfers /\ xfer[Unused].pc = "new"
        BY <2>1 DEF Unused
      <3>2. PICK t \in Transfers : t = Unused /\ xfer[t].pc = "new" /\ By[t] \subseteq Windows
        BY <3>1, TransferAssumption DEF TransferAssumption
      <3>3. PICK o \in Windows, way \in As[Unused] :
                    \/ way \in {"put", "ask"} /\ Upload(o, t, way)
                    \/ way = "offer" /\ Offer(o, t)
                    \/ way = "get" /\ Download(o, t)
        BY <2>1, <3>2
      <3> QED
        BY <3>2, <3>3, MixUpload, MixOffer, MixDownload
    <2>2. CASE \E t \in Transfers : Timeout(t) \/ Stream(t) \/ Pull(t)
      BY <2>2, MixTimeout, MixStream, MixPull
    <2>3. CASE \E o \in Windows : View(o) \/ Digested(o) \/ WindowDrops(o)
      BY <2>3, MixViews, MixDigested, MixDrops
    <2>4. CASE Handle \/ Answer \/ Reconnect
      BY <2>4, MixHandle, MixAnswer, MixDrops
    <2> QED
      BY <1>1, <2>1, <2>2, <2>3, <2>4 DEF TransferNext
  <1>2. CASE UNCHANGED transferVars
    <2>1. UNCHANGED <<xfer, reqId, dl, digesting, toAgent, toViewer, tray, disk, mingled, hurt, drops>>
      BY <1>2 DEF transferVars
    <2>2. /\ toAgent' \in Seq(MsgRow) /\ toViewer' \in [Windows -> Seq(MsgRow)] /\ tray' \in TrayRow
          /\ disk' \in [Paths -> DiskRow] /\ (tray'.up # Nothing => tray'.upPath = tray'.up)
      BY <2>1 DEF MixInv, TransferTyped, MessagesTell, TrayRow, DiskRow
    <2>3. AgentGets /\ ViewersGet /\ SealsKept
      BY <2>1, SameQueues, SealsQuiet
    <2> QED
      BY <2>1, <2>2, <2>3, MixServe DEF ghosts
  <1> QED
    BY <1>1, <1>2

(***************************************************************************)
(* A transfer that is told stays so, and one that has not begun too.       *)
(***************************************************************************)
LEMMA PlaceTold ==
    ASSUME NEW t \in Transfers, xfer'[t].pc = "told", Settled(t)', Silent(t)'
    PROVE  Place(t)'
  BY DEF Place, UnderWay

LEMMA PlaceNotBegun ==
    ASSUME NEW t \in Transfers, Place(t), ~Begun(t), xfer[t] \in XferRow, xfer'[t] = xfer[t]
    PROVE  Place(t)'
  BY DEF Place, Begun, UnderWay, IsGet

\* What the agent, the windows and the digests get does not tell of t.
SilentOf(t) ==
    /\ \A i \in DOMAIN toAgent' : \/ \E j \in DOMAIN toAgent : toAgent'[i] = toAgent[j]
                                  \/ ~(toAgent'[i].t = "end" /\ toAgent'[i].of = t)
    /\ \A o \in Windows : \A i \in DOMAIN toViewer'[o] :
         \/ \E j \in DOMAIN toViewer[o] : toViewer'[o][i] = toViewer[o][j]
         \/ ~(toViewer'[o][i].t = "sent" /\ toViewer'[o][i].of = t)
    /\ \A o \in Windows : \A i \in DOMAIN digesting'[o] :
         \/ \E j \in DOMAIN digesting[o] : digesting'[o][i] = digesting[o][j]
         \/ digesting'[o][i].dl.of # t

LEMMA ToldStays ==
    ASSUME NEW t \in Transfers, Place(t), xfer[t].pc = "told", SilentOf(t),
           \/ xfer'[t] = xfer[t]
           \/ xfer'[t].pc = "told" /\ xfer'[t].owner = xfer[t].owner /\ xfer'[t].told.tag = "failed"
    PROVE  Place(t)'
  <1>1. Settled(t) /\ Silent(t)
    BY DEF Place
  <1>2. Settled(t)'
    BY <1>1 DEF Settled, IsGet, Content
  <1>3. Silent(t)'
    BY <1>1 DEF Silent, Seen, SilentOf
  <1> QED
    BY <1>2, <1>3, PlaceTold

\* What the agent, the windows and the digests get is of t.
OwnOnly(t) ==
    /\ \A i \in DOMAIN toAgent' : (\E j \in DOMAIN toAgent : toAgent'[i] = toAgent[j]) \/ toAgent'[i].of = t
    /\ \A o \in Windows : \A i \in DOMAIN toViewer'[o] :
         (\E j \in DOMAIN toViewer[o] : toViewer'[o][i] = toViewer[o][j]) \/ toViewer'[o][i].of = t
    /\ \A o \in Windows : \A i \in DOMAIN digesting'[o] :
         (\E j \in DOMAIN digesting[o] : digesting'[o][i] = digesting[o][j]) \/ digesting'[o][i].dl.of = t

LEMMA AloneStays ==
    ASSUME NEW t \in Transfers, Alone(t), OwnOnly(t), tray'.dialog \in {Nothing, t},
           \A u \in Transfers : u # t => xfer'[u] = xfer[u] \/ ~UnderWay(u)'
    PROVE  Alone(t)'
  <1>1. \A u \in Transfers : UnderWay(u)' => u = t
    BY DEF Alone, UnderWay
  <1> QED
    BY <1>1 DEF Alone, OwnOnly

\* The queues when one message is taken or added.
LEMMA AgentHas ==
    ASSUME TransferTyped, NEW m,
           \/ toAgent' = toAgent \/ toAgent' = <<>>
           \/ toAgent # <<>> /\ toAgent' = Tail(toAgent)
           \/ m \in MsgRow /\ toAgent' = Append(toAgent, m)
    PROVE  \A i \in DOMAIN toAgent' : (\E j \in DOMAIN toAgent : toAgent'[i] = toAgent[j]) \/ toAgent'[i] = m
  <1>1. toAgent \in Seq(MsgRow)
    BY DEF TransferTyped
  <1>2. CASE toAgent # <<>> /\ toAgent' = Tail(toAgent)
    BY <1>1, <1>2, TailHolds
  <1>3. CASE m \in MsgRow /\ toAgent' = Append(toAgent, m)
    <2>1. \A i \in DOMAIN toAgent' : i \in DOMAIN toAgent \/ i = Len(toAgent) + 1
      BY <1>1, <1>3, AppendedHolds
    <2>2. toAgent'[Len(toAgent) + 1] = m /\ \A i \in DOMAIN toAgent : toAgent'[i] = toAgent[i]
      BY <1>1, <1>3, AppendedHolds
    <2> QED
      BY <2>1, <2>2
  <1> QED
    BY <1>2, <1>3

LEMMA ViewersHave ==
    ASSUME TransferTyped, NEW m,
           \A w \in Windows :
              \/ toViewer'[w] = toViewer[w] \/ toViewer'[w] = <<>>
              \/ toViewer[w] # <<>> /\ toViewer'[w] = Tail(toViewer[w])
              \/ m \in MsgRow /\ toViewer'[w] = Append(toViewer[w], m)
    PROVE  \A w \in Windows : \A i \in DOMAIN toViewer'[w] :
              (\E j \in DOMAIN toViewer[w] : toViewer'[w][i] = toViewer[w][j]) \/ toViewer'[w][i] = m
  <1> TAKE w \in Windows
  <1>1. toViewer[w] \in Seq(MsgRow)
    BY DEF TransferTyped
  <1>2. CASE toViewer[w] # <<>> /\ toViewer'[w] = Tail(toViewer[w])
    BY <1>1, <1>2, TailHolds
  <1>3. CASE m \in MsgRow /\ toViewer'[w] = Append(toViewer[w], m)
    <2>1. \A i \in DOMAIN toViewer'[w] : i \in DOMAIN toViewer[w] \/ i = Len(toViewer[w]) + 1
      BY <1>1, <1>3, AppendedHolds
    <2>2. toViewer'[w][Len(toViewer[w]) + 1] = m /\ \A i \in DOMAIN toViewer[w] : toViewer'[w][i] = toViewer[w][i]
      BY <1>1, <1>3, AppendedHolds
    <2> QED
      BY <2>1, <2>2
  <1> QED
    BY <1>2, <1>3

\* A transfer that nobody crossed had its place before the step.
LEMMA WasPlaced ==
    ASSUME TransferInv, NEW t \in Transfers, Clean(t)', mingled \subseteq mingled', hurt \subseteq hurt'
    PROVE  MixInv /\ TransferTyped /\ Place(t) /\ xfer[t] \in XferRow
  BY DEF TransferInv, MixInv, TransferTyped, Clean

LEMMA ThreeWays ==
    ASSUME NEW t \in Transfers, xfer[t] \in XferRow
    PROVE  UnderWay(t) \/ ~Begun(t) \/ xfer[t].pc = "told"
  BY DEF XferRow, UnderWay, Begun

LEMMA NotBusy ==
    ASSUME MixInv, ~Busy
    PROVE  /\ toAgent = <<>> /\ tray.dialog = Nothing
           /\ \A o \in Windows : toViewer[o] = <<>> /\ digesting[o] = <<>> /\ dl[o].of = Nothing
           /\ \A u \in Transfers : ~UnderWay(u)
  <1>1. \A u \in Transfers : ~UnderWay(u)
    BY DEF Busy
  <1>2. \A o \in Windows : dl[o].of \in Transfers \cup {Nothing}
    BY DEF MixInv, TransferTyped, Collected
  <1>3. \A o \in Windows : dl[o].of = Nothing
    BY <1>1, <1>2 DEF MixInv, MessagesTell, Collects, UnderWay
  <1> QED
    BY <1>1, <1>3 DEF Busy

\* Who starts while another is under way, or is talked of, mingles with it.
LEMMA StartMeets ==
    ASSUME TransferInv, NEW u \in Transfers, Starts(u), NEW t \in Transfers, Clean(t)', hurt' = hurt
    PROVE  /\ MixInv /\ TransferTyped /\ Place(t) /\ xfer[t] \in XferRow
           /\ ~UnderWay(t) /\ (t = u => ~Busy)
  <1>1. mingled \subseteq Transfers
    BY DEF TransferInv, MixInv, TransferTyped
  <1>2. /\ mingled \subseteq mingled' /\ (Busy => u \in mingled')
        /\ \A v \in Transfers : UnderWay(v) => v \in mingled'
    BY <1>1, StartsMingles
  <1>3. MixInv /\ TransferTyped /\ Place(t) /\ xfer[t] \in XferRow
    BY <1>2, WasPlaced
  <1> QED
    BY <1>2, <1>3 DEF Clean

\* What concerns a transfer that is under way stays as it is.
LEMMA PlaceWaits ==
    ASSUME NEW t \in Transfers, Place(t), xfer'[t] = xfer[t], Alone(t)',
           toAgent' = toAgent, tray' = tray, disk' = disk,
           toViewer'[xfer[t].owner] = toViewer[xfer[t].owner], digesting'[xfer[t].owner] = digesting[xfer[t].owner],
           dl'[xfer[t].owner] = dl[xfer[t].owner], UnderWay(t)
    PROVE  Place(t)'
  <1>1. /\ Requested(t) => Requested(t)'
        /\ Pulled(t) => Pulled(t)'
    BY DEF Requested, Pulled, Written, About, Seen
  <1>2. ASSUME Streams(t)
        PROVE  Streams(t)'
    <2>1. PICK n \in 0 .. Chunks :
            /\ Written(t, xfer[t].path, n) /\ n + Len(toAgent) = xfer[t].next - 1
            /\ Follow(t, n, Len(toAgent))
      BY <1>2 DEF Streams
    <2>2. /\ Written(t, xfer[t].path, n)' /\ n + Len(toAgent') = xfer'[t].next - 1
          /\ Follow(t, n, Len(toAgent))'
      BY <2>1 DEF Written, Follow, About
    <2> QED
      BY <1>2, <2>2 DEF Streams, Seen
  <1>3. ASSUME Ends(t)
        PROVE  Ends(t)'
    <2>1. CASE /\ Seen(t) = <<>> /\ Len(toAgent) > 0 /\ About(toAgent[Len(toAgent)], "end", t)
               /\ \E n \in 0 .. Chunks :
                    /\ Written(t, xfer[t].path, n) /\ n + Len(toAgent) = Chunks + 1
                    /\ Follow(t, n, Len(toAgent) - 1)
      <3>1. PICK n \in 0 .. Chunks :
                    /\ Written(t, xfer[t].path, n) /\ n + Len(toAgent) = Chunks + 1
                    /\ Follow(t, n, Len(toAgent) - 1)
        BY <2>1
      <3>2. /\ Written(t, xfer[t].path, n)' /\ n + Len(toAgent') = Chunks + 1
            /\ Follow(t, n, Len(toAgent) - 1)'
        BY <3>1 DEF Written, Follow, About
      <3> QED
        BY <1>3, <2>1, <3>2 DEF Ends, Seen, About
    <2>2. CASE /\ toAgent = <<>> /\ Len(Seen(t)) = 1 /\ About(Seen(t)[1], "sent", t)
               /\ xfer[t].path # Nothing /\ Seen(t)[1].path = xfer[t].path /\ Seen(t)[1].bytes = Content(t)
      BY <1>3, <2>2 DEF Ends, Seen, About, Content
    <2> QED
      BY <1>3, <2>1, <2>2 DEF Ends
  <1>4. ASSUME Fetched(t)
        PROVE  Fetched(t)'
    <2>1. ASSUME NEW q, Arriving(t, q)
          PROVE  Arriving(t, q)'
      <3>1. dl'[xfer'[t].owner].chunks = dl[xfer[t].owner].chunks
        OBVIOUS
      <3>2. PICK c : c = dl[xfer[t].owner].chunks
        OBVIOUS
      <3>3. dl'[xfer'[t].owner].chunks = c
        BY <3>1, <3>2
      <3>4. \/ Len(q) = 1 /\ q[1].t = "got" /\ q[1].path = Nothing /\ c = <<>>
            \/ /\ Len(q) > 0 /\ Len(c) + Len(q) = Chunks + 1
               /\ \A i \in 1 .. Len(c) : c[i] = <<t, i>>
               /\ \A i \in 1 .. Len(q) - 1 : q[i].t = "chunk" /\ q[i].bytes = <<<<t, Len(c) + i>>>>
               /\ q[Len(q)].t = "got" /\ q[Len(q)].path # Nothing /\ q[Len(q)].bytes = Content(t)
        BY <2>1, <3>2, Zenon DEF Arriving
      <3> QED
        BY <3>3, <3>4, Zenon DEF Arriving, Content
    <2>2. PICK q : q = Seen(t)
      OBVIOUS
    <2>3. Seen(t)' = q
      BY <2>2 DEF Seen
    <2>4. CASE toAgent = <<>> /\ digesting[xfer[t].owner] = <<>> /\ Arriving(t, Seen(t))
      <3>1. Arriving(t, q)'
        BY <2>1, <2>2, <2>4
      <3> QED
        BY <1>4, <2>3, <2>4, <3>1 DEF Fetched, Arriving
    <2>5. CASE ~(toAgent = <<>> /\ digesting[xfer[t].owner] = <<>> /\ Arriving(t, Seen(t)))
      BY <1>4, <2>5 DEF Fetched, Seen, Content
    <2> QED
      BY <2>4, <2>5
  <1>5. (IsGet(t) <=> IsGet(t)') /\ UnderWay(t)'
    BY DEF IsGet, UnderWay
  <1> QED
    BY <1>1, <1>2, <1>3, <1>4, <1>5 DEF Place, UnderWay

LEMMA PlaceUpload ==
    ASSUME TransferInv, NEW o \in Windows, NEW u \in Transfers, NEW way \in {"put", "ask"}, xfer[u].pc = "new",
           Upload(o, u, way), NEW t \in Transfers, Clean(t)'
    PROVE  Place(t)'
  <1> USE NamesDiffer
  <1>1. Starts(u) /\ UNCHANGED <<dl, digesting, toViewer, tray, disk, hurt, drops>>
    BY DEF Upload
  <1>2. /\ MixInv /\ TransferTyped /\ Place(t) /\ xfer[t] \in XferRow
        /\ ~UnderWay(t) /\ (t = u => ~Busy)
    BY <1>1, StartMeets
  <1>3. /\ MixInv' /\ \A v \in Transfers : v # u => xfer'[v] = xfer[v]
        /\ xfer'[u].way = way /\ xfer'[u].pc = "asked" /\ xfer'[u].owner = o /\ xfer'[u].told.tag = "none"
        /\ ~xfer'[u].hashed /\ xfer'[u].next = 1
        /\ Len(toAgent') = Len(toAgent) + 1
        /\ \A i \in DOMAIN toAgent' : (\E j \in DOMAIN toAgent : toAgent'[i] = toAgent[j]) \/ i = Len(toAgent) + 1
        /\ LET m == toAgent'[Len(toAgent) + 1] IN
           m.t = way /\ m.of = u /\ m.rid = xfer'[u].rid /\ m.path = xfer'[u].path
    BY <1>2, MixUpload
  <1>4. CASE t = u
    <2>1. /\ toAgent = <<>> /\ tray.dialog = Nothing
          /\ \A w \in Windows : toViewer[w] = <<>> /\ digesting[w] = <<>> /\ dl[w].of = Nothing
          /\ \A v \in Transfers : ~UnderWay(v)
      BY <1>2, <1>4, NotBusy
    <2>2. /\ Len(toAgent') = 1 /\ toAgent'[1].t = way /\ toAgent'[1].of = t /\ toAgent'[1].rid = xfer'[t].rid
          /\ toAgent'[1].path = xfer'[t].path /\ \A i \in DOMAIN toAgent' : i = 1
      BY <1>3, <1>4, <2>1
    <2>3. Alone(t)'
      <3>1. OwnOnly(t)
        BY <1>1, <2>2 DEF OwnOnly
      <3>2. Alone(t)
        BY <2>1 DEF Alone
      <3> QED
        BY <1>1, <1>3, <1>4, <2>1, <3>1, <3>2, AloneStays
    <2>4. Requested(t)'
      BY <1>1, <1>3, <1>4, <2>1, <2>2 DEF Requested, About, Seen
    <2> QED
      BY <1>3, <1>4, <2>3, <2>4 DEF Place, IsGet
  <1>5. CASE t # u
    <2>1. xfer'[t] = xfer[t]
      BY <1>3, <1>5
    <2>2. SilentOf(t)
      BY <1>1, <1>3 DEF SilentOf
    <2> QED
      BY <1>2, <2>1, <2>2, ThreeWays, PlaceNotBegun, ToldStays
  <1> QED
    BY <1>4, <1>5

LEMMA PlaceOffer ==
    ASSUME TransferInv, NEW o \in Windows, NEW u \in Transfers, xfer[u].pc = "new", Offer(o, u),
           NEW t \in Transfers, Clean(t)'
    PROVE  Place(t)'
  <1> USE NamesDiffer
  <1>1. UNCHANGED <<reqId, dl, digesting, toAgent, toViewer, tray, disk, ghosts>>
    BY DEF Offer
  <1>2. MixInv /\ TransferTyped /\ Place(t) /\ xfer[t] \in XferRow
    BY <1>1, WasPlaced DEF ghosts
  <1>3. /\ MixInv' /\ \A v \in Transfers : v # u => xfer'[v] = xfer[v]
        /\ xfer'[u] = [Fresh EXCEPT !.way = "offer", !.pc = "offered", !.owner = o]
    BY <1>2, MixOffer
  <1>4. /\ xfer'[u].way = "offer" /\ xfer'[u].pc = "offered" /\ xfer'[u].rid = 0 /\ xfer'[u].told.tag = "none"
        /\ ~xfer'[u].hashed /\ xfer'[u].next = 1 /\ xfer'[u].owner = o
    BY <1>3 DEF Fresh, NotTold
  <1>5. CASE t = u
    BY <1>4, <1>5 DEF Place, UnderWay
  <1>6. CASE t # u
    <2>1. xfer'[t] = xfer[t]
      BY <1>3, <1>6
    <2>2. CASE ~UnderWay(t)
      <3>1. SilentOf(t)
        BY <1>1 DEF SilentOf
      <3> QED
        BY <1>2, <2>1, <2>2, <3>1, ThreeWays, PlaceNotBegun, ToldStays
    <2>3. CASE UnderWay(t)
      <3>1. Alone(t)
        BY <1>2, <2>3 DEF Place
      <3>2. OwnOnly(t)
        BY <1>1 DEF OwnOnly
      <3>3. Alone(t)'
        <4>1. ~UnderWay(u)'
          BY <1>4 DEF UnderWay
        <4> QED
          BY <1>1, <1>3, <3>1, <3>2, <4>1, AloneStays DEF Alone
      <3>4. UNCHANGED <<dl, digesting, toAgent, toViewer, tray, disk>>
        BY <1>1
      <3> QED
        BY <1>2, <2>1, <2>3, <3>3, <3>4, PlaceWaits
    <2> QED
      BY <2>2, <2>3
  <1> QED
    BY <1>5, <1>6

LEMMA PlaceDownload ==
    ASSUME TransferInv, NEW o \in Windows, NEW u \in Transfers, xfer[u].pc = "new", Download(o, u),
           NEW t \in Transfers, Clean(t)'
    PROVE  Place(t)'
  <1> USE NamesDiffer
  <1>1. Starts(u) /\ UNCHANGED <<digesting, toViewer, tray, disk, hurt, drops>>
    BY DEF Download
  <1>2. /\ MixInv /\ TransferTyped /\ Place(t) /\ xfer[t] \in XferRow
        /\ ~UnderWay(t) /\ (t = u => ~Busy)
    BY <1>1, StartMeets
  <1>3. /\ MixInv' /\ \A v \in Transfers : v # u /\ v # dl[o].of => xfer'[v] = xfer[v]
        /\ xfer'[u].way = "get" /\ xfer'[u].pc = "asked" /\ xfer'[u].owner = o /\ xfer'[u].told.tag = "none"
        /\ dl'[o].of = u /\ dl'[o].chunks = <<>>
        /\ Len(toAgent') = Len(toAgent) + 1
        /\ \A i \in DOMAIN toAgent' : (\E j \in DOMAIN toAgent : toAgent'[i] = toAgent[j]) \/ i = Len(toAgent) + 1
        /\ toAgent'[Len(toAgent) + 1].t = "get" /\ toAgent'[Len(toAgent) + 1].of = u
    BY <1>2, MixDownload
  <1>4. CASE t = u
    <2>1. /\ toAgent = <<>> /\ tray.dialog = Nothing
          /\ \A w \in Windows : toViewer[w] = <<>> /\ digesting[w] = <<>> /\ dl[w].of = Nothing
          /\ \A v \in Transfers : ~UnderWay(v)
      BY <1>2, <1>4, NotBusy
    <2>2. /\ Len(toAgent') = 1 /\ toAgent'[1].t = "get" /\ toAgent'[1].of = t /\ \A i \in DOMAIN toAgent' : i = 1
      BY <1>3, <1>4, <2>1
    <2>3. Alone(t)'
      <3>1. OwnOnly(t)
        BY <1>1, <2>2 DEF OwnOnly
      <3>2. Alone(t)
        BY <2>1 DEF Alone
      <3> QED
        BY <1>1, <1>3, <1>4, <2>1, <3>1, <3>2, AloneStays
    <2>4. Fetched(t)'
      BY <1>1, <1>3, <1>4, <2>1, <2>2 DEF Fetched, Seen
    <2> QED
      BY <1>3, <1>4, <2>3, <2>4 DEF Place, IsGet
  <1>5. CASE t # u
    <2>1. xfer'[t] = xfer[t]
      BY <1>2, <1>3, <1>5 DEF MixInv, MessagesTell, Collects, UnderWay
    <2>2. SilentOf(t)
      BY <1>1, <1>3 DEF SilentOf
    <2> QED
      BY <1>2, <2>1, <2>2, ThreeWays, PlaceNotBegun, ToldStays
  <1> QED
    BY <1>4, <1>5

LEMMA PlaceDrops ==
    ASSUME TransferInv, Reconnect \/ \E o \in Windows : WindowDrops(o), NEW t \in Transfers, Clean(t)'
    PROVE  Place(t)'
  <1> USE NamesDiffer
  <1>1. mingled' = mingled /\ hurt \subseteq hurt' /\ UNCHANGED <<xfer, dl, digesting, disk>>
    BY DEF Reconnect, WindowDrops
  <1>2. MixInv /\ TransferTyped /\ Place(t) /\ xfer[t] \in XferRow /\ toViewer \in [Windows -> Seq(MsgRow)]
    BY <1>1, WasPlaced DEF TransferTyped
  <1>3. CASE ~UnderWay(t)
    <2>1. /\ toAgent' = toAgent \/ toAgent' = <<>>
          /\ \A w \in Windows : toViewer'[w] = toViewer[w] \/ toViewer'[w] = <<>>
      BY <1>2 DEF Reconnect, WindowDrops
    <2>2. SilentOf(t)
      BY <1>1, <2>1 DEF SilentOf
    <2> QED
      BY <1>1, <1>2, <1>3, <2>2, ThreeWays, PlaceNotBegun, ToldStays
  <1>4. CASE UnderWay(t)
    <2>1. ~Reconnect
      BY <1>4 DEF Reconnect, Clean
    <2>2. PICK o \in Windows : WindowDrops(o)
      BY <2>1
    <2>3. xfer[t].owner # o
      BY <1>4, <2>2 DEF WindowDrops, Clean
    <2>4. Alone(t) /\ xfer[t].owner \in Windows
      BY <1>2, <1>4 DEF Place
    <2>5. /\ UNCHANGED <<toAgent, tray>> /\ \A w \in Windows : toViewer'[w] = toViewer[w] \/ toViewer'[w] = <<>>
          /\ toViewer'[xfer[t].owner] = toViewer[xfer[t].owner]
      BY <1>2, <2>2, <2>3, <2>4 DEF WindowDrops
    <2>6. OwnOnly(t)
      BY <1>1, <2>5 DEF OwnOnly
    <2>7. Alone(t)'
      BY <1>1, <2>4, <2>5, <2>6, AloneStays DEF Alone
    <2> QED
      BY <1>1, <1>2, <1>4, <2>5, <2>7, PlaceWaits
  <1> QED
    BY <1>3, <1>4

\* Only a transfer's own stream, or timer, goes on while it is under way.
LEMMA OnlyOne ==
    ASSUME NEW t \in Transfers, Place(t), NEW u \in Transfers, UnderWay(u), UnderWay(t)
    PROVE  t = u
  BY DEF Place, Alone

LEMMA PlaceTimeout ==
    ASSUME TransferInv, NEW u \in Transfers, Timeout(u), NEW t \in Transfers, Clean(t)'
    PROVE  Place(t)'
  <1> USE NamesDiffer
  <1>1. /\ UNCHANGED <<reqId, dl, digesting, toAgent, toViewer, tray, disk, ghosts>>
        /\ xfer[u].pc = "asked" /\ xfer[u].way \in {"put", "ask"} /\ UnderWay(u) /\ ~IsGet(u)
    BY DEF Timeout, UnderWay, IsGet
  <1>2. MixInv /\ TransferTyped /\ Place(t) /\ xfer[t] \in XferRow
    BY <1>1, WasPlaced DEF ghosts
  <1>3. /\ xfer'[u].pc = "told" /\ xfer'[u].told.tag = "cancelled" /\ xfer'[u].owner = xfer[u].owner
        /\ \A v \in Transfers : v # u => xfer'[v] = xfer[v]
    BY <1>2, MixTimeout
  <1>4. CASE t = u
    <2>1. Requested(t) /\ xfer[t].owner \in Windows
      BY <1>1, <1>2, <1>4 DEF Place
    <2>2. Silent(t)'
      <3>1. \A i \in DOMAIN toAgent' : ~(toAgent'[i].t = "end" /\ toAgent'[i].of = t)
        <4>1. toAgent \in Seq(MsgRow)
          BY <1>2 DEF TransferTyped
        <4> QED
          BY <1>1, <1>4, <2>1, <4>1 DEF Requested, About
      <3>2. \A i \in DOMAIN Seen(t) : ~(Seen(t)[i].t = "sent" /\ Seen(t)[i].of = t)
        <4>1. Seen(t) \in Seq(MsgRow)
          BY <1>2, <2>1 DEF TransferTyped, Seen
        <4> QED
          BY <2>1, <4>1 DEF Requested, About
      <3>3. \A i \in DOMAIN digesting[xfer[t].owner] : digesting[xfer[t].owner][i].dl.of # t
        BY <1>1, <1>2, <1>4, <2>1 DEF MixInv, MessagesTell, Digest
      <3> QED
        BY <1>1, <1>3, <1>4, <3>1, <3>2, <3>3 DEF Silent, Seen
    <2>3. Settled(t)'
      BY <1>3, <1>4 DEF Settled
    <2> QED
      BY <1>3, <1>4, <2>2, <2>3, PlaceTold
  <1>5. CASE t # u
    <2>1. ~UnderWay(t)
      BY <1>1, <1>2, <1>5, OnlyOne
    <2>2. SilentOf(t)
      BY <1>1 DEF SilentOf
    <2> QED
      BY <1>2, <1>3, <1>5, <2>1, <2>2, ThreeWays, PlaceNotBegun, ToldStays
  <1> QED
    BY <1>4, <1>5

\* What a stream sends.
LEMMA StreamDoes ==
    ASSUME MixInv, NEW t \in Transfers, Stream(t)
    PROVE  /\ \A u \in Transfers : u # t => xfer'[u] = xfer[u]
           /\ xfer'[t].way = xfer[t].way /\ xfer'[t].owner = xfer[t].owner /\ xfer'[t].rid = xfer[t].rid
           /\ xfer'[t].path = xfer[t].path /\ xfer'[t].told = xfer[t].told
           /\ Len(toAgent') = Len(toAgent) + 1 /\ \A i \in DOMAIN toAgent : toAgent'[i] = toAgent[i]
           /\ \A i \in DOMAIN toAgent' : i \in DOMAIN toAgent \/ i = Len(toAgent) + 1
           /\ LET m == toAgent'[Len(toAgent) + 1] IN
              /\ m.of = t /\ m.rid = xfer[t].rid
              /\ \/ /\ xfer[t].next <= Chunks /\ xfer'[t].pc = "streaming" /\ xfer'[t].next = xfer[t].next + 1
                    /\ xfer'[t].hashed = (xfer[t].hashed \/ xfer[t].next = 1)
                    /\ m.t = "chunk" /\ m.bytes = <<<<t, xfer[t].next>>>>
                 \/ /\ xfer[t].next = Chunks + 1 /\ xfer'[t].pc = "ended"
                    /\ xfer'[t].hashed = xfer[t].hashed /\ m.t = "end"
  <1> USE NamesDiffer
  <1>0. /\ xfer \in [Transfers -> XferRow] /\ xfer[t] \in XferRow /\ toAgent \in Seq(MsgRow)
        /\ xfer[t].rid \in Nat /\ xfer[t].next \in 1 .. Chunks + 1
    BY DEF MixInv, TransferTyped, XferRow
  <1>1. CASE xfer[t].next <= Chunks
    <2>1. PICK m : m = [Msg("chunk", xfer[t].rid, t) EXCEPT !.bytes = <<Content(t)[xfer[t].next]>>]
      OBVIOUS
    <2>2. Content(t)[xfer[t].next] = <<t, xfer[t].next>> /\ xfer[t].next \in 1 .. Chunks
      BY <1>0, <1>1, ContentTyped
    <2>3. /\ m.of = t /\ m.rid = xfer[t].rid /\ m.t = "chunk" /\ m.bytes = <<<<t, xfer[t].next>>>>
          /\ m \in MsgRow
      <3>1. PICK b \in Bytes : b = <<<<t, xfer[t].next>>>>
        <4>1. <<t, xfer[t].next>> \in Transfers \X Nat
          BY <2>2
        <4> QED
          BY <4>1, OneHolds DEF Bytes
      <3>2. PICK n \in MsgRow : n = Msg("chunk", xfer[t].rid, t) /\ n.of = t /\ n.t = "chunk" /\ n.rid = xfer[t].rid
        BY <1>0, MsgTyped DEF Msg
      <3>3. m = [n EXCEPT !.bytes = b]
        BY <2>1, <2>2, <3>1, <3>2
      <3> QED
        BY <3>1, <3>2, <3>3 DEF MsgRow
    <2>4. /\ toAgent' = Append(toAgent, m)
          /\ xfer' = [xfer EXCEPT ![t].next = @ + 1, ![t].hashed = @ \/ xfer[t].next = 1]
      BY <1>1, <2>1 DEF Stream, Send
    <2>5. /\ \A u \in Transfers : u # t => xfer'[u] = xfer[u]
          /\ xfer'[t].way = xfer[t].way /\ xfer'[t].owner = xfer[t].owner /\ xfer'[t].rid = xfer[t].rid
          /\ xfer'[t].path = xfer[t].path /\ xfer'[t].told = xfer[t].told /\ xfer'[t].pc = xfer[t].pc
          /\ xfer'[t].next = xfer[t].next + 1 /\ xfer'[t].hashed = (xfer[t].hashed \/ xfer[t].next = 1)
      BY <1>0, <2>4 DEF XferRow
    <2>6. /\ Len(toAgent') = Len(toAgent) + 1 /\ \A i \in DOMAIN toAgent : toAgent'[i] = toAgent[i]
          /\ \A i \in DOMAIN toAgent' : i \in DOMAIN toAgent \/ i = Len(toAgent) + 1
          /\ toAgent'[Len(toAgent) + 1] = m
      BY <1>0, <2>3, <2>4, AppendedHolds
    <2>7. xfer[t].pc = "streaming"
      BY DEF Stream
    <2> QED
      BY <1>1, <2>3, <2>5, <2>6, <2>7
  <1>2. CASE ~(xfer[t].next <= Chunks)
    <2>1. PICK m \in MsgRow : m = Msg("end", xfer[t].rid, t) /\ m.of = t /\ m.rid = xfer[t].rid /\ m.t = "end"
      BY <1>0, MsgTyped DEF Msg
    <2>2. toAgent' = Append(toAgent, m) /\ xfer' = [xfer EXCEPT ![t].pc = "ended"] /\ xfer[t].next = Chunks + 1
      BY <1>0, <1>2, <2>1 DEF Stream, Send
    <2>3. /\ \A u \in Transfers : u # t => xfer'[u] = xfer[u]
          /\ xfer'[t].way = xfer[t].way /\ xfer'[t].owner = xfer[t].owner /\ xfer'[t].rid = xfer[t].rid
          /\ xfer'[t].path = xfer[t].path /\ xfer'[t].told = xfer[t].told /\ xfer'[t].pc = "ended"
          /\ xfer'[t].hashed = xfer[t].hashed
      BY <1>0, <2>2 DEF XferRow
    <2>4. /\ Len(toAgent') = Len(toAgent) + 1 /\ \A i \in DOMAIN toAgent : toAgent'[i] = toAgent[i]
          /\ \A i \in DOMAIN toAgent' : i \in DOMAIN toAgent \/ i = Len(toAgent) + 1
          /\ toAgent'[Len(toAgent) + 1] = m
      BY <1>0, <2>2, AppendedHolds
    <2> QED
      BY <2>1, <2>2, <2>3, <2>4
  <1> QED
    BY <1>1, <1>2

LEMMA PlaceStream ==
    ASSUME TransferInv, NEW u \in Transfers, Stream(u), NEW t \in Transfers, Clean(t)'
    PROVE  Place(t)'
  <1> USE NamesDiffer
  <1>1. /\ UNCHANGED <<reqId, dl, digesting, toViewer, tray, disk, ghosts>>
        /\ xfer[u].pc = "streaming" /\ UnderWay(u)
    BY DEF Stream, UnderWay
  <1>2. MixInv /\ TransferTyped /\ Place(t) /\ xfer[t] \in XferRow /\ toAgent \in Seq(MsgRow)
    BY <1>1, WasPlaced DEF ghosts, TransferTyped
  <1>3. PICK m : m = toAgent'[Len(toAgent) + 1]
    OBVIOUS
  <1>4. /\ \A v \in Transfers : v # u => xfer'[v] = xfer[v]
        /\ xfer'[u].way = xfer[u].way /\ xfer'[u].owner = xfer[u].owner /\ xfer'[u].rid = xfer[u].rid
        /\ xfer'[u].path = xfer[u].path /\ xfer'[u].told = xfer[u].told
        /\ Len(toAgent') = Len(toAgent) + 1 /\ \A i \in DOMAIN toAgent : toAgent'[i] = toAgent[i]
        /\ \A i \in DOMAIN toAgent' : i \in DOMAIN toAgent \/ i = Len(toAgent) + 1
        /\ m.of = u /\ m.rid = xfer[u].rid
        /\ \/ /\ xfer[u].next <= Chunks /\ xfer'[u].pc = "streaming" /\ xfer'[u].next = xfer[u].next + 1
              /\ xfer'[u].hashed = (xfer[u].hashed \/ xfer[u].next = 1)
              /\ m.t = "chunk" /\ m.bytes = <<<<u, xfer[u].next>>>>
           \/ /\ xfer[u].next = Chunks + 1 /\ xfer'[u].pc = "ended"
              /\ xfer'[u].hashed = xfer[u].hashed /\ m.t = "end"
    BY <1>2, <1>3, StreamDoes
  <1>5. \A i \in DOMAIN toAgent' : (\E j \in DOMAIN toAgent : toAgent'[i] = toAgent[j]) \/ toAgent'[i] = m
    BY <1>3, <1>4
  <1>6. CASE t = u
    <2>1. /\ ~IsGet(t) /\ Streams(t) /\ Alone(t) /\ xfer[t].owner \in Windows /\ xfer[t].told.tag = "none"
      BY <1>1, <1>2, <1>6 DEF Place
    <2>2. Alone(t)'
      <3>1. OwnOnly(t)
        BY <1>1, <1>4, <1>5, <1>6 DEF OwnOnly
      <3> QED
        BY <1>1, <1>4, <1>6, <2>1, <3>1, AloneStays DEF Alone
    <2>3. PICK n \in 0 .. Chunks :
            /\ Written(t, xfer[t].path, n) /\ n + Len(toAgent) = xfer[t].next - 1
            /\ Follow(t, n, Len(toAgent))
      BY <2>1 DEF Streams
    <2>4. Written(t, xfer[t].path, n)' /\ Len(toAgent) \in Nat /\ DOMAIN toAgent = 1 .. Len(toAgent)
          /\ xfer[t].next \in Nat /\ xfer[t].hashed \in BOOLEAN
      <3>1. Written(t, xfer[t].path, n)'
        BY <1>1, <1>4, <1>6, <2>3 DEF Written
      <3>2. Len(toAgent) \in Nat /\ DOMAIN toAgent = 1 .. Len(toAgent)
        BY <1>2
      <3>3. xfer[t].next \in Nat /\ xfer[t].hashed \in BOOLEAN
        BY <1>2 DEF XferRow
      <3> QED
        BY <3>1, <3>2, <3>3
    <2>6. \A i \in 1 .. Len(toAgent) : /\ toAgent'[i].t = "chunk" /\ toAgent'[i].of = t /\ toAgent'[i].rid = xfer'[t].rid
                                       /\ toAgent'[i].bytes = <<<<t, n + i>>>>
      <3> TAKE i \in 1 .. Len(toAgent)
      <3>1. i \in DOMAIN toAgent
        BY <2>4
      <3>2. toAgent'[i] = toAgent[i] /\ xfer'[t].rid = xfer[t].rid
        BY <1>4, <1>6, <3>1
      <3>3. /\ toAgent[i].t = "chunk" /\ toAgent[i].of = t /\ toAgent[i].rid = xfer[t].rid
            /\ toAgent[i].bytes = <<<<t, n + i>>>>
        BY <2>3 DEF Follow, About
      <3> QED
        BY <3>2, <3>3
    <2>7. /\ tray'.dialog = Nothing /\ Seen(t)' = <<>> /\ xfer[t].hashed = (xfer[t].next > 1)
          /\ xfer'[t].path = xfer[t].path
      BY <1>1, <1>4, <1>6, <2>1 DEF Streams, Seen
    <2>8. CASE /\ xfer[u].next <= Chunks /\ xfer'[u].pc = "streaming" /\ xfer'[u].next = xfer[u].next + 1
               /\ xfer'[u].hashed = (xfer[u].hashed \/ xfer[u].next = 1)
               /\ m.t = "chunk" /\ m.bytes = <<<<u, xfer[u].next>>>>
      <3>1. xfer[t].next = n + (Len(toAgent) + 1)
        BY <2>3, <2>4
      <3>2. m.bytes = <<<<t, n + (Len(toAgent) + 1)>>>>
        BY <1>6, <2>8, <3>1
      <3>3. \A i \in 1 .. Len(toAgent') : /\ toAgent'[i].t = "chunk" /\ toAgent'[i].of = t /\ toAgent'[i].rid = xfer'[t].rid
                                          /\ toAgent'[i].bytes = <<<<t, n + i>>>>
        <4> TAKE i \in 1 .. Len(toAgent')
        <4>1. i \in 1 .. Len(toAgent) \/ i = Len(toAgent) + 1
          BY <1>4, <2>4
        <4>2. CASE i = Len(toAgent) + 1
          BY <1>3, <1>4, <1>6, <2>8, <3>2, <4>2
        <4> QED
          BY <2>6, <4>1, <4>2
      <3>4. Follow(t, n, Len(toAgent))'
        BY <3>3 DEF Follow, About
      <3>5. n + Len(toAgent') = xfer'[t].next - 1 /\ xfer'[t].hashed = (xfer'[t].next > 1)
        <4>1. xfer'[t].next = xfer[t].next + 1 /\ Len(toAgent') = Len(toAgent) + 1
          BY <1>4, <1>6, <2>8
        <4>2. xfer[t].next = 1 \/ xfer[t].next > 1
          BY <2>3, <2>4
        <4>3. xfer[t].hashed \/ xfer[t].next = 1
          BY <2>7, <4>2
        <4>4. xfer'[t].hashed = TRUE
          BY <1>6, <2>8, <4>3
        <4>5. (xfer'[t].next > 1) = TRUE /\ n + Len(toAgent') = xfer'[t].next - 1
          BY <2>3, <2>4, <4>1
        <4> QED
          BY <4>4, <4>5
      <3>6. Streams(t)'
        BY <2>4, <2>7, <3>4, <3>5 DEF Streams
      <3>7. ~IsGet(t)' /\ xfer'[t].owner \in Windows /\ xfer'[t].told.tag = "none" /\ xfer'[t].pc = "streaming"
        BY <1>4, <1>6, <2>1, <2>8 DEF IsGet
      <3> QED
        BY <2>2, <3>6, <3>7 DEF Place
    <2>9. CASE /\ xfer[u].next = Chunks + 1 /\ xfer'[u].pc = "ended"
               /\ xfer'[u].hashed = xfer[u].hashed /\ m.t = "end"
      <3>1. xfer'[t].hashed /\ n + Len(toAgent') = Chunks + 1 /\ Len(toAgent') > 0 /\ Len(toAgent') - 1 = Len(toAgent)
        <4>1. Len(toAgent') = Len(toAgent) + 1 /\ xfer[t].next = Chunks + 1
          BY <1>4, <1>6, <2>9
        <4>2. xfer[t].next > 1
          BY <4>1
        <4>3. xfer'[t].hashed
          BY <1>6, <2>7, <2>9, <4>2
        <4>4. n + Len(toAgent') = Chunks + 1 /\ Len(toAgent') > 0 /\ Len(toAgent') - 1 = Len(toAgent)
          BY <2>3, <2>4, <4>1
        <4> QED
          BY <4>3, <4>4
      <3>2. About(toAgent[Len(toAgent)], "end", t)'
        BY <1>3, <1>4, <1>6, <2>9, <3>1 DEF About
      <3>3. Follow(t, n, Len(toAgent) - 1)'
        BY <2>6, <3>1 DEF Follow, About
      <3>4. Ends(t)'
        BY <2>4, <2>7, <3>1, <3>2, <3>3 DEF Ends
      <3>7. ~IsGet(t)' /\ xfer'[t].owner \in Windows /\ xfer'[t].told.tag = "none" /\ xfer'[t].pc = "ended"
        BY <1>4, <1>6, <2>1, <2>9 DEF IsGet
      <3> QED
        BY <2>2, <3>4, <3>7 DEF Place
    <2> QED
      BY <1>4, <2>8, <2>9
  <1>7. CASE t # u
    <2>1. ~UnderWay(t)
      BY <1>1, <1>2, <1>7, OnlyOne
    <2>2. SilentOf(t)
      BY <1>1, <1>4, <1>5, <1>7 DEF SilentOf
    <2> QED
      BY <1>2, <1>4, <1>7, <2>1, <2>2, ThreeWays, PlaceNotBegun, ToldStays
  <1> QED
    BY <1>6, <1>7

LEMMA PlacePull ==
    ASSUME TransferInv, NEW u \in Transfers, Pull(u), NEW t \in Transfers, Clean(t)'
    PROVE  Place(t)'
  <1> USE NamesDiffer
  <1>1. Starts(u) /\ UNCHANGED <<dl, digesting, toAgent, hurt>> /\ xfer[u].pc = "offered" /\ xfer[u].rid = 0
    BY DEF Pull
  <1>2. /\ MixInv /\ TransferTyped /\ Place(t) /\ xfer[t] \in XferRow
        /\ ~UnderWay(t) /\ (t = u => ~Busy)
    BY <1>1, StartMeets
  <1>3. PICK p \in Paths, a \in MsgRow :
          /\ tray'.up = p /\ tray'.dialog = tray.dialog /\ disk'[p].bytes = <<>>
          /\ \A w \in Windows : toViewer'[w] = Append(toViewer[w], a)
          /\ a.t = "pull" /\ a.of = u /\ a.path = p /\ a.rid # 0
          /\ xfer'[u] = [xfer[u] EXCEPT !.rid = a.rid] /\ \A v \in Transfers : v # u => xfer'[v] = xfer[v]
    BY <1>2, MixPull
  <1>4. \A w \in Windows : \A i \in DOMAIN toViewer'[w] :
              (\E j \in DOMAIN toViewer[w] : toViewer'[w][i] = toViewer[w][j]) \/ toViewer'[w][i] = a
    BY <1>2, <1>3, ViewersHave
  <1>5. CASE t = u
    <2>1. /\ toAgent = <<>> /\ tray.dialog = Nothing
          /\ \A w \in Windows : toViewer[w] = <<>> /\ digesting[w] = <<>> /\ dl[w].of = Nothing
          /\ \A v \in Transfers : ~UnderWay(v)
      BY <1>2, <1>5, NotBusy
    <2>2. /\ xfer[t].way = "offer" /\ ~xfer[t].hashed /\ xfer[t].next = 1 /\ xfer[t].owner \in Windows
          /\ xfer[t].told.tag = "none"
      BY <1>1, <1>2, <1>5 DEF Place
    <2>3. /\ xfer'[t].way = "offer" /\ ~xfer'[t].hashed /\ xfer'[t].next = 1 /\ xfer'[t].owner = xfer[t].owner
          /\ xfer'[t].told.tag = "none" /\ xfer'[t].rid = a.rid /\ xfer'[t].pc = "offered"
      BY <1>1, <1>2, <1>3, <1>5, <2>2 DEF XferRow
    <2>4. Alone(t)'
      <3>1. OwnOnly(t)
        BY <1>1, <1>3, <1>4, <1>5 DEF OwnOnly
      <3>2. Alone(t)
        BY <2>1 DEF Alone
      <3> QED
        BY <1>3, <1>5, <2>1, <3>1, <3>2, AloneStays
    <2>5. Pulled(t)'
      <3>a. <<>> \in Seq(MsgRow)
        OBVIOUS
      <3>1. PICK q \in Seq(MsgRow) : q = <<>>
        BY <3>a
      <3>5. toViewer[xfer[t].owner] = q
        BY <2>1, <2>2, <3>1
      <3>2. Seen(t)' = Append(q, a)
        BY <1>3, <2>2, <2>3, <3>5 DEF Seen
      <3>3. Len(Seen(t)') = 1 /\ Seen(t)'[1] = a
        BY <3>1, <3>2
      <3>4. Written(t, a.path, 0)'
        BY <1>3 DEF Written
      <3> QED
        BY <1>1, <1>3, <1>5, <2>1, <2>3, <3>3, <3>4 DEF Pulled, About, Seen, Written
    <2> QED
      BY <2>2, <2>3, <2>4, <2>5 DEF Place, IsGet
  <1>6. CASE t # u
    <2>1. SilentOf(t)
      BY <1>1, <1>3, <1>4, <1>6 DEF SilentOf
    <2> QED
      BY <1>2, <1>3, <1>6, <2>1, ThreeWays, PlaceNotBegun, ToldStays
  <1> QED
    BY <1>5, <1>6

LEMMA PlaceDigested ==
    ASSUME TransferInv, NEW o \in Windows, Digested(o), NEW t \in Transfers, Clean(t)'
    PROVE  Place(t)'
  <1> USE NamesDiffer
  <1>1. UNCHANGED <<reqId, toAgent, toViewer, tray, disk, ghosts>>
    BY DEF Digested
  <1>2. MixInv /\ TransferTyped /\ Place(t) /\ xfer[t] \in XferRow
        /\ digesting \in [Windows -> Seq([dl : Collected, bytes : Bytes])]
    BY <1>1, WasPlaced DEF ghosts, TransferTyped
  <1>3. PICK d : d = digesting[o][1]
    OBVIOUS
  <1>4. /\ digesting[o] # <<>> /\ digesting' = [digesting EXCEPT ![o] = Tail(@)]
        /\ d.dl.of \in Transfers
        /\ \A v \in Transfers : v # d.dl.of => xfer'[v] = xfer[v]
        /\ xfer'[d.dl.of].pc = "told" /\ xfer'[d.dl.of].saved = d.dl.chunks
        /\ xfer'[d.dl.of].owner = o /\ xfer[d.dl.of].owner = o /\ IsGet(d.dl.of) /\ xfer'[d.dl.of].way = "get"
        /\ (d.dl.chunks = d.bytes => xfer'[d.dl.of].told.tag = "verified")
    BY <1>2, <1>3, MixDigested
  <1>5. /\ digesting[o] \in Seq([dl : Collected, bytes : Bytes]) /\ 1 \in DOMAIN digesting[o]
        /\ Len(Tail(digesting[o])) = Len(digesting[o]) - 1
        /\ \A i \in DOMAIN Tail(digesting[o]) : i + 1 \in DOMAIN digesting[o] /\ Tail(digesting[o])[i] = digesting[o][i + 1]
        /\ Tail(digesting[o]) \in Seq([dl : Collected, bytes : Bytes])
    <2>1. digesting[o] \in Seq([dl : Collected, bytes : Bytes]) /\ digesting[o] # <<>>
      BY <1>2, <1>4
    <2> QED
      BY <2>1, TailHolds
  <1>6. Begun(d.dl.of)
    <2>1. Digest(o, digesting[o][1])
      BY <1>2, <1>5 DEF MixInv, MessagesTell
    <2>2. Digest(o, d)
      BY <1>3, <2>1
    <2> QED
      BY <2>2 DEF Digest
  <1>7. \A w \in Windows : \A i \in DOMAIN digesting'[w] : \E j \in DOMAIN digesting[w] : digesting'[w][i] = digesting[w][j]
    BY <1>2, <1>4, <1>5
  <1>8. CASE t = d.dl.of
    <2>1. UnderWay(t)
      <3>1. xfer[t].pc # "told"
        BY <1>2, <1>3, <1>4, <1>5, <1>8 DEF Place, Silent
      <3> QED
        BY <1>2, <1>6, <1>8, <3>1, ThreeWays
    <2>2. Fetched(t)
      BY <1>2, <1>4, <1>8, <2>1 DEF Place, UnderWay, MixInv, MessagesTell
    <2>3. toAgent = <<>> /\ Seen(t) = <<>> /\ Len(digesting[o]) = 1 /\ d.dl.chunks = Content(t) /\ d.bytes = Content(t)
      BY <1>3, <1>4, <1>8, <2>2 DEF Fetched
    <2>4. Settled(t)'
      BY <1>4, <1>8, <2>3 DEF Settled, Content, IsGet
    <2>5. Silent(t)'
      <3>1. toAgent' = <<>> /\ Seen(t)' = <<>> /\ xfer'[t].owner = o
        BY <1>1, <1>4, <1>8, <2>3 DEF Seen
      <3>2. digesting'[o] = <<>>
        BY <1>2, <1>4, <1>5, <2>3
      <3> QED
        BY <3>1, <3>2 DEF Silent
    <2> QED
      BY <1>4, <1>8, <2>4, <2>5, PlaceTold
  <1>9. CASE t # d.dl.of
    <2>1. ~UnderWay(t)
      BY <1>2, <1>3, <1>5, <1>9 DEF Place, Alone
    <2>2. SilentOf(t)
      BY <1>1, <1>7 DEF SilentOf
    <2> QED
      BY <1>2, <1>4, <1>9, <2>1, <2>2, ThreeWays, PlaceNotBegun, ToldStays
  <1> QED
    BY <1>8, <1>9

(***************************************************************************)
(* What the agent does with a transfer's own messages.                     *)
(***************************************************************************)
LEMMA SameRow ==
    ASSUME NEW S, NEW b \in Seq(S), NEW c \in Seq(S), Len(b) = Len(c), \A i \in 1 .. Len(b) : b[i] = c[i]
    PROVE  b = c
  OBVIOUS

\* The file as it is sent lies there.
LEMMA WrittenWhole ==
    ASSUME TransferTyped, NEW t \in Transfers, NEW p \in Paths, Written(t, p, Chunks)
    PROVE  disk[p].bytes = Content(t)
  <1> USE NamesDiffer
  <1>1. PICK b \in Bytes : b = disk[p].bytes
    BY DEF TransferTyped
  <1>2. Len(b) = Chunks /\ \A i \in 1 .. Chunks : b[i] = <<t, i>>
    BY <1>1 DEF Written
  <1>3. PICK c \in Bytes : c = Content(t) /\ Len(c) = Chunks /\ \A i \in 1 .. Chunks : c[i] = <<t, i>>
    BY ContentTyped
  <1>4. b = c
    <2>1. b \in Seq(Transfers \X Nat) /\ c \in Seq(Transfers \X Nat)
      BY DEF Bytes
    <2>2. Len(b) = Len(c) /\ \A i \in 1 .. Len(b) : b[i] = c[i]
      BY <1>2, <1>3
    <2> QED
      BY <2>1, <2>2, SameRow
  <1> QED
    BY <1>1, <1>3, <1>4

LEMMA WrittenMore ==
    ASSUME MixInv, NEW m \in MsgRow, Chunk(m), NEW t \in Transfers, NEW p, NEW n \in Nat, Written(t, p, n),
           m.bytes = <<<<t, n + 1>>>>
    PROVE  Written(t, p, n + 1)'
  <1> USE NamesDiffer
  <1>1. /\ UNCHANGED <<tray, toViewer>>
        /\ (tray.up # Nothing => tray.up \in Paths /\ disk'[tray.up].bytes = disk[tray.up].bytes \o m.bytes)
    BY ChunkKeeps
  <1>2. p \in Paths /\ tray.up = p /\ Len(disk[p].bytes) = n /\ \A i \in 1 .. n : disk[p].bytes[i] = <<t, i>>
    BY DEF Written
  <1>3. PICK b \in Bytes : b = disk[p].bytes
    BY <1>2 DEF MixInv, TransferTyped
  <1>4. PICK e \in Bytes : e = m.bytes
    BY DEF MsgRow
  <1>5. Len(e) = 1 /\ e[1] = <<t, n + 1>> /\ DOMAIN e = {1}
    BY <1>4
  <1>6. /\ Len(b \o e) = n + 1 /\ \A i \in DOMAIN b : (b \o e)[i] = b[i]
        /\ (b \o e)[n + 1] = e[1]
    <2>1. b \in Seq(Transfers \X Nat) /\ e \in Seq(Transfers \X Nat)
      BY DEF Bytes
    <2>2. /\ Len(b \o e) = Len(b) + Len(e) /\ \A i \in DOMAIN b : (b \o e)[i] = b[i]
          /\ \A i \in DOMAIN e : (b \o e)[Len(b) + i] = e[i]
      BY <2>1, JoinedHolds
    <2>3. Len(b) = n
      BY <1>2, <1>3
    <2> QED
      BY <1>5, <2>2, <2>3
  <1>7. disk'[p].bytes = b \o e
    BY <1>1, <1>2, <1>3, <1>4
  <1>8. \A i \in 1 .. n + 1 : disk'[p].bytes[i] = <<t, i>>
    <2> TAKE i \in 1 .. n + 1
    <2>1. i \in 1 .. n \/ i = n + 1
      OBVIOUS
    <2>2. CASE i \in 1 .. n
      <3>1. i \in DOMAIN b /\ b[i] = <<t, i>>
        BY <1>2, <1>3, <2>2 DEF Bytes
      <3> QED
        BY <1>6, <1>7, <3>1
    <2>3. CASE i = n + 1
      BY <1>5, <1>6, <1>7, <2>3
    <2> QED
      BY <2>1, <2>2, <2>3
  <1> QED
    BY <1>1, <1>2, <1>6, <1>7, <1>8 DEF Written

LEMMA FollowTail ==
    ASSUME toAgent \in Seq(MsgRow), toAgent # <<>>, toAgent' = Tail(toAgent), UNCHANGED xfer,
           NEW t \in Transfers, NEW n \in Nat, NEW last \in Nat, last <= Len(toAgent), Follow(t, n, last)
    PROVE  Follow(t, n + 1, last - 1)'
  <1>1. /\ Len(Tail(toAgent)) = Len(toAgent) - 1
        /\ \A i \in DOMAIN Tail(toAgent) : i + 1 \in DOMAIN toAgent /\ Tail(toAgent)[i] = toAgent[i + 1]
        /\ DOMAIN Tail(toAgent) = 1 .. Len(toAgent) - 1
    BY TailHolds
  <1>2. ASSUME NEW i \in 1 .. last - 1
        PROVE  /\ toAgent'[i].t = "chunk" /\ toAgent'[i].of = t /\ toAgent'[i].rid = xfer'[t].rid
               /\ toAgent'[i].bytes = <<<<t, (n + 1) + i>>>>
    <2>1. i + 1 \in 1 .. last /\ i \in 1 .. Len(toAgent) - 1 /\ n + (i + 1) = (n + 1) + i
      OBVIOUS
    <2>2. toAgent'[i] = toAgent[i + 1]
      BY <1>1, <2>1
    <2>3. /\ toAgent[i + 1].t = "chunk" /\ toAgent[i + 1].of = t /\ toAgent[i + 1].rid = xfer[t].rid
          /\ toAgent[i + 1].bytes = <<<<t, n + (i + 1)>>>>
      BY <2>1 DEF Follow, About
    <2> QED
      BY <2>1, <2>2, <2>3
  <1> QED
    BY <1>2 DEF Follow, About

\* What waits at the agent tells how far a transfer is that is under way.
LEMMA AgentPhase ==
    ASSUME TransferTyped, MixInv, NEW t \in Transfers, Place(t), UnderWay(t), toAgent # <<>>, tray.dialog = Nothing
    PROVE  \/ /\ xfer[t].pc = "asked" /\ ~IsGet(t) /\ Len(toAgent) = 1 /\ About(toAgent[1], xfer[t].way, t)
              /\ Seen(t) = <<>> /\ (xfer[t].way = "put" => toAgent[1].path = xfer[t].path)
              /\ xfer[t].way \in {"put", "ask"}
           \/ /\ xfer[t].pc = "asked" /\ IsGet(t) /\ dl[xfer[t].owner].of = t
              /\ Len(toAgent) = 1 /\ toAgent[1].t = "get" /\ Seen(t) = <<>>
              /\ digesting[xfer[t].owner] = <<>> /\ dl[xfer[t].owner].chunks = <<>>
           \/ /\ xfer[t].pc = "streaming" /\ ~IsGet(t) /\ Streams(t) /\ toAgent[1].t = "chunk"
           \/ /\ xfer[t].pc = "ended" /\ ~IsGet(t) /\ Ends(t) /\ Seen(t) = <<>>
              /\ toAgent[1].t \in {"chunk", "end"}
  <1> USE NamesDiffer
  <1>1. toAgent \in Seq(MsgRow) /\ Len(toAgent) \in Nat /\ Len(toAgent) > 0
    BY DEF TransferTyped
  <1>2. CASE xfer[t].pc = "asked" /\ ~IsGet(t)
    BY <1>2, <1>1 DEF Place, Requested
  <1>3. CASE xfer[t].pc = "asked" /\ IsGet(t)
    BY <1>3, <1>1 DEF Place, Fetched
  <1>4. CASE xfer[t].pc = "offered"
    BY <1>4, <1>1 DEF Place, Pulled, UnderWay
  <1>5. CASE xfer[t].pc = "streaming"
    <2>1. Streams(t) /\ ~IsGet(t)
      BY <1>5 DEF Place
    <2>2. toAgent[1].t = "chunk"
      BY <1>1, <2>1 DEF Streams, Follow, About
    <2> QED
      BY <1>5, <2>1, <2>2
  <1>6. CASE xfer[t].pc = "ended"
    <2>1. Ends(t) /\ ~IsGet(t)
      BY <1>6 DEF Place
    <2>2. /\ Seen(t) = <<>> /\ About(toAgent[Len(toAgent)], "end", t)
          /\ \E n \in 0 .. Chunks :
               /\ Written(t, xfer[t].path, n) /\ n + Len(toAgent) = Chunks + 1
               /\ Follow(t, n, Len(toAgent) - 1)
      BY <1>1, <2>1 DEF Ends
    <2>3. toAgent[1].t \in {"chunk", "end"}
      BY <1>1, <2>2 DEF Follow, About
    <2> QED
      BY <1>6, <2>1, <2>2, <2>3
  <1> QED
    BY <1>2, <1>3, <1>4, <1>5, <1>6 DEF UnderWay

\* The destination is named to a window that waits for it.
LEMMA DestinationWaits ==
    ASSUME TransferTyped, NEW t \in Transfers, xfer' = xfer, xfer[t].owner \in Windows, Seen(t) = <<>>, NEW a \in MsgRow,
           \A w \in Windows : toViewer'[w] = Append(toViewer[w], a),
           a.t = "dest", a.of = t, a.rid = xfer[t].rid, toAgent' = <<>>, tray'.dialog = Nothing,
           a.path # Nothing => a.path \in Paths /\ tray'.up = a.path /\ disk'[a.path].bytes = <<>>
    PROVE  Requested(t)'
  <1>1. PICK q \in Seq(MsgRow) : q = toViewer[xfer[t].owner] /\ q = <<>>
    BY DEF TransferTyped, Seen
  <1>2. toViewer'[xfer'[t].owner] = Append(q, a)
    BY <1>1
  <1>3. Len(Append(q, a)) = 1 /\ Append(q, a)[1] = a
    BY <1>1
  <1>4. a.path # Nothing => Written(t, a.path, 0)'
    BY DEF Written
  <1>5. Len(Seen(t)') = 1 /\ Seen(t)'[1] = a
    BY <1>2, <1>3 DEF Seen
  <1> QED
    BY <1>4, <1>5 DEF Requested, About, Written, Seen

\* The steps of the agent concern the transfer of its first message.
LEMMA HandleTells ==
    ASSUME MixInv, Handle
    PROVE  /\ toAgent \in Seq(MsgRow) /\ toAgent # <<>> /\ toAgent' = Tail(toAgent) /\ tray.dialog = Nothing
           /\ UNCHANGED <<xfer, reqId, dl, digesting, ghosts>>
           /\ toAgent[1] \in MsgRow /\ AgentMsg(toAgent[1]) /\ 1 \in DOMAIN toAgent
           /\ tray'.dialog \in {Nothing, toAgent[1].of}
           /\ \A w \in Windows : \A i \in DOMAIN toViewer'[w] :
                \/ \E j \in DOMAIN toViewer[w] : toViewer'[w][i] = toViewer[w][j]
                \/ toViewer'[w][i].of = toAgent[1].of /\ (toViewer'[w][i].t = "sent" => toAgent[1].t = "end")
           /\ \A i \in DOMAIN toAgent' : \E j \in DOMAIN toAgent : toAgent'[i] = toAgent[j]
  <1> USE NamesDiffer
  <1>1. TransferTyped /\ toAgent \in Seq(MsgRow) /\ toAgent # <<>> /\ toAgent' = Tail(toAgent) /\ tray.dialog = Nothing
        /\ UNCHANGED <<xfer, reqId, dl, digesting, ghosts>>
    BY DEF Handle, MixInv, TransferTyped
  <1>2. PICK m : m = toAgent[1]
    OBVIOUS
  <1>3. m \in MsgRow /\ AgentMsg(m) /\ m = Head(toAgent) /\ m.rid \in Nat /\ m.of \in Transfers /\ 1 \in DOMAIN toAgent
    <2>1. 1 \in DOMAIN toAgent
      BY <1>1, TailHolds
    <2>2. m \in MsgRow /\ m = Head(toAgent)
      BY <1>1, <1>2, TailHolds
    <2>3. AgentMsg(m)
      BY <1>1, <2>2, FirstOfAgent
    <2> QED
      BY <2>1, <2>2, <2>3 DEF MsgRow
  <1>4. Put(m) \/ AskWhere(m) \/ Chunk(m) \/ End(m) \/ Get(m)
    BY <1>3 DEF Handle
  <1> DEFINE Tells == \A w \in Windows : \A i \in DOMAIN toViewer'[w] :
                \/ \E j \in DOMAIN toViewer[w] : toViewer'[w][i] = toViewer[w][j]
                \/ toViewer'[w][i].of = m.of /\ (toViewer'[w][i].t = "sent" => m.t = "end")
  <1>5. ASSUME NEW a \in MsgRow, a.of = m.of, a.t = "sent" => m.t = "end",
               \A w \in Windows : toViewer'[w] = Append(toViewer[w], a)
        PROVE  Tells
    <2>1. \A w \in Windows : \A i \in DOMAIN toViewer'[w] :
              (\E j \in DOMAIN toViewer[w] : toViewer'[w][i] = toViewer[w][j]) \/ toViewer'[w][i] = a
      BY <1>1, <1>5, ViewersHave
    <2> QED
      BY <1>5, <2>1
  <1>12. Tells /\ tray'.dialog \in {Nothing, m.of}
    <2>6. CASE m.t = "put" /\ CreateFile(m.path, m, "dest")
      <3>1. m.path \in Paths
        BY <1>3, <2>6 DEF AgentMsg
      <3>2. tray' \in TrayRow /\ tray'.up = m.path /\ tray'.dialog = Nothing
        BY <2>6, <3>1 DEF CreateFile, TrayRow
      <3>3. PICK b \in MsgRow : b = Msg("dest", m.rid, m.of) /\ b.t = "dest" /\ b.of = m.of
        BY <1>3, MsgTyped DEF Msg
      <3>4. PICK a \in MsgRow : a = [b EXCEPT !.path = m.path]
        BY <3>1 DEF MsgRow
      <3>5. a.t = "dest" /\ a.of = m.of
        BY <3>3, <3>4 DEF MsgRow
      <3>6. Broadcast(<<a>>)
        BY <2>6, <3>3, <3>4 DEF CreateFile
      <3>7. \A w \in Windows : toViewer'[w] = Append(toViewer[w], a)
        BY <1>1, <3>6, TellsAppend
      <3>8. Tells
        BY <1>5, <3>5, <3>7
      <3> QED
        BY <3>2, <3>8
    <2>7. CASE m.t = "put" /\ NoDestination(m)
      <3>1. tray'.dialog = Nothing
        BY <1>3, <2>7, NoDestinationKeeps
      <3>2. PICK a \in MsgRow : /\ a.t = "dest" /\ a.of = m.of /\ a.rid = m.rid /\ a.path = Nothing
                                /\ \A w \in Windows : toViewer'[w] = Append(toViewer[w], a)
        BY <1>3, <2>7, NoDestinationKeeps
      <3>3. Tells
        BY <1>5, <3>2
      <3> QED
        BY <3>1, <3>3
    <2>8. CASE AskWhere(m)
      <3>1. tray' = [tray EXCEPT !.up = Nothing, !.dialog = m.of] /\ toViewer' = toViewer /\ tray \in TrayRow
        BY <1>1, <2>8 DEF AskWhere, TransferTyped, TrayRow
      <3>2. tray'.dialog = m.of
        BY <3>1 DEF TrayRow
      <3> QED
        BY <3>1, <3>2
    <2>9. CASE Chunk(m)
      BY <1>1, <2>9 DEF Chunk
    <2>10. CASE End(m)
      <3>1. tray'.dialog = tray.dialog /\ m.t = "end"
        BY <1>1, <1>3, <2>10, EndKeeps DEF End
      <3>2. PICK a \in MsgRow : /\ a.t = "sent" /\ a.of = m.of /\ a.rid = m.rid /\ a.path = tray.upPath
                                /\ (tray.upPath # Nothing => a.bytes = disk[tray.upPath].bytes)
                                /\ \A w \in Windows : toViewer'[w] = Append(toViewer[w], a)
        BY <1>1, <1>3, <2>10, EndKeeps
      <3>3. Tells
        BY <1>5, <3>1, <3>2
      <3> QED
        BY <1>1, <3>1, <3>3
    <2>11. CASE Get(m)
      <3>1. tray' = tray
        BY <2>11 DEF Get
      <3>2. PICK ms \in Seq(MsgRow) :
                  /\ \A w \in Windows : toViewer'[w] = toViewer[w] \o ms
                  /\ \/ /\ Len(ms) = Chunks + 1
                        /\ \A i \in 1 .. Chunks : ms[i].t = "chunk" /\ ms[i].of = m.of /\ ms[i].bytes = <<<<m.of, i>>>>
                        /\ ms[Chunks + 1].t = "got" /\ ms[Chunks + 1].of = m.of /\ ms[Chunks + 1].path = m.of
                        /\ ms[Chunks + 1].bytes = Content(m.of)
                     \/ Len(ms) = 1 /\ ms[1].t = "got" /\ ms[1].of = m.of /\ ms[1].path = Nothing
        BY <1>1, <1>3, <2>11, GetKeeps
      <3>3. ASSUME NEW i \in DOMAIN ms
            PROVE  ms[i].of = m.of /\ ms[i].t # "sent"
        <4>1. CASE Len(ms) = 1
          BY <3>2, <4>1
        <4>2. CASE Len(ms) = Chunks + 1 /\ Len(ms) # 1
          <5>1. i \in 1 .. Chunks \/ i = Chunks + 1
            BY <4>2
          <5> QED
            BY <3>2, <4>2, <5>1
        <4> QED
          BY <3>2, <4>1, <4>2
      <3>4. Tells
        <4> SUFFICES ASSUME NEW w \in Windows, NEW i \in DOMAIN toViewer'[w]
                     PROVE  \/ \E j \in DOMAIN toViewer[w] : toViewer'[w][i] = toViewer[w][j]
                            \/ toViewer'[w][i].of = m.of /\ (toViewer'[w][i].t = "sent" => m.t = "end")
          OBVIOUS
        <4>1. PICK s \in Seq(MsgRow) : s = toViewer[w]
          BY <1>1 DEF TransferTyped
        <4>2. toViewer'[w] = s \o ms
          BY <3>2, <4>1
        <4>3. i \in DOMAIN s \/ i - Len(s) \in DOMAIN ms
          BY <4>2, JoinedHolds
        <4>4. CASE i \in DOMAIN s
          BY <4>1, <4>2, <4>4, JoinedHolds
        <4>5. CASE i - Len(s) \in DOMAIN ms
          <5>1. (s \o ms)[Len(s) + (i - Len(s))] = ms[i - Len(s)]
            BY <4>5, JoinedHolds
          <5>2. Len(s) + (i - Len(s)) = i
            BY <4>2
          <5> QED
            BY <3>3, <4>2, <4>5, <5>1, <5>2
        <4> QED
          BY <4>3, <4>4, <4>5
      <3> QED
        BY <1>1, <3>1, <3>4
    <2> QED
      BY <1>4, <2>6, <2>7, <2>8, <2>9, <2>10, <2>11 DEF Put
  <1>13. \A i \in DOMAIN toAgent' : \E j \in DOMAIN toAgent : toAgent'[i] = toAgent[j]
    BY <1>1, TailHolds
  <1> QED
    BY <1>1, <1>2, <1>3, <1>12, <1>13

\* The destination that a window is told of.
LEMMA CreateTells ==
    ASSUME TransferTyped, NEW p \in Paths, NEW m, m.rid \in Nat, m.of \in Transfers, CreateFile(p, m, "dest")
    PROVE  /\ tray'.up = p /\ tray'.dialog = Nothing /\ disk'[p].bytes = <<>>
           /\ \E a \in MsgRow : /\ a.t = "dest" /\ a.of = m.of /\ a.rid = m.rid /\ a.path = p
                                /\ \A w \in Windows : toViewer'[w] = Append(toViewer[w], a)
  <1>1. tray'.up = p /\ tray'.dialog = Nothing
    BY DEF CreateFile
  <1>2. disk'[p].bytes = <<>>
    BY DEF CreateFile, TransferTyped
  <1>3. PICK b \in MsgRow : b = Msg("dest", m.rid, m.of) /\ b.t = "dest" /\ b.of = m.of /\ b.rid = m.rid
    BY MsgTyped DEF Msg
  <1>4. PICK a \in MsgRow : a = [b EXCEPT !.path = p]
    BY DEF MsgRow
  <1>5. a.t = "dest" /\ a.of = m.of /\ a.rid = m.rid /\ a.path = p
    BY <1>3, <1>4 DEF MsgRow
  <1>6. Broadcast(<<a>>)
    BY <1>3, <1>4 DEF CreateFile
  <1>7. \A w \in Windows : toViewer'[w] = Append(toViewer[w], a)
    BY <1>6, TellsAppend
  <1> QED
    BY <1>1, <1>2, <1>5, <1>7

\* What is broadcast to a window that has nothing else to handle.
LEMMA OneSeen ==
    ASSUME TransferTyped, NEW t \in Transfers, xfer'[t].owner = xfer[t].owner, xfer[t].owner \in Windows,
           Seen(t) = <<>>, NEW a \in MsgRow, \A w \in Windows : toViewer'[w] = Append(toViewer[w], a)
    PROVE  Len(Seen(t)') = 1 /\ Seen(t)'[1] = a
  <1>1. PICK q \in Seq(MsgRow) : q = toViewer[xfer[t].owner] /\ q = <<>>
    BY DEF TransferTyped, Seen
  <1>2. toViewer'[xfer'[t].owner] = Append(q, a)
    BY <1>1
  <1>3. Len(Append(q, a)) = 1 /\ Append(q, a)[1] = a
    BY <1>1
  <1> QED
    BY <1>2, <1>3 DEF Seen

\* The destination of an upload is taken, or asked for.
LEMMA HandleAsked ==
    ASSUME MixInv, Handle, NEW t \in Transfers, xfer[t].owner \in Windows, xfer[t].way \in {"put", "ask"},
           Len(toAgent) = 1, About(toAgent[1], xfer[t].way, t), Seen(t) = <<>>
    PROVE  Requested(t)'
  <1> USE NamesDiffer
  <1>1. /\ toAgent \in Seq(MsgRow) /\ toAgent' = Tail(toAgent) /\ tray.dialog = Nothing
        /\ UNCHANGED <<xfer, reqId, dl, digesting, ghosts>>
        /\ toAgent[1] \in MsgRow /\ AgentMsg(toAgent[1])
    BY HandleTells
  <1>2. TransferTyped /\ toAgent' = <<>> /\ Head(toAgent) = toAgent[1]
    BY <1>1 DEF MixInv
  <1>3. PICK m \in MsgRow : m = toAgent[1]
    BY <1>1
  <1>4. /\ m.rid \in Nat /\ m.of = t /\ m.t = xfer[t].way /\ m.rid = xfer[t].rid /\ AgentMsg(m)
        /\ Put(m) \/ AskWhere(m) \/ Chunk(m) \/ End(m) \/ Get(m)
    BY <1>1, <1>2, <1>3 DEF Handle, About, MsgRow
  <1>5. CASE m.t = "put"
    <2>1. CreateFile(m.path, m, "dest") \/ NoDestination(m)
      BY <1>4, <1>5 DEF Put, AskWhere, Chunk, End, Get
    <2>2. CASE CreateFile(m.path, m, "dest")
      <3>1. m.path \in Paths
        BY <1>4, <1>5 DEF AgentMsg
      <3>2. tray'.up = m.path /\ tray'.dialog = Nothing /\ disk'[m.path].bytes = <<>>
        BY <1>2, <1>4, <2>2, <3>1, CreateTells
      <3>3. PICK a \in MsgRow : /\ a.t = "dest" /\ a.of = m.of /\ a.rid = m.rid /\ a.path = m.path
                                /\ \A w \in Windows : toViewer'[w] = Append(toViewer[w], a)
        BY <1>2, <1>4, <2>2, <3>1, CreateTells
      <3>4. a.path \in Paths /\ tray'.up = a.path /\ disk'[a.path].bytes = <<>>
        BY <3>1, <3>2, <3>3
      <3> QED
        BY <1>1, <1>2, <1>4, <3>2, <3>3, <3>4, DestinationWaits
    <2>3. CASE NoDestination(m)
      <3>1. tray'.dialog = Nothing
        BY <1>4, <2>3, NoDestinationKeeps
      <3>2. PICK a \in MsgRow : /\ a.t = "dest" /\ a.of = m.of /\ a.rid = m.rid /\ a.path = Nothing
                                /\ \A w \in Windows : toViewer'[w] = Append(toViewer[w], a)
        BY <1>4, <2>3, NoDestinationKeeps
      <3> QED
        BY <1>1, <1>2, <1>4, <3>1, <3>2, DestinationWaits
    <2> QED
      BY <2>1, <2>2, <2>3
  <1>6. CASE m.t = "ask"
    <2>1. AskWhere(m) /\ tray \in TrayRow
      BY <1>2, <1>4, <1>6 DEF Put, AskWhere, Chunk, End, Get, TransferTyped, TrayRow
    <2>2. tray' = [tray EXCEPT !.up = Nothing, !.dialog = t] /\ toViewer' = toViewer
      BY <1>4, <2>1 DEF AskWhere
    <2>3. tray'.dialog = t
      BY <2>1, <2>2 DEF TrayRow
    <2> QED
      BY <1>1, <1>2, <2>2, <2>3 DEF Requested, Seen
  <1> QED
    BY <1>4, <1>5, <1>6

\* The file is read to its end, or cannot be read.
LEMMA HandleGet ==
    ASSUME MixInv, Handle, NEW t \in Transfers, xfer[t].owner \in Windows,
           dl[xfer[t].owner].of = t, Len(toAgent) = 1, toAgent[1].t = "get", toAgent[1].of = t, Seen(t) = <<>>,
           digesting[xfer[t].owner] = <<>>, dl[xfer[t].owner].chunks = <<>>
    PROVE  Fetched(t)'
  <1> USE NamesDiffer
  <1>1. /\ toAgent \in Seq(MsgRow) /\ toAgent' = Tail(toAgent) /\ tray.dialog = Nothing
        /\ UNCHANGED <<xfer, reqId, dl, digesting, ghosts>>
        /\ toAgent[1] \in MsgRow /\ AgentMsg(toAgent[1])
    BY HandleTells
  <1>2. TransferTyped /\ toAgent' = <<>> /\ Head(toAgent) = toAgent[1] /\ xfer' = xfer /\ dl' = dl /\ digesting' = digesting
    BY <1>1 DEF MixInv
  <1>3. PICK m \in MsgRow : m = toAgent[1] /\ m.of = t /\ m.t = "get" /\ AgentMsg(m)
    BY <1>1
  <1>4. Get(m)
    BY <1>2, <1>3 DEF Handle, Put, AskWhere, Chunk, End
  <1>5. tray' = tray
    BY <1>4 DEF Get
  <1>6. PICK ms \in Seq(MsgRow) :
                /\ \A w \in Windows : toViewer'[w] = toViewer[w] \o ms
                /\ \/ /\ Len(ms) = Chunks + 1
                      /\ \A i \in 1 .. Chunks : ms[i].t = "chunk" /\ ms[i].of = m.of /\ ms[i].bytes = <<<<m.of, i>>>>
                      /\ ms[Chunks + 1].t = "got" /\ ms[Chunks + 1].of = m.of /\ ms[Chunks + 1].path = m.of
                      /\ ms[Chunks + 1].bytes = Content(m.of)
                   \/ Len(ms) = 1 /\ ms[1].t = "got" /\ ms[1].of = m.of /\ ms[1].path = Nothing
    BY <1>2, <1>3, <1>4, GetKeeps
  <1>7. Seen(t)' = ms
    <2>1. PICK q \in Seq(MsgRow) : q = toViewer[xfer[t].owner] /\ q = <<>>
      BY <1>2 DEF TransferTyped, Seen
    <2>2. toViewer'[xfer'[t].owner] = q \o ms
      BY <1>2, <1>6, <2>1
    <2>3. q \o ms = ms
      BY <2>1
    <2> QED
      BY <2>2, <2>3 DEF Seen
  <1>8. PICK c : c = dl'[xfer'[t].owner].chunks /\ c = <<>> /\ Len(c) = 0
    BY <1>2
  <1>9. \/ Len(ms) = 1 /\ ms[1].t = "got" /\ ms[1].path = Nothing /\ c = <<>>
        \/ /\ Len(ms) > 0 /\ Len(c) + Len(ms) = Chunks + 1
           /\ \A i \in 1 .. Len(c) : c[i] = <<t, i>>
           /\ \A i \in 1 .. Len(ms) - 1 : ms[i].t = "chunk" /\ ms[i].bytes = <<<<t, Len(c) + i>>>>
           /\ ms[Len(ms)].t = "got" /\ ms[Len(ms)].path # Nothing /\ ms[Len(ms)].bytes = Content(t)
    <2>1. CASE Len(ms) = 1 /\ ms[1].t = "got" /\ ms[1].path = Nothing
      BY <1>8, <2>1
    <2>2. CASE /\ Len(ms) = Chunks + 1
               /\ \A i \in 1 .. Chunks : ms[i].t = "chunk" /\ ms[i].of = m.of /\ ms[i].bytes = <<<<m.of, i>>>>
               /\ ms[Chunks + 1].t = "got" /\ ms[Chunks + 1].of = m.of /\ ms[Chunks + 1].path = m.of
               /\ ms[Chunks + 1].bytes = Content(m.of)
      <3>1. Len(ms) > 0 /\ Len(c) + Len(ms) = Chunks + 1 /\ \A i \in 1 .. Len(c) : c[i] = <<t, i>>
        BY <1>8, <2>2
      <3>2. \A i \in 1 .. Len(ms) - 1 : ms[i].t = "chunk" /\ ms[i].bytes = <<<<t, Len(c) + i>>>>
        <4> TAKE i \in 1 .. Len(ms) - 1
        <4>1. i \in 1 .. Chunks /\ Len(c) + i = i
          BY <1>8, <2>2
        <4> QED
          BY <1>3, <2>2, <4>1
      <3>3. ms[Len(ms)].t = "got" /\ ms[Len(ms)].path # Nothing /\ ms[Len(ms)].bytes = Content(t)
        BY <1>3, <2>2
      <3> QED
        BY <3>1, <3>2, <3>3
    <2> QED
      BY <1>6, <2>1, <2>2
  <1>10. Arriving(t, ms)'
    <2>1. dl'[xfer'[t].owner].chunks = c
      BY <1>8
    <2> QED
      BY <1>9, <2>1, Zenon DEF Arriving, Content
  <1>11. Arriving(t, Seen(t))'
    BY <1>7, <1>10, Zenon DEF Arriving
  <1> QED
    BY <1>1, <1>2, <1>5, <1>11 DEF Fetched

\* The next chunk is written behind the others.
LEMMA HandleChunk ==
    ASSUME MixInv, Handle, NEW t \in Transfers, NEW n \in 0 .. Chunks, NEW last \in Nat, last <= Len(toAgent), last > 0,
           n + last <= Chunks, Follow(t, n, last), Written(t, xfer[t].path, n)
    PROVE  /\ n + 1 \in 0 .. Chunks /\ Written(t, xfer[t].path, n + 1)' /\ Follow(t, n + 1, last - 1)'
           /\ tray'.dialog = Nothing /\ toViewer' = toViewer
  <1> USE NamesDiffer
  <1>1. /\ toAgent \in Seq(MsgRow) /\ toAgent # <<>> /\ toAgent' = Tail(toAgent) /\ tray.dialog = Nothing
        /\ UNCHANGED <<xfer, reqId, dl, digesting, ghosts>>
        /\ toAgent[1] \in MsgRow
    BY HandleTells
  <1>2. Head(toAgent) = toAgent[1] /\ xfer' = xfer
    BY <1>1
  <1>3. PICK m \in MsgRow : m = toAgent[1]
    BY <1>1
  <1>4. m.t = "chunk" /\ m.bytes = <<<<t, n + 1>>>>
    <2>1. 1 \in 1 .. last
      OBVIOUS
    <2> QED
      BY <1>3, <2>1 DEF Follow, About
  <1>5. Chunk(m)
    BY <1>2, <1>3, <1>4 DEF Handle, Put, AskWhere, End, Get
  <1>6. UNCHANGED <<tray, toViewer>>
    BY <1>5 DEF Chunk
  <1>7. PICK p : p = xfer[t].path
    OBVIOUS
  <1>8. Written(t, p, n)
    BY <1>7
  <1>9. Written(t, p, n + 1)'
    BY <1>4, <1>5, <1>8, WrittenMore
  <1>10. Written(t, xfer[t].path, n + 1)'
    BY <1>2, <1>7, <1>9 DEF Written
  <1>11. Follow(t, n + 1, last - 1)'
    BY <1>1, <1>2, FollowTail
  <1> QED
    BY <1>1, <1>6, <1>10, <1>11

\* The file is closed, and its digest sent.
LEMMA HandleEnd ==
    ASSUME MixInv, Handle, NEW t \in Transfers, xfer[t].owner \in Windows, Len(toAgent) = 1, Seen(t) = <<>>,
           About(toAgent[1], "end", t), Written(t, xfer[t].path, Chunks), xfer[t].hashed
    PROVE  Ends(t)'
  <1> USE NamesDiffer
  <1>1. /\ toAgent \in Seq(MsgRow) /\ toAgent' = Tail(toAgent) /\ tray.dialog = Nothing
        /\ UNCHANGED <<xfer, reqId, dl, digesting, ghosts>>
        /\ toAgent[1] \in MsgRow /\ AgentMsg(toAgent[1])
    BY HandleTells
  <1>2. TransferTyped /\ toAgent' = <<>> /\ Head(toAgent) = toAgent[1] /\ xfer' = xfer
    BY <1>1 DEF MixInv
  <1>3. PICK m \in MsgRow : m = toAgent[1] /\ m.of = t /\ m.rid = xfer[t].rid /\ m.t = "end" /\ AgentMsg(m)
    BY <1>1 DEF About
  <1>4. End(m)
    BY <1>2, <1>3 DEF Handle, Put, AskWhere, Chunk, Get
  <1>5. tray'.dialog = tray.dialog
    BY <1>2, <1>3, <1>4, EndKeeps
  <1>6. PICK a \in MsgRow : /\ a.t = "sent" /\ a.of = m.of /\ a.rid = m.rid /\ a.path = tray.upPath
                            /\ (tray.upPath # Nothing => a.bytes = disk[tray.upPath].bytes)
                            /\ \A w \in Windows : toViewer'[w] = Append(toViewer[w], a)
    BY <1>2, <1>3, <1>4, EndKeeps
  <1>7. xfer[t].path \in Paths /\ tray.upPath = xfer[t].path
    BY DEF Written, MixInv, MessagesTell
  <1>8. disk[xfer[t].path].bytes = Content(t)
    BY <1>2, <1>7, WrittenWhole
  <1>9. Len(Seen(t)') = 1 /\ Seen(t)'[1] = a
    BY <1>2, <1>6, OneSeen
  <1>10. a.t = "sent" /\ a.of = t /\ a.rid = xfer'[t].rid /\ a.path = xfer'[t].path /\ a.bytes = Content(t)
         /\ xfer'[t].path # Nothing /\ xfer'[t].hashed
    BY <1>2, <1>3, <1>6, <1>7, <1>8
  <1> QED
    BY <1>1, <1>2, <1>5, <1>9, <1>10 DEF Ends, About, Content

\* What the agent does with the message of a transfer that is under way.
LEMMA HandlePlaces ==
    ASSUME MixInv, Handle, NEW t \in Transfers, Place(t), UnderWay(t), Alone(t)'
    PROVE  Place(t)'
  <1> USE NamesDiffer
  <1>1. /\ toAgent \in Seq(MsgRow) /\ toAgent # <<>> /\ toAgent' = Tail(toAgent) /\ tray.dialog = Nothing
        /\ UNCHANGED <<xfer, reqId, dl, digesting, ghosts>>
    BY HandleTells
  <1>2. TransferTyped /\ xfer' = xfer /\ Len(toAgent) \in Nat /\ Len(toAgent) > 0 /\ Len(toAgent') = Len(toAgent) - 1
    BY <1>1 DEF MixInv
  <1>3. xfer[t].owner \in Windows /\ xfer[t].told.tag = "none" /\ xfer[t] \in XferRow
    BY <1>2 DEF Place, UnderWay, TransferTyped
  <1>4. \/ /\ xfer[t].pc = "asked" /\ ~IsGet(t) /\ Len(toAgent) = 1 /\ About(toAgent[1], xfer[t].way, t)
           /\ Seen(t) = <<>> /\ (xfer[t].way = "put" => toAgent[1].path = xfer[t].path)
           /\ xfer[t].way \in {"put", "ask"}
        \/ /\ xfer[t].pc = "asked" /\ IsGet(t) /\ dl[xfer[t].owner].of = t
           /\ Len(toAgent) = 1 /\ toAgent[1].t = "get" /\ Seen(t) = <<>>
           /\ digesting[xfer[t].owner] = <<>> /\ dl[xfer[t].owner].chunks = <<>>
        \/ /\ xfer[t].pc = "streaming" /\ ~IsGet(t) /\ Streams(t) /\ toAgent[1].t = "chunk"
        \/ /\ xfer[t].pc = "ended" /\ ~IsGet(t) /\ Ends(t) /\ Seen(t) = <<>>
           /\ toAgent[1].t \in {"chunk", "end"}
    BY <1>1, <1>2, AgentPhase
  <1>5. CASE /\ xfer[t].pc = "asked" /\ ~IsGet(t) /\ Len(toAgent) = 1 /\ About(toAgent[1], xfer[t].way, t)
             /\ Seen(t) = <<>> /\ xfer[t].way \in {"put", "ask"}
    <2>1. Requested(t)'
      BY <1>3, <1>5, HandleAsked
    <2>2. ~xfer[t].hashed /\ xfer[t].next = 1
      BY <1>5 DEF Place
    <2> QED
      BY <1>2, <1>3, <1>5, <2>1, <2>2 DEF Place, IsGet
  <1>6. CASE /\ xfer[t].pc = "asked" /\ IsGet(t) /\ dl[xfer[t].owner].of = t
             /\ Len(toAgent) = 1 /\ toAgent[1].t = "get" /\ Seen(t) = <<>>
             /\ digesting[xfer[t].owner] = <<>> /\ dl[xfer[t].owner].chunks = <<>>
    <2>1. toAgent[1].of = t
      BY <1>1, <1>2 DEF Place, Alone
    <2>2. Fetched(t)'
      BY <1>3, <1>6, <2>1, HandleGet
    <2> QED
      BY <1>2, <1>3, <1>6, <2>2 DEF Place, IsGet
  <1>7. CASE xfer[t].pc = "streaming" /\ ~IsGet(t) /\ Streams(t)
    <2>1. PICK n \in 0 .. Chunks :
            /\ Written(t, xfer[t].path, n) /\ n + Len(toAgent) = xfer[t].next - 1
            /\ Follow(t, n, Len(toAgent))
      BY <1>7 DEF Streams
    <2>2. n + Len(toAgent) <= Chunks /\ xfer[t].next \in Nat
      BY <1>2, <1>3, <2>1 DEF XferRow
    <2>0. PICK last \in Nat : last = Len(toAgent) /\ last > 0 /\ last <= Len(toAgent) /\ n + last <= Chunks
      BY <1>2, <2>2
    <2>3. /\ n + 1 \in 0 .. Chunks /\ Written(t, xfer[t].path, n + 1)' /\ Follow(t, n + 1, last - 1)'
          /\ tray'.dialog = Nothing /\ toViewer' = toViewer
      BY <2>0, <2>1, HandleChunk
    <2>4. PICK k \in 0 .. Chunks : k = n + 1
      BY <2>3
    <2>5. Written(t, xfer[t].path, k)' /\ k + Len(toAgent') = xfer'[t].next - 1 /\ Follow(t, k, Len(toAgent))'
      <3>1. Written(t, xfer[t].path, k)'
        BY <2>3, <2>4
      <3>2. k + Len(toAgent') = xfer'[t].next - 1
        BY <1>2, <2>1, <2>2, <2>4
      <3>3. Follow(t, k, Len(toAgent))'
        <4>1. last - 1 = Len(toAgent')
          BY <1>2, <2>0
        <4> QED
          BY <2>3, <2>4, <4>1 DEF Follow
      <3> QED
        BY <3>1, <3>2, <3>3
    <2>6. Seen(t)' = <<>> /\ xfer'[t].hashed = (xfer'[t].next > 1)
      BY <1>2, <1>7, <2>3 DEF Streams, Seen
    <2>7. Streams(t)'
      BY <2>3, <2>5, <2>6 DEF Streams
    <2> QED
      BY <1>2, <1>3, <1>7, <2>7 DEF Place, IsGet
  <1>8. CASE /\ xfer[t].pc = "ended" /\ ~IsGet(t) /\ Ends(t) /\ Seen(t) = <<>>
    <2>1. /\ Seen(t) = <<>> /\ About(toAgent[Len(toAgent)], "end", t) /\ xfer[t].hashed
      BY <1>1, <1>8 DEF Ends
    <2>2. PICK n \in 0 .. Chunks :
               /\ Written(t, xfer[t].path, n) /\ n + Len(toAgent) = Chunks + 1
               /\ Follow(t, n, Len(toAgent) - 1)
      BY <1>1, <1>8 DEF Ends
    <2>3. CASE Len(toAgent) = 1
      <3>1. n = Chunks
        BY <2>2, <2>3
      <3>2. Written(t, xfer[t].path, Chunks) /\ About(toAgent[1], "end", t)
        BY <2>1, <2>2, <2>3, <3>1
      <3>3. Ends(t)'
        BY <1>3, <2>1, <2>3, <3>2, HandleEnd
      <3> QED
        BY <1>2, <1>3, <1>8, <3>3 DEF Place, IsGet
    <2>4. CASE Len(toAgent) > 1
      <3>1. Len(toAgent) - 1 \in Nat /\ Len(toAgent) - 1 > 0 /\ Len(toAgent) - 1 <= Len(toAgent)
            /\ n + (Len(toAgent) - 1) <= Chunks
        BY <1>2, <2>2, <2>4
      <3>2. PICK last \in Nat : last = Len(toAgent) - 1 /\ last > 0 /\ last <= Len(toAgent) /\ n + last <= Chunks
        BY <3>1
      <3>3. /\ n + 1 \in 0 .. Chunks /\ Written(t, xfer[t].path, n + 1)' /\ Follow(t, n + 1, last - 1)'
            /\ tray'.dialog = Nothing /\ toViewer' = toViewer
        BY <2>2, <3>2, HandleChunk
      <3>4. PICK k \in 0 .. Chunks : k = n + 1
        BY <3>3
      <3>5. Written(t, xfer[t].path, k)' /\ k + Len(toAgent') = Chunks + 1 /\ Follow(t, k, Len(toAgent) - 1)'
        <4>1. Written(t, xfer[t].path, k)'
          BY <3>3, <3>4
        <4>2. k + Len(toAgent') = Chunks + 1
          BY <1>2, <2>2, <3>4
        <4>3. last - 1 = Len(toAgent') - 1
          BY <1>2, <3>2
        <4>4. Follow(t, k, Len(toAgent) - 1)'
          BY <3>3, <3>4, <4>3 DEF Follow
        <4> QED
          BY <4>1, <4>2, <4>4
      <3>6. Len(toAgent') > 0 /\ Seen(t)' = <<>> /\ xfer'[t].hashed
        BY <1>2, <2>1, <2>4, <3>3 DEF Seen
      <3>7. About(toAgent[Len(toAgent)], "end", t)'
        <4>1. Len(toAgent') \in DOMAIN Tail(toAgent) /\ Len(toAgent') + 1 = Len(toAgent)
          BY <1>1, <1>2, <3>6
        <4>2. toAgent'[Len(toAgent')] = toAgent[Len(toAgent)]
          BY <1>1, <4>1, TailHolds
        <4> QED
          BY <1>2, <2>1, <4>2 DEF About
      <3>8. Ends(t)'
        BY <3>3, <3>5, <3>6, <3>7 DEF Ends
      <3> QED
        BY <1>2, <1>3, <1>8, <3>8 DEF Place, IsGet
    <2> QED
      BY <1>2, <2>3, <2>4
  <1> QED
    BY <1>4, <1>5, <1>6, <1>7, <1>8

LEMMA PlaceHandle ==
    ASSUME TransferInv, Handle, NEW t \in Transfers, Clean(t)'
    PROVE  Place(t)'
  <1> USE NamesDiffer
  <1>0. UNCHANGED ghosts
    BY DEF Handle
  <1>1. MixInv /\ TransferTyped /\ Place(t) /\ xfer[t] \in XferRow
    BY <1>0, WasPlaced DEF ghosts
  <1>2. /\ toAgent \in Seq(MsgRow) /\ toAgent # <<>> /\ toAgent' = Tail(toAgent) /\ tray.dialog = Nothing
        /\ UNCHANGED <<xfer, reqId, dl, digesting, ghosts>>
        /\ toAgent[1] \in MsgRow /\ AgentMsg(toAgent[1]) /\ 1 \in DOMAIN toAgent
        /\ tray'.dialog \in {Nothing, toAgent[1].of}
        /\ \A w \in Windows : \A i \in DOMAIN toViewer'[w] :
             \/ \E j \in DOMAIN toViewer[w] : toViewer'[w][i] = toViewer[w][j]
             \/ toViewer'[w][i].of = toAgent[1].of /\ (toViewer'[w][i].t = "sent" => toAgent[1].t = "end")
        /\ \A i \in DOMAIN toAgent' : \E j \in DOMAIN toAgent : toAgent'[i] = toAgent[j]
    BY <1>1, HandleTells
  <1>3. CASE UnderWay(t)
    <2>1. Alone(t)
      BY <1>1, <1>3 DEF Place
    <2>2. toAgent[1].of = t
      BY <1>2, <2>1 DEF Alone
    <2>3. OwnOnly(t)
      BY <1>2, <2>2 DEF OwnOnly
    <2>4. Alone(t)'
      BY <1>2, <2>1, <2>2, <2>3, AloneStays
    <2> QED
      BY <1>1, <1>3, <2>4, HandlePlaces
  <1>4. CASE ~Begun(t)
    BY <1>1, <1>2, <1>4, PlaceNotBegun
  <1>5. CASE xfer[t].pc = "told"
    <2>1. ~(toAgent[1].t = "end" /\ toAgent[1].of = t)
      BY <1>1, <1>2, <1>5 DEF Place, Silent
    <2>2. SilentOf(t)
      BY <1>2, <2>1 DEF SilentOf
    <2> QED
      BY <1>1, <1>2, <1>5, <2>2, ToldStays
  <1> QED
    BY <1>1, <1>3, <1>4, <1>5, ThreeWays

LEMMA PlaceAnswer ==
    ASSUME TransferInv, Answer, NEW t \in Transfers, Clean(t)'
    PROVE  Place(t)'
  <1> USE NamesDiffer
  <1>1. PICK m : m = Msg("dest", xfer[tray.dialog].rid, tray.dialog)
    OBVIOUS
  <1>2. /\ tray.dialog # Nothing /\ UNCHANGED <<xfer, reqId, dl, digesting, toAgent, ghosts>>
        /\ (\E p \in To[m.of] : CreateFile(p, m, "dest")) \/ NoDestination(m)
    BY <1>1 DEF Answer
  <1>3. MixInv /\ TransferTyped /\ Place(t) /\ xfer[t] \in XferRow
    BY <1>2, WasPlaced DEF ghosts
  <1>4. tray.dialog \in Transfers /\ xfer \in [Transfers -> XferRow] /\ toAgent \in Seq(MsgRow)
    BY <1>2, <1>3 DEF TransferTyped
  <1>5. m.of = tray.dialog /\ m.rid = xfer[tray.dialog].rid /\ m.rid \in Nat /\ To[m.of] \subseteq Paths
    BY <1>1, <1>4, TransferAssumption DEF Msg, XferRow, TransferAssumption
  <1>6. PICK a \in MsgRow : /\ a.t = "dest" /\ a.of = m.of /\ a.rid = m.rid /\ tray'.dialog = Nothing
                            /\ (a.path # Nothing => a.path \in Paths /\ tray'.up = a.path /\ disk'[a.path].bytes = <<>>)
                            /\ \A w \in Windows : toViewer'[w] = Append(toViewer[w], a)
    <2>1. CASE \E p \in To[m.of] : CreateFile(p, m, "dest")
      <3>1. PICK p \in Paths : CreateFile(p, m, "dest")
        BY <1>5, <2>1
      <3>2. tray'.up = p /\ tray'.dialog = Nothing /\ disk'[p].bytes = <<>>
        BY <1>3, <1>4, <1>5, <3>1, CreateTells
      <3>3. PICK a \in MsgRow : /\ a.t = "dest" /\ a.of = m.of /\ a.rid = m.rid /\ a.path = p
                                /\ \A w \in Windows : toViewer'[w] = Append(toViewer[w], a)
        BY <1>3, <1>4, <1>5, <3>1, CreateTells
      <3>4. a.path # Nothing => a.path \in Paths /\ tray'.up = a.path /\ disk'[a.path].bytes = <<>>
        BY <3>2, <3>3
      <3> QED
        BY <3>2, <3>3, <3>4
    <2>2. CASE NoDestination(m)
      <3>1. tray'.dialog = Nothing
        BY <1>3, <1>4, <1>5, <2>2, NoDestinationKeeps
      <3>2. PICK a \in MsgRow : /\ a.t = "dest" /\ a.of = m.of /\ a.rid = m.rid /\ a.path = Nothing
                                /\ \A w \in Windows : toViewer'[w] = Append(toViewer[w], a)
        BY <1>3, <1>4, <1>5, <2>2, NoDestinationKeeps
      <3> QED
        BY <3>1, <3>2
    <2> QED
      BY <1>2, <2>1, <2>2
  <1>7. \A w \in Windows : \A i \in DOMAIN toViewer'[w] :
              (\E j \in DOMAIN toViewer[w] : toViewer'[w][i] = toViewer[w][j]) \/ toViewer'[w][i] = a
    BY <1>3, <1>6, ViewersHave
  <1>8. CASE UnderWay(t)
    <2>1. Alone(t) /\ xfer[t].owner \in Windows /\ xfer[t].told.tag = "none"
      BY <1>3, <1>8 DEF Place, UnderWay
    <2>2. tray.dialog = t
      BY <1>2, <2>1 DEF Alone
    <2>3. OwnOnly(t)
      BY <1>2, <1>5, <1>6, <1>7, <2>2 DEF OwnOnly
    <2>4. Alone(t)'
      BY <1>2, <1>6, <2>1, <2>3, AloneStays
    <2>5. xfer[t].pc = "asked" /\ ~IsGet(t)
      BY <1>2, <1>3, <1>8 DEF Place, UnderWay, Fetched, Pulled, Streams, Ends
    <2>6. Requested(t) /\ ~xfer[t].hashed /\ xfer[t].next = 1 /\ xfer[t].way \in {"put", "ask"}
      BY <1>3, <2>5 DEF Place
    <2>7. toAgent = <<>> /\ Seen(t) = <<>>
      BY <1>2, <2>6 DEF Requested
    <2>8. a.of = t /\ a.rid = xfer[t].rid /\ xfer' = xfer /\ toAgent' = <<>>
      BY <1>2, <1>5, <1>6, <2>2, <2>7
    <2>9. Requested(t)'
      BY <1>3, <1>6, <2>1, <2>7, <2>8, DestinationWaits
    <2> QED
      BY <2>1, <2>4, <2>5, <2>6, <2>8, <2>9 DEF Place, IsGet
  <1>9. CASE ~UnderWay(t)
    <2>1. SilentOf(t)
      BY <1>2, <1>6, <1>7 DEF SilentOf
    <2> QED
      BY <1>2, <1>3, <1>9, <2>1, ThreeWays, PlaceNotBegun, ToldStays
  <1> QED
    BY <1>8, <1>9

(***************************************************************************)
(* What a window does with a message.                                      *)
(***************************************************************************)
Views(o, m) ==
    /\ toViewer[o] # <<>> /\ m = toViewer[o][1] /\ toViewer' = [toViewer EXCEPT ![o] = Tail(@)]
    /\ UNCHANGED <<reqId, toAgent, tray, disk, ghosts>>

\* Only rows of the window change, and what another window collects stays.
ViewFrame(o, m) ==
    /\ \A t \in Transfers :
         \/ xfer'[t] = xfer[t]
         \/ /\ xfer[t].owner = o /\ Begun(t) /\ xfer'[t].owner = xfer[t].owner
            /\ \/ xfer[t].pc # "told" \/ (m.t = "sent" /\ m.of = t)
               \/ xfer'[t].pc = "told" /\ xfer'[t].told.tag = "failed"
    /\ \A t \in Transfers : t # m.of => (UnderWay(t)' => UnderWay(t))
    /\ \A w \in Windows : w # o => dl'[w] = dl[w] /\ digesting'[w] = digesting[w]
    /\ \A i \in DOMAIN digesting'[o] : \/ \E j \in DOMAIN digesting[o] : digesting'[o][i] = digesting[o][j]
                                       \/ dl[o].of # Nothing /\ digesting'[o][i].dl.of = dl[o].of

LEMMA ViewElsewhere ==
    ASSUME TransferInv, NEW o \in Windows, NEW m, Views(o, m), ViewFrame(o, m), NEW t \in Transfers, Clean(t)'
    PROVE  /\ MixInv /\ TransferTyped /\ Place(t) /\ xfer[t] \in XferRow
           /\ UnderWay(t) => Alone(t)' /\ m.of = t
           /\ ~(UnderWay(t) /\ xfer[t].owner = o) => Place(t)'
  <1> USE NamesDiffer
  <1>1. MixInv /\ TransferTyped /\ Place(t) /\ xfer[t] \in XferRow
    BY WasPlaced DEF Views, ghosts
  <1>2. UNCHANGED <<toAgent, tray, disk>> /\ toViewer[o] \in Seq(MsgRow) /\ toViewer \in [Windows -> Seq(MsgRow)]
    BY <1>1 DEF Views, TransferTyped
  <1>3. \A w \in Windows : toViewer'[w] = toViewer[w] \/ (toViewer[w] # <<>> /\ toViewer'[w] = Tail(toViewer[w]))
    BY <1>2 DEF Views
  <1>4. \A w \in Windows : \A i \in DOMAIN toViewer'[w] : \E j \in DOMAIN toViewer[w] : toViewer'[w][i] = toViewer[w][j]
    <2> SUFFICES ASSUME NEW w \in Windows
                 PROVE  \A i \in DOMAIN toViewer'[w] : \E j \in DOMAIN toViewer[w] : toViewer'[w][i] = toViewer[w][j]
      OBVIOUS
    <2>1. toViewer[w] \in Seq(MsgRow)
      BY <1>2
    <2>2. CASE toViewer[w] # <<>> /\ toViewer'[w] = Tail(toViewer[w])
      BY <2>1, <2>2, TailHolds
    <2> QED
      BY <1>3, <2>2
  <1>5. 1 \in DOMAIN toViewer[o] /\ m = toViewer[o][1]
    BY <1>2, TailHolds DEF Views
  <1>6. dl[o].of # Nothing => Collects(o, dl[o].of) /\ dl[o].of \in Transfers
    BY <1>1 DEF MixInv, MessagesTell, TransferTyped, Collected
  <1>7. CASE UnderWay(t)
    <2>1. Alone(t) /\ xfer[t].owner \in Windows
      BY <1>1, <1>7 DEF Place
    <2>2. m.of = t
      BY <1>5, <2>1 DEF Alone
    <2>3. dl[o].of # Nothing => dl[o].of = t
      BY <1>6, <2>1 DEF Alone, Collects, UnderWay
    <2>4. OwnOnly(t)
      BY <1>2, <1>4, <2>3 DEF OwnOnly, ViewFrame
    <2>5. Alone(t)'
      <3>1. \A u \in Transfers : u # t => ~UnderWay(u)'
        BY <2>1, <2>2 DEF Alone, ViewFrame
      <3>2. tray'.dialog \in {Nothing, t}
        BY <1>2, <2>1 DEF Alone
      <3> QED
        BY <2>1, <2>4, <3>1, <3>2, AloneStays
    <2>6. ASSUME xfer[t].owner # o
          PROVE  Place(t)'
      <3>1. xfer'[t] = xfer[t]
        BY <2>6 DEF ViewFrame
      <3>2. /\ toViewer'[xfer[t].owner] = toViewer[xfer[t].owner] /\ digesting'[xfer[t].owner] = digesting[xfer[t].owner]
            /\ dl'[xfer[t].owner] = dl[xfer[t].owner]
        BY <1>2, <2>1, <2>6 DEF ViewFrame, Views
      <3>3. toAgent' = toAgent /\ tray' = tray /\ disk' = disk
        BY <1>2
      <3> QED
        BY <1>1, <1>7, <2>5, <3>1, <3>2, <3>3, PlaceWaits
    <2> QED
      BY <1>1, <1>7, <2>2, <2>5, <2>6
  <1>8. CASE ~UnderWay(t) /\ ~Begun(t)
    <2>1. xfer'[t] = xfer[t]
      BY <1>8 DEF ViewFrame
    <2> QED
      BY <1>1, <1>8, <2>1, PlaceNotBegun
  <1>9. CASE ~UnderWay(t) /\ xfer[t].pc = "told"
    <2>1. Silent(t) 
      BY <1>1, <1>9 DEF Place
    <2>2. ~(m.t = "sent" /\ m.of = t) \/ xfer[t].owner # o
      BY <1>5, <2>1 DEF Silent, Seen
    <2>3. xfer'[t] = xfer[t] \/ (xfer'[t].pc = "told" /\ xfer'[t].owner = xfer[t].owner /\ xfer'[t].told.tag = "failed")
      BY <1>9, <2>2 DEF ViewFrame
    <2>4. dl[o].of # t
      BY <1>6, <1>9 DEF Collects
    <2>5. SilentOf(t)
      BY <1>2, <1>4, <2>4 DEF SilentOf, ViewFrame
    <2> QED
      BY <1>1, <1>9, <2>3, <2>5, ToldStays
  <1> QED
    BY <1>1, <1>7, <1>8, <1>9, ThreeWays

\* What a window sees of its own transfer tells how far it is.
LEMMA ViewerPhase ==
    ASSUME MixInv, NEW t \in Transfers, Place(t), UnderWay(t), Seen(t) # <<>>
    PROVE  \/ /\ xfer[t].pc = "asked" /\ ~IsGet(t) /\ xfer[t].way \in {"put", "ask"} /\ toAgent = <<>>
              /\ tray.dialog = Nothing /\ Len(Seen(t)) = 1 /\ About(Seen(t)[1], "dest", t)
              /\ (Seen(t)[1].path # Nothing => Written(t, Seen(t)[1].path, 0))
              /\ ~xfer[t].hashed /\ xfer[t].next = 1
           \/ /\ xfer[t].pc = "offered" /\ ~IsGet(t) /\ toAgent = <<>>
              /\ tray.dialog = Nothing /\ Len(Seen(t)) = 1 /\ About(Seen(t)[1], "pull", t)
              /\ Seen(t)[1].path # Nothing /\ Written(t, Seen(t)[1].path, 0)
              /\ ~xfer[t].hashed /\ xfer[t].next = 1
           \/ /\ xfer[t].pc = "ended" /\ ~IsGet(t) /\ toAgent = <<>> /\ Len(Seen(t)) = 1 /\ About(Seen(t)[1], "sent", t)
              /\ tray.dialog = Nothing /\ xfer[t].hashed /\ xfer[t].path # Nothing
              /\ Seen(t)[1].path = xfer[t].path /\ Seen(t)[1].bytes = Content(t)
           \/ /\ xfer[t].pc = "asked" /\ IsGet(t) /\ toAgent = <<>> /\ tray.dialog = Nothing
              /\ dl[xfer[t].owner].of = t /\ digesting[xfer[t].owner] = <<>> /\ Arriving(t, Seen(t))
  <1> USE NamesDiffer
  <1>1. CASE xfer[t].pc = "asked" /\ ~IsGet(t)
    BY <1>1 DEF Place, Requested
  <1>2. CASE xfer[t].pc = "asked" /\ IsGet(t)
    <2>1. Fetched(t)
      BY <1>2 DEF Place
    <2> QED
      BY <1>2, <2>1 DEF Fetched
  <1>3. CASE xfer[t].pc = "offered"
    BY <1>3 DEF Place, UnderWay, Pulled, IsGet
  <1>4. CASE xfer[t].pc = "streaming"
    BY <1>4 DEF Place, Streams
  <1>5. CASE xfer[t].pc = "ended"
    BY <1>5 DEF Place, Ends
  <1> QED
    BY <1>1, <1>2, <1>3, <1>4, <1>5 DEF UnderWay

(***************************************************************************)
(* A window is told where its file goes.                                   *)
(***************************************************************************)
\* The transfers that wait for this destination.
WaitsFor(o, m, t) ==
    /\ xfer[t].owner = o
    /\ IF m.t = "pull" THEN t = m.of /\ xfer[t].pc = "offered"
       ELSE xfer[t].rid = m.rid /\ xfer[t].pc = "asked" /\ xfer[t].way \in {"put", "ask"}

LEMMA DestinationDoes ==
    ASSUME MixInv, NEW o \in Windows, NEW m \in MsgRow, m.path \in Paths \cup {Nothing}, Destination(o, m), NEW t \in Transfers
    PROVE  /\ ~WaitsFor(o, m, t) => xfer'[t] = xfer[t]
           /\ WaitsFor(o, m, t) =>
                /\ xfer'[t].owner = xfer[t].owner /\ xfer'[t].way = xfer[t].way
                /\ m.path = Nothing => xfer'[t].pc = "told" /\ xfer'[t].told.tag = "cancelled"
                /\ m.path # Nothing =>
                     /\ xfer'[t].pc = "streaming" /\ xfer'[t].path = m.path /\ xfer'[t].rid = m.rid
                     /\ xfer'[t].hashed = xfer[t].hashed /\ xfer'[t].next = xfer[t].next
                     /\ xfer'[t].told = xfer[t].told
  <1> USE NamesDiffer
  <1>0. xfer[t] \in XferRow /\ m.rid \in Nat
    BY DEF MixInv, TransferTyped, MsgRow
  <1>a. PICK waits :
             waits = IF m.t = "pull" THEN {u \in {m.of} : xfer[u].owner = o /\ xfer[u].pc = "offered"}
                     ELSE {u \in Mine(o, m) : xfer[u].pc = "asked" /\ xfer[u].way \in {"put", "ask"}}
    OBVIOUS
  <1>1. xfer' = [u \in Transfers |->
                  IF u \notin waits THEN xfer[u]
                  ELSE IF m.path = Nothing THEN [xfer[u] EXCEPT !.pc = "told", !.told.tag = "cancelled"]
                  ELSE [xfer[u] EXCEPT !.pc = "streaming", !.rid = m.rid, !.path = m.path]]
    BY <1>a DEF Destination
  <1>2. t \in waits <=> WaitsFor(o, m, t)
    BY <1>a DEF WaitsFor, Mine
  <1>3. CASE t \notin waits
    BY <1>1, <1>2, <1>3
  <1>4. CASE t \in waits /\ m.path = Nothing
    <2>1. xfer'[t] = [xfer[t] EXCEPT !.pc = "told", !.told.tag = "cancelled"]
      BY <1>1, <1>4
    <2>2. PICK x \in XferRow, g \in Tags : x = xfer[t] /\ g = "cancelled"
      BY <1>0 DEF Tags
    <2>3. PICK r \in XferRow :
              /\ r = [x EXCEPT !.pc = "told", !.told.tag = g]
              /\ r.pc = "told" /\ r.told.tag = g /\ r.way = x.way /\ r.owner = x.owner /\ r.rid = x.rid
              /\ r.path = x.path /\ r.saved = x.saved
      BY ToldRow, Zenon
    <2>4. xfer'[t] = r
      BY <2>1, <2>2, <2>3
    <2> QED
      BY <1>2, <1>4, <2>2, <2>3, <2>4
  <1>5. CASE t \in waits /\ m.path # Nothing
    <2>1. xfer'[t] = [xfer[t] EXCEPT !.pc = "streaming", !.rid = m.rid, !.path = m.path]
      BY <1>1, <1>5
    <2> QED
      BY <1>0, <1>2, <1>5, <2>1 DEF XferRow
  <1> QED
    BY <1>3, <1>4, <1>5

\* A window has handled what there was of its transfer.
LEMMA NothingSeen ==
    ASSUME MixInv, NEW o \in Windows, NEW m, Views(o, m), NEW t \in Transfers, xfer[t].owner = o,
           xfer'[t].owner = o, Len(Seen(t)) = 1
    PROVE  Seen(t)' = <<>>
  <1>1. PICK q \in Seq(MsgRow) : q = toViewer[o] /\ Len(q) = 1
    BY DEF MixInv, TransferTyped, Seen
  <1>2. toViewer'[o] = Tail(q)
    <2>1. toViewer \in [Windows -> Seq(MsgRow)]
      BY DEF MixInv, TransferTyped
    <2>2. toViewer' = [toViewer EXCEPT ![o] = Tail(@)]
      BY DEF Views
    <2>3. toViewer'[o] = Tail(toViewer[o])
      BY <2>1, <2>2
    <2> QED
      BY <1>1, <2>3
  <1>3. Tail(q) = <<>>
    BY <1>1, LastTaken
  <1> QED
    BY <1>2, <1>3 DEF Seen

\* The first message a window has.
LEMMA FirstSeen ==
    ASSUME MixInv, NEW o \in Windows, NEW m, Views(o, m)
    PROVE  /\ m = Head(toViewer[o]) /\ m \in MsgRow /\ ViewerMsg(m) /\ m.of \in Transfers /\ m.rid \in Nat
           /\ m.bytes \in Bytes /\ Begun(m.of)
  <1>1. toViewer[o] # <<>> /\ m = toViewer[o][1]
    BY DEF Views
  <1>2. Head(toViewer[o]) = toViewer[o][1] /\ Head(toViewer[o]) \in MsgRow /\ ViewerMsg(Head(toViewer[o]))
    BY <1>1, FirstOfViewer
  <1>3. m = Head(toViewer[o]) /\ m \in MsgRow
    BY <1>1, <1>2
  <1>4. ViewerMsg(m)
    BY <1>2, <1>3
  <1> QED
    BY <1>3, <1>4 DEF MsgRow, ViewerMsg

\* A told transfer of which nothing is left.
LEMMA SettledRests ==
    ASSUME NEW t \in Transfers, xfer'[t].pc = "told", Settled(t)', toAgent' = <<>>, Seen(t)' = <<>>,
           xfer'[t].owner \in Windows =>
              \A i \in DOMAIN digesting'[xfer'[t].owner] : digesting'[xfer'[t].owner][i].dl.of # t
    PROVE  Place(t)'
  <1>1. Silent(t)'
    BY DEF Silent
  <1> QED
    BY <1>1, PlaceTold

\* What is digested of an upload: nothing.
LEMMA UploadUndigested ==
    ASSUME MixInv, NEW t \in Transfers, ~IsGet(t), NEW o \in Windows
    PROVE  \A i \in DOMAIN digesting[o] : digesting[o][i].dl.of # t
  <1> TAKE i \in DOMAIN digesting[o]
  <1>1. Digest(o, digesting[o][i])
    BY DEF MixInv, MessagesTell
  <1> QED
    BY <1>1 DEF Digest

LEMMA PlaceDestination ==
    ASSUME TransferInv, NEW o \in Windows, NEW m, Views(o, m), Destination(o, m), NEW t \in Transfers, Clean(t)'
    PROVE  Place(t)'
  <1> USE NamesDiffer
  <1>1. MixInv
    BY DEF TransferInv
  <1>2. /\ m \in MsgRow /\ m.of \in Transfers /\ m.rid \in Nat /\ Begun(m.of) /\ m.t \in {"dest", "pull"}
        /\ m.path \in Paths \cup {Nothing} /\ UNCHANGED <<dl, digesting>>
    BY <1>1, FirstSeen DEF Destination, ViewerMsg
  <1>3. \A u \in Transfers :
           /\ ~WaitsFor(o, m, u) => xfer'[u] = xfer[u]
           /\ WaitsFor(o, m, u) =>
                /\ xfer'[u].owner = xfer[u].owner /\ xfer'[u].way = xfer[u].way
                /\ m.path = Nothing => xfer'[u].pc = "told" /\ xfer'[u].told.tag = "cancelled"
                /\ m.path # Nothing =>
                     /\ xfer'[u].pc = "streaming" /\ xfer'[u].path = m.path /\ xfer'[u].rid = m.rid
                     /\ xfer'[u].hashed = xfer[u].hashed /\ xfer'[u].next = xfer[u].next
                     /\ xfer'[u].told = xfer[u].told
    BY <1>1, <1>2, DestinationDoes
  <1>4. \A u \in Transfers : WaitsFor(o, m, u) => xfer[u].owner = o /\ (u = m.of \/ UnderWay(u)) /\ Begun(u) /\ xfer[u].pc # "told"
    BY <1>2 DEF WaitsFor, UnderWay, Begun
  <1>5. ViewFrame(o, m)
    <2>1. \A u \in Transfers : u # m.of => (UnderWay(u)' => UnderWay(u))
      BY <1>3, <1>4 DEF UnderWay
    <2> QED
      BY <1>2, <1>3, <1>4, <2>1 DEF ViewFrame
  <1>6. /\ TransferTyped /\ Place(t) /\ xfer[t] \in XferRow
        /\ UnderWay(t) => Alone(t)' /\ m.of = t
        /\ ~(UnderWay(t) /\ xfer[t].owner = o) => Place(t)'
    BY <1>5, ViewElsewhere
  <1>7. CASE UnderWay(t) /\ xfer[t].owner = o
    <2>1. Seen(t) # <<>> /\ Seen(t)[1] = m /\ UNCHANGED <<toAgent, tray, disk>>
      BY <1>7 DEF Views, Seen
    <2>2. /\ ~IsGet(t) /\ toAgent = <<>> /\ tray.dialog = Nothing /\ Len(Seen(t)) = 1
          /\ ~xfer[t].hashed /\ xfer[t].next = 1 /\ WaitsFor(o, m, t)
          /\ (m.path # Nothing => Written(t, m.path, 0))
      <3>1. ~Arriving(t, Seen(t)) \/ m.t \in {"chunk", "got"}
        <4>1. Seen(t) \in Seq(MsgRow)
          BY <1>6, <1>7 DEF TransferTyped, Seen
        <4> QED
          BY <2>1, <4>1 DEF Arriving
      <3> QED
        BY <1>1, <1>2, <1>6, <1>7, <2>1, <3>1, ViewerPhase DEF About, WaitsFor
    <2>3. xfer[t].told.tag = "none"
      BY <1>6, <1>7 DEF Place, UnderWay
    <2>4. Seen(t)' = <<>> /\ xfer'[t].owner = o /\ ~IsGet(t)'
      BY <1>1, <1>3, <1>7, <2>2, NothingSeen DEF IsGet
    <2>5. CASE m.path = Nothing
      <3>1. xfer'[t].pc = "told" /\ Settled(t)'
        BY <1>3, <2>2, <2>5 DEF Settled
      <3>2. \A i \in DOMAIN digesting'[o] : digesting'[o][i].dl.of # t
        BY <1>1, <1>2, <2>2, UploadUndigested
      <3> QED
        BY <2>1, <2>2, <2>4, <3>1, <3>2, SettledRests
    <2>6. CASE m.path # Nothing
      <3>1. /\ xfer'[t].pc = "streaming" /\ xfer'[t].path = m.path /\ ~xfer'[t].hashed /\ xfer'[t].next = 1
            /\ xfer'[t].told.tag = "none"
        BY <1>3, <2>2, <2>3, <2>6
      <3>2. Written(t, xfer[t].path, 0)' /\ 0 + Len(toAgent') = xfer'[t].next - 1 /\ Follow(t, 0, Len(toAgent))'
        BY <2>1, <2>2, <2>6, <3>1 DEF Written, Follow
      <3>3. xfer'[t].hashed = (xfer'[t].next > 1)
        <4>1. xfer'[t].hashed \in BOOLEAN
          BY <1>6, <1>3, <2>2, <2>6 DEF XferRow
        <4> QED
          BY <3>1, <4>1
      <3>4. Streams(t)'
        BY <2>1, <2>2, <2>4, <3>2, <3>3 DEF Streams
      <3> QED
        BY <1>6, <1>7, <2>4, <3>1, <3>4 DEF Place
    <2> QED
      BY <2>5, <2>6
  <1> QED
    BY <1>6, <1>7

(***************************************************************************)
(* A window is told that its file lies there.                              *)
(***************************************************************************)
\* The transfers the line is counted for.
CountsFor(o, m, t) ==
    /\ xfer[t].owner = o /\ xfer[t].rid = m.rid /\ xfer[t].way # "get"
    /\ xfer[t].pc \in {"streaming", "ended"} \/ m.of = t

LEMMA SentDoes ==
    ASSUME MixInv, NEW o \in Windows, NEW m \in MsgRow, m.path \in Paths \cup {Nothing}, Sent(o, m), NEW t \in Transfers
    PROVE  /\ ~CountsFor(o, m, t) => xfer'[t] = xfer[t]
           /\ CountsFor(o, m, t) =>
                /\ xfer'[t].pc = IF xfer[t].pc = "ended" THEN "told" ELSE xfer[t].pc
                /\ xfer'[t].way = xfer[t].way /\ xfer'[t].owner = xfer[t].owner /\ xfer'[t].rid = xfer[t].rid
                /\ xfer'[t].path = xfer[t].path /\ xfer'[t].told.path = m.path
                /\ (xfer[t].hashed /\ m.path # Nothing /\ m.bytes = Content(t) => xfer'[t].told.tag = "verified")
  <1> USE NamesDiffer
  <1>0. xfer[t] \in XferRow /\ m.version \in Nat
    BY DEF MixInv, TransferTyped, MsgRow
  <1> DEFINE tag(u) == IF ~xfer[u].hashed \/ m.path = Nothing THEN "sent"
                       ELSE IF Agrees(m.bytes, Content(u)) THEN "verified" ELSE "mismatch"
  <1>1. PICK about :
          /\ about = {u \in Mine(o, m) : /\ xfer[u].way # "get"
                                         /\ xfer[u].pc \in {"streaming", "ended"} \/ m.of = u}
          /\ xfer' = [u \in Transfers |->
                  IF u \notin about THEN xfer[u]
                  ELSE [xfer[u] EXCEPT !.pc = IF @ = "ended" THEN "told" ELSE @, !.hashed = FALSE,
                                       !.told = [tag |-> tag(u), path |-> m.path, version |-> m.version]]]
    BY DEF Sent
  <1>2. t \in about <=> CountsFor(o, m, t)
    BY <1>1 DEF CountsFor, Mine
  <1>3. CASE t \notin about
    BY <1>1, <1>2, <1>3
  <1>4. CASE t \in about
    <2>a. PICK g \in Tags : g = tag(t)
      BY DEF Tags
    <2>b. xfer[t].hashed /\ m.path # Nothing /\ m.bytes = Content(t) => tag(t) = "verified"
      BY DEF Agrees
    <2> HIDE DEF tag
    <2>3. PICK l \in [tag : Tags, path : Paths \cup {Nothing}, version : Nat] :
              l = [tag |-> tag(t), path |-> m.path, version |-> m.version]
      BY <1>0, <2>a
    <2>c. l.tag = tag(t) /\ l.path = m.path
      BY <2>3
    <2>4. PICK c \in {"new", "asked", "offered", "streaming", "ended", "told"} :
              c = IF xfer[t].pc = "ended" THEN "told" ELSE xfer[t].pc
      BY <1>0 DEF XferRow
    <2>5. xfer'[t] = [xfer[t] EXCEPT !.pc = c, !.hashed = FALSE, !.told = l]
      BY <1>1, <1>4, <2>3, <2>4, <1>0 DEF XferRow
    <2>6. /\ xfer'[t].pc = c /\ xfer'[t].told = l /\ xfer'[t].path = xfer[t].path
          /\ xfer'[t].way = xfer[t].way /\ xfer'[t].owner = xfer[t].owner /\ xfer'[t].rid = xfer[t].rid
      BY <1>0, <2>5 DEF XferRow
    <2> QED
      BY <1>2, <1>4, <2>b, <2>c, <2>4, <2>6
  <1> QED
    BY <1>3, <1>4

LEMMA PlaceSent ==
    ASSUME TransferInv, NEW o \in Windows, NEW m, Views(o, m), Sent(o, m), NEW t \in Transfers, Clean(t)'
    PROVE  Place(t)'
  <1> USE NamesDiffer
  <1>1. MixInv
    BY DEF TransferInv
  <1>2. /\ m \in MsgRow /\ m.of \in Transfers /\ m.rid \in Nat /\ Begun(m.of) /\ m.t = "sent"
        /\ m.path \in Paths \cup {Nothing} /\ UNCHANGED <<dl, digesting>>
    BY <1>1, FirstSeen DEF Sent, ViewerMsg
  <1>3. \A u \in Transfers :
           /\ ~CountsFor(o, m, u) => xfer'[u] = xfer[u]
           /\ CountsFor(o, m, u) =>
                /\ xfer'[u].pc = IF xfer[u].pc = "ended" THEN "told" ELSE xfer[u].pc
                /\ xfer'[u].way = xfer[u].way /\ xfer'[u].owner = xfer[u].owner /\ xfer'[u].rid = xfer[u].rid
                /\ xfer'[u].path = xfer[u].path /\ xfer'[u].told.path = m.path
                /\ (xfer[u].hashed /\ m.path # Nothing /\ m.bytes = Content(u) => xfer'[u].told.tag = "verified")
    BY <1>1, <1>2, SentDoes
  <1>4. ViewFrame(o, m)
    <2>1. \A u \in Transfers : u # m.of => (UnderWay(u)' => UnderWay(u))
      BY <1>3 DEF UnderWay
    <2>2. \A u \in Transfers : CountsFor(o, m, u) => xfer[u].owner = o /\ Begun(u) /\ (xfer[u].pc # "told" \/ m.of = u)
      BY <1>2 DEF CountsFor, Begun
    <2> QED
      BY <1>2, <1>3, <2>1, <2>2 DEF ViewFrame
  <1>5. /\ TransferTyped /\ Place(t) /\ xfer[t] \in XferRow
        /\ UnderWay(t) => Alone(t)' /\ m.of = t
        /\ ~(UnderWay(t) /\ xfer[t].owner = o) => Place(t)'
    BY <1>4, ViewElsewhere
  <1>6. CASE UnderWay(t) /\ xfer[t].owner = o
    <2>1. Seen(t) # <<>> /\ Seen(t)[1] = m /\ UNCHANGED <<toAgent, tray, disk>>
      BY <1>6 DEF Views, Seen
    <2>2. /\ xfer[t].pc = "ended" /\ ~IsGet(t) /\ toAgent = <<>> /\ Len(Seen(t)) = 1 /\ m.rid = xfer[t].rid
          /\ xfer[t].hashed /\ xfer[t].path # Nothing /\ m.path = xfer[t].path /\ m.bytes = Content(t)
      <3>1. ~Arriving(t, Seen(t))
        <4>1. Seen(t) \in Seq(MsgRow)
          BY <1>5, <1>6 DEF TransferTyped, Seen
        <4> QED
          BY <1>2, <2>1, <4>1 DEF Arriving
      <3> QED
        BY <1>1, <1>2, <1>5, <1>6, <2>1, <3>1, ViewerPhase DEF About
    <2>3. CountsFor(o, m, t)
      BY <1>6, <2>2 DEF CountsFor, IsGet
    <2>4. /\ xfer'[t].pc = "told" /\ xfer'[t].told.tag = "verified" /\ xfer'[t].told.path = xfer'[t].path
          /\ xfer'[t].owner = o /\ ~IsGet(t)'
      BY <1>3, <1>6, <2>2, <2>3 DEF IsGet
    <2>5. Settled(t)'
      BY <2>4 DEF Settled
    <2>6. Seen(t)' = <<>>
      BY <1>1, <1>6, <2>2, <2>4, NothingSeen
    <2>7. \A i \in DOMAIN digesting'[o] : digesting'[o][i].dl.of # t
      BY <1>1, <1>2, <2>2, UploadUndigested
    <2> QED
      BY <2>1, <2>2, <2>4, <2>5, <2>6, <2>7, SettledRests
  <1> QED
    BY <1>5, <1>6

(***************************************************************************)
(* A window collects what it asked for.                                    *)
(***************************************************************************)
\* What is still to come of t when these bytes were collected.
Arrives(t, q, got) ==
    \/ Len(q) = 1 /\ q[1].t = "got" /\ q[1].path = Nothing /\ got = <<>>
    \/ /\ Len(q) > 0 /\ Len(got) + Len(q) = Chunks + 1
       /\ \A i \in 1 .. Len(got) : got[i] = <<t, i>>
       /\ \A i \in 1 .. Len(q) - 1 : q[i].t = "chunk" /\ q[i].bytes = <<<<t, Len(got) + i>>>>
       /\ q[Len(q)].t = "got" /\ q[Len(q)].path # Nothing /\ q[Len(q)].bytes = Content(t)

\* The next chunk lies behind those that were collected.
LEMMA ArrivesOn ==
    ASSUME NEW t \in Transfers, NEW q \in Seq(MsgRow), NEW got \in Bytes, q # <<>>, q[1].t = "chunk", q[1].bytes \in Bytes,
           Arrives(t, q, got), NEW c, c = got \o q[1].bytes, NEW r, r = Tail(q)
    PROVE  Arrives(t, r, c)
  <1> USE NamesDiffer
  <1>1. /\ Len(got) + Len(q) = Chunks + 1
        /\ \A i \in 1 .. Len(got) : got[i] = <<t, i>>
        /\ \A i \in 1 .. Len(q) - 1 : q[i].t = "chunk" /\ q[i].bytes = <<<<t, Len(got) + i>>>>
        /\ q[Len(q)].t = "got" /\ q[Len(q)].path # Nothing /\ q[Len(q)].bytes = Content(t)
    BY DEF Arrives
  <1>2. Len(q) \in Nat /\ Len(q) > 1 /\ Len(got) \in Nat
    <2>1. Len(q) \in Nat /\ Len(q) > 0 /\ Len(q) # 1
      BY <1>1
    <2>2. Len(got) \in Nat
      BY DEF Bytes
    <2>3. PICK n \in Nat : n = Len(q) /\ n > 0 /\ n # 1
      BY <2>1
    <2>4. n > 1
      BY <2>3
    <2> QED
      BY <2>2, <2>3, <2>4
  <1>3. Len(r) = Len(q) - 1 /\ \A i \in 1 .. Len(r) : i + 1 \in 1 .. Len(q) /\ r[i] = q[i + 1]
    BY <1>2, TailHolds
  <1>4. PICK e \in Bytes : e = q[1].bytes
    OBVIOUS
  <1>5. Len(e) = 1 /\ e[1] = <<t, Len(got) + 1>> /\ DOMAIN e = {1}
    <2>1. q[1].bytes = <<<<t, Len(got) + 1>>>>
      <3>1. PICK n \in Nat : n = Len(q) /\ n > 1
        BY <1>2
      <3>2. 1 \in 1 .. n - 1
        BY <3>1
      <3>3. 1 \in 1 .. Len(q) - 1
        BY <3>1, <3>2
      <3>4. \A i \in 1 .. Len(q) - 1 : q[i].bytes = <<<<t, Len(got) + i>>>>
        BY <1>1
      <3> QED
        BY <3>3, <3>4
    <2> QED
      BY <1>4, <2>1
  <1>6. /\ Len(c) = Len(got) + 1 /\ \A i \in DOMAIN got : c[i] = got[i]
        /\ c[Len(got) + 1] = <<t, Len(got) + 1>>
    <2>1. got \in Seq(Transfers \X Nat) /\ e \in Seq(Transfers \X Nat) /\ c = got \o e
      BY <1>4 DEF Bytes
    <2>2. /\ Len(got \o e) = Len(got) + Len(e) /\ \A i \in DOMAIN got : (got \o e)[i] = got[i]
          /\ \A i \in DOMAIN e : (got \o e)[Len(got) + i] = e[i]
      BY <2>1, JoinedHolds
    <2> QED
      BY <1>5, <2>1, <2>2
  <1>7. \A i \in 1 .. Len(c) : c[i] = <<t, i>>
    <2> TAKE i \in 1 .. Len(c)
    <2>1. i \in 1 .. Len(got) \/ i = Len(got) + 1
      BY <1>2, <1>6
    <2>2. DOMAIN got = 1 .. Len(got)
      BY DEF Bytes
    <2>3. CASE i \in 1 .. Len(got)
      BY <1>1, <1>6, <2>2, <2>3
    <2> QED
      BY <1>6, <2>1, <2>3
  <1>8. Len(r) > 0 /\ Len(c) + Len(r) = Chunks + 1
    <2>1. Len(got) + Len(q) = Chunks + 1
      BY <1>1
    <2>2. Len(r) = Len(q) - 1
      BY <1>3
    <2>3. Len(c) = Len(got) + 1
      BY <1>6
    <2> QED
      BY <1>2, <2>1, <2>2, <2>3
  <1>9. \A i \in 1 .. Len(r) - 1 : r[i].t = "chunk" /\ r[i].bytes = <<<<t, Len(c) + i>>>>
    <2> TAKE i \in 1 .. Len(r) - 1
    <2>1. i \in 1 .. Len(r) /\ i + 1 \in 1 .. Len(q) - 1 /\ Len(got) + (i + 1) = Len(c) + i
      BY <1>2, <1>3, <1>6
    <2>2. q[i + 1].t = "chunk" /\ q[i + 1].bytes = <<<<t, Len(got) + (i + 1)>>>>
      BY <1>1, <2>1
    <2> QED
      BY <1>3, <2>1, <2>2
  <1>10. r[Len(r)] = q[Len(q)]
    BY <1>2, <1>3, <1>8
  <1> QED
    BY <1>1, <1>7, <1>8, <1>9, <1>10 DEF Arrives

LEMMA PlaceCollect ==
    ASSUME TransferInv, NEW o \in Windows, NEW m, Views(o, m), Collect(o, m), NEW t \in Transfers, Clean(t)'
    PROVE  Place(t)'
  <1> USE NamesDiffer
  <1>1. MixInv
    BY DEF TransferInv
  <1>2. /\ m \in MsgRow /\ m.bytes \in Bytes /\ m.t = "chunk" /\ xfer' = xfer /\ digesting' = digesting
        /\ dl' = [dl EXCEPT ![o].chunks = IF dl[o].of = Nothing THEN @ ELSE @ \o m.bytes]
    BY <1>1, FirstSeen DEF Collect
  <1>3. ViewFrame(o, m)
    BY <1>2 DEF ViewFrame, UnderWay
  <1>4. /\ TransferTyped /\ Place(t) /\ xfer[t] \in XferRow
        /\ UnderWay(t) => Alone(t)' /\ m.of = t
        /\ ~(UnderWay(t) /\ xfer[t].owner = o) => Place(t)'
    BY <1>3, ViewElsewhere
  <1>5. CASE UnderWay(t) /\ xfer[t].owner = o
    <2>1. Seen(t) # <<>> /\ Seen(t)[1] = m /\ UNCHANGED <<toAgent, tray, disk>> /\ Seen(t)' = Tail(Seen(t))
      <3>1. toViewer \in [Windows -> Seq(MsgRow)] /\ toViewer' = [toViewer EXCEPT ![o] = Tail(@)]
        BY <1>4 DEF TransferTyped, Views
      <3>2. toViewer'[o] = Tail(toViewer[o])
        BY <3>1
      <3>3. xfer'[t].owner = o
        BY <1>2, <1>5
      <3> QED
        BY <1>5, <3>2, <3>3 DEF Views, Seen
    <2>2. /\ xfer[t].pc = "asked" /\ IsGet(t) /\ toAgent = <<>> /\ tray.dialog = Nothing
          /\ dl[o].of = t /\ digesting[o] = <<>> /\ Arriving(t, Seen(t))
      BY <1>1, <1>2, <1>4, <1>5, <2>1, ViewerPhase DEF About
    <2>3. dl \in [Windows -> Collected] /\ dl[o] \in Collected /\ dl[o].chunks \in Bytes
      BY <1>4 DEF TransferTyped, Collected
    <2>4. dl'[o].of = t /\ dl'[o].chunks = dl[o].chunks \o m.bytes
      BY <1>2, <2>2, <2>3 DEF Collected
    <2>5. PICK q \in Seq(MsgRow) : q = Seen(t) /\ q # <<>> /\ q[1] = m
      BY <1>4, <1>5, <2>1 DEF TransferTyped, Seen
    <2>6. PICK got \in Bytes : got = dl[o].chunks
      BY <2>3
    <2>7. PICK r, c : r = Tail(q) /\ c = got \o m.bytes
      OBVIOUS
    <2>8. Arrives(t, q, got)
      <3>1. Arriving(t, q) /\ dl[xfer[t].owner].chunks = got
        BY <1>5, <2>2, <2>5, <2>6
      <3> QED
        BY <3>1, Zenon DEF Arriving, Arrives
    <2>9. Arrives(t, r, c)
      <3>1. q[1].t = "chunk" /\ q[1].bytes \in Bytes /\ c = got \o q[1].bytes
        <4>1. m.t = "chunk" /\ m.bytes \in Bytes
          BY <1>2
        <4>2. q[1] = m
          BY <2>5
        <4> QED
          BY <2>7, <4>1, <4>2, Zenon
      <3>2. q # <<>> /\ r = Tail(q)
        BY <2>5, <2>7
      <3> QED
        BY <2>8, <3>1, <3>2, ArrivesOn
    <2>10. dl'[xfer'[t].owner].chunks = c
      BY <1>2, <1>5, <2>4, <2>6, <2>7
    <2>11. Arriving(t, r)'
      BY <2>9, <2>10, Zenon DEF Arriving, Arrives, Content
    <2>12. Seen(t)' = r
      BY <2>1, <2>5, <2>7
    <2>13. Arriving(t, Seen(t))'
      BY <2>11, <2>12, Zenon DEF Arriving
    <2>14. Fetched(t)'
      BY <1>2, <1>5, <2>1, <2>2, <2>4, <2>13 DEF Fetched
    <2>15. xfer'[t] = xfer[t] /\ xfer[t].told.tag = "none" /\ xfer[t].owner \in Windows /\ Alone(t)'
      BY <1>2, <1>4, <1>5, <2>2 DEF Place
    <2> QED
      BY <2>2, <2>14, <2>15 DEF Place, IsGet
  <1> QED
    BY <1>4, <1>5

(***************************************************************************)
(* A window has the whole of its file, or none.                            *)
(***************************************************************************)
\* The transfers that fail when there is nothing to take a digest of.
FailsOf(o, m, t) == t = dl[o].of \/ (dl[o].of = Nothing /\ xfer[t].owner = o /\ xfer[t].rid = m.rid /\ m.of = t)

LEMMA DownloadedDoes ==
    ASSUME MixInv, NEW o \in Windows, NEW m \in MsgRow, Downloaded(o, m)
    PROVE  /\ dl[o].of # Nothing /\ m.path # Nothing =>
                /\ UNCHANGED <<xfer, dl>> /\ \A w \in Windows : w # o => digesting'[w] = digesting[w]
                /\ Len(digesting'[o]) = Len(digesting[o]) + 1
                /\ LET d == digesting'[o][Len(digesting[o]) + 1] IN
                   d.dl.of = dl[o].of /\ d.dl.chunks = dl[o].chunks /\ d.bytes = m.bytes
                /\ \A i \in DOMAIN digesting'[o] : \/ \E j \in DOMAIN digesting[o] : digesting'[o][i] = digesting[o][j]
                                                   \/ digesting'[o][i].dl.of = dl[o].of
           /\ ~(dl[o].of # Nothing /\ m.path # Nothing) =>
                /\ digesting' = digesting /\ \A w \in Windows : w # o => dl'[w] = dl[w]
                /\ \A t \in Transfers :
                     /\ ~FailsOf(o, m, t) => xfer'[t] = xfer[t]
                     /\ FailsOf(o, m, t) => /\ xfer'[t].pc = "told" /\ xfer'[t].told.tag = "failed"
                                            /\ xfer'[t].owner = xfer[t].owner
  <1> USE NamesDiffer
  <1>0. /\ dl \in [Windows -> Collected] /\ dl[o] \in Collected /\ m.bytes \in Bytes
        /\ digesting \in [Windows -> Seq([dl : Collected, bytes : Bytes])]
        /\ xfer \in [Transfers -> XferRow]
    BY DEF MixInv, TransferTyped, MsgRow
  <1>1. ASSUME dl[o].of # Nothing, m.path # Nothing
        PROVE  /\ UNCHANGED <<xfer, dl>> /\ \A w \in Windows : w # o => digesting'[w] = digesting[w]
               /\ Len(digesting'[o]) = Len(digesting[o]) + 1
               /\ LET d == digesting'[o][Len(digesting[o]) + 1] IN
                  d.dl.of = dl[o].of /\ d.dl.chunks = dl[o].chunks /\ d.bytes = m.bytes
               /\ \A i \in DOMAIN digesting'[o] : \/ \E j \in DOMAIN digesting[o] : digesting'[o][i] = digesting[o][j]
                                                  \/ digesting'[o][i].dl.of = dl[o].of
    <2>1. UNCHANGED <<xfer, dl>>
      BY <1>1 DEF Downloaded
    <2>2. PICK d \in [dl : Collected, bytes : Bytes] : d = [dl |-> dl[o], bytes |-> m.bytes]
      BY <1>0
    <2>3. digesting' = [digesting EXCEPT ![o] = Append(@, d)]
      BY <1>1, <2>2 DEF Downloaded
    <2>4. PICK s \in Seq([dl : Collected, bytes : Bytes]) : s = digesting[o]
      BY <1>0
    <2>5. digesting'[o] = Append(s, d) /\ \A w \in Windows : w # o => digesting'[w] = digesting[w]
      BY <1>0, <2>3, <2>4
    <2>6. /\ Append(s, d)[Len(s) + 1] = d /\ Len(Append(s, d)) = Len(s) + 1
          /\ \A i \in DOMAIN s : Append(s, d)[i] = s[i]
          /\ \A i \in DOMAIN Append(s, d) : i \in DOMAIN s \/ i = Len(s) + 1
      BY AppendedHolds
    <2>7. d.dl.of = dl[o].of /\ d.dl.chunks = dl[o].chunks /\ d.bytes = m.bytes
      BY <2>2
    <2> QED
      BY <2>1, <2>4, <2>5, <2>6, <2>7
  <1>2. ASSUME ~(dl[o].of # Nothing /\ m.path # Nothing)
        PROVE  /\ digesting' = digesting /\ \A w \in Windows : w # o => dl'[w] = dl[w]
               /\ \A t \in Transfers :
                     /\ ~FailsOf(o, m, t) => xfer'[t] = xfer[t]
                     /\ FailsOf(o, m, t) => /\ xfer'[t].pc = "told" /\ xfer'[t].told.tag = "failed"
                                            /\ xfer'[t].owner = xfer[t].owner
    <2> DEFINE ends(t) == t = dl[o].of \/ (dl[o].of = Nothing /\ t \in Mine(o, m) /\ m.of = t)
    <2>1. /\ xfer' = [t \in Transfers |->
                          IF ends(t) THEN [xfer[t] EXCEPT !.pc = "told", !.told.tag = "failed"] ELSE xfer[t]]
          /\ dl' = [dl EXCEPT ![o] = NoDownload] /\ UNCHANGED digesting
      BY <1>2 DEF Downloaded
    <2>2. \A t \in Transfers : ends(t) <=> FailsOf(o, m, t)
      BY DEF FailsOf, Mine
    <2> HIDE DEF ends
    <2>3. ASSUME NEW t \in Transfers, ends(t)
          PROVE  xfer'[t].pc = "told" /\ xfer'[t].told.tag = "failed" /\ xfer'[t].owner = xfer[t].owner
      <3>1. PICK x \in XferRow, tag \in Tags : x = xfer[t] /\ tag = "failed"
        BY <1>0 DEF Tags
      <3>2. PICK r \in XferRow :
              /\ r = [x EXCEPT !.pc = "told", !.told.tag = tag]
              /\ r.pc = "told" /\ r.told.tag = tag /\ r.way = x.way /\ r.owner = x.owner /\ r.rid = x.rid
              /\ r.path = x.path /\ r.saved = x.saved
        BY ToldRow, Zenon
      <3>3. xfer'[t] = r
        BY <2>1, <2>3, <3>1, <3>2
      <3> QED
        BY <3>1, <3>2, <3>3
    <2>4. \A t \in Transfers : ~ends(t) => xfer'[t] = xfer[t]
      BY <2>1
    <2>5. \A w \in Windows : w # o => dl'[w] = dl[w]
      BY <1>0, <2>1
    <2> QED
      BY <2>1, <2>2, <2>3, <2>4, <2>5
  <1> QED
    BY <1>1, <1>2

LEMMA PlaceDownloaded ==
    ASSUME TransferInv, NEW o \in Windows, NEW m, Views(o, m), Downloaded(o, m), NEW t \in Transfers, Clean(t)'
    PROVE  Place(t)'
  <1> USE NamesDiffer
  <1>1. MixInv
    BY DEF TransferInv
  <1>2. m \in MsgRow /\ m.of \in Transfers /\ m.t = "got" /\ Begun(m.of) /\ ViewerMsg(m)
    BY <1>1, FirstSeen DEF Downloaded
  <1>3. dl[o].of # Nothing => Collects(o, dl[o].of) /\ dl[o].of \in Transfers
    BY <1>1 DEF MixInv, MessagesTell, TransferTyped, Collected
  <1>4. CASE dl[o].of # Nothing /\ m.path # Nothing
    <2>1. /\ xfer' = xfer /\ dl' = dl /\ \A w \in Windows : w # o => digesting'[w] = digesting[w]
          /\ Len(digesting'[o]) = Len(digesting[o]) + 1
          /\ \A i \in DOMAIN digesting'[o] : \/ \E j \in DOMAIN digesting[o] : digesting'[o][i] = digesting[o][j]
                                             \/ digesting'[o][i].dl.of = dl[o].of
      BY <1>1, <1>2, <1>4, DownloadedDoes
    <2>2. PICK d : d = digesting'[o][Len(digesting[o]) + 1] /\ d.dl.chunks = dl[o].chunks /\ d.bytes = m.bytes
      BY <1>1, <1>2, <1>4, DownloadedDoes
    <2>3. ViewFrame(o, m)
      BY <1>4, <2>1 DEF ViewFrame, UnderWay
    <2>4. /\ TransferTyped /\ Place(t) /\ xfer[t] \in XferRow
          /\ UnderWay(t) => Alone(t)' /\ m.of = t
          /\ ~(UnderWay(t) /\ xfer[t].owner = o) => Place(t)'
      BY <2>3, ViewElsewhere
    <2>5. CASE UnderWay(t) /\ xfer[t].owner = o
      <3>1. Seen(t) # <<>> /\ Seen(t)[1] = m /\ UNCHANGED <<toAgent, tray, disk>>
        BY <2>5 DEF Views, Seen
      <3>2. /\ xfer[t].pc = "asked" /\ IsGet(t) /\ toAgent = <<>> /\ tray.dialog = Nothing
            /\ dl[o].of = t /\ digesting[o] = <<>> /\ Arriving(t, Seen(t))
        BY <1>1, <1>2, <2>4, <2>5, <3>1, ViewerPhase DEF About
      <3>3. dl[o].chunks \in Bytes
        BY <2>4 DEF TransferTyped, Collected
      <3>4. PICK q \in Seq(MsgRow) : q = Seen(t) /\ q # <<>> /\ q[1] = m
        BY <2>4, <2>5, <3>1 DEF TransferTyped, Seen
      <3>5. PICK got \in Bytes : got = dl[o].chunks
        BY <3>3
      <3>6. \/ Len(q) = 1 /\ q[1].t = "got" /\ q[1].path = Nothing /\ got = <<>>
            \/ /\ Len(q) > 0 /\ Len(got) + Len(q) = Chunks + 1
               /\ \A i \in 1 .. Len(got) : got[i] = <<t, i>>
               /\ \A i \in 1 .. Len(q) - 1 : q[i].t = "chunk" /\ q[i].bytes = <<<<t, Len(got) + i>>>>
               /\ q[Len(q)].t = "got" /\ q[Len(q)].path # Nothing /\ q[Len(q)].bytes = Content(t)
        <4>1. Arriving(t, q) /\ dl[xfer[t].owner].chunks = got
          BY <2>5, <3>2, <3>4, <3>5
        <4> QED
          BY <4>1, Zenon DEF Arriving
      <3>7. Len(q) = 1 /\ Len(got) = Chunks /\ \A i \in 1 .. Len(got) : got[i] = <<t, i>>
        <4>1. q[1].t = "got" /\ q[1].path # Nothing /\ Len(q) \in Nat /\ Len(got) \in Nat
          BY <1>2, <1>4, <3>4 DEF Bytes
        <4>2. /\ Len(q) > 0 /\ Len(got) + Len(q) = Chunks + 1
              /\ \A i \in 1 .. Len(got) : got[i] = <<t, i>>
              /\ \A i \in 1 .. Len(q) - 1 : q[i].t = "chunk"
          BY <3>6, <4>1
        <4>3. Len(q) = 1
          <5> SUFFICES ASSUME Len(q) # 1
                       PROVE  FALSE
            OBVIOUS
          <5>1. 1 \in 1 .. Len(q) - 1
            <6>1. PICK n \in Nat : n = Len(q) /\ n > 0 /\ n # 1
              BY <4>1, <4>2
            <6>2. 1 \in 1 .. n - 1
              BY <6>1
            <6> QED
              BY <6>1, <6>2
          <5>2. q[1].t = "chunk"
            BY <4>2, <5>1
          <5> QED
            BY <4>1, <5>2
        <4> QED
          BY <4>1, <4>2, <4>3
      <3>8. m.bytes = Content(t)
        BY <1>2, <1>4, <2>4, <2>5 DEF ViewerMsg
      <3>9. got = Content(t)
        <4>1. PICK c \in Bytes : c = Content(t) /\ Len(c) = Chunks /\ \A i \in 1 .. Chunks : c[i] = <<t, i>>
          BY ContentTyped
        <4>2. got \in Seq(Transfers \X Nat) /\ c \in Seq(Transfers \X Nat)
          BY DEF Bytes
        <4>3. Len(got) = Len(c) /\ \A i \in 1 .. Len(got) : got[i] = c[i]
          BY <3>7, <4>1
        <4>4. got = c
          BY <4>2, <4>3, SameRow
        <4> QED
          BY <4>1, <4>4
      <3>10. Seen(t)' = <<>>
        BY <1>1, <2>1, <2>5, <3>4, <3>7, NothingSeen
      <3>11. Len(digesting'[o]) = 1 /\ digesting'[o][1] = d
        BY <2>1, <2>2, <3>2
      <3>12. d.dl.chunks = Content(t) /\ d.bytes = Content(t)
        BY <2>2, <3>5, <3>8, <3>9
      <3>13. Fetched(t)'
        BY <2>1, <2>5, <3>1, <3>2, <3>10, <3>11, <3>12 DEF Fetched, Content
      <3>14. xfer'[t] = xfer[t] /\ xfer[t].told.tag = "none" /\ xfer[t].owner \in Windows /\ Alone(t)'
        BY <2>1, <2>4, <2>5, <3>2 DEF Place
      <3> QED
        BY <3>2, <3>13, <3>14 DEF Place, IsGet
    <2> QED
      BY <2>4, <2>5
  <1>5. CASE ~(dl[o].of # Nothing /\ m.path # Nothing)
    <2>1. /\ digesting' = digesting /\ \A w \in Windows : w # o => dl'[w] = dl[w]
          /\ \A u \in Transfers :
                 /\ ~FailsOf(o, m, u) => xfer'[u] = xfer[u]
                 /\ FailsOf(o, m, u) => /\ xfer'[u].pc = "told" /\ xfer'[u].told.tag = "failed"
                                        /\ xfer'[u].owner = xfer[u].owner
      BY <1>1, <1>2, <1>5, DownloadedDoes
    <2>2. \A u \in Transfers : FailsOf(o, m, u) => xfer[u].owner = o /\ Begun(u)
      BY <1>2, <1>3 DEF FailsOf, Collects, Begun
    <2>3. ViewFrame(o, m)
      <3>1. \A u \in Transfers : u # m.of => (UnderWay(u)' => UnderWay(u))
        BY <2>1 DEF UnderWay
      <3> QED
        BY <2>1, <2>2, <3>1 DEF ViewFrame
    <2>4. /\ TransferTyped /\ Place(t) /\ xfer[t] \in XferRow
          /\ UnderWay(t) => Alone(t)' /\ m.of = t
          /\ ~(UnderWay(t) /\ xfer[t].owner = o) => Place(t)'
      BY <2>3, ViewElsewhere
    <2>5. CASE UnderWay(t) /\ xfer[t].owner = o
      <3>1. Seen(t) # <<>> /\ Seen(t)[1] = m /\ UNCHANGED <<toAgent, tray, disk>>
        BY <2>5 DEF Views, Seen
      <3>2. toAgent = <<>> /\ dl[o].of = t /\ digesting[o] = <<>> /\ Arriving(t, Seen(t))
        BY <1>1, <1>2, <2>4, <2>5, <3>1, ViewerPhase DEF About
      <3>3. m.path = Nothing /\ FailsOf(o, m, t)
        BY <1>5, <3>2 DEF FailsOf
      <3>4. xfer'[t].pc = "told" /\ Settled(t)' /\ xfer'[t].owner = o
        BY <2>1, <2>5, <3>3 DEF Settled
      <3>5. Len(Seen(t)) = 1
        <4>1. PICK q \in Seq(MsgRow) : q = Seen(t) /\ q[1] = m
          BY <2>4, <2>5, <3>1 DEF TransferTyped, Seen
        <4>2. Arriving(t, q)
          BY <3>2, <4>1
        <4>3. \/ Len(q) = 1
              \/ /\ Len(q) > 0
                 /\ \A i \in 1 .. Len(q) - 1 : q[i].t = "chunk"
                 /\ q[Len(q)].path # Nothing
          BY <4>2, Zenon DEF Arriving
        <4>4. Len(q) = 1
          <5> SUFFICES ASSUME Len(q) # 1
                       PROVE  FALSE
            OBVIOUS
          <5>1. Len(q) > 0 /\ \A i \in 1 .. Len(q) - 1 : q[i].t = "chunk"
            BY <4>3
          <5>2. Len(q) \in Nat
            BY <4>1
          <5>3. 1 \in 1 .. Len(q) - 1
            <6>1. PICK n \in Nat : n = Len(q) /\ n > 0 /\ n # 1
              BY <5>1, <5>2
            <6>2. 1 \in 1 .. n - 1
              BY <6>1
            <6> QED
              BY <6>1, <6>2
          <5>4. q[1].t = "chunk"
            BY <5>1, <5>3
          <5> QED
            BY <1>2, <4>1, <5>4
        <4> QED
          BY <4>1, <4>4
      <3>6. Seen(t)' = <<>>
        BY <1>1, <2>5, <3>4, <3>5, NothingSeen
      <3>7. digesting'[o] = <<>> /\ toAgent' = <<>>
        BY <2>1, <3>1, <3>2
      <3> QED
        BY <3>4, <3>6, <3>7, SettledRests
    <2> QED
      BY <2>4, <2>5
  <1> QED
    BY <1>4, <1>5

LEMMA PlaceView ==
    ASSUME TransferInv, NEW o \in Windows, View(o), NEW t \in Transfers, Clean(t)'
    PROVE  Place(t)'
  <1>1. MixInv /\ toViewer[o] # <<>>
    BY DEF TransferInv, View
  <1>2. PICK m : m = toViewer[o][1]
    OBVIOUS
  <1>3. m = Head(toViewer[o])
    BY <1>1, <1>2, FirstOfViewer
  <1>4. Views(o, m) /\ (Destination(o, m) \/ Sent(o, m) \/ Collect(o, m) \/ Downloaded(o, m))
    BY <1>1, <1>2, <1>3 DEF View, Views
  <1> QED
    BY <1>4, PlaceDestination, PlaceSent, PlaceCollect, PlaceDownloaded

LEMMA PlaceRests ==
    ASSUME TransferInv, UNCHANGED transferVars, NEW t \in Transfers, Clean(t)'
    PROVE  Place(t)'
  <1>1. UNCHANGED <<xfer, reqId, dl, digesting, toAgent, toViewer, tray, disk, mingled, hurt, drops>>
    BY DEF transferVars
  <1>2. MixInv /\ TransferTyped /\ Place(t) /\ xfer[t] \in XferRow
    BY <1>1, WasPlaced
  <1>3. CASE UnderWay(t)
    <2>1. Alone(t)
      BY <1>2, <1>3 DEF Place
    <2>2. OwnOnly(t)
      BY <1>1 DEF OwnOnly
    <2>3. Alone(t)'
      BY <1>1, <2>1, <2>2, AloneStays DEF Alone
    <2> QED
      BY <1>1, <1>2, <1>3, <2>3, PlaceWaits
  <1>4. CASE ~UnderWay(t)
    <2>1. SilentOf(t)
      BY <1>1 DEF SilentOf
    <2> QED
      BY <1>1, <1>2, <1>4, <2>1, ThreeWays, PlaceNotBegun, ToldStays
  <1> QED
    BY <1>3, <1>4

LEMMA PlaceNext ==
    ASSUME TransferInv, [TransferNext]_transferVars, NEW t \in Transfers, Clean(t)'
    PROVE  Place(t)'
  <1>1. CASE TransferNext
    <2>1. CASE /\ \E u \in Transfers : xfer[u].pc = "new"
               /\ \E o \in By[Unused], way \in As[Unused] :
                    \/ way \in {"put", "ask"} /\ Upload(o, Unused, way)
                    \/ way = "offer" /\ Offer(o, Unused)
                    \/ way = "get" /\ Download(o, Unused)
      <3>1. Unused \in Transfers /\ xfer[Unused].pc = "new"
        BY <2>1 DEF Unused
      <3>2. PICK u \in Transfers : u = Unused /\ xfer[u].pc = "new" /\ By[u] \subseteq Windows
        BY <3>1, TransferAssumption DEF TransferAssumption
      <3>3. PICK o \in Windows, way \in As[Unused] :
                    \/ way \in {"put", "ask"} /\ Upload(o, u, way)
                    \/ way = "offer" /\ Offer(o, u)
                    \/ way = "get" /\ Download(o, u)
        BY <2>1, <3>2
      <3> QED
        BY <3>2, <3>3, PlaceUpload, PlaceOffer, PlaceDownload
    <2>2. CASE \E u \in Transfers : Timeout(u) \/ Stream(u) \/ Pull(u)
      BY <2>2, PlaceTimeout, PlaceStream, PlacePull
    <2>3. CASE \E o \in Windows : View(o) \/ Digested(o)
      BY <2>3, PlaceView, PlaceDigested
    <2>4. CASE (\E o \in Windows : WindowDrops(o)) \/ Reconnect
      BY <2>4, PlaceDrops
    <2>5. CASE Handle \/ Answer
      BY <2>5, PlaceHandle, PlaceAnswer
    <2> QED
      BY <1>1, <2>1, <2>2, <2>3, <2>4, <2>5 DEF TransferNext
  <1>2. CASE UNCHANGED transferVars
    BY <1>2, PlaceRests
  <1> QED
    BY <1>1, <1>2

(***************************************************************************)
(* The invariant, and what a window tells.                                 *)
(***************************************************************************)
LEMMA TransferStarts ==
    ASSUME TransferInit
    PROVE  TransferInv
  <1>1. MixInv
    BY MixInit
  <1>2. \A t \in Transfers : xfer[t] = Fresh
    BY DEF TransferInit
  <1>3. \A t \in Transfers : Place(t)
    <2> TAKE t \in Transfers
    <2>1. xfer[t].pc = "new" /\ xfer[t].told.tag = "none" /\ xfer[t].rid = 0
      BY <1>2 DEF Fresh, NotTold
    <2> QED
      BY <1>2, <2>1 DEF Place, UnderWay
  <1> QED
    BY <1>1, <1>3 DEF TransferInv

\* Every step of a window or of the agent keeps what is known of the messages,
\* the files and the transfers (RemoteSupportModal.tsx, mcmf-tray-agent.ps1).
THEOREM TransfersKept == TransferInv /\ [TransferNext]_transferVars => TransferInv'
  <1> SUFFICES ASSUME TransferInv, [TransferNext]_transferVars
               PROVE  TransferInv'
    OBVIOUS
  <1>1. MixInv'
    BY MixNext DEF TransferInv
  <1>2. ASSUME NEW t \in Transfers, Clean(t)'
        PROVE  Place(t)'
    BY <1>2, PlaceNext
  <1> QED
    BY <1>1, <1>2 DEF TransferInv

\* The messages, the bytes on the disk and the rows of the windows always agree.
THEOREM TransferInvariant == TransferSpec => []TransferInv
  <1>1. TransferInit => TransferInv
    BY TransferStarts
  <1> QED
    BY <1>1, TransfersKept, PTL DEF TransferSpec

LEMMA TypesAreKept ==
    ASSUME TransferTyped
    PROVE  TransferTypeOK
  <1> USE NamesDiffer
  <1>1. ASSUME NEW t \in Transfers
        PROVE  /\ xfer[t].way \in {"none", "put", "ask", "offer", "get"}
               /\ xfer[t].pc \in {"new", "asked", "offered", "streaming", "ended", "told"}
               /\ xfer[t].owner \in Windows \cup {Nothing} /\ xfer[t].path \in Paths \cup {Nothing}
               /\ xfer[t].rid \in Nat /\ xfer[t].next \in 1 .. Chunks + 1 /\ xfer[t].hashed \in BOOLEAN
               /\ xfer[t].told.tag \in {"none", "cancelled", "replaced", "sent", "verified", "mismatch", "failed"}
    BY DEF TransferTyped, XferRow, Tags
  <1>2. \A o \in Windows : dl[o].of \in Transfers \cup {Nothing}
    BY DEF TransferTyped, Collected
  <1>3. ASSUME NEW q \in Queues, NEW i \in DOMAIN q
        PROVE  q[i].of \in Transfers /\ q[i].rid \in Nat
    <2>1. q \in Seq(MsgRow)
      BY DEF Queues, TransferTyped
    <2>2. q[i] \in MsgRow
      BY <2>1
    <2> QED
      BY <2>2 DEF MsgRow
  <1> QED
    BY <1>1, <1>2, <1>3 DEF TransferTyped, TransferTypeOK

LEMMA VerifiedIs ==
    ASSUME TransferInv
    PROVE  VerifiedIsIntact
  <1> USE NamesDiffer
  <1>1. MixInv /\ TransferTyped
    BY DEF TransferInv, MixInv
  <1>2. TransferTypeOK
    BY <1>1, TypesAreKept
  <1>3. MixturesAreCaught
    BY <1>1 DEF MixInv, Verified, MixturesAreCaught, IsGet, Sealed
  <1>4. ASSUME NEW t \in Transfers \ (mingled \cup hurt), xfer[t].told.tag \in {"sent", "verified", "mismatch"}
        PROVE  /\ xfer[t].told.tag = "verified"
               /\ xfer[t].way = "get" => xfer[t].saved = Content(t)
               /\ xfer[t].way # "get" =>
                    /\ xfer[t].told.path = xfer[t].path
                    /\ disk[xfer[t].path].version = xfer[t].told.version => disk[xfer[t].path].bytes = Content(t)
    <2>1. Place(t)
      BY <1>4 DEF TransferInv, Clean
    <2>2. Settled(t)
      BY <1>4, <2>1 DEF Place
    <2>3. xfer[t].told.tag = "verified"
      BY <1>4, <2>2 DEF Settled
    <2>4. Verified(t)
      BY <1>1 DEF MixInv
    <2> QED
      BY <2>2, <2>3, <2>4 DEF Settled, Verified, IsGet, Sealed
  <1>5. SentIsIntact
    BY <1>2, <1>4 DEF SentIsIntact
  <1> QED
    BY <1>3, <1>5 DEF VerifiedIsIntact

\* What the console reports of a file is true: whole, at the path that was agreed,
\* when nothing crossed it and the sockets held; and never two files' bytes passed
\* off as one, whatever crossed and whatever dropped.
THEOREM FilesAreIntact == TransferSpec => []VerifiedIsIntact
  <1>1. TransferInv => VerifiedIsIntact
    BY VerifiedIs
  <1> QED
    BY <1>1, TransferInvariant, PTL

=============================================================================
