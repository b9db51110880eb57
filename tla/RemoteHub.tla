----------------------------- MODULE RemoteHub -----------------------------
(***************************************************************************)
(* The media relay of remote support: asking for a session                 *)
(* (remote.service.ts, request), the slots and sockets of RemoteMediaHub   *)
(* (media.hub.ts) and the operator's window that dials it                  *)
(* (web/src/features/remote/RemoteSupportModal.tsx).                       *)
(*                                                                         *)
(* A handshake is checked across awaits, and a socket may close meanwhile; *)
(* a slot is an object that the sweep may drop while a handshake holds it. *)
(* Consent is RemoteSession's: here a session becomes active by itself.    *)
(* Frames, chat and files are relayed by what is modelled here; what they  *)
(* carry is not.                                                           *)
(***************************************************************************)
EXTENDS Naturals, FiniteSets

CONSTANTS
    Operators, Sessions, Hosts,
    None,           \* no session, no host
    Wants,          \* [Operators -> SUBSET Hosts], the hosts each may ask for
    MaxConcurrent,  \* remoteMaxConcurrent
    MaxViewers,     \* MAX_VIEWERS
    MaxDials,       \* bound: [{"browser", "agent"} -> Nat], dials
    MaxFaults       \* bound: failing calls, restarts of the API

ASSUME HubAssumption ==
    /\ None \notin Sessions \cup Hosts
    /\ Wants \in [Operators -> SUBSET Hosts]
    /\ MaxConcurrent \in Nat \ {0} /\ MaxViewers \in Nat \ {0}
    /\ MaxDials \in [{"browser", "agent"} -> Nat] /\ MaxFaults \in Nat

VARIABLES
    row,      \* [Sessions -> the row: its host and status]
    asking,   \* [Operators -> the call of request() and the session it gave]
    slot,     \* [Sessions -> the hub's slot, or NoSlot]
    viewer,   \* [Operators -> the browser's socket]
    agent,    \* [Sessions -> the socket of the agent's helper]
    ending,   \* sessions whose grace ran out and whose end() is under way
    \* observation and bounds
    crossed,  \* two requests overlapped
    excused,  \* sessions whose slot was dropped, haunted, or whose end failed
    dials, faults

vars == <<row, asking, slot, viewer, agent, ending, crossed, excused, dials, faults>>

(***************************************************************************)
(* State.                                                                  *)
(***************************************************************************)
Live(s) == row[s].status \in {"requested", "active"}
LiveOn(h) == {s \in Sessions : Live(s) /\ row[s].host = h}

(* A slot: which agent socket it holds, its viewers, the sockets among them  *)
(* that were closed before they were added, and the grace timer.            *)
NoSlot == [there |-> FALSE, agent |-> "none", viewers |-> {}, ghosts |-> 0, had |-> FALSE, timer |-> FALSE]
NewSlot == [NoSlot EXCEPT !.there = TRUE]
NoRequest == [pc |-> "idle", host |-> None, got |-> None]
Closed == [pc |-> "closed", at |-> None, stale |-> FALSE, open |-> FALSE]

Size(s) == Cardinality(slot[s].viewers) + slot[s].ghosts

Init ==
    /\ row = [s \in Sessions |-> [host |-> None, status |-> "none"]]
    /\ asking = [o \in Operators |-> NoRequest]
    /\ slot = [s \in Sessions |-> NoSlot]
    /\ viewer = [o \in Operators |-> Closed]
    /\ agent = [s \in Sessions |-> "off"]
    /\ ending = {} /\ crossed = FALSE /\ excused = {}
    /\ dials = MaxDials
    /\ faults = 0

Dialled(who) == dials[who] > 0 /\ dials' = [dials EXCEPT ![who] = @ - 1]
hubState == <<slot, viewer, agent, ending, excused, dials, faults>>

(***************************************************************************)
(* request(): join the live session of the host, or create one.            *)
(***************************************************************************)
Ask(o) ==
    /\ asking[o].pc = "idle" /\ asking[o].got = None
    /\ \E h \in Wants[o] :
         asking' = [asking EXCEPT ![o] =
             IF LiveOn(h) # {} THEN [pc |-> "idle", host |-> None, got |-> CHOOSE s \in LiveOn(h) : TRUE]
             ELSE [pc |-> "counting", host |-> h, got |-> None]]
    /\ crossed' = (crossed \/ \E p \in Operators : asking[p].pc # "idle")
    /\ UNCHANGED <<row, hubState>>

\* Mutant: only the sessions that already stream are counted.
CountActive(o) ==
    /\ asking[o].pc = "counting"
    /\ asking' = [asking EXCEPT ![o] =
                    IF Cardinality({s \in Sessions : row[s].status = "active"}) >= MaxConcurrent THEN NoRequest
                    ELSE [@ EXCEPT !.pc = "creating"]]
    /\ UNCHANGED <<row, crossed, hubState>>

(* The live rows are counted; too many refuse the request. *)
Count(o) ==
    /\ asking[o].pc = "counting"
    /\ asking' = [asking EXCEPT ![o] =
                    IF Cardinality({s \in Sessions : Live(s)}) >= MaxConcurrent THEN NoRequest
                    ELSE [@ EXCEPT !.pc = "creating"]]
    /\ UNCHANGED <<row, crossed, hubState>>

Create(o) ==
    /\ asking[o].pc = "creating"
    /\ \E s \in Sessions : row[s].status = "none"
    /\ LET s == CHOOSE s \in Sessions : row[s].status = "none" IN
         /\ row' = [row EXCEPT ![s] = [host |-> asking[o].host, status |-> "requested"]]
         /\ asking' = [asking EXCEPT ![o] = [NoRequest EXCEPT !.got = s]]
    /\ UNCHANGED <<crossed, hubState>>

(* The person at the desk agrees. *)
Activate(s) ==
    /\ row[s].status = "requested"
    /\ row' = [row EXCEPT ![s].status = "active"]
    /\ UNCHANGED <<asking, crossed, hubState>>

(* The operator presses Stop: the session ends for everybody. *)
Stop(o) ==
    LET s == asking[o].got IN
    /\ s # None /\ Live(s)
    /\ row' = [row EXCEPT ![s].status = "ended"]
    /\ UNCHANGED <<asking, crossed, hubState>>

rowState == <<row, asking, crossed>>

(***************************************************************************)
(* attachViewer(): the slot is taken first, then the handshake is checked. *)
(***************************************************************************)
Connect(o) ==
    LET s == asking[o].got IN
    /\ s # None /\ row[s].status = "active" /\ viewer[o].pc = "closed" /\ Dialled("browser")
    /\ slot' = [slot EXCEPT ![s] = IF @.there THEN @ ELSE NewSlot]
    /\ viewer' = [viewer EXCEPT ![o] = [pc |-> "checking", at |-> s, stale |-> FALSE, open |-> TRUE]]
    /\ UNCHANGED <<rowState, agent, ending, excused, faults>>

(* A socket that is closed already is added all the same, as a ghost. *)
Joined(was, o, open) ==
    [there |-> was.there, agent |-> was.agent,
     viewers |-> IF open THEN was.viewers \cup {o} ELSE was.viewers,
     ghosts |-> IF open THEN was.ghosts ELSE was.ghosts + 1, had |-> TRUE, timer |-> FALSE]

(* wire(): the viewer joins the slot it took, whatever became of that and of *)
(* its socket; a slot that was dropped is no longer anybody's.               *)
Wire(o) ==
    LET me == viewer[o]
        s == me.at IN
    /\ me.pc = "checking"
    /\ \/ /\ me.stale
          /\ viewer' = [viewer EXCEPT ![o] = IF me.open THEN [me EXCEPT !.pc = "on"] ELSE Closed]
          /\ UNCHANGED <<slot, excused>>
       \/ /\ ~me.stale /\ Size(s) >= MaxViewers
          /\ viewer' = [viewer EXCEPT ![o] = [Closed EXCEPT !.pc = "refused"]]
          /\ UNCHANGED <<slot, excused>>
       \/ /\ ~me.stale /\ Size(s) < MaxViewers
          /\ slot' = [slot EXCEPT ![s] = Joined(@, o, me.open)]
          /\ viewer' = [viewer EXCEPT ![o] = IF me.open THEN [me EXCEPT !.pc = "on"] ELSE Closed]
          /\ excused' = IF me.open THEN excused ELSE excused \cup {s}
    /\ UNCHANGED <<rowState, agent, ending, dials, faults>>

(* The token or the row is not accepted, or a call fails: the socket closes. *)
Rejected(o) ==
    /\ viewer[o].pc = "checking" /\ (faults < MaxFaults /\ faults' = faults + 1)
    /\ viewer' = [viewer EXCEPT ![o] = Closed]
    /\ UNCHANGED <<rowState, slot, agent, ending, excused, dials>>

\* Mutant: the viewers are counted before the one who left is removed.
GoneCountsEarly(o) ==
    LET s == viewer[o].at IN
    [slot EXCEPT ![s].viewers = @ \ {o},
                 ![s].timer = @ \/ (slot[s].viewers = {} /\ slot[s].ghosts = 0 /\ slot[s].had)]

(* onViewerGone(): the last viewer to leave arms the grace timer. *)
Gone(o) ==
    LET s == viewer[o].at
        left == slot[s].viewers \ {o}
        arms == left = {} /\ slot[s].ghosts = 0 /\ slot[s].had IN
    [slot EXCEPT ![s].viewers = left, ![s].timer = @ \/ arms]

(* The socket closes: the window is shut, the network drops it, ten seconds  *)
(* pass without a handshake.  Before wire() nobody listens for it.           *)
Hang(o) ==
    LET me == viewer[o] IN
    /\ me.pc \in {"checking", "on"} /\ me.open
    /\ IF me.pc = "on"
       THEN /\ viewer' = [viewer EXCEPT ![o] = Closed]
            /\ slot' = IF slot[me.at].there THEN Gone(o) ELSE slot
       ELSE /\ viewer' = [viewer EXCEPT ![o].open = FALSE]
            /\ UNCHANGED slot
    /\ UNCHANGED <<rowState, agent, ending, excused, dials, faults>>

(* The window of a session that is no longer active closes its socket. *)
WindowShuts(o) ==
    /\ viewer[o].at # None /\ row[viewer[o].at].status # "active"
    /\ Hang(o)

\* Mutant: the session is ended only while an agent is connected.
GraceEndsWithAgent(s) ==
    /\ slot[s].timer
    /\ slot' = [slot EXCEPT ![s].timer = FALSE]
    /\ ending' = IF Size(s) = 0 /\ slot[s].agent # "none" THEN ending \cup {s} ELSE ending
    /\ UNCHANGED <<rowState, viewer, agent, excused, dials, faults>>

(* The grace is over: a session with no viewer is ended, which takes a read  *)
(* and a write; a viewer who is back meanwhile is not looked for again.      *)
GraceEnds(s) ==
    /\ slot[s].timer
    /\ slot' = [slot EXCEPT ![s].timer = FALSE]
    /\ ending' = IF Size(s) = 0 THEN ending \cup {s} ELSE ending
    /\ UNCHANGED <<rowState, viewer, agent, excused, dials, faults>>

EndLands(s) ==
    /\ s \in ending
    /\ ending' = ending \ {s}
    /\ \/ /\ row' = [row EXCEPT ![s].status = IF Live(s) THEN "ended" ELSE @]
          /\ UNCHANGED <<excused, faults>>
       \/ /\ faults < MaxFaults /\ faults' = faults + 1
          /\ excused' = excused \cup {s}
          /\ UNCHANGED row
    /\ UNCHANGED <<asking, crossed, slot, viewer, agent, dials>>

(* The sweep drops a slot with nobody attached, and its grace timer with it. *)
Sweep(s) ==
    /\ slot[s].there /\ slot[s].agent = "none" /\ Size(s) = 0
    /\ slot' = [slot EXCEPT ![s] = NoSlot]
    /\ viewer' = [o \in Operators |->
                    IF viewer[o].pc = "checking" /\ viewer[o].at = s
                    THEN [viewer[o] EXCEPT !.stale = TRUE] ELSE viewer[o]]
    /\ excused' = IF slot[s].timer \/ \E o \in Operators : viewer[o].pc = "checking" /\ viewer[o].at = s
                  THEN excused \cup {s} ELSE excused
    /\ UNCHANGED <<rowState, agent, ending, dials, faults>>

(***************************************************************************)
(* attachAgent(): one socket per session, a new one supersedes the old.    *)
(***************************************************************************)
AgentDials(s) ==
    /\ row[s].status = "active" /\ agent[s] = "off" /\ Dialled("agent")
    /\ agent' = [agent EXCEPT ![s] = "checking"]
    /\ UNCHANGED <<rowState, slot, viewer, ending, excused, faults>>

(* The socket may have closed while its key was checked; it is kept anyway. *)
AttachAgent(s) ==
    /\ agent[s] \in {"checking", "lost"}
    /\ slot' = [slot EXCEPT ![s] = [(IF @.there THEN @ ELSE NewSlot) EXCEPT
                                       !.agent = IF agent[s] = "checking" THEN "on" ELSE "dead"]]
    /\ agent' = [agent EXCEPT ![s] = IF @ = "checking" THEN "on" ELSE "off"]
    /\ UNCHANGED <<rowState, viewer, ending, excused, dials, faults>>

(* The agent's socket closes: the helper stops, the network drops it, or the *)
(* reply to a frame says stop because the session is no longer active.       *)
AgentHangs(s) ==
    /\ agent[s] \in {"checking", "on"}
    /\ agent' = [agent EXCEPT ![s] = IF @ = "checking" THEN "lost" ELSE "off"]
    /\ slot' = [slot EXCEPT ![s].agent = IF agent[s] = "on" /\ @ = "on" THEN "none" ELSE @]
    /\ UNCHANGED <<rowState, viewer, ending, excused, dials, faults>>

(* The process restarts: the map is empty and every socket closed. *)
Restart ==
    /\ faults < MaxFaults /\ faults' = faults + 1
    /\ excused' = excused \cup ending \cup {s \in Sessions : slot[s].there}
    /\ slot' = [s \in Sessions |-> NoSlot]
    /\ viewer' = [o \in Operators |-> Closed]
    /\ agent' = [s \in Sessions |-> "off"]
    /\ ending' = {}
    /\ asking' = [o \in Operators |-> [NoRequest EXCEPT !.got = asking[o].got]]
    /\ UNCHANGED <<row, crossed, dials>>

Next ==
    \/ \E o \in Operators : \/ Ask(o) \/ Count(o) \/ Create(o) \/ Stop(o)
                            \/ Connect(o) \/ Wire(o) \/ Rejected(o) \/ Hang(o)
    \/ \E s \in Sessions : \/ Activate(s) \/ GraceEnds(s) \/ EndLands(s) \/ Sweep(s)
                           \/ AgentDials(s) \/ AttachAgent(s) \/ AgentHangs(s)
    \/ Restart

Spec == Init /\ [][Next]_vars

(* Timers fire and awaits come back; nobody has to dial, stop or hang up,    *)
(* but the window of an ended session closes its socket.                     *)
Fairness ==
    /\ \A o \in Operators : WF_vars(Wire(o)) /\ WF_vars(WindowShuts(o))
    /\ \A s \in Sessions : WF_vars(GraceEnds(s)) /\ WF_vars(EndLands(s))
FairSpec == Spec /\ Fairness

(***************************************************************************)
(* Properties.                                                             *)
(***************************************************************************)
(* The variables keep their types. *)
TypeOK ==
    /\ row \in [Sessions -> [host : Hosts \cup {None}, status : {"none", "requested", "active", "ended"}]]
    /\ asking \in [Operators -> [pc : {"idle", "counting", "creating"}, host : Hosts \cup {None},
                                 got : Sessions \cup {None}]]
    /\ slot \in [Sessions -> [there : BOOLEAN, agent : {"none", "on", "dead"}, viewers : SUBSET Operators,
                              ghosts : Nat, had : BOOLEAN, timer : BOOLEAN]]
    /\ viewer \in [Operators -> [pc : {"closed", "checking", "on", "refused"}, at : Sessions \cup {None},
                                 stale : BOOLEAN, open : BOOLEAN]]
    /\ agent \in [Sessions -> {"off", "checking", "lost", "on"}]
    /\ ending \subseteq Sessions /\ crossed \in BOOLEAN /\ excused \subseteq Sessions
    /\ faults \in 0 .. MaxFaults

(* "One SHARED session per host", and never more live ones than the limit:   *)
(* who asks for a host with a live session joins it.  Only two requests that *)
(* overlap get past either check.                                            *)
SharedWithinLimit ==
    crossed \/ /\ \A h \in Hosts : Cardinality(LiveOn(h)) <= 1
               /\ Cardinality({s \in Sessions : Live(s)}) <= MaxConcurrent

(* Who watches is in the slot that frames are sent to, and the slot holds    *)
(* nobody else; a live session that had viewers and has none is timed to     *)
(* end.  A slot dropped under a handshake or with its timer, a socket closed *)
(* before it was added and a failed end() are the ways out of it.            *)
WatchedOrTimed ==
    /\ TypeOK
    /\ \A s \in Sessions \ excused :
         /\ slot[s].viewers = {o \in Operators : viewer[o].pc = "on" /\ viewer[o].at = s}
         /\ slot[s].timer => slot[s].viewers = {}
         /\ (Live(s) /\ slot[s].had /\ slot[s].viewers = {}) => (slot[s].timer \/ s \in ending)

(* "A genuinely abandoned session stops capturing": a session whose viewers  *)
(* are gone for good ends.  Not so when the sweep meets its slot within the   *)
(* grace of 45 seconds without the agent: it drops the slot and its timer     *)
(* with it (media.hub.ts:71-75, :86), and nothing in the hub ends the session.  *)
(* A slot dropped under a handshake and a failed end() are excused likewise.  *)
AbandonedEnds ==
    []<>(\A s \in Sessions \ excused : (slot[s].had /\ slot[s].viewers = {}) => ~Live(s))

=============================================================================
