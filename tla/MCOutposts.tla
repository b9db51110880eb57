----------------------------- MODULE MCOutposts -----------------------------
(***************************************************************************)
(* Five parts that keep in step with something outside the platform: the   *)
(* machine of an agent, its console, the clouds, a fabric between two of   *)
(* them, and the log store.  They share no state, so a behaviour is of one *)
(* of them, the subject, and the others rest in one initial state.         *)
(***************************************************************************)
EXTENDS AgentChannel, Tunnel, Inventory, Fabric, LogStore, TLC

CONSTANTS la, lb, x1, x2

VARIABLE subject

mcVars == <<vars, tunVars, invVars, fabVars, logVars, subject>>

\* One asset is shown to both connections, the other to one.
MCShownTo == (x1 :> {la, lb}) @@ (x2 :> {la})

\* A part that is not the subject begins in one of its initial states.
AgentRests == agent = Started(TRUE)
TunnelRests == outpost = "none"
CloudsRest == \A l \in Links : link[l].status = "new"

MCInit ==
    /\ subject \in {"agent", "console", "clouds", "fabric", "logs"}
    /\ Init /\ TunInit /\ InvInit /\ FabInit /\ LogInit
    /\ subject # "agent" => AgentRests
    /\ subject # "console" => TunnelRests
    /\ subject # "clouds" => CloudsRest

OthersRest ==
    /\ UNCHANGED subject
    /\ subject # "agent" => UNCHANGED vars
    /\ subject # "console" => UNCHANGED tunVars
    /\ subject # "clouds" => UNCHANGED invVars
    /\ subject # "fabric" => UNCHANGED fabVars
    /\ subject # "logs" => UNCHANGED logVars

MCNext ==
    /\ \/ subject = "agent" /\ Next
       \/ subject = "console" /\ TunNext
       \/ subject = "clouds" /\ InvNext
       \/ subject = "fabric" /\ FabNext
       \/ subject = "logs" /\ LogNext
    /\ OthersRest

\* What goes on by itself in the subject.
MCDuty(k) ==
    /\ \/ subject = "agent" /\ Duty(k)
       \/ subject = "console" /\ TunDuty(k)
       \/ subject = "clouds" /\ InvDuty(k)
       \/ subject = "fabric" /\ FabDuty(k)
       \/ subject = "logs" /\ k = 1 /\ LogDuty
    /\ OthersRest

MCSpec == MCInit /\ [][MCNext]_mcVars /\ \A k \in 1 .. Duties : WF_mcVars(MCDuty(k))

\* OutpostsHonest: of the console, both streams come whole and in order, and none
\* before its time; of the fabric, what is billed is known and one that is up is
\* wired; of the log store, there is no gap (agent-tunnel.hub.ts,
\* fabric.service.ts, database.service.ts).
OutpostsHonest ==
    CASE subject = "console" -> RelayFaithful
      [] subject = "fabric" -> FabricHonest
      [] subject = "logs" -> LogTypes /\ NoGap
      [] OTHER -> TRUE

\* OutpostsSettle: whatever overlapped or failed, again and again an installed
\* agent has one row and no command waits, a console is joined or gone, the
\* inventory is what the clouds hold, an armed fabric is up or has failed, and
\* every row is in the store (the same files, agent.service.ts, connections.service.ts).
OutpostsSettle ==
    []<>CASE subject = "agent" -> FleetSettled
          [] subject = "console" -> TunnelSettled
          [] subject = "clouds" -> InventorySettled
          [] subject = "fabric" -> FabricSettled
          [] subject = "logs" -> LogsArrived

=============================================================================
