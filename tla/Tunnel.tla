------------------------------- MODULE Tunnel -------------------------------
(***************************************************************************)
(* The reverse console of an agent that can only dial out                  *)
(* (agent-tunnel.hub.ts, console_open of mcmf-agent-linux.py).             *)
(*                                                                         *)
(* One session: the platform listens on a port for the console's proxy,    *)
(* queues a command that asks the agent to dial in, and joins the two      *)
(* sockets when both are there.  Either may come first, or not at all; the *)
(* agent's side may talk before the proxy has come (a server's banner).    *)
(* The streams are numbered from 1, and a socket that is closed still      *)
(* delivers what it had accepted, or loses it.                             *)
(***************************************************************************)
EXTENDS Naturals, Sequences

CONSTANTS
    Proxies,       \* connections of the proxy (a number of them)
    MaxBytes       \* bound: pieces of data each side sends

ASSUME TunnelAssumption == Proxies \in Nat \ {0} /\ MaxBytes \in Nat

VARIABLES
    tunnel,    \* the session: there, its timer, its sockets, whether they are joined
    proxy,     \* [1 .. Proxies -> the proxy's end of a connection]
    outpost,   \* the agent's end: asked, dialing, open or closed
    up,        \* agent to proxy: sent, in the socket, held by the platform, shown
    down       \* proxy to agent: typed, in the paused socket, on the wire, heard

tunVars == <<tunnel, proxy, outpost, up, down>>

Lines == 1 .. Proxies
Closed == [there |-> FALSE, timer |-> FALSE, relay |-> 0, agent |-> FALSE, joined |-> FALSE]

TunInit ==
    /\ tunnel = [Closed EXCEPT !.there = TRUE, !.timer = TRUE]
    /\ proxy = [p \in Lines |-> "none"]
    /\ outpost \in {"asked", "none"}   \* the command may not have been queued
    /\ up = [sent |-> 0, wire |-> <<>>, held |-> <<>>, shown |-> <<>>]
    /\ down = [typed |-> 0, paused |-> <<>>, wire |-> <<>>, heard |-> <<>>]

(***************************************************************************)
(* The hub: each handler runs to its end.                                  *)
(***************************************************************************)
\* bridge(): the flush comes before anything that arrives later.
Joined(t) == t.relay # 0 /\ t.agent /\ ~t.joined

\* Mutant: what was held is forgotten.
Unflushed(t) ==
    IF Joined(t)
    THEN /\ tunnel' = [t EXCEPT !.joined = TRUE, !.timer = FALSE]
         /\ up' = [up EXCEPT !.held = <<>>]
    ELSE tunnel' = t /\ UNCHANGED up

Bridge(t) ==
    IF Joined(t)
    THEN /\ tunnel' = [t EXCEPT !.joined = TRUE, !.timer = FALSE]
         /\ up' = [up EXCEPT !.shown = @ \o up.held, !.held = <<>>]
    ELSE tunnel' = t /\ UNCHANGED up

\* The listener closes with the session; a second connection is destroyed.
Connects(p) ==
    /\ proxy[p] = "none" /\ tunnel.there
    /\ IF tunnel.relay # 0
       THEN proxy' = [proxy EXCEPT ![p] = "closed"] /\ UNCHANGED <<tunnel, up>>
       ELSE proxy' = [proxy EXCEPT ![p] = "open"] /\ Bridge([tunnel EXCEPT !.relay = p])
    /\ UNCHANGED <<outpost, down>>

\* attachAgentWs(): without a session the socket is closed.
Attaches ==
    /\ outpost = "dialing"
    /\ IF tunnel.there
       THEN outpost' = "open" /\ Bridge([tunnel EXCEPT !.agent = TRUE])
       ELSE outpost' = "closed" /\ UNCHANGED <<tunnel, up>>
    /\ UNCHANGED <<proxy, down>>

\* A message of the agent: to the proxy once they are joined, held until then.
FromAgent ==
    /\ tunnel.there /\ tunnel.agent /\ up.wire # <<>>
    /\ up' = IF tunnel.joined
             THEN [up EXCEPT !.wire = Tail(@), !.shown = Append(@, Head(up.wire))]
             ELSE [up EXCEPT !.wire = Tail(@), !.held = Append(@, Head(up.wire))]
    /\ UNCHANGED <<tunnel, proxy, outpost, down>>

\* The socket is paused until they are joined.
FromProxy ==
    /\ tunnel.joined /\ down.paused # <<>>
    /\ down' = [down EXCEPT !.paused = Tail(@), !.wire = Append(@, Head(down.paused))]
    /\ UNCHANGED <<tunnel, proxy, outpost, up>>

\* close(): by the timer, or when either socket has closed at its other end.
HubCloses ==
    /\ tunnel.there
    /\ \/ tunnel.timer
       \/ tunnel.relay # 0 /\ proxy[tunnel.relay] = "closed"
       \/ tunnel.agent /\ outpost = "closed"
    /\ tunnel' = Closed
    /\ up' = [up EXCEPT !.held = <<>>]
    /\ UNCHANGED <<proxy, outpost, down>>

(***************************************************************************)
(* The two ends.                                                           *)
(***************************************************************************)
\* console_open(): it dials, and dials its own console; either may fail.
Dials ==
    /\ outpost = "asked"
    /\ outpost' \in {"dialing", "closed"}
    /\ UNCHANGED <<tunnel, proxy, up, down>>

Talks ==
    /\ outpost = "open" /\ up.sent < MaxBytes
    /\ up' = [up EXCEPT !.sent = @ + 1, !.wire = Append(@, up.sent + 1)]
    /\ UNCHANGED <<tunnel, proxy, outpost, down>>

Hears ==
    /\ outpost = "open" /\ down.wire # <<>>
    /\ down' = [down EXCEPT !.wire = Tail(@), !.heard = Append(@, Head(down.wire))]
    /\ UNCHANGED <<tunnel, proxy, outpost, up>>

Types(p) ==
    /\ proxy[p] = "open" /\ tunnel.relay = p /\ down.typed < MaxBytes
    /\ down' = [down EXCEPT !.typed = @ + 1, !.paused = Append(@, down.typed + 1)]
    /\ UNCHANGED <<tunnel, proxy, outpost, up>>

\* An end closes, by itself or because the hub closed its socket.
ProxyCloses(p) ==
    /\ proxy[p] = "open" /\ proxy' = [proxy EXCEPT ![p] = "closed"]
    /\ UNCHANGED <<tunnel, outpost, up, down>>

OutpostCloses ==
    /\ outpost = "open" /\ outpost' = "closed"
    /\ UNCHANGED <<tunnel, proxy, up, down>>

\* The process ends, and its sockets with it.
TunRestart ==
    /\ tunnel.there /\ tunnel' = Closed
    /\ up' = [up EXCEPT !.held = <<>>]
    /\ UNCHANGED <<proxy, outpost, down>>

TunNext ==
    \/ \E p \in Lines : Connects(p) \/ Types(p) \/ ProxyCloses(p)
    \/ Attaches \/ FromAgent \/ FromProxy \/ HubCloses
    \/ Dials \/ Talks \/ Hears \/ OutpostCloses \/ TunRestart

\* Events are handled, the timer fires, a closed socket is noticed at its end.
TunDuty(k) ==
    \/ k = 1 /\ HubCloses
    \/ k = 2 /\ Attaches
    \/ k = 3 /\ FromAgent
    \/ k = 4 /\ FromProxy
    \/ k = 5 /\ ~tunnel.there /\ OutpostCloses
    \/ \E p \in Lines : k = 5 + p /\ tunnel.relay # p /\ ProxyCloses(p)
TunSpec == TunInit /\ [][TunNext]_tunVars /\ \A k \in 1 .. 5 + Proxies : WF_tunVars(TunDuty(k))

(***************************************************************************)
(* Properties.                                                             *)
(***************************************************************************)
(* The variables keep their types. *)
TunTypes ==
    /\ tunnel \in [there : BOOLEAN, timer : BOOLEAN, relay : 0 .. Proxies, agent : BOOLEAN, joined : BOOLEAN]
    /\ proxy \in [Lines -> {"none", "open", "closed"}]
    /\ outpost \in {"none", "asked", "dialing", "open", "closed"}
    /\ up.sent \in 0 .. MaxBytes /\ down.typed \in 0 .. MaxBytes

Counts(s) == \A n \in 1 .. Len(s) : s[n] = n

(* Whoever comes first, each end sees what the other sent from the first     *)
(* piece on, in order and once; while both are joined nothing of it is lost, *)
(* and nothing the proxy's side typed reaches the agent before that.         *)
(* A session that waits for an end has its timer.                            *)
RelayFaithful ==
    /\ TunTypes
    /\ Counts(up.shown) /\ Counts(down.heard)
    /\ tunnel.there /\ tunnel.agent => Counts(up.shown \o up.held \o up.wire) /\ Len(up.shown \o up.held \o up.wire) = up.sent
    /\ tunnel.there /\ ~tunnel.joined => tunnel.timer /\ up.shown = <<>> /\ down.wire \o down.heard = <<>>
    /\ tunnel.joined => Len(down.paused \o down.wire \o down.heard) = down.typed

(* A session ends or is joined, and neither end stays open after one that    *)
(* has ended.                                                                *)
TunnelSettled ==
    tunnel.joined \/ (~tunnel.there /\ outpost # "open" /\ \A p \in Lines : proxy[p] # "open")
TunnelSettles == []<>TunnelSettled

=============================================================================
