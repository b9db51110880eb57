---------------------------- MODULE FileTransfer ----------------------------
(***************************************************************************)
(* Files sent over the media socket of a remote session: the operators'    *)
(* windows (RemoteSupportModal.tsx), the hub that broadcasts to all of     *)
(* them what the agent says (media.hub.ts), and the agent's receive loop   *)
(* and chat window (mcmf-tray-agent.ps1).                                  *)
(*                                                                         *)
(* The agent has one upload stream, and a chunk goes to whatever is open.  *)
(* Request ids are counted per window, so two operators use the same ones. *)
(* A download collects every chunk the hub broadcasts until any download   *)
(* ends.  A digest is modelled as the bytes it is taken of.                *)
(***************************************************************************)
EXTENDS Naturals, FiniteSets, Sequences

CONSTANTS
    Windows, Transfers, Paths,
    Nothing,
    By, To, As, \* inputs: who may start each transfer, to which paths, in which ways
    Chunks,    \* chunks per file, at most 60 KB each
    MaxDrops   \* bound: times the agent's socket drops and is opened again

ASSUME TransferAssumption ==
    /\ Nothing \notin Transfers \cup Paths
    /\ By \in [Transfers -> SUBSET Windows] /\ To \in [Transfers -> SUBSET Paths]
    /\ As \in [Transfers -> SUBSET {"put", "ask", "offer", "get"}]
    /\ Chunks \in Nat \ {0} /\ MaxDrops \in Nat

VARIABLES
    xfer,      \* [Transfers -> the transfer as its operator's window keeps it]
    reqId,     \* [Windows -> reqIdRef, the next request id of the window]
    dl,        \* [Windows -> dlRef: the download being collected and its chunks]
    digesting, \* [Windows -> downloads whose digest is being taken]
    toAgent,   \* what the windows sent and the agent has not handled
    toViewer,  \* [Windows -> what was broadcast and not handled]
    tray,      \* up, upPath and the Save dialog of the agent's receive loop
    disk,      \* [Paths -> the bytes there, and how often the file was created]
    \* observation and bounds
    mingled, hurt,  \* transfers that overlapped another, or a drop of the socket
    drops

transferVars == <<xfer, reqId, dl, digesting, toAgent, toViewer, tray, disk, mingled, hurt, drops>>
ghosts == <<mingled, hurt, drops>>

(***************************************************************************)
(* State.                                                                  *)
(***************************************************************************)
Content(t) == [i \in 1 .. Chunks |-> <<t, i>>]
\* Mutant: the lengths are compared.
AgreesInLength(a, b) == Len(a) = Len(b)
Agrees(a, b) == a = b

NotTold == [tag |-> "none", path |-> Nothing, version |-> 0]
Fresh == [way |-> "none", pc |-> "new", owner |-> Nothing, rid |-> 0, path |-> Nothing, next |-> 1,
          hashed |-> FALSE, told |-> NotTold, saved |-> <<>>]
NoDownload == [of |-> Nothing, chunks |-> <<>>]
Quiet == [up |-> Nothing, upPath |-> Nothing, dialog |-> Nothing]

Unused == CHOOSE t \in Transfers : xfer[t].pc = "new"
UnderWay(t) == \/ xfer[t].pc \in {"asked", "streaming", "ended"}
               \/ xfer[t].pc = "offered" /\ xfer[t].rid # 0
Busy == \/ \E t \in Transfers : UnderWay(t)
        \/ tray.dialog # Nothing \/ toAgent # <<>>
        \/ \E o \in Windows : toViewer[o] # <<>> \/ digesting[o] # <<>>
(* A transfer crosses another that is under way when it starts, or of which  *)
(* the agent or a window has not handled the last message: a download that  *)
(* was replaced is told, and its request may still wait at the agent.       *)
Starts(t) == mingled' = IF Busy THEN mingled \cup {t} \cup {u \in Transfers : UnderWay(u)} ELSE mingled

Msg(kind, rid, t) == [t |-> kind, rid |-> rid, of |-> t, path |-> Nothing, bytes |-> <<>>, version |-> 0]
Send(m) == toAgent' = Append(toAgent, m)
Broadcast(ms) == toViewer' = [o \in Windows |-> toViewer[o] \o ms]

TransferInit ==
    /\ xfer = [t \in Transfers |-> Fresh]
    /\ reqId = [o \in Windows |-> 1]
    /\ dl = [o \in Windows |-> NoDownload]
    /\ digesting = [o \in Windows |-> <<>>]
    /\ toAgent = <<>> /\ toViewer = [o \in Windows |-> <<>>]
    /\ tray = Quiet
    /\ disk = [p \in Paths |-> [bytes |-> <<>>, version |-> 0]]
    /\ mingled = {} /\ hurt = {} /\ drops = 0

(***************************************************************************)
(* The operator's window.                                                  *)
(***************************************************************************)
\* upload(): ask the agent for a destination, straight or by a Save dialog.
Upload(o, t, way) ==
    /\ Starts(t)
    /\ \E p \in IF way = "put" THEN To[t] ELSE {Nothing} :
         /\ xfer' = [xfer EXCEPT ![t] = [Fresh EXCEPT !.way = way, !.pc = "asked", !.owner = o,
                                                      !.rid = reqId[o], !.path = p]]
         /\ Send([Msg(way, reqId[o], t) EXCEPT !.path = p])
    /\ reqId' = [reqId EXCEPT ![o] = @ + 1]
    /\ UNCHANGED <<dl, digesting, toViewer, tray, disk, hurt, drops>>

\* offerFile(): the person at the computer decides when and where; the offer
\* waits in the chat window.
Offer(o, t) ==
    /\ xfer' = [xfer EXCEPT ![t] = [Fresh EXCEPT !.way = "offer", !.pc = "offered", !.owner = o]]
    /\ UNCHANGED <<reqId, dl, digesting, toAgent, toViewer, tray, disk, ghosts>>

\* download(): what was being collected is forgotten.
Download(o, t) ==
    /\ Starts(t)
    /\ xfer' = [u \in Transfers |->
                  IF u = t THEN [Fresh EXCEPT !.way = "get", !.pc = "asked", !.owner = o, !.rid = reqId[o]]
                  ELSE IF u = dl[o].of THEN [xfer[u] EXCEPT !.pc = "told", !.told.tag = "replaced"]
                  ELSE xfer[u]]
    /\ dl' = [dl EXCEPT ![o] = [of |-> t, chunks |-> <<>>]]
    /\ Send(Msg("get", reqId[o], t))
    /\ reqId' = [reqId EXCEPT ![o] = @ + 1]
    /\ UNCHANGED <<digesting, toViewer, tray, disk, hurt, drops>>

\* Mutant: only a Save dialog is waited for with a limit.
TimeoutOfAsk(t) ==
    /\ xfer[t].pc = "asked" /\ xfer[t].way = "ask"
    /\ xfer' = [xfer EXCEPT ![t].pc = "told", ![t].told.tag = "cancelled"]
    /\ UNCHANGED <<reqId, dl, digesting, toAgent, toViewer, tray, disk, ghosts>>

\* 180 seconds without a destination, because a dialog is open or the answer is
\* lost: the window gives up.  (Messages alone never take that long here.)
Timeout(t) ==
    /\ xfer[t].pc = "asked" /\ xfer[t].way \in {"put", "ask"}
    /\ tray.dialog # Nothing \/ t \in hurt
    /\ xfer' = [xfer EXCEPT ![t].pc = "told", ![t].told.tag = "cancelled"]
    /\ UNCHANGED <<reqId, dl, digesting, toAgent, toViewer, tray, disk, ghosts>>

\* streamFile(): the digest is kept under the id, the chunks follow, then file.end.
Stream(t) ==
    LET x == xfer[t] IN
    /\ x.pc = "streaming"
    /\ IF x.next <= Chunks
       THEN /\ Send([Msg("chunk", x.rid, t) EXCEPT !.bytes = <<Content(t)[x.next]>>])
            /\ xfer' = [xfer EXCEPT ![t].next = @ + 1, ![t].hashed = @ \/ x.next = 1]
       ELSE /\ Send(Msg("end", x.rid, t))
            /\ xfer' = [xfer EXCEPT ![t].pc = "ended"]
    /\ UNCHANGED <<reqId, dl, digesting, toViewer, tray, disk, ghosts>>

Mine(o, m) == {t \in Transfers : xfer[t].owner = o /\ xfer[t].rid = m.rid}

\* file.dest and file.pull: the transfer that waits for it starts streaming.
Destination(o, m) ==
    LET waits == IF m.t = "pull" THEN {t \in {m.of} : xfer[t].owner = o /\ xfer[t].pc = "offered"}
                 ELSE {t \in Mine(o, m) : xfer[t].pc = "asked" /\ xfer[t].way \in {"put", "ask"}} IN
    /\ m.t \in {"dest", "pull"}
    /\ xfer' = [t \in Transfers |->
                  IF t \notin waits THEN xfer[t]
                  ELSE IF m.path = Nothing THEN [xfer[t] EXCEPT !.pc = "told", !.told.tag = "cancelled"]
                  ELSE [xfer[t] EXCEPT !.pc = "streaming", !.rid = m.rid, !.path = m.path]]
    /\ UNCHANGED <<dl, digesting>>

\* file.end of an upload: compared with the digest kept under its id, if any.
\* A later line about a stranger's file is not counted against a settled one.
Sent(o, m) ==
    LET About == {t \in Mine(o, m) : /\ xfer[t].way # "get"
                                     /\ xfer[t].pc \in {"streaming", "ended"} \/ m.of = t}
        Tag(t) == IF ~xfer[t].hashed \/ m.path = Nothing THEN "sent"
                  ELSE IF Agrees(m.bytes, Content(t)) THEN "verified" ELSE "mismatch" IN
    /\ m.t = "sent"
    /\ xfer' = [t \in Transfers |->
                  IF t \notin About THEN xfer[t]
                  ELSE [xfer[t] EXCEPT !.pc = IF @ = "ended" THEN "told" ELSE @, !.hashed = FALSE,
                                       !.told = [tag |-> Tag(t), path |-> m.path, version |-> m.version]]]
    /\ UNCHANGED <<dl, digesting>>

\* A chunk of a download, whoever asked for it, is collected by all who wait.
Collect(o, m) ==
    /\ m.t = "chunk"
    /\ dl' = [dl EXCEPT ![o].chunks = IF dl[o].of = Nothing THEN @ ELSE @ \o m.bytes]
    /\ UNCHANGED <<xfer, digesting>>

\* file.end of a download, whoever asked for it, ends what is being collected:
\* its digest is taken, which takes a while, and chunks still come.
Downloaded(o, m) ==
    /\ m.t = "got"
    /\ IF dl[o].of # Nothing /\ m.path # Nothing
       THEN /\ digesting' = [digesting EXCEPT ![o] = Append(@, [dl |-> dl[o], bytes |-> m.bytes])]
            /\ UNCHANGED <<xfer, dl>>
       ELSE /\ xfer' = [t \in Transfers |->
                          IF t = dl[o].of \/ (dl[o].of = Nothing /\ t \in Mine(o, m) /\ m.of = t)
                          THEN [xfer[t] EXCEPT !.pc = "told", !.told.tag = "failed"] ELSE xfer[t]]
            /\ dl' = [dl EXCEPT ![o] = NoDownload]
            /\ UNCHANGED digesting

\* The file is handed to the browser; whatever is being collected by now is dropped.
Digested(o) ==
    LET d == Head(digesting[o]) IN
    /\ digesting[o] # <<>>
    /\ digesting' = [digesting EXCEPT ![o] = Tail(@)]
    /\ xfer' = [xfer EXCEPT ![d.dl.of].pc = "told", ![d.dl.of].saved = d.dl.chunks,
                            ![d.dl.of].told.tag = IF Agrees(d.dl.chunks, d.bytes) THEN "verified" ELSE "mismatch"]
    /\ dl' = [dl EXCEPT ![o] = NoDownload]
    /\ UNCHANGED <<reqId, toAgent, toViewer, tray, disk, ghosts>>

View(o) ==
    /\ toViewer[o] # <<>>
    /\ LET m == Head(toViewer[o]) IN \/ Destination(o, m) \/ Sent(o, m) \/ Collect(o, m) \/ Downloaded(o, m)
    /\ toViewer' = [toViewer EXCEPT ![o] = Tail(@)]
    /\ UNCHANGED <<reqId, toAgent, tray, disk, ghosts>>

(***************************************************************************)
(* The agent: its receive loop handles one message at a time, and waits    *)
(* while its Save dialog is open; the chat window runs beside it.          *)
(***************************************************************************)
\* Mutant: the file is opened for writing, and not truncated.
CreateFileAppends(p, m, kind) ==
    /\ tray' = [up |-> p, upPath |-> p, dialog |-> Nothing]
    /\ disk' = [disk EXCEPT ![p].version = @ + 1]
    /\ Broadcast(<<[Msg(kind, m.rid, m.of) EXCEPT !.path = p]>>)

\* [System.IO.File]::Create: an upload that was open is closed first.
CreateFile(p, m, kind) ==
    /\ tray' = [up |-> p, upPath |-> p, dialog |-> Nothing]
    /\ disk' = [disk EXCEPT ![p] = [bytes |-> <<>>, version |-> @.version + 1]]
    /\ Broadcast(<<[Msg(kind, m.rid, m.of) EXCEPT !.path = p]>>)

\* No destination: the dialog is cancelled, or the file cannot be created.
NoDestination(m) ==
    /\ tray' = [tray EXCEPT !.up = Nothing, !.dialog = Nothing]
    /\ Broadcast(<<Msg("dest", m.rid, m.of)>>)
    /\ UNCHANGED disk

Put(m) == m.t = "put" /\ (CreateFile(m.path, m, "dest") \/ NoDestination(m))

AskWhere(m) ==
    /\ m.t = "ask"
    /\ tray' = [tray EXCEPT !.up = Nothing, !.dialog = m.of]
    /\ UNCHANGED <<disk, toViewer>>

Chunk(m) ==
    /\ m.t = "chunk"
    /\ disk' = IF tray.up = Nothing THEN disk ELSE [disk EXCEPT ![tray.up].bytes = @ \o m.bytes]
    /\ UNCHANGED <<tray, toViewer>>

\* The digest of what lies at the last path opened; ok whatever was written.
End(m) ==
    /\ m.t = "end"
    /\ tray' = [tray EXCEPT !.up = Nothing]
    /\ Broadcast(<<[Msg("sent", m.rid, m.of) EXCEPT
                      !.path = tray.upPath,
                      !.bytes = IF tray.upPath = Nothing THEN <<>> ELSE disk[tray.upPath].bytes,
                      !.version = IF tray.upPath = Nothing THEN 0 ELSE disk[tray.upPath].version]>>)
    /\ UNCHANGED disk

\* file.get: the file is read to its end, or cannot be read.
Get(m) ==
    /\ m.t = "get"
    /\ \/ Broadcast([i \in 1 .. Chunks |-> [Msg("chunk", m.rid, m.of) EXCEPT !.bytes = <<Content(m.of)[i]>>]]
                    \o <<[Msg("got", m.rid, m.of) EXCEPT !.path = m.of, !.bytes = Content(m.of)]>>)
       \/ Broadcast(<<Msg("got", m.rid, m.of)>>)
    /\ UNCHANGED <<tray, disk>>

Handle ==
    /\ toAgent # <<>> /\ tray.dialog = Nothing
    /\ LET m == Head(toAgent) IN \/ Put(m) \/ AskWhere(m) \/ Chunk(m) \/ End(m) \/ Get(m)
    /\ toAgent' = Tail(toAgent)
    /\ UNCHANGED <<xfer, reqId, dl, digesting, ghosts>>

\* The person answers the Save dialog, or closes it.
Answer ==
    LET m == Msg("dest", xfer[tray.dialog].rid, tray.dialog) IN
    /\ tray.dialog # Nothing
    /\ \/ \E p \in To[m.of] : CreateFile(p, m, "dest")
       \/ NoDestination(m)
    /\ UNCHANGED <<xfer, reqId, dl, digesting, toAgent, ghosts>>

\* The person clicks Save on an offer in the chat window and chooses a path; a
\* random id is drawn for the transfer, here one nobody else uses.
Pull(t) ==
    /\ xfer[t].pc = "offered" /\ xfer[t].rid = 0 /\ t \notin hurt
    /\ Starts(t)
    /\ LET m == Msg("pull", 100 + Cardinality({u \in Transfers : xfer[u].rid >= 100}), t) IN
       /\ \E p \in To[t] : /\ tray' = [tray EXCEPT !.up = p, !.upPath = p]
                           /\ disk' = [disk EXCEPT ![p] = [bytes |-> <<>>, version |-> @.version + 1]]
                           /\ Broadcast(<<[m EXCEPT !.path = p]>>)
       /\ xfer' = [xfer EXCEPT ![t].rid = m.rid]
    /\ UNCHANGED <<reqId, dl, digesting, toAgent, hurt, drops>>

\* The agent's socket drops and Open-MediaWs opens another: the upload stream,
\* the dialog, the offers and the queue to the agent are lost, what it said
\* perhaps too.
Reconnect ==
    /\ drops < MaxDrops /\ drops' = drops + 1
    /\ hurt' = hurt \cup {t \in Transfers : UnderWay(t) \/ xfer[t].pc = "offered"}
    /\ tray' = Quiet
    /\ toAgent' = <<>>
    /\ \/ UNCHANGED toViewer
       \/ toViewer' = [o \in Windows |-> <<>>]
    /\ UNCHANGED <<xfer, reqId, dl, digesting, disk, mingled>>

\* A window's socket drops and is opened again: what was on its way is lost.
WindowDrops(o) ==
    /\ drops < MaxDrops /\ drops' = drops + 1
    /\ hurt' = hurt \cup {t \in Transfers : UnderWay(t) /\ xfer[t].owner = o}
    /\ toViewer' = [toViewer EXCEPT ![o] = <<>>]
    /\ UNCHANGED <<xfer, reqId, dl, digesting, toAgent, tray, disk, mingled>>

TransferNext ==
    \/ /\ \E t \in Transfers : xfer[t].pc = "new"
       /\ \E o \in By[Unused], way \in As[Unused] :
            \/ way \in {"put", "ask"} /\ Upload(o, Unused, way)
            \/ way = "offer" /\ Offer(o, Unused)
            \/ way = "get" /\ Download(o, Unused)
    \/ \E t \in Transfers : Timeout(t) \/ Stream(t) \/ Pull(t)
    \/ \E o \in Windows : View(o) \/ Digested(o) \/ WindowDrops(o)
    \/ Handle \/ Answer \/ Reconnect

TransferSpec == TransferInit /\ [][TransferNext]_transferVars

(* Messages are handled, streams go on and timers fire; nobody has to answer *)
(* a dialog or accept an offer.                                              *)
TransferFairness ==
    /\ WF_transferVars(Handle)
    /\ \A t \in Transfers : WF_transferVars(Timeout(t)) /\ WF_transferVars(Stream(t))
    /\ \A o \in Windows : WF_transferVars(View(o)) /\ WF_transferVars(Digested(o))
TransferFairSpec == TransferSpec /\ TransferFairness

(***************************************************************************)
(* Properties.                                                             *)
(***************************************************************************)
Queues == {toAgent} \cup {toViewer[o] : o \in Windows}

(* The variables keep their types. *)
TransferTypeOK ==
    /\ \A t \in Transfers :
         /\ xfer[t].way \in {"none", "put", "ask", "offer", "get"}
         /\ xfer[t].pc \in {"new", "asked", "offered", "streaming", "ended", "told"}
         /\ xfer[t].owner \in Windows \cup {Nothing} /\ xfer[t].path \in Paths \cup {Nothing}
         /\ xfer[t].rid \in Nat /\ xfer[t].next \in 1 .. Chunks + 1 /\ xfer[t].hashed \in BOOLEAN
         /\ xfer[t].told.tag \in {"none", "cancelled", "replaced", "sent", "verified", "mismatch", "failed"}
    /\ reqId \in [Windows -> Nat] /\ \A o \in Windows : dl[o].of \in Transfers \cup {Nothing}
    /\ \A q \in Queues : \A i \in DOMAIN q : q[i].of \in Transfers /\ q[i].rid \in Nat
    /\ tray \in [up : Paths \cup {Nothing}, upPath : Paths \cup {Nothing}, dialog : Transfers \cup {Nothing}]
    /\ mingled \cup hurt \subseteq Transfers /\ drops \in 0 .. MaxDrops

(* A transfer nobody crossed, on a socket that held, is told as it is: what is *)
(* reported as sent is verified and lies, whole, at the path that was agreed,  *)
(* and a download is the file that was asked for.                              *)
SentIsIntact ==
    /\ TransferTypeOK
    /\ \A t \in Transfers \ (mingled \cup hurt) :
         LET x == xfer[t] IN
         x.told.tag \in {"sent", "verified", "mismatch"} =>
            /\ x.told.tag = "verified"
            /\ x.way = "get" => x.saved = Content(t)
            /\ x.way # "get" => /\ x.told.path = x.path
                                /\ disk[x.path].version = x.told.version => disk[x.path].bytes = Content(t)

(* Whatever crosses and whatever drops, bytes of two files are never passed   *)
(* off as verified: an upload is whole where it is said to lie, until the path *)
(* is written again, and a download is one of the files that were asked for.   *)
MixturesAreCaught ==
    \A t \in Transfers : xfer[t].told.tag = "verified" =>
        LET x == xfer[t] IN
        IF x.way = "get" THEN \E u \in Transfers : x.saved = Content(u)
        ELSE disk[x.told.path].version = x.told.version => disk[x.told.path].bytes = Content(t)

(* VerifiedIsIntact: what the console reports of a file is true, as far as     *)
(* either case above goes (RemoteSupportModal.tsx, mcmf-tray-agent.ps1).       *)
VerifiedIsIntact == SentIsIntact /\ MixturesAreCaught

(* Every transfer is settled in the end: cancelled, failed, sent or found      *)
(* damaged.  An open Save dialog holds up everybody's, and one whose last      *)
(* answer was lost with the agent's socket waits for ever.                     *)
TransfersSettle ==
    []<>(\/ tray.dialog # Nothing
         \/ \A t \in Transfers : UnderWay(t) => t \in hurt /\ (xfer[t].pc \in {"ended", "offered"} \/ xfer[t].way = "get"))

=============================================================================
