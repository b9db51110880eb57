--------------------------- MODULE RemoteSession ---------------------------
(***************************************************************************)
(* Attended remote support as the API runs it: the RemoteService           *)
(* (api/src/modules/remote/remote.service.ts) over the database rows of    *)
(* its sessions, its in-memory maps and the recorder.                       *)
(*                                                                         *)
(* The service is one event loop, so a call runs without interruption      *)
(* between two awaits and any number of calls may be suspended at one.     *)
(* A call is therefore a little process: its first action is the row read  *)
(* it starts with, and each later action is the code from one await to the *)
(* next, the query it issues last taking effect with it.  What a call read *)
(* earlier stays in its record and may be stale when it is used.           *)
(*                                                                         *)
(* Rows survive a restart of the API; the maps, the recorder and the calls *)
(* in flight do not.                                                       *)
(***************************************************************************)
EXTENDS Consent, Sequences, FiniteSets

CONSTANTS
    Sessions,     \* rows created by request(), in status requested
    Callers,      \* HTTP and WebSocket calls that may be in flight at once
    Timers,       \* sweeps of the 5-second timer that may be in flight at once
    Explored,     \* the kinds of overlap in play, a bound on what a run explores
    Features,     \* the operations in play, a bound on what a run explores
    Qualities,    \* quality profiles
    DefaultQuality,
    ClaimTtl,     \* CLAIM_TTL_MS, in clock units
    MaxQueue,     \* MAX_QUEUE, in batches of input
    MaxRestarts   \* bound on restarts of the API

ASSUME CallsAssumption == Callers \cap Timers = {}

ASSUME BoundsAssumption ==
    /\ ClaimTtl \in Nat \ {0}
    /\ MaxQueue \in Nat \ {0}
    /\ MaxRestarts \in Nat
    /\ DefaultQuality \in Qualities

VARIABLES
    rows,      \* rows[s]: the remoteSession row
    frames,    \* sessions with a frame held in memory
    capture,   \* capture[s]: which component holds the capture claim
    inputQ,    \* inputQ[s]: batches of keyboard and mouse input waiting
    rec,       \* rec[s]: the recorder's entry for the session
    stopping,  \* sessions whose recording is being finalised
    woken,     \* sessions for which a remote-console command was queued
    calls,     \* calls[c]: what call slot c is doing
    audit,     \* audit[s]: the lines written to the event log
    filmed,    \* observation: sessions with an encoded frame on disk
    restarts,  \* observation: restarts so far
    crossed    \* observation: crossed[s]: what kinds of calls of session s were
               \* in flight at once

memory == <<frames, capture, inputQ, rec, stopping>>
vars   == <<rows, memory, woken, calls, audit, filmed, restarts,
            crossed>>

Calls   == Callers \cup Timers
Sources == {"console", "tray"}

-----------------------------------------------------------------------------
(***************************************************************************)
(* State                                                                   *)
(***************************************************************************)

Row == [gate: SessionState, times: SessionTimes, policy: Policy,
        inputEnabled: BOOLEAN, recording: BOOLEAN, audioEnabled: BOOLEAN,
        quality: Qualities, captureSource: Sources \cup {""},
        recordingPath: BOOLEAN]

Claim   == [source: Sources, age: Nat]
NoClaim == [source |-> "", age |-> 0]

NoCall       == [at |-> "idle"]
ApplyCall    == [at: {"decided", "saved"}, sid: Sessions,
                 before: SessionState, after: SessionState]
FrameCall    == [at: {"frame-read", "frame-claimed", "frame-counted"},
                 sid: Sessions, source: Sources]
QueueCall    == [at: {"queue-read"}, sid: Sessions]
SwitchCall   == [at: {"input-read", "input-saved",
                      "recording-read", "recording-pausing", "audio-read"},
                 sid: Sessions, on: BOOLEAN]
QualityCall  == [at: {"quality-read"}, sid: Sessions, quality: Qualities]

Call == ApplyCall \cup FrameCall \cup QueueCall \cup SwitchCall
            \cup QualityCall \cup {NoCall}

\* Two apply(), one and another call, or two that are neither apply() nor a
\* frame.
Crossings == {"verdicts", "verdict", "switches"}

TypeOK ==
    /\ rows \in [Sessions -> Row]
    /\ frames \subseteq Sessions
    /\ capture \in [Sessions -> Claim \cup {NoClaim}]
    /\ inputQ \in [Sessions -> 0..MaxQueue]
    /\ rec \in [Sessions -> {"off", "on", "paused"}]
    /\ stopping \subseteq Sessions
    /\ woken \subseteq Sessions
    /\ calls \in [Calls -> Call]
    /\ audit \in [Sessions -> Seq(AuditFact)]
    /\ filmed \subseteq Sessions
    /\ restarts \in 0..MaxRestarts
    /\ crossed \in [Sessions -> SUBSET Crossings]

NewRow(policy) ==
    [gate |-> InitialState,
     times |-> [requested |-> 0, prompted |-> Never,
                started |-> Never, lastFrame |-> Never],
     policy |-> policy, inputEnabled |-> FALSE, recording |-> TRUE,
     audioEnabled |-> FALSE, quality |-> DefaultQuality,
     captureSource |-> "", recordingPath |-> FALSE]

Init ==
    /\ \E policies \in [Sessions -> Policy] :
           rows = [s \in Sessions |-> NewRow(policies[s])]
    /\ frames = {}
    /\ capture = [s \in Sessions |-> NoClaim]
    /\ inputQ = [s \in Sessions |-> 0]
    /\ rec = [s \in Sessions |-> "off"]
    /\ stopping = {}
    /\ woken = {}
    /\ calls = [c \in Calls |-> NoCall]
    /\ audit = [s \in Sessions |-> <<>>]
    /\ filmed = {}
    /\ restarts = 0
    /\ crossed = [s \in Sessions |-> {}]

Active(s) == MayStream(rows[s].gate)

InFlight(c) == calls[c] # NoCall

At(s) == {c \in Calls : InFlight(c) /\ calls[c].sid = s}

\* No call is in flight for session s.
Quiet(s) == At(s) = {}

Begin(c, call) == calls' = [calls EXCEPT ![c] = call]
Finish(c)      == calls' = [calls EXCEPT ![c] = NoCall]

Decides(call)  == call.at \in {"decided", "saved"}
Brings(call)   == call.at \in {"frame-read", "frame-claimed", "frame-counted"}
Switches(call) == ~Decides(call) /\ ~Brings(call)

Crosses(call, s, kind) ==
    \E d \in At(s) :
        CASE kind = "verdicts" -> Decides(call) /\ Decides(calls[d])
          [] kind = "verdict"  -> Decides(call) # Decides(calls[d])
          [] kind = "switches" -> Switches(call) /\ Switches(calls[d])

\* A call joins those in flight.
Start(c, call) ==
    LET s == call.sid IN
    /\ ~InFlight(c)
    /\ Begin(c, call)
    /\ crossed' = [crossed EXCEPT ![s] =
                      @ \cup {kind \in Crossings : Crosses(call, s, kind)}]
    /\ crossed'[s] \subseteq Explored

-----------------------------------------------------------------------------
(***************************************************************************)
(* apply(): read the row, reduce, write the row, act on the verdict        *)
(***************************************************************************)

\* A call that the reducer leaves without effect returns at once.
ApplyRead(c, s, event, user) ==
    LET before == rows[s].gate
        after  == Reduce(before, event, user, rows[s].times, rows[s].policy)
    IN  /\ after # before
        /\ Start(c, [at |-> "decided", sid |-> s,
                     before |-> before, after |-> after])
        /\ UNCHANGED <<rows, memory, woken, audit, filmed, restarts>>

Becomes(call, status) ==
    call.before.status # status /\ call.after.status = status

Stamped(times, call) ==
    [times EXCEPT
        !.prompted = IF Becomes(call, "awaiting-consent") THEN 0 ELSE @,
        !.started  = IF Becomes(call, "active") THEN 0 ELSE @]

Saved(row, call) ==
    [row EXCEPT !.gate = call.after, !.times = Stamped(@, call)]

\* The write is conditional on nothing but the id of the row.
ApplyWrite(c) ==
    LET call == calls[c] IN
    /\ call.at = "decided"
    /\ rows' = [rows EXCEPT ![call.sid] = Saved(@, call)]
    /\ Begin(c, [call EXCEPT !.at = "saved"])
    /\ UNCHANGED <<memory, woken, audit, filmed, restarts, crossed>>

\* A slip: the ending logged as well as the verdict.
AuditOfBoth(call) ==
    (IF call.before.consent # call.after.consent THEN <<AuditLine(call.after)>>
                                                 ELSE <<>>)
    \o (IF IsTerminal(call.after.status) THEN <<EndLine(call.after)>> ELSE <<>>)

\* One audit line: the consent verdict if it changed, else the ending.
AuditOf(call) ==
    IF call.before.consent # call.after.consent THEN <<AuditLine(call.after)>>
    ELSE IF IsTerminal(call.after.status) THEN <<EndLine(call.after)>>
    ELSE <<>>

\* Recorder.start() keeps an entry that is already there.
StartRecorder(s) ==
    rec' = [rec EXCEPT ![s] = IF @ = "off" THEN "on" ELSE @]

\* A slip: the capture claim forgotten.
DropMediaKeepsClaim(s) ==
    /\ frames' = frames \ {s}
    /\ inputQ' = [inputQ EXCEPT ![s] = 0]
    /\ stopping' = IF rec[s] # "off" THEN stopping \cup {s} ELSE stopping
    /\ rec' = [rec EXCEPT ![s] = "off"]
    /\ UNCHANGED capture

\* What is held in memory goes as soon as streaming is not allowed;
\* Recorder.stop() drops its entry at once and finalises in the background.
DropMedia(s) ==
    /\ frames' = frames \ {s}
    /\ capture' = [capture EXCEPT ![s] = NoClaim]
    /\ inputQ' = [inputQ EXCEPT ![s] = 0]
    /\ stopping' = IF rec[s] # "off" THEN stopping \cup {s} ELSE stopping
    /\ rec' = [rec EXCEPT ![s] = "off"]

ApplySettle(c) ==
    LET call == calls[c]
        s    == call.sid
    IN  /\ call.at = "saved"
        /\ \/ /\ Becomes(call, "active")
              /\ StartRecorder(s)
              /\ woken' = woken \cup {s}
              /\ UNCHANGED <<frames, capture, inputQ, stopping>>
           \/ /\ ~MayStream(call.after)
              /\ DropMedia(s)
              /\ UNCHANGED woken
        /\ audit' = [audit EXCEPT ![s] = @ \o AuditOf(call)]
        /\ Finish(c)
        /\ UNCHANGED <<rows, filmed, restarts, crossed>>

\* A slip: the path written from the state of the map stop() has just cleared.
FinaliseLosesPath(s) ==
    /\ s \in stopping
    /\ stopping' = stopping \ {s}
    /\ rows' = [rows EXCEPT ![s].recordingPath = @ \/ rec[s] = "on"]
    /\ UNCHANGED <<frames, capture, inputQ, rec, woken, calls, audit, filmed,
                   restarts, crossed>>

\* stop() resolved: the row gets a path if any part has bytes.
Finalise(s) ==
    /\ s \in stopping
    /\ stopping' = stopping \ {s}
    /\ rows' = [rows EXCEPT ![s].recordingPath = @ \/ s \in filmed]
    /\ UNCHANGED <<frames, capture, inputQ, rec, woken, calls, audit, filmed,
                   restarts, crossed>>

AgentAck(c, s)      == \E user \in People : ApplyRead(c, s, "agent-ack", user)
ConsentAnswer(c, s) == \E user \in People, event \in {"user-accept", "user-decline"} :
                           ApplyRead(c, s, event, user)
OperatorEnd(c, s)   == ApplyRead(c, s, "operator-end", NoUser)
Tick(t, s)          == ApplyRead(t, s, "tick", NoUser)

\* The service offers it; no route or hub of this version calls it.
AgentLost(c, s) ==
    /\ "lost" \in Features
    /\ ApplyRead(c, s, "agent-lost", NoUser)

-----------------------------------------------------------------------------
(***************************************************************************)
(* handleFrame(): the frame core behind both transports                    *)
(***************************************************************************)

\* A frame for a session that is not active is refused and changes nothing.
FrameRead(c, s, source) ==
    /\ "frame" \in Features
    /\ Active(s)
    /\ Start(c, [at |-> "frame-read", sid |-> s, source |-> source])
    /\ UNCHANGED <<rows, memory, woken, audit, filmed, restarts>>

\* arbitrate(): a free claim, one's own, a silent one, or the console's right.
Admits(claim, source) ==
    \/ claim = NoClaim
    \/ claim.source = source
    \/ claim.age >= ClaimTtl
    \/ source = "console"

\* Ownership is written to the row when it is new or has moved.
ClaimMoves(claim, source) == claim.source # source

\* The frame was let in, and the ownership written if it had to be.
Cleared(call) ==
    \/ call.at = "frame-claimed"
    \/ /\ call.at = "frame-read"
       /\ Admits(capture[call.sid], call.source)
       /\ ~ClaimMoves(capture[call.sid], call.source)

Claimed(call) ==
    capture' = [capture EXCEPT ![call.sid] = [source |-> call.source, age |-> 0]]

\* The code after the claim: keep the pixels, offer them to the recorder
\* (which may drop them, if it is stopped before its next pump), count them.
StoreFrame(call) ==
    LET s == call.sid IN
    /\ Claimed(call)
    /\ frames' = frames \cup {s}
    /\ \E encoded \in BOOLEAN :
           filmed' = IF encoded /\ rec[s] = "on" THEN filmed \cup {s}
                                                 ELSE filmed

Counted(row) == [row EXCEPT !.times = [@ EXCEPT !.lastFrame = 0]]

FrameRejected(c) ==
    LET call == calls[c] IN
    /\ call.at = "frame-read"
    /\ ~Admits(capture[call.sid], call.source)
    /\ Finish(c)
    /\ UNCHANGED <<rows, memory, woken, audit, filmed, restarts, crossed>>

FrameClaims(c) ==
    LET call == calls[c]
        s    == call.sid
    IN  /\ call.at = "frame-read"
        /\ Admits(capture[s], call.source)
        /\ ClaimMoves(capture[s], call.source)
        /\ rows' = [rows EXCEPT ![s].captureSource = call.source]
        /\ Begin(c, [call EXCEPT !.at = "frame-claimed"])
        /\ UNCHANGED <<memory, woken, audit, filmed, restarts, crossed>>

FrameStored(c) ==
    LET call == calls[c] IN
    /\ Cleared(call)
    /\ StoreFrame(call)
    /\ rows' = [rows EXCEPT ![call.sid] = Counted(@)]
    /\ Begin(c, [call EXCEPT !.at = "frame-counted"])
    /\ UNCHANGED <<inputQ, rec, stopping, woken, audit, restarts, crossed>>

\* An empty payload renews the claim and nothing else.
FrameEmpty(c) ==
    LET call == calls[c] IN
    /\ Cleared(call)
    /\ Claimed(call)
    /\ Finish(c)
    /\ UNCHANGED <<rows, frames, inputQ, rec, stopping, woken, audit, filmed,
                   restarts, crossed>>

\* The reply carries the queued input if the row read at the start of the
\* call had input enabled; otherwise the queue is dropped.  Empty either way.
FrameReplied(c) ==
    LET call == calls[c] IN
    /\ call.at = "frame-counted"
    /\ inputQ' = [inputQ EXCEPT ![call.sid] = 0]
    /\ Finish(c)
    /\ UNCHANGED <<rows, frames, capture, rec, stopping, woken, audit, filmed,
                   restarts, crossed>>

-----------------------------------------------------------------------------
(***************************************************************************)
(* Control of keyboard and mouse, recording, audio and quality             *)
(***************************************************************************)

QueueRead(c, s) ==
    /\ "input" \in Features
    /\ Active(s)
    /\ rows[s].inputEnabled
    /\ Start(c, [at |-> "queue-read", sid |-> s])
    /\ UNCHANGED <<rows, memory, woken, audit, filmed, restarts>>

\* A slip: no cap on the queue.
EnqueueUncapped(waiting) == waiting + 1

\* enqueue(): the newest are kept when the queue is full.
Enqueue(waiting) == IF waiting < MaxQueue THEN waiting + 1 ELSE waiting

QueuePush(c) ==
    LET call == calls[c] IN
    /\ call.at = "queue-read"
    /\ inputQ' = [inputQ EXCEPT ![call.sid] = Enqueue(@)]
    /\ Finish(c)
    /\ UNCHANGED <<rows, frames, capture, rec, stopping, woken, audit, filmed,
                   restarts, crossed>>

SwitchRead(c, s, feature, column, at) ==
    /\ feature \in Features
    /\ Active(s)
    /\ Start(c, [at |-> at, sid |-> s, on |-> ~column])
    /\ UNCHANGED <<rows, memory, woken, audit, filmed, restarts>>

\* setInput()
InputRead(c, s) ==
    SwitchRead(c, s, "input", rows[s].inputEnabled, "input-read")

InputWrite(c) ==
    LET call == calls[c] IN
    /\ call.at = "input-read"
    /\ rows' = [rows EXCEPT ![call.sid].inputEnabled = call.on]
    /\ Begin(c, [call EXCEPT !.at = "input-saved"])
    /\ UNCHANGED <<memory, woken, audit, filmed, restarts, crossed>>

\* A slip: what waits in the queue is kept.
InputSettleKeepsQueue(c) ==
    LET call == calls[c] IN
    /\ call.at = "input-saved"
    /\ Finish(c)
    /\ UNCHANGED <<rows, memory, woken, audit, filmed, restarts, crossed>>

InputSettle(c) ==
    LET call == calls[c] IN
    /\ call.at = "input-saved"
    /\ inputQ' = IF call.on THEN inputQ ELSE [inputQ EXCEPT ![call.sid] = 0]
    /\ Finish(c)
    /\ UNCHANGED <<rows, frames, capture, rec, stopping, woken, audit, filmed,
                   restarts, crossed>>

\* setRecording()
RecordingRead(c, s) ==
    SwitchRead(c, s, "recording", rows[s].recording, "recording-read")

WriteRecording(c) ==
    /\ rows' = [rows EXCEPT ![calls[c].sid].recording = calls[c].on]
    /\ Finish(c)

\* A slip: a paused entry counts as one that is running.
RecordingResumeStarts(c) ==
    LET call == calls[c] IN
    /\ call.at = "recording-read"
    /\ call.on
    /\ StartRecorder(call.sid)
    /\ WriteRecording(c)
    /\ UNCHANGED <<frames, capture, inputQ, stopping, woken, audit, filmed,
                   restarts, crossed>>

\* resume() acts on a paused entry; without any entry a new one is started.
RecordingResume(c) ==
    LET call == calls[c] IN
    /\ call.at = "recording-read"
    /\ call.on
    /\ rec' = [rec EXCEPT ![call.sid] = "on"]
    /\ WriteRecording(c)
    /\ UNCHANGED <<frames, capture, inputQ, stopping, woken, audit, filmed,
                   restarts, crossed>>

\* pause() marks the entry, then waits for the encoder to close.
RecordingPause(c) ==
    LET call == calls[c] IN
    /\ call.at = "recording-read"
    /\ ~call.on
    /\ rec[call.sid] = "on"
    /\ rec' = [rec EXCEPT ![call.sid] = "paused"]
    /\ Begin(c, [call EXCEPT !.at = "recording-pausing"])
    /\ UNCHANGED <<rows, frames, capture, inputQ, stopping, woken, audit,
                   filmed, restarts, crossed>>

RecordingPaused(c) ==
    LET call == calls[c] IN
    /\ \/ call.at = "recording-pausing"
       \/ call.at = "recording-read" /\ ~call.on /\ rec[call.sid] # "on"
    /\ WriteRecording(c)
    /\ UNCHANGED <<memory, woken, audit, filmed, restarts, crossed>>

\* setAudio() and setQuality(): a read, then an unconditional write.
AudioRead(c, s) ==
    SwitchRead(c, s, "audio", rows[s].audioEnabled, "audio-read")

AudioWrite(c) ==
    LET call == calls[c] IN
    /\ call.at = "audio-read"
    /\ rows' = [rows EXCEPT ![call.sid].audioEnabled = call.on]
    /\ Finish(c)
    /\ UNCHANGED <<memory, woken, audit, filmed, restarts, crossed>>

QualityRead(c, s, quality) ==
    /\ "quality" \in Features
    /\ Active(s)
    /\ rows[s].quality # quality
    /\ Start(c, [at |-> "quality-read", sid |-> s, quality |-> quality])
    /\ UNCHANGED <<rows, memory, woken, audit, filmed, restarts>>

QualityWrite(c) ==
    LET call == calls[c] IN
    /\ call.at = "quality-read"
    /\ rows' = [rows EXCEPT ![call.sid].quality = call.quality]
    /\ Finish(c)
    /\ UNCHANGED <<memory, woken, audit, filmed, restarts, crossed>>

-----------------------------------------------------------------------------
(***************************************************************************)
(* Time and restarts                                                       *)
(***************************************************************************)

\* An age past every limit it is compared with need not grow further.
Older(age, limit) == IF age = Never \/ age >= limit THEN age ELSE age + 1

Longest == IF MaxSession > IdleTimeout THEN MaxSession ELSE IdleTimeout

Aged(times) ==
    [requested |-> Older(times.requested, AckTimeout),
     prompted  |-> Older(times.prompted, ConsentTimeout),
     started   |-> Older(times.started, Longest),
     lastFrame |-> Older(times.lastFrame, IdleTimeout)]

\* One clock unit passes.  A closed session's ages are never looked at again.
Clock ==
    /\ rows' = [s \in Sessions |->
           IF IsTerminal(rows[s].gate.status) THEN rows[s]
           ELSE [rows[s] EXCEPT !.times = Aged(@)]]
    /\ capture' = [s \in Sessions |->
           IF capture[s] = NoClaim THEN NoClaim
           ELSE [capture[s] EXCEPT !.age = Older(@, ClaimTtl)]]
    /\ <<rows, capture>>' # <<rows, capture>>
    /\ UNCHANGED <<frames, inputQ, rec, stopping, woken, calls, audit, filmed,
                   restarts, crossed>>

Restart ==
    /\ restarts < MaxRestarts
    /\ restarts' = restarts + 1
    /\ frames' = {}
    /\ capture' = [s \in Sessions |-> NoClaim]
    /\ inputQ' = [s \in Sessions |-> 0]
    /\ rec' = [s \in Sessions |-> "off"]
    /\ stopping' = {}
    /\ calls' = [c \in Calls |-> NoCall]
    /\ UNCHANGED <<rows, woken, audit, filmed, crossed>>

-----------------------------------------------------------------------------
Request(c, s) ==
    \/ AgentAck(c, s)
    \/ ConsentAnswer(c, s)
    \/ OperatorEnd(c, s)
    \/ AgentLost(c, s)
    \/ \E source \in Sources : FrameRead(c, s, source)
    \/ QueueRead(c, s)
    \/ InputRead(c, s)
    \/ RecordingRead(c, s)
    \/ AudioRead(c, s)
    \/ \E quality \in Qualities : QualityRead(c, s, quality)

Continue(c) ==
    \/ ApplyWrite(c)
    \/ ApplySettle(c)
    \/ FrameRejected(c)
    \/ FrameClaims(c)
    \/ FrameStored(c)
    \/ FrameEmpty(c)
    \/ FrameReplied(c)
    \/ QueuePush(c)
    \/ InputWrite(c)
    \/ InputSettle(c)
    \/ RecordingResume(c)
    \/ RecordingPause(c)
    \/ RecordingPaused(c)
    \/ AudioWrite(c)
    \/ QualityWrite(c)

Next ==
    \/ \E c \in Callers, s \in Sessions : Request(c, s)
    \/ \E t \in Timers, s \in Sessions : Tick(t, s)
    \/ \E c \in Calls : Continue(c)
    \/ \E s \in Sessions : Finalise(s)
    \/ Clock
    \/ Restart

Spec == Init /\ [][Next]_vars

\* The 5-second timer keeps firing whatever else runs, every query resolves or
\* rejects, and time passes.  Nothing obliges an operator or an agent to act.
Fairness ==
    /\ WF_vars(Clock)
    /\ \A c \in Calls : WF_vars(Continue(c))
    /\ \A t \in Timers, s \in Sessions : WF_vars(Tick(t, s))

FairSpec == Spec /\ Fairness

-----------------------------------------------------------------------------
(***************************************************************************)
(* Properties                                                              *)
(***************************************************************************)

HonestGate(gate, policy) ==
    /\ gate.status = "active" => gate.consent \in Granted
    /\ gate.status = "awaiting-consent" =>
           gate.consent = "pending" /\ policy.consentRequired
    /\ gate.consent = "accepted" => policy.consentRequired /\ ~gate.autoAccepted
    /\ gate.consent = "auto-accepted" =>
           policy.consentRequired /\ policy.server /\ gate.autoAccepted
    /\ gate.consent = "not-required" =>
           ~policy.consentRequired \/ gate.consentUser = NoUser
    /\ gate.consent = "declined" <=> gate.status = "declined"

\* What the consent columns say is true of themselves: nobody is recorded as
\* having agreed or proceeded except by a way the session's own policy allows,
\* a prompt is only ever up where policy asks for one, and a row that says
\* declined does not stream.  It holds however calls overlap, since one write
\* stores a whole verdict.  Of two apply() that overlap the one that read first
\* may still put its verdict over the other's (remote.service.ts:119), a refusal
\* included: that a refusal stands is KeepsContract, and needs that none do.
ConsentIsHonest ==
    \A s \in Sessions : HonestGate(rows[s].gate, rows[s].policy)

Armed(row) ==
    /\ row.gate.status = "awaiting-consent" => row.times.prompted # Never
    /\ row.gate.status = "active" => row.times.started # Never

\* A session that is waiting or streaming has the timestamp its timeout is
\* measured from; without it the timer would pass over the row for ever
\* (consentSecondsLeft is null without promptedAt, ran without startedAt).
TimersArmed == \A s \in Sessions : Armed(rows[s])

\* Kinds of calls that were never in flight together for session s.
NoneCrossed(s)      == crossed[s] = {}
VerdictsAlone(s)    == crossed[s] \subseteq {"switches"}
VerdictsInOrder(s)  == "verdicts" \notin crossed[s]

\* Nothing held in memory outlives the session that allowed it: once no call is
\* at work on a session that does not stream, its picture, its capture claim,
\* its encoder and its input are gone (apply() drops them, and returns early on
\* a closed session, so nothing else ever would).  This needs that no apply()
\* of the session was in flight together with another call: handleFrame() and
\* queueInput() look at the row, await, and then store, so they may store after
\* the drop (remote.service.ts:369-393, :519-529).  Frames and switches may have
\* overlapped one another.
NothingOutlivesSession ==
    \A s \in Sessions : Quiet(s) /\ ~Active(s) /\ VerdictsAlone(s) =>
        /\ s \notin frames
        /\ capture[s] = NoClaim
        /\ rec[s] = "off"
        /\ inputQ[s] = 0

\* Keystrokes wait only while control is switched on, however many frames are in
\* flight beside the switches.  Of the switches, the input and the verdicts no
\* two may have been: setInput() empties the queue after it has written the row,
\* and queueInput() adds to it after it has read the row.
ControlHonest ==
    \A s \in Sessions : Quiet(s) /\ NoneCrossed(s) /\ inputQ[s] > 0 =>
        rows[s].inputEnabled

\* While a session streams, the recorder runs exactly when the row says it is
\* being recorded, which is what the operator is shown, whatever frames are in
\* flight.  Two setRecording() break that, each waiting for the encoder between
\* its look at the row and its write (remote.service.ts:477-498), and a restart
\* of the API does: the recorder is gone and only a new consent starts one.
RecordingFlagHonest ==
    restarts = 0 =>
        \A s \in Sessions : Quiet(s) /\ NoneCrossed(s) /\ Active(s) =>
            (rows[s].recording <=> rec[s] = "on")

\* Nor does a call in flight carry a verdict its session's policy forbids, or
\* one that would jump over a state: what makes the two above inductive.
VerdictsInFlightHonest ==
    \A c \in Calls : calls[c].at \in {"decided", "saved"} =>
        LET call == calls[c] IN
        /\ HonestGate(call.after, rows[call.sid].policy)
        /\ call.after.status = "awaiting-consent" =>
               call.before.status = "requested"
        /\ call.after.status = "active" =>
               call.before.status \in {"requested", "awaiting-consent"}

\* The gate of every session is sound, at rest and in every call in flight:
\* consent is honest, timeouts can fire and no verdict jumps over a state.
GateSound == ConsentIsHonest /\ TimersArmed /\ VerdictsInFlightHonest

\* Video exists only of sessions whose verdict allowed streaming, and once
\* such a session is over and its parts are closed the row leads to it, unless
\* a restart of the API cut stop() short.  This stands however frames and
\* switches overlap, as long as no verdict was in flight together with one.
FilmedOnlyIfGranted ==
    \A s \in Sessions : VerdictsAlone(s) /\ s \in filmed =>
        /\ rows[s].gate.consent \in Granted
        /\ (/\ IsTerminal(rows[s].gate.status)
            /\ Quiet(s) /\ s \notin stopping
            /\ restarts = 0) => rows[s].recordingPath

\* What is shown and stored of a recording is what happened, as far as the two
\* parts say.
RecordingHonest == RecordingFlagHonest /\ FilmedOnlyIfGranted

Ending(line) == line.says \in {"ended", "expired", "failed", "declined"}

\* The event log of a session at rest tells its story once: one line for each
\* fact, and one for how a closed session ended, whatever frames, input and
\* switches come beside the verdicts.  Two apply() in flight at once may tell a
\* fact twice, and a restart may come between the write of the row and the line.
AuditOnce ==
    \A s \in Sessions : Quiet(s) /\ VerdictsInOrder(s) =>
        /\ \A i, j \in 1..Len(audit[s]) :
               i # j => audit[s][i].says # audit[s][j].says
        /\ IsTerminal(rows[s].gate.status) /\ restarts = 0 =>
               \E i \in 1..Len(audit[s]) : Ending(audit[s][i])

\* The service keeps the promises of the abstract gate, in particular that a
\* verdict that closes a session is final, until two apply() of the session were
\* in flight at once.
Contract == INSTANCE SessionContract WITH
    status  <- [s \in Sessions |-> rows[s].gate.status],
    verdict <- [s \in Sessions |-> rows[s].gate.consent],
    policy  <- [s \in Sessions |-> rows[s].policy],
    bound   <- {s \in Sessions : VerdictsInOrder(s)}

KeepsContract == Contract!Spec

\* Every session closes, and for good: whether or not the agent answers, the
\* person at the desk answers, the operator leaves or the API restarts.
EverySessionCloses ==
    <>[](\A s \in Sessions : IsTerminal(rows[s].gate.status))

=============================================================================
