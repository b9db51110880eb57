------------------------ MODULE RemoteSessionProofs ------------------------
(***************************************************************************)
(* Theorems of RemoteSession, for any sets of sessions, callers and        *)
(* timers: first those that hold whatever calls overlap, then those of a   *)
(* session for as long as no calls of it were in flight together of the    *)
(* kinds that each of its properties names.                                *)
(***************************************************************************)
EXTENDS RemoteSession, TLAPS, SequenceTheorems

(***************************************************************************)
(* The reducer                                                             *)
(***************************************************************************)

\* The reducer returns a well-formed state.
LEMMA ReduceType ==
    ASSUME NEW state \in SessionState, NEW event \in EventType,
           NEW user \in People, NEW times \in SessionTimes,
           NEW policy \in Policy
    PROVE  Reduce(state, event, user, times, policy) \in SessionState
  <1> USE DEF SessionState, SessionStatus, OpenStatus, TerminalStatus,
              ConsentState, Granted, EndReason
  <1>1. AfterAck(state, user, policy) \in SessionState
    BY DEF AfterAck
  <1>2. AfterAccept(state, user) \in SessionState
    BY DEF AfterAccept, Answerer
  <1>3. AfterDecline(state, user) \in SessionState
    BY DEF AfterDecline, Answerer
  <1>4. AfterTick(state, times, policy) \in SessionState
    BY DEF AfterTick, AfterNoAnswer, Closed
  <1>5. Closed(state, "ended", "operator") \in SessionState
    BY DEF Closed
  <1>6. Closed(state, "failed", "agent-lost") \in SessionState
    BY DEF Closed
  <1> HIDE DEF SessionState
  <1> QED
    BY <1>1, <1>2, <1>3, <1>4, <1>5, <1>6 DEF Reduce

\* The reducer keeps the consent columns honest, and moves only forward.
LEMMA ReduceHonest ==
    ASSUME NEW state \in SessionState, NEW event \in EventType,
           NEW user \in People, NEW times \in SessionTimes,
           NEW policy \in Policy, HonestGate(state, policy)
    PROVE  LET after == Reduce(state, event, user, times, policy)
           IN  /\ HonestGate(after, policy)
               /\ after # state => ~IsTerminal(state.status)
               /\ after # state /\ after.status = "awaiting-consent"
                     => state.status = "requested"
               /\ after # state /\ after.status = "active"
                     => state.status \in {"requested", "awaiting-consent"}
  <1> USE DEF SessionState, SessionStatus, OpenStatus, TerminalStatus,
              ConsentState, Granted, EndReason, HonestGate, IsTerminal
  <1>1. CASE IsTerminal(state.status)
    BY <1>1 DEF Reduce
  <1>2. CASE event = "agent-ack" /\ state.status = "requested"
    BY <1>2 DEF Reduce, AfterAck
  <1>3. CASE event = "user-accept" /\ state.status = "awaiting-consent"
    BY <1>3 DEF Reduce, AfterAccept, Answerer
  <1>4. CASE event = "user-decline" /\ state.status = "awaiting-consent"
    BY <1>4 DEF Reduce, AfterDecline, Answerer
  <1>5. CASE event = "tick" /\ ~IsTerminal(state.status)
    <2>1. Reduce(state, event, user, times, policy) = AfterTick(state, times, policy)
      BY <1>5 DEF Reduce
    <2> DEFINE noAnswer == AfterNoAnswer(state, policy)
    <2>2. CASE AfterTick(state, times, policy) = state
      BY <1>5, <2>1, <2>2
    <2>3. CASE state.status = "requested" /\ times.requested >= AckTimeout
      <3>1. AfterTick(state, times, policy) = Closed(state, "expired", "no-ack")
        BY <2>3 DEF AfterTick
      <3> QED
        BY <1>5, <2>1, <2>3, <3>1 DEF Closed
    <2>4. CASE state.status = "awaiting-consent" /\ PromptExpired(state, times)
      <3>1. AfterTick(state, times, policy) = noAnswer
        BY <2>4 DEF AfterTick
      <3>2. noAnswer # state /\ noAnswer.status \in {"active", "expired"}
        BY <2>4 DEF AfterNoAnswer
      <3>3. HonestGate(noAnswer, policy)
        BY <2>4 DEF AfterNoAnswer, Policy
      <3> QED
        BY <1>5, <2>1, <2>4, <3>1, <3>2, <3>3
    <2>5. CASE state.status = "active"
      <3>1. AfterTick(state, times, policy) \in
               {state, Closed(state, "ended", "too-long"),
                Closed(state, "ended", "idle")}
        BY <2>5 DEF AfterTick
      <3>2. ASSUME NEW reason \in EndReason
            PROVE  /\ HonestGate(Closed(state, "ended", reason), policy)
                   /\ Closed(state, "ended", reason).status = "ended"
        BY <2>5 DEF Closed
      <3> HIDE DEF HonestGate
      <3> QED
        BY <1>5, <2>1, <2>5, <3>1, <3>2
    <2>6. CASE /\ state.status # "active"
               /\ ~(state.status = "requested" /\ times.requested >= AckTimeout)
               /\ ~(state.status = "awaiting-consent" /\ PromptExpired(state, times))
      <3>1. AfterTick(state, times, policy) = state
        BY <2>6 DEF AfterTick
      <3> QED
        BY <2>2, <3>1
    <2> QED
      BY <2>3, <2>4, <2>5, <2>6
  <1>6. CASE event \in {"operator-end", "agent-lost"} /\ ~IsTerminal(state.status)
    BY <1>6 DEF Reduce, Closed
  <1>7. CASE /\ ~IsTerminal(state.status)
             /\ event \notin {"tick", "operator-end", "agent-lost"}
             /\ ~(event = "agent-ack" /\ state.status = "requested")
             /\ ~(event = "user-accept" /\ state.status = "awaiting-consent")
             /\ ~(event = "user-decline" /\ state.status = "awaiting-consent")
    BY <1>7 DEF Reduce
  <1> QED
    BY <1>1, <1>2, <1>3, <1>4, <1>5, <1>6, <1>7

(***************************************************************************)
(* Types                                                                   *)
(***************************************************************************)

\* Where a call stands tells which kind of call it is.
LEMMA CallCases ==
    ASSUME NEW call \in Call
    PROVE  /\ call.at \in {"decided", "saved"} => call \in ApplyCall
           /\ call.at \in {"frame-read", "frame-claimed", "frame-counted"}
                 => call \in FrameCall
           /\ call.at = "queue-read" => call \in QueueCall
           /\ call.at \in {"input-read", "input-saved", "recording-read",
                           "recording-pausing", "audio-read"}
                 => call \in SwitchCall
           /\ call.at = "quality-read" => call \in QualityCall
  BY DEF Call, ApplyCall, FrameCall, QueueCall, SwitchCall, QualityCall, NoCall

\* A call is at work on a session.
LEMMA CallSession ==
    ASSUME NEW call \in Call, call # NoCall
    PROVE  call.sid \in Sessions
  BY DEF Call, ApplyCall, FrameCall, QueueCall, SwitchCall, QualityCall

\* Every kind of call is a call.
LEMMA CallKinds ==
    /\ ApplyCall \subseteq Call
    /\ FrameCall \subseteq Call
    /\ QueueCall \subseteq Call
    /\ SwitchCall \subseteq Call
    /\ QualityCall \subseteq Call
    /\ NoCall \in Call
  BY DEF Call

\* A suspended call that moves on stays a call of its kind.
LEMMA MovedOn ==
    /\ \A call \in ApplyCall : [call EXCEPT !.at = "saved"] \in ApplyCall
    /\ \A call \in FrameCall :
           /\ [call EXCEPT !.at = "frame-claimed"] \in FrameCall
           /\ [call EXCEPT !.at = "frame-counted"] \in FrameCall
    /\ \A call \in SwitchCall :
           /\ [call EXCEPT !.at = "input-saved"] \in SwitchCall
           /\ [call EXCEPT !.at = "recording-pausing"] \in SwitchCall
  <1>1. \A call \in ApplyCall : [call EXCEPT !.at = "saved"] \in ApplyCall
    BY DEF ApplyCall
  <1>2. \A call \in FrameCall :
           /\ [call EXCEPT !.at = "frame-claimed"] \in FrameCall
           /\ [call EXCEPT !.at = "frame-counted"] \in FrameCall
    BY DEF FrameCall
  <1>3. \A call \in SwitchCall :
           /\ [call EXCEPT !.at = "input-saved"] \in SwitchCall
           /\ [call EXCEPT !.at = "recording-pausing"] \in SwitchCall
    BY DEF SwitchCall
  <1> QED
    BY <1>1, <1>2, <1>3

\* The conjuncts of TypeOK, in groups that most steps leave alone.
MemoryType ==
    /\ frames \subseteq Sessions
    /\ capture \in [Sessions -> Claim \cup {NoClaim}]
    /\ inputQ \in [Sessions -> 0..MaxQueue]
    /\ rec \in [Sessions -> {"off", "on", "paused"}]
    /\ stopping \subseteq Sessions

LogType ==
    /\ woken \subseteq Sessions
    /\ audit \in [Sessions -> Seq(AuditFact)]
    /\ filmed \subseteq Sessions
    /\ restarts \in 0..MaxRestarts
    /\ crossed \in [Sessions -> SUBSET Crossings]

RowsType  == rows \in [Sessions -> Row]
CallsType == calls \in [Calls -> Call]

LEMMA TypeParts == TypeOK <=> RowsType /\ MemoryType /\ CallsType /\ LogType
  BY DEF TypeOK, RowsType, MemoryType, CallsType, LogType

LEMMA TypeNext ==
    RowsType' /\ MemoryType' /\ CallsType' /\ LogType' => TypeOK'
  BY DEF TypeOK, RowsType, MemoryType, CallsType, LogType

\* What a step does not mention keeps its type.
LEMMA SameType ==
    /\ RowsType /\ UNCHANGED rows => RowsType'
    /\ MemoryType /\ UNCHANGED memory => MemoryType'
    /\ CallsType /\ UNCHANGED calls => CallsType'
    /\ LogType /\ UNCHANGED <<woken, audit, filmed, restarts, crossed>>
           => LogType'
  BY DEF RowsType, MemoryType, memory, CallsType, LogType

\* Updating a function at one point.
LEMMA FnUpdate ==
    ASSUME NEW D, NEW R, NEW f \in [D -> R], NEW d, NEW r,
           d \in D => r \in R
    PROVE  [f EXCEPT ![d] = r] \in [D -> R]
  OBVIOUS

\* The queue is capped.
LEMMA QueueRoom ==
    /\ 0 \in 0..MaxQueue
    /\ \A n \in 0..MaxQueue : (IF n < MaxQueue THEN n + 1 ELSE n) \in 0..MaxQueue
  <1>1. MaxQueue \in Nat \ {0}
    BY BoundsAssumption
  <1> QED
    BY <1>1

\* Starting, moving on and ending a call.
LEMMA CallsStep ==
    ASSUME CallsType, NEW c \in Calls
    PROVE  /\ \A call \in Call : Begin(c, call) => CallsType'
           /\ Finish(c) => CallsType'
  BY CallKinds DEF CallsType, Begin, Finish

\* A call that starts is one more call, and no change to the log.
LEMMA Started ==
    ASSUME CallsType, LogType, NEW c \in Calls, NEW call \in Call,
           Start(c, call), UNCHANGED <<woken, audit, filmed, restarts>>
    PROVE  CallsType' /\ LogType'
  <1> DEFINE met == crossed[call.sid] \cup
                    {kind \in Crossings : Crosses(call, call.sid, kind)}
  <1>1. CallsType'
    BY CallsStep DEF Start
  <1>2. crossed' = [crossed EXCEPT ![call.sid] = met]
    BY DEF Start
  <1>3. call.sid \in Sessions => met \in SUBSET Crossings
    BY DEF LogType
  <1> HIDE DEF met
  <1>4. crossed' \in [Sessions -> SUBSET Crossings]
    BY <1>2, <1>3, FnUpdate DEF LogType
  <1> QED
    BY <1>1, <1>4 DEF LogType

\* Each write to a row leaves a row.
LEMMA RowWrites ==
    ASSUME NEW row \in Row
    PROVE  /\ \A on \in BOOLEAN :
                 /\ [row EXCEPT !.inputEnabled = on] \in Row
                 /\ [row EXCEPT !.recording = on] \in Row
                 /\ [row EXCEPT !.audioEnabled = on] \in Row
                 /\ [row EXCEPT !.recordingPath = on] \in Row
           /\ \A quality \in Qualities : [row EXCEPT !.quality = quality] \in Row
           /\ \A source \in Sources : [row EXCEPT !.captureSource = source] \in Row
           /\ \A times \in SessionTimes : [row EXCEPT !.times = times] \in Row
           /\ \A call \in ApplyCall : Saved(row, call) \in Row
           /\ Counted(row) \in Row
           /\ [row EXCEPT !.times = Aged(@)] \in Row
  <1>1. /\ \A on \in BOOLEAN :
              /\ [row EXCEPT !.inputEnabled = on] \in Row
              /\ [row EXCEPT !.recording = on] \in Row
              /\ [row EXCEPT !.audioEnabled = on] \in Row
              /\ [row EXCEPT !.recordingPath = on] \in Row
        /\ \A quality \in Qualities : [row EXCEPT !.quality = quality] \in Row
        /\ \A source \in Sources : [row EXCEPT !.captureSource = source] \in Row
        /\ \A times \in SessionTimes : [row EXCEPT !.times = times] \in Row
    BY DEF Row
  <1>2. row.times \in SessionTimes
    BY DEF Row
  <1>3. ASSUME NEW call \in ApplyCall
        PROVE  Saved(row, call) \in Row
    <2>1. Stamped(row.times, call) \in SessionTimes
      BY <1>2 DEF Stamped, SessionTimes
    <2>2. call.after \in SessionState
      BY DEF ApplyCall
    <2> QED
      BY <2>1, <2>2 DEF Saved, Row
  <1>4. Counted(row) \in Row
    <2>1. [row.times EXCEPT !.lastFrame = 0] \in SessionTimes
      BY <1>2 DEF SessionTimes
    <2> QED
      BY <1>1, <2>1 DEF Counted
  <1>5. [row EXCEPT !.times = Aged(@)] \in Row
    <2>1. Aged(row.times) \in SessionTimes
      BY <1>2, TimeoutsAssumption DEF Aged, Older, SessionTimes, Never, Longest
    <2> QED
      BY <1>1, <2>1
  <1> QED
    BY <1>1, <1>3, <1>4, <1>5

\* The initial state is well typed.
LEMMA InitType == Init => TypeOK
  <1> SUFFICES ASSUME Init
               PROVE  TypeOK
    OBVIOUS
  <1>1. ASSUME NEW policy \in Policy
        PROVE  NewRow(policy) \in Row
    <2>1. InitialState \in SessionState
      BY DEF InitialState, SessionState, SessionStatus, OpenStatus,
             ConsentState, EndReason, People
    <2>2. [requested |-> 0, prompted |-> Never, started |-> Never,
           lastFrame |-> Never] \in SessionTimes
      BY DEF SessionTimes, Never
    <2> QED
      BY <2>1, <2>2, BoundsAssumption DEF NewRow, Row
  <1>2. RowsType
    BY <1>1 DEF Init, RowsType
  <1>3. LogType
    BY BoundsAssumption DEF Init, LogType
  <1>4. CallsType
    BY CallKinds DEF Init, CallsType
  <1>5. MemoryType
    BY BoundsAssumption DEF Init, MemoryType
  <1> QED
    BY <1>2, <1>3, <1>4, <1>5, TypeParts

\* What apply() logs is a sequence of audit lines.
LEMMA AuditType ==
    ASSUME NEW call \in ApplyCall
    PROVE  AuditOf(call) \in Seq(AuditFact)
  <1>1. call.after \in SessionState
    BY DEF ApplyCall
  <1>2. AuditLine(call.after) \in AuditFact /\ EndLine(call.after) \in AuditFact
    BY <1>1 DEF AuditLine, EndLine, AuditFact, SessionState, People
  <1> QED
    BY <1>2 DEF AuditOf

\* apply() keeps the types.
LEMMA ApplyType ==
    ASSUME TypeOK, NEW c \in Calls
    PROVE  /\ \A s \in Sessions, event \in EventType, user \in People :
                  ApplyRead(c, s, event, user) => TypeOK'
           /\ ApplyWrite(c) \/ ApplySettle(c) => TypeOK'
  <1>a. RowsType /\ MemoryType /\ CallsType /\ LogType
    BY TypeParts
  <1> USE <1>a, TypeNext
  <1>1. ASSUME NEW s \in Sessions, NEW event \in EventType, NEW user \in People,
               ApplyRead(c, s, event, user)
        PROVE  TypeOK'
    <2> DEFINE after == Reduce(rows[s].gate, event, user, rows[s].times,
                               rows[s].policy)
               call  == [at |-> "decided", sid |-> s,
                         before |-> rows[s].gate, after |-> after]
    <2>1. rows[s] \in Row
      BY DEF RowsType
    <2>2. after \in SessionState
      BY <2>1, ReduceType DEF Row
    <2>3. call \in ApplyCall
      BY <2>1, <2>2 DEF ApplyCall, Row
    <2> HIDE DEF call
    <2>4. Start(c, call) /\ UNCHANGED <<woken, audit, filmed, restarts>>
      BY <1>1 DEF ApplyRead, call
    <2>5. CallsType' /\ LogType'
      BY <2>3, <2>4, Started, CallKinds
    <2> QED
      BY <1>1, <2>5, SameType DEF ApplyRead
  <1>2. ASSUME ApplyWrite(c)
        PROVE  TypeOK'
    <2>1. calls[c] \in ApplyCall /\ [calls[c] EXCEPT !.at = "saved"] \in Call
      BY <1>2, CallCases, CallKinds, MovedOn DEF ApplyWrite, CallsType
    <2>2. RowsType'
      BY <1>2, <2>1, RowWrites DEF ApplyWrite, RowsType
    <2>3. CallsType'
      BY <1>2, <2>1, CallsStep DEF ApplyWrite
    <2> QED
      BY <1>2, <2>2, <2>3, SameType DEF ApplyWrite
  <1>3. ASSUME ApplySettle(c)
        PROVE  TypeOK'
    <2>1. calls[c] \in ApplyCall
      BY <1>3, CallCases DEF ApplySettle, CallsType
    <2>2. LogType'
      <3>1. AuditOf(calls[c]) \in Seq(AuditFact)
        BY <2>1, AuditType
      <3>2. audit' \in [Sessions -> Seq(AuditFact)]
        <4> DEFINE s == calls[c].sid
                   told == audit[s] \o AuditOf(calls[c])
        <4>1. audit \in [Sessions -> Seq(AuditFact)]
          BY DEF LogType
        <4>2. s \in Sessions => audit[s] \in Seq(AuditFact)
          BY <4>1
        <4>3. s \in Sessions => told \in Seq(AuditFact)
          BY <3>1, <4>2
        <4>4. audit' = [audit EXCEPT ![s] = told]
          BY <1>3 DEF ApplySettle
        <4> HIDE DEF s, told
        <4> QED
          BY <4>1, <4>3, <4>4, FnUpdate
      <3>3. woken' \subseteq Sessions
        BY <1>3, <2>1 DEF ApplySettle, LogType, ApplyCall
      <3> QED
        BY <1>3, <3>2, <3>3 DEF ApplySettle, LogType
    <2>3. CallsType'
      BY <1>3, CallsStep DEF ApplySettle
    <2>4. MemoryType'
      <3>1. CASE StartRecorder(calls[c].sid)
                 /\ UNCHANGED <<frames, capture, inputQ, stopping>>
        <4>1. rec' \in [Sessions -> {"off", "on", "paused"}]
          BY <3>1 DEF StartRecorder, MemoryType
        <4> QED
          BY <3>1, <4>1 DEF MemoryType
      <3>2. CASE DropMedia(calls[c].sid)
        <4>1. rec' \in [Sessions -> {"off", "on", "paused"}]
          BY <3>2 DEF DropMedia, MemoryType
        <4>2. inputQ' \in [Sessions -> 0..MaxQueue]
          BY <3>2, FnUpdate, QueueRoom DEF DropMedia, MemoryType
        <4>3. capture' \in [Sessions -> Claim \cup {NoClaim}]
          BY <3>2 DEF DropMedia, MemoryType
        <4>4. frames' \subseteq Sessions
          BY <3>2 DEF DropMedia, MemoryType
        <4>5. stopping' \subseteq Sessions
          BY <2>1, <3>2 DEF DropMedia, MemoryType, ApplyCall
        <4> QED
          BY <4>1, <4>2, <4>3, <4>4, <4>5 DEF MemoryType
      <3> QED
        BY <1>3, <3>1, <3>2 DEF ApplySettle
    <2>5. RowsType'
      BY <1>3, SameType DEF ApplySettle
    <2> QED
      BY <2>2, <2>3, <2>4, <2>5
  <1> QED
    BY <1>1, <1>2, <1>3

\* handleFrame() keeps the types.
LEMMA FrameType ==
    ASSUME TypeOK, NEW c \in Calls
    PROVE  /\ \A s \in Sessions, source \in Sources :
                  FrameRead(c, s, source) => TypeOK'
           /\ (\/ FrameRejected(c) \/ FrameClaims(c) \/ FrameStored(c)
               \/ FrameEmpty(c) \/ FrameReplied(c)) => TypeOK'
  <1>a. RowsType /\ MemoryType /\ CallsType /\ LogType
    BY TypeParts
  <1> USE <1>a, TypeNext
  <1>1. ASSUME NEW s \in Sessions, NEW source \in Sources, FrameRead(c, s, source)
        PROVE  TypeOK'
    <2> DEFINE call == [at |-> "frame-read", sid |-> s, source |-> source]
    <2>1. call \in FrameCall
      BY DEF FrameCall, RowsType, Row
    <2> HIDE DEF call
    <2>2. Start(c, call) /\ UNCHANGED <<woken, audit, filmed, restarts>>
      BY <1>1 DEF FrameRead, call
    <2>3. CallsType' /\ LogType'
      BY <2>1, <2>2, Started, CallKinds
    <2> QED
      BY <1>1, <2>3, SameType DEF FrameRead
  <1>2. ASSUME FrameRejected(c)
        PROVE  TypeOK'
    BY <1>2, CallsStep, SameType DEF FrameRejected
  <1>3. ASSUME FrameClaims(c)
        PROVE  TypeOK'
    <2>1. /\ calls[c] \in FrameCall
          /\ [calls[c] EXCEPT !.at = "frame-claimed"] \in Call
      BY <1>3, CallCases, CallKinds, MovedOn DEF FrameClaims, CallsType
    <2>2. calls[c].source \in Sources
      BY <2>1 DEF FrameCall
    <2>3. RowsType'
      BY <1>3, <2>2, RowWrites DEF FrameClaims, RowsType
    <2>4. CallsType'
      BY <1>3, <2>1, CallsStep DEF FrameClaims
    <2> QED
      BY <1>3, <2>3, <2>4, SameType DEF FrameClaims
  <1>4. ASSUME FrameStored(c)
        PROVE  TypeOK'
    <2>1. /\ calls[c] \in FrameCall
          /\ [calls[c] EXCEPT !.at = "frame-counted"] \in Call
      BY <1>4, CallCases, CallKinds, MovedOn DEF FrameStored, Cleared, CallsType
    <2>2. calls[c].sid \in Sessions /\ calls[c].source \in Sources
      BY <2>1 DEF FrameCall
    <2>3. RowsType'
      BY <1>4, RowWrites DEF FrameStored, RowsType
    <2>4. CallsType'
      BY <1>4, <2>1, CallsStep DEF FrameStored
    <2>5. MemoryType'
      <3>1. [source |-> calls[c].source, age |-> 0] \in Claim
        BY <2>2 DEF Claim
      <3>2. capture' \in [Sessions -> Claim \cup {NoClaim}]
        BY <1>4, <3>1 DEF FrameStored, StoreFrame, Claimed, MemoryType
      <3>3. frames' \subseteq Sessions
        BY <1>4, <2>2 DEF FrameStored, StoreFrame, Claimed, MemoryType
      <3> QED
        BY <1>4, <3>2, <3>3 DEF FrameStored, MemoryType
    <2>6. LogType'
      <3>1. filmed' \subseteq Sessions
        BY <1>4, <2>2 DEF FrameStored, StoreFrame, LogType
      <3> QED
        BY <1>4, <3>1 DEF FrameStored, LogType
    <2> QED
      BY <2>3, <2>4, <2>5, <2>6
  <1>5. ASSUME FrameEmpty(c)
        PROVE  TypeOK'
    <2>1. calls[c].source \in Sources
      BY <1>5, CallCases DEF FrameEmpty, Cleared, FrameCall, CallsType
    <2>2. [source |-> calls[c].source, age |-> 0] \in Claim
      BY <2>1 DEF Claim
    <2>3. capture' \in [Sessions -> Claim \cup {NoClaim}]
      BY <1>5, <2>2 DEF FrameEmpty, Claimed, MemoryType
    <2>4. MemoryType'
      BY <1>5, <2>3 DEF FrameEmpty, MemoryType
    <2> QED
      BY <1>5, <2>4, CallsStep, SameType DEF FrameEmpty
  <1>6. ASSUME FrameReplied(c)
        PROVE  TypeOK'
    <2>1. inputQ' \in [Sessions -> 0..MaxQueue]
      BY <1>6, FnUpdate, QueueRoom DEF FrameReplied, MemoryType
    <2>2. MemoryType'
      BY <1>6, <2>1 DEF FrameReplied, MemoryType
    <2> QED
      BY <1>6, <2>2, CallsStep, SameType DEF FrameReplied
  <1> QED
    BY <1>1, <1>2, <1>3, <1>4, <1>5, <1>6

\* The switches, the input queue and the quality keep the types.
LEMMA ControlType ==
    ASSUME TypeOK, NEW c \in Calls
    PROVE  /\ \A s \in Sessions :
                  QueueRead(c, s) \/ InputRead(c, s) \/ RecordingRead(c, s)
                  \/ AudioRead(c, s) => TypeOK'
           /\ \A s \in Sessions, quality \in Qualities :
                  QualityRead(c, s, quality) => TypeOK'
           /\ (\/ QueuePush(c) \/ InputWrite(c) \/ InputSettle(c)
               \/ RecordingResume(c) \/ RecordingPause(c) \/ RecordingPaused(c)
               \/ AudioWrite(c) \/ QualityWrite(c)) => TypeOK'
  <1>a. RowsType /\ MemoryType /\ CallsType /\ LogType
    BY TypeParts
  <1> USE <1>a, TypeNext
  <1>1. ASSUME NEW s \in Sessions, QueueRead(c, s)
        PROVE  TypeOK'
    <2>1. [at |-> "queue-read", sid |-> s] \in Call
      BY CallKinds DEF QueueCall
    <2>2. CallsType' /\ LogType'
      BY <1>1, <2>1, Started DEF QueueRead
    <2> QED
      BY <1>1, <2>2, SameType DEF QueueRead
  <1>2. ASSUME NEW s \in Sessions,
               NEW at \in {"input-read", "recording-read", "audio-read"},
               NEW feature, NEW column \in BOOLEAN,
               SwitchRead(c, s, feature, column, at)
        PROVE  TypeOK'
    <2>1. [at |-> at, sid |-> s, on |-> ~column] \in SwitchCall
      BY DEF SwitchCall
    <2>2. CallsType' /\ LogType'
      BY <1>2, <2>1, CallKinds, Started DEF SwitchRead
    <2> QED
      BY <1>2, <2>2, SameType DEF SwitchRead
  <1>3. ASSUME NEW s \in Sessions,
               InputRead(c, s) \/ RecordingRead(c, s) \/ AudioRead(c, s)
        PROVE  TypeOK'
    <2>1. /\ rows[s].inputEnabled \in BOOLEAN
          /\ rows[s].recording \in BOOLEAN
          /\ rows[s].audioEnabled \in BOOLEAN
      BY DEF RowsType, Row
    <2> QED
      BY <1>2, <1>3, <2>1 DEF InputRead, RecordingRead, AudioRead
  <1>4. ASSUME NEW s \in Sessions, NEW quality \in Qualities,
               QualityRead(c, s, quality)
        PROVE  TypeOK'
    <2>1. [at |-> "quality-read", sid |-> s, quality |-> quality] \in Call
      BY CallKinds DEF QualityCall
    <2>2. CallsType' /\ LogType'
      BY <1>4, <2>1, Started DEF QualityRead
    <2> QED
      BY <1>4, <2>2, SameType DEF QualityRead
  <1>5. ASSUME QueuePush(c)
        PROVE  TypeOK'
    <2>1. inputQ' \in [Sessions -> 0..MaxQueue]
      BY <1>5, FnUpdate, QueueRoom DEF QueuePush, Enqueue, MemoryType
    <2>2. MemoryType'
      BY <1>5, <2>1 DEF QueuePush, Enqueue, MemoryType
    <2> QED
      BY <1>5, <2>2, CallsStep, SameType DEF QueuePush
  <1>6. ASSUME calls[c].at \in {"input-read", "input-saved", "recording-read",
                                "recording-pausing", "audio-read"}
        PROVE  calls[c] \in SwitchCall /\ calls[c].on \in BOOLEAN
    BY <1>6, CallCases DEF CallsType, SwitchCall
  <1>7. ASSUME InputWrite(c)
        PROVE  TypeOK'
    <2>1. [calls[c] EXCEPT !.at = "input-saved"] \in Call
      BY <1>6, <1>7, CallKinds, MovedOn DEF InputWrite
    <2>2. RowsType'
      BY <1>6, <1>7, RowWrites DEF InputWrite, RowsType
    <2>3. CallsType'
      BY <1>7, <2>1, CallsStep DEF InputWrite
    <2> QED
      BY <1>7, <2>2, <2>3, SameType DEF InputWrite
  <1>8. ASSUME InputSettle(c)
        PROVE  TypeOK'
    <2>1. inputQ' \in [Sessions -> 0..MaxQueue]
      BY <1>8, FnUpdate, QueueRoom DEF InputSettle, MemoryType
    <2>2. MemoryType'
      BY <1>8, <2>1 DEF InputSettle, MemoryType
    <2> QED
      BY <1>8, <2>2, CallsStep, SameType DEF InputSettle
  <1>9. ASSUME WriteRecording(c), calls[c].on \in BOOLEAN
        PROVE  RowsType' /\ CallsType'
    BY <1>9, RowWrites, CallsStep DEF WriteRecording, RowsType
  <1>10. ASSUME RecordingResume(c)
         PROVE  TypeOK'
    <2>1. RowsType' /\ CallsType'
      BY <1>6, <1>9, <1>10 DEF RecordingResume
    <2>2. rec' \in [Sessions -> {"off", "on", "paused"}]
      BY <1>10 DEF RecordingResume, MemoryType
    <2>3. MemoryType'
      BY <1>10, <2>2 DEF RecordingResume, MemoryType
    <2> QED
      BY <1>10, <2>1, <2>3, SameType DEF RecordingResume
  <1>11. ASSUME RecordingPause(c)
         PROVE  TypeOK'
    <2>1. [calls[c] EXCEPT !.at = "recording-pausing"] \in Call
      BY <1>6, <1>11, CallKinds, MovedOn DEF RecordingPause
    <2>2. CallsType'
      BY <1>11, <2>1, CallsStep DEF RecordingPause
    <2>3. rec' \in [Sessions -> {"off", "on", "paused"}]
      BY <1>11 DEF RecordingPause, MemoryType
    <2>4. MemoryType'
      BY <1>11, <2>3 DEF RecordingPause, MemoryType
    <2> QED
      BY <1>11, <2>2, <2>4, SameType DEF RecordingPause
  <1>12. ASSUME RecordingPaused(c)
         PROVE  TypeOK'
    <2>1. RowsType' /\ CallsType'
      BY <1>6, <1>9, <1>12 DEF RecordingPaused
    <2> QED
      BY <1>12, <2>1, SameType DEF RecordingPaused
  <1>13. ASSUME AudioWrite(c)
         PROVE  TypeOK'
    <2>1. RowsType'
      BY <1>6, <1>13, RowWrites DEF AudioWrite, RowsType
    <2> QED
      BY <1>13, <2>1, CallsStep, SameType DEF AudioWrite
  <1>14. ASSUME QualityWrite(c)
         PROVE  TypeOK'
    <2>1. calls[c].quality \in Qualities
      BY <1>14, CallCases DEF QualityWrite, QualityCall, CallsType
    <2>2. RowsType'
      BY <1>14, <2>1, RowWrites DEF QualityWrite, RowsType
    <2> QED
      BY <1>14, <2>2, CallsStep, SameType DEF QualityWrite
  <1> QED
    BY <1>1, <1>3, <1>4, <1>5, <1>7, <1>8, <1>10, <1>11, <1>12, <1>13, <1>14

\* The passing of time and a restart keep the types.
LEMMA WorldType ==
    ASSUME TypeOK
    PROVE  /\ \A s \in Sessions : Finalise(s) => TypeOK'
           /\ Clock \/ Restart => TypeOK'
  <1>a. RowsType /\ MemoryType /\ CallsType /\ LogType
    BY TypeParts
  <1> USE <1>a, TypeNext
  <1>1. ASSUME NEW s \in Sessions, Finalise(s)
        PROVE  TypeOK'
    <2>1. (rows[s].recordingPath \/ s \in filmed) \in BOOLEAN
      OBVIOUS
    <2>2. RowsType'
      BY <1>1, <2>1, RowWrites DEF Finalise, RowsType
    <2>3. stopping' \subseteq Sessions
      BY <1>1 DEF Finalise, MemoryType
    <2>4. MemoryType'
      BY <1>1, <2>3 DEF Finalise, MemoryType
    <2> QED
      BY <1>1, <2>2, <2>4, SameType DEF Finalise
  <1>2. ASSUME Clock
        PROVE  TypeOK'
    <2>1. RowsType'
      BY <1>2, RowWrites DEF Clock, RowsType
    <2>2. ASSUME NEW claim \in Claim
          PROVE  [claim EXCEPT !.age = Older(@, ClaimTtl)] \in Claim
      BY <2>2 DEF Claim, Older, Never
    <2>3. capture' \in [Sessions -> Claim \cup {NoClaim}]
      BY <1>2, <2>2 DEF Clock, MemoryType
    <2>4. MemoryType'
      BY <1>2, <2>3 DEF Clock, MemoryType
    <2> QED
      BY <1>2, <2>1, <2>4, SameType DEF Clock
  <1>3. ASSUME Restart
        PROVE  TypeOK'
    <2>1. MemoryType'
      BY <1>3, BoundsAssumption DEF Restart, MemoryType
    <2>2. CallsType'
      BY <1>3, CallKinds DEF Restart, CallsType
    <2>3. LogType'
      BY <1>3, BoundsAssumption DEF Restart, LogType
    <2> QED
      BY <1>3, <2>1, <2>2, <2>3, SameType DEF Restart
  <1> QED
    BY <1>1, <1>2, <1>3

\* The variables keep their types.
THEOREM TypeCorrect == Spec => []TypeOK
  <1>1. TypeOK /\ [Next]_vars => TypeOK'
    <2> SUFFICES ASSUME TypeOK, [Next]_vars
                 PROVE  TypeOK'
      OBVIOUS
    <2>1. ASSUME NEW c \in Callers, NEW s \in Sessions, Request(c, s)
          PROVE  TypeOK'
      BY <2>1, ApplyType, FrameType, ControlType
         DEF Request, AgentAck, ConsentAnswer, OperatorEnd, AgentLost,
             EventType, People, Calls
    <2>2. ASSUME NEW t \in Timers, NEW s \in Sessions, Tick(t, s)
          PROVE  TypeOK'
      BY <2>2, ApplyType DEF Tick, EventType, People, Calls
    <2>3. ASSUME NEW c \in Calls, Continue(c)
          PROVE  TypeOK'
      <3>1. CASE ApplyWrite(c) \/ ApplySettle(c)
        BY <3>1, ApplyType
      <3>2. CASE \/ FrameRejected(c) \/ FrameClaims(c) \/ FrameStored(c)
                 \/ FrameEmpty(c) \/ FrameReplied(c)
        BY <3>2, FrameType
      <3>3. CASE \/ QueuePush(c) \/ InputWrite(c) \/ InputSettle(c)
                 \/ RecordingResume(c) \/ RecordingPause(c)
                 \/ RecordingPaused(c) \/ AudioWrite(c) \/ QualityWrite(c)
        BY <3>3, ControlType
      <3> QED
        BY <2>3, <3>1, <3>2, <3>3 DEF Continue
    <2>4. CASE (\E s \in Sessions : Finalise(s)) \/ Clock \/ Restart
      BY <2>4, WorldType
    <2>5. CASE UNCHANGED vars
      BY <2>5, SameType, TypeParts, TypeNext DEF vars, memory
    <2> QED
      BY <2>1, <2>2, <2>3, <2>4, <2>5 DEF Next
  <1> QED
    BY <1>1, InitType, PTL DEF Spec

(***************************************************************************)
(* Consent                                                                 *)
(***************************************************************************)

\* The verdicts of rows and of calls in flight, and the stamps the timeouts
\* are measured from.
GateInv == ConsentIsHonest /\ TimersArmed /\ VerdictsInFlightHonest

\* A write that leaves the verdict, the policy and both stamps in place.
KeepsGate(row, next) ==
    /\ next.gate = row.gate
    /\ next.policy = row.policy
    /\ row.times.prompted # Never => next.times.prompted # Never
    /\ row.times.started # Never => next.times.started # Never

GateKept == \A s \in Sessions : KeepsGate(rows[s], rows'[s])

KeepsVerdict(call, next) ==
    next.at \in {"decided", "saved"} =>
        /\ call.at \in {"decided", "saved"}
        /\ next.sid = call.sid
        /\ next.before = call.before
        /\ next.after = call.after

NoNewVerdict == \A c \in Calls : KeepsVerdict(calls[c], calls'[c])

\* A step that decides nothing and writes no verdict keeps the invariant.
LEMMA KeptGate ==
    ASSUME TypeOK, GateInv, GateKept, NoNewVerdict
    PROVE  GateInv'
  <1>1. ASSUME NEW s \in Sessions
        PROVE  HonestGate(rows'[s].gate, rows'[s].policy) /\ Armed(rows'[s])
    BY DEF GateInv, ConsentIsHonest, TimersArmed, GateKept, KeepsGate, Armed
  <1>2. ConsentIsHonest' /\ TimersArmed'
    BY <1>1 DEF ConsentIsHonest, TimersArmed
  <1>3. ASSUME NEW c \in Calls, calls'[c].at \in {"decided", "saved"}
        PROVE  /\ HonestGate(calls'[c].after, rows'[calls'[c].sid].policy)
               /\ calls'[c].after.status = "awaiting-consent" =>
                      calls'[c].before.status = "requested"
               /\ calls'[c].after.status = "active" =>
                      calls'[c].before.status \in {"requested", "awaiting-consent"}
    <2>1. /\ calls[c].at \in {"decided", "saved"}
          /\ calls'[c].sid = calls[c].sid
          /\ calls'[c].before = calls[c].before
          /\ calls'[c].after = calls[c].after
      BY <1>3 DEF NoNewVerdict, KeepsVerdict
    <2>2. calls[c].sid \in Sessions
      BY <2>1, CallCases DEF TypeOK, ApplyCall
    <2>3. rows'[calls[c].sid].policy = rows[calls[c].sid].policy
      BY <2>2 DEF GateKept, KeepsGate
    <2> QED
      BY <2>1, <2>3 DEF GateInv, VerdictsInFlightHonest
  <1>4. VerdictsInFlightHonest'
    BY <1>3 DEF VerdictsInFlightHonest
  <1> QED
    BY <1>2, <1>4 DEF GateInv

\* One row written, its gate kept.
LEMMA RowStep ==
    ASSUME TypeOK, NEW s, NEW row, rows' = [rows EXCEPT ![s] = row],
           s \in Sessions => KeepsGate(rows[s], row)
    PROVE  GateKept
  <1>1. ASSUME NEW r \in Sessions
        PROVE  KeepsGate(rows[r], rows'[r])
    <2>1. CASE r = s
      BY <2>1 DEF TypeOK
    <2>2. CASE r # s
      BY <2>2 DEF TypeOK, KeepsGate
    <2> QED
      BY <2>1, <2>2
  <1> QED
    BY <1>1 DEF GateKept

\* Every write but that of apply() keeps the gate.
LEMMA RowKept ==
    ASSUME NEW row \in Row
    PROVE  /\ \A on : /\ KeepsGate(row, [row EXCEPT !.inputEnabled = on])
                      /\ KeepsGate(row, [row EXCEPT !.recording = on])
                      /\ KeepsGate(row, [row EXCEPT !.audioEnabled = on])
                      /\ KeepsGate(row, [row EXCEPT !.recordingPath = on])
           /\ \A q : KeepsGate(row, [row EXCEPT !.quality = q])
           /\ \A source : KeepsGate(row, [row EXCEPT !.captureSource = source])
           /\ KeepsGate(row, Counted(row))
           /\ KeepsGate(row, [row EXCEPT !.times = Aged(@)])
  <1>1. row.times \in SessionTimes
    BY DEF Row
  <1>2. KeepsGate(row, Counted(row))
    BY <1>1 DEF KeepsGate, Counted, Row, SessionTimes
  <1>3. KeepsGate(row, [row EXCEPT !.times = Aged(@)])
    <2>1. ASSUME NEW age \in Nat, NEW limit
          PROVE  Older(age, limit) # Never
      BY DEF Older, Never
    <2>2. Aged(row.times).prompted = Older(row.times.prompted, ConsentTimeout)
          /\ Aged(row.times).started = Older(row.times.started, Longest)
      BY DEF Aged
    <2>3. row.times.prompted \in Nat \cup {Never}
          /\ row.times.started \in Nat \cup {Never}
      BY <1>1 DEF SessionTimes
    <2>4. /\ row.times.prompted # Never => Aged(row.times).prompted # Never
          /\ row.times.started # Never => Aged(row.times).started # Never
      BY <2>1, <2>2, <2>3
    <2> QED
      BY <2>4 DEF KeepsGate, Row
  <1> QED
    BY <1>2, <1>3 DEF KeepsGate, Row

\* A call slot that is begun with anything but a verdict, or freed.
LEMMA CallStep ==
    ASSUME TypeOK, NEW c \in Calls, NEW call,
           call.at \notin {"decided", "saved"}, Begin(c, call)
    PROVE  NoNewVerdict
  BY DEF NoNewVerdict, KeepsVerdict, Begin, TypeOK

LEMMA CallFreed ==
    ASSUME TypeOK, NEW c \in Calls, Finish(c)
    PROVE  NoNewVerdict
  BY DEF NoNewVerdict, KeepsVerdict, Finish, NoCall, TypeOK

LEMMA RowsSame == ASSUME UNCHANGED rows PROVE GateKept
  BY DEF GateKept, KeepsGate

LEMMA CallsSame == ASSUME UNCHANGED calls PROVE NoNewVerdict
  BY DEF NoNewVerdict, KeepsVerdict

\* apply() keeps the invariant: what it decides is honest when it decides, and
\* the policy it decided by never changes until it writes.
LEMMA ApplyGate ==
    ASSUME TypeOK, GateInv, NEW c \in Calls
    PROVE  /\ \A s \in Sessions, event \in EventType, user \in People :
                  ApplyRead(c, s, event, user) => GateInv'
           /\ ApplyWrite(c) => GateInv'
           /\ ApplySettle(c) => GateInv'
  <1>1. ASSUME NEW s \in Sessions, NEW event \in EventType, NEW user \in People,
               ApplyRead(c, s, event, user)
        PROVE  GateInv'
    <2> DEFINE before == rows[s].gate
               after  == Reduce(before, event, user, rows[s].times, rows[s].policy)
               Fine(call) ==
                   /\ HonestGate(call.after, rows[call.sid].policy)
                   /\ call.after.status = "awaiting-consent" =>
                          call.before.status = "requested"
                   /\ call.after.status = "active" =>
                          call.before.status \in {"requested", "awaiting-consent"}
    <2>1. /\ before \in SessionState
          /\ rows[s].times \in SessionTimes
          /\ rows[s].policy \in Policy
      BY DEF TypeOK, Row
    <2>2. HonestGate(before, rows[s].policy)
      BY DEF GateInv, ConsentIsHonest
    <2>3. after # before
      BY <1>1 DEF ApplyRead
    <2>4. /\ HonestGate(after, rows[s].policy)
          /\ after.status = "awaiting-consent" => before.status = "requested"
          /\ after.status = "active" =>
                 before.status \in {"requested", "awaiting-consent"}
      BY <2>1, <2>2, <2>3, ReduceHonest
    <2> HIDE DEF after
    <2> DEFINE call == [at |-> "decided", sid |-> s,
                        before |-> before, after |-> after]
    <2>5. calls' = [calls EXCEPT ![c] = call] /\ UNCHANGED rows
      BY <1>1 DEF ApplyRead, Start, Begin, after
    <2>6. Fine(call)
      BY <2>4
    <2>7. ASSUME NEW d \in Calls, calls'[d].at \in {"decided", "saved"}
          PROVE  Fine(calls'[d])
      <3>1. CASE d = c
        BY <2>5, <2>6, <3>1 DEF TypeOK
      <3>2. CASE d # c
        <4>1. calls'[d] = calls[d]
          BY <2>5, <3>2 DEF TypeOK
        <4> QED
          BY <2>7, <4>1 DEF GateInv, VerdictsInFlightHonest
      <3> QED
        BY <3>1, <3>2
    <2>8. VerdictsInFlightHonest'
      BY <2>5, <2>7 DEF VerdictsInFlightHonest
    <2>9. ConsentIsHonest' /\ TimersArmed'
      BY <2>5 DEF GateInv, ConsentIsHonest, TimersArmed
    <2> QED
      BY <2>8, <2>9 DEF GateInv
  <1>2. ASSUME ApplyWrite(c)
        PROVE  GateInv'
    <2> DEFINE call == calls[c]
               s    == call.sid
    <2>1. call.at = "decided" /\ rows' = [rows EXCEPT ![s] = Saved(rows[s], call)]
      BY <1>2 DEF ApplyWrite
    <2>2. call \in ApplyCall
      BY <2>1, CallCases DEF TypeOK
    <2>3. s \in Sessions
      BY <2>2 DEF ApplyCall
    <2>4. rows[s] \in Row /\ rows[s].times \in SessionTimes
      BY <2>3 DEF TypeOK, Row
    <2>5. /\ HonestGate(call.after, rows[s].policy)
          /\ call.after.status = "awaiting-consent" =>
                 call.before.status = "requested"
          /\ call.after.status = "active" =>
                 call.before.status \in {"requested", "awaiting-consent"}
      BY <2>1 DEF GateInv, VerdictsInFlightHonest
    <2>6. /\ Saved(rows[s], call).gate = call.after
          /\ Saved(rows[s], call).policy = rows[s].policy
          /\ Saved(rows[s], call).times = Stamped(rows[s].times, call)
      BY <2>4 DEF Saved, Row
    <2>7. Armed(Saved(rows[s], call))
      BY <2>4, <2>5, <2>6 DEF Armed, Stamped, Becomes, Never, SessionTimes
    <2>8. ASSUME NEW r \in Sessions
          PROVE  /\ HonestGate(rows'[r].gate, rows'[r].policy)
                 /\ Armed(rows'[r])
                 /\ rows'[r].policy = rows[r].policy
      <3>1. CASE r = s
        <4>1. rows'[r] = Saved(rows[s], call)
          BY <2>1, <3>1 DEF TypeOK
        <4> QED
          BY <2>5, <2>6, <2>7, <3>1, <4>1
      <3>2. CASE r # s
        <4>1. rows'[r] = rows[r]
          BY <2>1, <3>2 DEF TypeOK
        <4> QED
          BY <4>1 DEF GateInv, ConsentIsHonest, TimersArmed
      <3> QED
        BY <3>1, <3>2
    <2>9. ConsentIsHonest' /\ TimersArmed'
      BY <2>8 DEF ConsentIsHonest, TimersArmed
    <2>10. NoNewVerdict
      <3>1. calls' = [calls EXCEPT ![c] = [call EXCEPT !.at = "saved"]]
        BY <1>2 DEF ApplyWrite, Begin
      <3>2. KeepsVerdict(call, [call EXCEPT !.at = "saved"])
        BY <2>1, <2>2 DEF KeepsVerdict, ApplyCall
      <3>3. ASSUME NEW d \in Calls
            PROVE  KeepsVerdict(calls[d], calls'[d])
        <4>1. CASE d = c
          BY <3>1, <3>2, <4>1 DEF TypeOK
        <4>2. CASE d # c
          BY <3>1, <4>2 DEF TypeOK, KeepsVerdict
        <4> QED
          BY <4>1, <4>2
      <3> QED
        BY <3>3 DEF NoNewVerdict
    <2>11. ASSUME NEW d \in Calls, calls'[d].at \in {"decided", "saved"}
           PROVE  /\ HonestGate(calls'[d].after, rows'[calls'[d].sid].policy)
                  /\ calls'[d].after.status = "awaiting-consent" =>
                         calls'[d].before.status = "requested"
                  /\ calls'[d].after.status = "active" =>
                         calls'[d].before.status \in {"requested", "awaiting-consent"}
      <3>1. /\ calls[d].at \in {"decided", "saved"}
            /\ calls'[d].sid = calls[d].sid
            /\ calls'[d].before = calls[d].before
            /\ calls'[d].after = calls[d].after
        BY <2>10, <2>11 DEF NoNewVerdict, KeepsVerdict
      <3>2. calls[d].sid \in Sessions
        BY <3>1, CallCases DEF TypeOK, ApplyCall
      <3>3. rows'[calls[d].sid].policy = rows[calls[d].sid].policy
        BY <2>8, <3>2
      <3> QED
        BY <3>1, <3>3 DEF GateInv, VerdictsInFlightHonest
    <2>12. VerdictsInFlightHonest'
      BY <2>11 DEF VerdictsInFlightHonest
    <2> QED
      BY <2>9, <2>12 DEF GateInv
  <1>3. ASSUME ApplySettle(c)
        PROVE  GateInv'
    BY <1>3, CallFreed, RowsSame, KeptGate DEF ApplySettle
  <1> QED
    BY <1>1, <1>2, <1>3

\* Frames keep the invariant.
LEMMA FrameGate ==
    ASSUME TypeOK, GateInv, NEW c \in Calls
    PROVE  /\ \A s \in Sessions, source \in Sources :
                  FrameRead(c, s, source) => GateInv'
           /\ FrameRejected(c) => GateInv'
           /\ FrameClaims(c) => GateInv'
           /\ FrameStored(c) => GateInv'
           /\ FrameEmpty(c) => GateInv'
           /\ FrameReplied(c) => GateInv'
  <1> DEFINE s == calls[c].sid
  <1>1. ASSUME NEW r \in Sessions, NEW source \in Sources, FrameRead(c, r, source)
        PROVE  GateInv'
    <2>1. NoNewVerdict
      BY <1>1, CallStep DEF FrameRead, Start
    <2> QED
      BY <1>1, <2>1, RowsSame, KeptGate DEF FrameRead
  <1>2. ASSUME FrameRejected(c)
        PROVE  GateInv'
    BY <1>2, CallFreed, RowsSame, KeptGate DEF FrameRejected
  <1>3. ASSUME calls[c].at \in {"frame-read", "frame-claimed", "frame-counted"}
        PROVE  /\ [calls[c] EXCEPT !.at = "frame-claimed"].at = "frame-claimed"
               /\ [calls[c] EXCEPT !.at = "frame-counted"].at = "frame-counted"
               /\ rows[s] \in Row
    BY <1>3, CallCases DEF FrameCall, TypeOK
  <1>4. ASSUME FrameClaims(c)
        PROVE  GateInv'
    <2>1. GateKept
      <3>1. rows' = [rows EXCEPT ![s] =
                         [rows[s] EXCEPT !.captureSource = calls[c].source]]
        BY <1>4 DEF FrameClaims
      <3>2. KeepsGate(rows[s], [rows[s] EXCEPT !.captureSource = calls[c].source])
        BY <1>3, <1>4, RowKept DEF FrameClaims
      <3> QED
        BY <3>1, <3>2, RowStep
    <2>2. NoNewVerdict
      BY <1>3, <1>4, CallStep DEF FrameClaims
    <2> QED
      BY <2>1, <2>2, KeptGate
  <1>5. ASSUME FrameStored(c)
        PROVE  GateInv'
    <2>1. calls[c].at \in {"frame-read", "frame-claimed"}
      BY <1>5 DEF FrameStored, Cleared
    <2>2. GateKept
      <3>1. rows' = [rows EXCEPT ![s] = Counted(rows[s])]
        BY <1>5 DEF FrameStored
      <3> QED
        BY <1>3, <2>1, <3>1, RowKept, RowStep
    <2>3. NoNewVerdict
      BY <1>3, <1>5, <2>1, CallStep DEF FrameStored
    <2> QED
      BY <2>2, <2>3, KeptGate
  <1>6. ASSUME FrameEmpty(c)
        PROVE  GateInv'
    BY <1>6, CallFreed, RowsSame, KeptGate DEF FrameEmpty
  <1>7. ASSUME FrameReplied(c)
        PROVE  GateInv'
    BY <1>7, CallFreed, RowsSame, KeptGate DEF FrameReplied
  <1> QED
    BY <1>1, <1>2, <1>4, <1>5, <1>6, <1>7

\* The switches, the input queue and the quality keep the invariant.
LEMMA ControlGate ==
    ASSUME TypeOK, GateInv, NEW c \in Calls
    PROVE  /\ \A s \in Sessions :
                  QueueRead(c, s) \/ InputRead(c, s) \/ RecordingRead(c, s)
                  \/ AudioRead(c, s) => GateInv'
           /\ \A s \in Sessions, quality \in Qualities :
                  QualityRead(c, s, quality) => GateInv'
           /\ QueuePush(c) => GateInv'
           /\ InputWrite(c) => GateInv'
           /\ InputSettle(c) => GateInv'
           /\ RecordingResume(c) \/ RecordingPaused(c) => GateInv'
           /\ RecordingPause(c) => GateInv'
           /\ AudioWrite(c) => GateInv'
           /\ QualityWrite(c) => GateInv'
  <1> DEFINE s == calls[c].sid
             on == calls[c].on
  <1>1. ASSUME NEW r \in Sessions, QueueRead(c, r)
        PROVE  GateInv'
    <2>1. NoNewVerdict
      BY <1>1, CallStep DEF QueueRead, Start
    <2> QED
      BY <1>1, <2>1, RowsSame, KeptGate DEF QueueRead
  <1>2. ASSUME NEW r \in Sessions, NEW feature, NEW column,
               NEW at \in {"input-read", "recording-read", "audio-read"},
               SwitchRead(c, r, feature, column, at)
        PROVE  GateInv'
    <2>1. NoNewVerdict
      BY <1>2, CallStep DEF SwitchRead, Start
    <2> QED
      BY <1>2, <2>1, RowsSame, KeptGate DEF SwitchRead
  <1>3. ASSUME NEW r \in Sessions,
               InputRead(c, r) \/ RecordingRead(c, r) \/ AudioRead(c, r)
        PROVE  GateInv'
    BY <1>2, <1>3 DEF InputRead, RecordingRead, AudioRead
  <1>4. ASSUME NEW r \in Sessions, NEW quality \in Qualities,
               QualityRead(c, r, quality)
        PROVE  GateInv'
    <2>1. NoNewVerdict
      BY <1>4, CallStep DEF QualityRead, Start
    <2> QED
      BY <1>4, <2>1, RowsSame, KeptGate DEF QualityRead
  <1>5. ASSUME QueuePush(c)
        PROVE  GateInv'
    BY <1>5, CallFreed, RowsSame, KeptGate DEF QueuePush
  <1>6. ASSUME calls[c].at \in {"input-read", "recording-read",
                                "recording-pausing", "audio-read",
                                "quality-read"}
        PROVE  /\ rows[s] \in Row
               /\ [calls[c] EXCEPT !.at = "input-saved"].at = "input-saved"
               /\ [calls[c] EXCEPT !.at = "recording-pausing"].at
                      = "recording-pausing"
    BY <1>6, CallCases DEF SwitchCall, QualityCall, TypeOK
  <1>7. ASSUME InputWrite(c)
        PROVE  GateInv'
    <2>1. GateKept
      BY <1>6, <1>7, RowKept, RowStep DEF InputWrite
    <2>2. NoNewVerdict
      BY <1>6, <1>7, CallStep DEF InputWrite
    <2> QED
      BY <2>1, <2>2, KeptGate
  <1>8. ASSUME InputSettle(c)
        PROVE  GateInv'
    BY <1>8, CallFreed, RowsSame, KeptGate DEF InputSettle
  <1>9. ASSUME RecordingResume(c) \/ RecordingPaused(c)
        PROVE  GateInv'
    <2>1. /\ calls[c].at \in {"recording-read", "recording-pausing"}
          /\ WriteRecording(c)
      BY <1>9 DEF RecordingResume, RecordingPaused
    <2>2. GateKept
      BY <1>6, <2>1, RowKept, RowStep DEF WriteRecording
    <2>3. NoNewVerdict
      BY <2>1, CallFreed DEF WriteRecording
    <2> QED
      BY <2>2, <2>3, KeptGate
  <1>10. ASSUME RecordingPause(c)
         PROVE  GateInv'
    <2>1. NoNewVerdict
      BY <1>6, <1>10, CallStep DEF RecordingPause
    <2> QED
      BY <1>10, <2>1, RowsSame, KeptGate DEF RecordingPause
  <1>11. ASSUME AudioWrite(c)
         PROVE  GateInv'
    <2>1. GateKept
      BY <1>6, <1>11, RowKept, RowStep DEF AudioWrite
    <2> QED
      BY <1>11, <2>1, CallFreed, KeptGate DEF AudioWrite
  <1>12. ASSUME QualityWrite(c)
         PROVE  GateInv'
    <2>1. GateKept
      BY <1>6, <1>12, RowKept, RowStep DEF QualityWrite
    <2> QED
      BY <1>12, <2>1, CallFreed, KeptGate DEF QualityWrite
  <1> QED
    BY <1>1, <1>3, <1>4, <1>5, <1>7, <1>8, <1>9, <1>10, <1>11, <1>12

\* So do the passing of time, the recorder's completions and a restart.
LEMMA WorldGate ==
    ASSUME TypeOK, GateInv
    PROVE  /\ \A s \in Sessions : Finalise(s) => GateInv'
           /\ Clock => GateInv'
           /\ Restart => GateInv'
  <1>1. ASSUME NEW s \in Sessions, Finalise(s)
        PROVE  GateInv'
    <2>1. GateKept
      BY <1>1, RowKept, RowStep DEF Finalise, TypeOK
    <2>2. NoNewVerdict
      BY <1>1, CallsSame DEF Finalise
    <2> QED
      BY <2>1, <2>2, KeptGate
  <1>2. ASSUME Clock
        PROVE  GateInv'
    <2>1. GateKept
      BY <1>2, RowKept DEF Clock, TypeOK, GateKept, KeepsGate
    <2>2. NoNewVerdict
      BY <1>2, CallsSame DEF Clock
    <2> QED
      BY <2>1, <2>2, KeptGate
  <1>3. ASSUME Restart
        PROVE  GateInv'
    <2>1. NoNewVerdict
      BY <1>3 DEF Restart, NoNewVerdict, KeepsVerdict, NoCall
    <2> QED
      BY <1>3, <2>1, RowsSame, KeptGate DEF Restart
  <1> QED
    BY <1>1, <1>2, <1>3

\* Initially nothing has been decided.
LEMMA InitGate == Init => GateInv
  <1> SUFFICES ASSUME Init
               PROVE  GateInv
    OBVIOUS
  <1>1. PICK policies \in [Sessions -> Policy] :
            rows = [s \in Sessions |-> NewRow(policies[s])]
    BY DEF Init
  <1>2. ASSUME NEW s \in Sessions
        PROVE  HonestGate(rows[s].gate, rows[s].policy) /\ Armed(rows[s])
    BY <1>1 DEF NewRow, InitialState, HonestGate, Armed
  <1>3. VerdictsInFlightHonest
    BY DEF Init, NoCall, VerdictsInFlightHonest
  <1> QED
    BY <1>2, <1>3 DEF GateInv, ConsentIsHonest, TimersArmed

\* However calls overlap and however often the API restarts, the verdict a
\* row or a call in flight carries is one its session's policy allows, and a
\* session that waits or streams has the stamp its timeout is measured from.
THEOREM ConsentCorrect == Spec => []GateSound
  <1>1. TypeOK /\ GateInv /\ [Next]_vars => GateInv'
    <2> SUFFICES ASSUME TypeOK, GateInv, [Next]_vars
                 PROVE  GateInv'
      OBVIOUS
    <2>1. ASSUME NEW c \in Callers, NEW s \in Sessions, Request(c, s)
          PROVE  GateInv'
      <3>1. c \in Calls
        BY DEF Calls
      <3>2. CASE AgentAck(c, s) \/ ConsentAnswer(c, s) \/ OperatorEnd(c, s)
                 \/ AgentLost(c, s)
        BY <3>1, <3>2, ApplyGate
           DEF AgentAck, ConsentAnswer, OperatorEnd, AgentLost, EventType, People
      <3>3. CASE \E source \in Sources : FrameRead(c, s, source)
        BY <3>1, <3>3, FrameGate
      <3>4. CASE QueueRead(c, s) \/ InputRead(c, s) \/ RecordingRead(c, s)
                 \/ AudioRead(c, s)
        BY <3>1, <3>4, ControlGate
      <3>5. CASE \E quality \in Qualities : QualityRead(c, s, quality)
        BY <3>1, <3>5, ControlGate
      <3> QED
        BY <2>1, <3>2, <3>3, <3>4, <3>5 DEF Request
    <2>2. ASSUME NEW t \in Timers, NEW s \in Sessions, Tick(t, s)
          PROVE  GateInv'
      BY <2>2, ApplyGate DEF Tick, EventType, People, Calls
    <2>3. ASSUME NEW c \in Calls, Continue(c)
          PROVE  GateInv'
      BY <2>3, ApplyGate, FrameGate, ControlGate DEF Continue
    <2>4. CASE (\E s \in Sessions : Finalise(s)) \/ Clock \/ Restart
      BY <2>4, WorldGate
    <2>5. CASE UNCHANGED vars
      BY <2>5, RowsSame, CallsSame, KeptGate DEF vars
    <2> QED
      BY <2>1, <2>2, <2>3, <2>4, <2>5 DEF Next
  <1> QED
    BY <1>1, InitGate, TypeCorrect, PTL DEF Spec, GateInv, GateSound

(***************************************************************************)
(* Calls that do not meet                                                  *)
(*                                                                         *)
(* A session's memory, its event log and its recording follow the last     *)
(* gate apply() has settled: the row's own, or, between the write of the   *)
(* row and what it entails, the one it had before.  Three groups of facts  *)
(* say so, each for as long as the calls it could not stand together were  *)
(* not in flight together: the log and the gate itself while no two        *)
(* apply() were; the memory and the video while no apply() was beside      *)
(* another call; the switches while no two of them were.  Frames may       *)
(* overlap frames and switches throughout.                                 *)
(***************************************************************************)

Unstarted == {"requested", "awaiting-consent"}

\* The step from one verdict to the next that the contract allows.
Follows(before, after, policy) ==
    \/ /\ before.status = "requested"
       /\ \/ /\ after.status = "awaiting-consent" /\ after.consent = "pending"
             /\ policy.consentRequired
          \/ after.status = "active" /\ after.consent = "not-required"
          \/ after.status = "expired" /\ after.consent = "pending"
    \/ /\ before.status = "awaiting-consent"
       /\ \/ after.status = "active" /\ after.consent = "accepted"
          \/ after.status = "declined" /\ after.consent = "declined"
          \/ /\ after.status = "active" /\ after.consent = "auto-accepted"
             /\ policy.server
          \/ /\ after.status = "expired" /\ after.consent = "pending"
             /\ ~policy.server
    \/ /\ before.status \in OpenStatus
       /\ after.status \in {"ended", "failed"}
       /\ after.consent = before.consent

On(c, s)        == InFlight(c) /\ calls[c].sid = s
Deciding(c, s)  == Decides(calls[c]) /\ calls[c].sid = s
Switching(c, s) == On(c, s) /\ Switches(calls[c])
Saving(c, s)    == calls[c].at = "saved" /\ calls[c].sid = s
Pausing(c, s)   == calls[c].at = "recording-pausing" /\ calls[c].sid = s
Locking(c, s)   == calls[c].at = "input-saved" /\ calls[c].sid = s /\ ~calls[c].on

\* The gate that the session's memory answers to.
SettledAt(s, gate) ==
    \/ \E c \in Calls : Saving(c, s) /\ calls[c].before = gate
    \/ (\A c \in Calls : ~Saving(c, s)) /\ rows[s].gate = gate

\* What a deciding call knows of its session.
Decided(c) ==
    LET call == calls[c]
        s    == call.sid
    IN  /\ call.at = "decided" => rows[s].gate = call.before
        /\ call.at = "saved" => rows[s].gate = call.after
        /\ Follows(call.before, call.after, rows[s].policy)

\* A session that never streamed has no answer and no log.  While it streams,
\* the log holds the verdict alone; a restart may lose it.
LoggedAt(s, gate) ==
    /\ gate.status \in Unstarted =>
           gate.consent = "pending" /\ audit[s] = <<>>
    /\ MayStream(gate) =>
           \/ audit[s] = <<>>
           \/ \E line \in AuditFact : /\ line.says \in Granted
                                      /\ audit[s] = <<line>>
    /\ IsTerminal(gate.status) =>
           /\ \A i, j \in 1..Len(audit[s]) :
                  i # j => audit[s][i].says # audit[s][j].says
           /\ restarts = 0 => \E i \in 1..Len(audit[s]) : Ending(audit[s][i])

OrderAt(s) == VerdictsInOrder(s) =>
    /\ \A c, d \in Calls : Deciding(c, s) /\ Deciding(d, s) => c = d
    /\ \A c \in Calls : Deciding(c, s) => Decided(c)
    /\ \A gate \in SessionState : SettledAt(s, gate) => LoggedAt(s, gate)

\* Nothing is held unless the session streams.
HeldAt(s, gate) ==
    ~MayStream(gate) => /\ s \notin frames
                        /\ capture[s] = NoClaim
                        /\ rec[s] = "off"
                        /\ inputQ[s] = 0

\* The video of a session is being made, being closed, or pointed to.
FilmedAt(s, gate) ==
    s \in filmed =>
        /\ gate.consent \in Granted /\ gate.status \notin Unstarted
        /\ restarts = 0 => \/ rec[s] # "off"
                           \/ s \in stopping
                           \/ rows[s].recordingPath

AloneAt(s) == VerdictsAlone(s) =>
    /\ \A c, d \in Calls : Deciding(c, s) /\ On(d, s) => c = d
    /\ \A c \in Calls : On(c, s) /\ ~Deciding(c, s) => Active(s)
    /\ \A gate \in SessionState : SettledAt(s, gate) =>
           HeldAt(s, gate) /\ FilmedAt(s, gate)

\* What a switch in flight knows of its session.
Knows(c) ==
    LET call == calls[c]
        s    == call.sid
    IN  /\ call.at = "queue-read" => rows[s].inputEnabled
        /\ call.at = "input-saved" => rows[s].inputEnabled = call.on
        /\ call.at = "recording-read" => rows[s].recording = ~call.on
        /\ call.at = "recording-pausing" => ~call.on /\ rec[s] = "paused"

InputHeld(s) ==
    inputQ[s] > 0 => rows[s].inputEnabled \/ \E c \in Calls : Locking(c, s)

\* The flag of the row is the state of the recorder.
FlagAt(s, gate) ==
    /\ gate.status \in Unstarted => rows[s].recording
    /\ restarts = 0 /\ MayStream(gate) /\ (\A c \in Calls : ~Pausing(c, s)) =>
           (rows[s].recording <=> rec[s] = "on")

SwitchesAt(s) == NoneCrossed(s) =>
    /\ \A c, d \in Calls : Switching(c, s) /\ Switching(d, s) => c = d
    /\ \A c \in Calls : Switching(c, s) => Knows(c)
    /\ InputHeld(s)
    /\ \A gate \in SessionState : SettledAt(s, gate) => FlagAt(s, gate)

SessionAt(s) == OrderAt(s) /\ AloneAt(s) /\ SwitchesAt(s)

SessionInv == \A s \in Sessions : SessionAt(s)

\* The conditions are nested.
LEMMA Nested ==
    ASSUME NEW s
    PROVE  /\ NoneCrossed(s) => VerdictsAlone(s)
           /\ VerdictsAlone(s) => VerdictsInOrder(s)
  BY DEF NoneCrossed, VerdictsAlone, VerdictsInOrder

\* The reducer takes only the contract's steps.
LEMMA ReduceFollows ==
    ASSUME NEW state \in SessionState, NEW event \in EventType,
           NEW user \in People, NEW times \in SessionTimes,
           NEW policy \in Policy,
           state.status \in Unstarted => state.consent = "pending",
           Reduce(state, event, user, times, policy) # state
    PROVE  Follows(state, Reduce(state, event, user, times, policy), policy)
  <1> DEFINE after == Reduce(state, event, user, times, policy)
  <1> USE DEF SessionState, SessionStatus, OpenStatus, TerminalStatus,
              ConsentState, Granted, EndReason, IsTerminal, Unstarted
  <1>1. CASE IsTerminal(state.status)
    BY <1>1 DEF Reduce
  <1>2. CASE event = "agent-ack" /\ state.status = "requested"
    BY <1>2 DEF Reduce, AfterAck, Follows
  <1>3. CASE event = "user-accept" /\ state.status = "awaiting-consent"
    BY <1>3 DEF Reduce, AfterAccept, Answerer, Follows
  <1>4. CASE event = "user-decline" /\ state.status = "awaiting-consent"
    BY <1>4 DEF Reduce, AfterDecline, Answerer, Follows
  <1>5. CASE event = "tick" /\ ~IsTerminal(state.status)
    <2>1. after = AfterTick(state, times, policy)
      BY <1>5 DEF Reduce
    <2>2. CASE state.status = "requested" /\ times.requested >= AckTimeout
      <3>1. after = Closed(state, "expired", "no-ack")
        BY <2>1, <2>2 DEF AfterTick
      <3> HIDE DEF after
      <3> QED
        BY <2>2, <3>1 DEF Closed, Follows, after
    <2>3. CASE state.status = "awaiting-consent" /\ PromptExpired(state, times)
      <3>1. after = AfterNoAnswer(state, policy)
        BY <2>1, <2>3 DEF AfterTick
      <3> HIDE DEF after
      <3> QED
        BY <2>3, <3>1 DEF AfterNoAnswer, Policy, Follows, after
    <2>4. CASE state.status = "active"
      <3>1. after \in {state, Closed(state, "ended", "too-long"),
                       Closed(state, "ended", "idle")}
        BY <2>1, <2>4 DEF AfterTick
      <3> HIDE DEF after
      <3>2. after # state
        BY DEF after
      <3>3. after.status = "ended" /\ after.consent = state.consent
        BY <3>1, <3>2 DEF Closed
      <3> QED
        BY <2>4, <3>3 DEF Follows, after
    <2>5. CASE /\ state.status # "active"
               /\ ~(state.status = "requested" /\ times.requested >= AckTimeout)
               /\ ~(state.status = "awaiting-consent" /\ PromptExpired(state, times))
      <3>1. AfterTick(state, times, policy) = state
        BY <2>5 DEF AfterTick
      <3> QED
        BY <2>1, <3>1
    <2> QED
      BY <2>2, <2>3, <2>4, <2>5
  <1>6. CASE event \in {"operator-end", "agent-lost"} /\ ~IsTerminal(state.status)
    BY <1>6 DEF Reduce, Closed, Follows
  <1>7. CASE /\ ~IsTerminal(state.status)
             /\ event \notin {"tick", "operator-end", "agent-lost"}
             /\ ~(event = "agent-ack" /\ state.status = "requested")
             /\ ~(event = "user-accept" /\ state.status = "awaiting-consent")
             /\ ~(event = "user-decline" /\ state.status = "awaiting-consent")
    BY <1>7 DEF Reduce
  <1> QED
    BY <1>1, <1>2, <1>3, <1>4, <1>5, <1>6, <1>7

\* A verdict is left once, and a streaming session can only close.
LEMMA FollowsOn ==
    ASSUME NEW before \in SessionState, NEW after \in SessionState, NEW policy,
           Follows(before, after, policy)
    PROVE  /\ ~IsTerminal(before.status)
           /\ MayStream(before) => /\ after.status \in {"ended", "failed"}
                                   /\ after.consent = before.consent
           /\ MayStream(after) => /\ before.status \in Unstarted
                                  /\ after.consent \in Granted
           /\ after.status \in Unstarted => /\ before.status \in Unstarted
                                            /\ after.consent = "pending"
           /\ IsTerminal(after.status) =>
                  after.consent \in {before.consent, "pending", "declined"}
  BY DEF Follows, SessionState, SessionStatus, OpenStatus, TerminalStatus,
         Granted, IsTerminal, Unstarted, MayStream

\* What apply() appends for a step of the contract.
LEMMA AuditFollows ==
    ASSUME NEW call \in ApplyCall, NEW policy,
           Follows(call.before, call.after, policy),
           call.before.status \in Unstarted => call.before.consent = "pending"
    PROVE  /\ call.after.status \in Unstarted => AuditOf(call) = <<>>
           /\ MayStream(call.after) =>
                  \E line \in AuditFact : /\ line.says \in Granted
                                          /\ AuditOf(call) = <<line>>
           /\ IsTerminal(call.after.status) =>
                  \E line \in AuditFact : /\ Ending(line)
                                          /\ AuditOf(call) = <<line>>
  <1>1. /\ call.after \in SessionState /\ call.before \in SessionState
        /\ AuditLine(call.after) \in AuditFact
        /\ EndLine(call.after) \in AuditFact
    <2>1. call.after \in SessionState /\ call.before \in SessionState
      BY DEF ApplyCall
    <2> QED
      BY <2>1 DEF AuditLine, EndLine, AuditFact, SessionState, People
  <1>2. /\ AuditLine(call.after).says = call.after.consent
        /\ EndLine(call.after).says = call.after.status
    BY DEF AuditLine, EndLine
  <1>3. CASE call.after.status \in Unstarted
    <2>1. call.before.consent = call.after.consent
      BY <1>1, <1>3, FollowsOn
    <2> QED
      BY <1>3, <2>1 DEF AuditOf, IsTerminal, TerminalStatus, Unstarted, MayStream
  <1>4. CASE MayStream(call.after)
    <2>1. call.before.consent = "pending" /\ call.after.consent \in Granted
      BY <1>1, <1>4, FollowsOn
    <2>2. AuditOf(call) = <<AuditLine(call.after)>>
      BY <2>1 DEF AuditOf, Granted
    <2>3. \E line \in AuditFact : line.says \in Granted /\ AuditOf(call) = <<line>>
      BY <1>1, <1>2, <2>1, <2>2
    <2> QED
      BY <1>4, <2>3 DEF MayStream, Unstarted, IsTerminal, TerminalStatus
  <1>5. CASE IsTerminal(call.after.status)
    <2>1. CASE call.before.consent = call.after.consent
      <3>1. AuditOf(call) = <<EndLine(call.after)>>
        BY <1>5, <2>1 DEF AuditOf
      <3>2. Ending(EndLine(call.after))
        BY <1>2, <1>5 DEF Ending, IsTerminal, TerminalStatus
      <3> QED
        BY <1>1, <1>5, <3>1, <3>2
           DEF IsTerminal, TerminalStatus, MayStream, Unstarted
    <2>2. CASE call.before.consent # call.after.consent
      <3>1. AuditOf(call) = <<AuditLine(call.after)>>
        BY <2>2 DEF AuditOf
      <3>2. call.after.consent = "declined"
        BY <1>1, <1>5, <2>2 DEF Follows, IsTerminal, TerminalStatus, Unstarted
      <3>3. Ending(AuditLine(call.after))
        BY <1>2, <3>2 DEF Ending
      <3> QED
        BY <1>1, <1>5, <3>1, <3>3
           DEF IsTerminal, TerminalStatus, MayStream, Unstarted
    <2> QED
      BY <2>1, <2>2
  <1> QED
    BY <1>3, <1>4, <1>5

\* A log of at most one line, and one more.
LEMMA ShortLogs ==
    /\ <<>> \o <<>> = <<>>
    /\ \A i, j \in 1..Len(<<>>) : i # j => FALSE
    /\ \A line : /\ <<>> \o <<line>> = <<line>>
                 /\ <<line>> \o <<>> = <<line>>
                 /\ \A i, j \in 1..Len(<<line>>) : i = j
    /\ \A first, last : /\ Len(<<first>> \o <<last>>) = 2
                        /\ (<<first>> \o <<last>>)[1] = first
                        /\ (<<first>> \o <<last>>)[2] = last
  <1>1. ASSUME NEW line, NEW i \in 1..Len(<<line>>), NEW j \in 1..Len(<<line>>)
        PROVE  i = j
    <2>1. Len(<<line>>) = 1
      OBVIOUS
    <2>2. i \in 1..1 /\ j \in 1..1
      BY <2>1
    <2> QED
      BY <2>2
  <1>2. \A i, j \in 1..Len(<<>>) : i # j => FALSE
    OBVIOUS
  <1>3. \A line : <<>> \o <<line>> = <<line>> /\ <<line>> \o <<>> = <<line>>
    OBVIOUS
  <1>4. ASSUME NEW first, NEW last
        PROVE  /\ Len(<<first>> \o <<last>>) = 2
               /\ (<<first>> \o <<last>>)[1] = first
               /\ (<<first>> \o <<last>>)[2] = last
    <2> DEFINE S == {first, last}
    <2>1. <<first>> \in Seq(S) /\ <<last>> \in Seq(S)
      OBVIOUS
    <2>2. /\ Len(<<first>>) = 1 /\ Len(<<last>>) = 1
          /\ <<first>>[1] = first /\ <<last>>[1] = last
      OBVIOUS
    <2> DEFINE one == <<first>>
               two == <<last>>
    <2>3. one \in Seq(S) /\ two \in Seq(S) /\ Len(one) = 1 /\ Len(two) = 1
          /\ one[1] = first /\ two[1] = last
      BY <2>1, <2>2
    <2> HIDE DEF one, two, S
    <2>4. /\ Len(one \o two) = Len(one) + Len(two)
          /\ \A i \in 1 .. Len(one) + Len(two) : (one \o two)[i] =
                 IF i <= Len(one) THEN one[i] ELSE two[i - Len(one)]
      BY <2>3, ConcatProperties
    <2>5. Len(one \o two) = 2 /\ (one \o two)[1] = first /\ (one \o two)[2] = last
      BY <2>3, <2>4
    <2> QED
      BY <2>5 DEF one, two
  <1> QED
    BY <1>1, <1>2, <1>3, <1>4

\* What a step on session s leaves alone.
Elsewhere(s) ==
    /\ restarts' = restarts
    /\ \A r \in Sessions \ {s} :
           /\ rows'[r] = rows[r]
           /\ r \in frames' <=> r \in frames
           /\ capture'[r] = capture[r]
           /\ inputQ'[r] = inputQ[r]
           /\ rec'[r] = rec[r]
           /\ r \in stopping' <=> r \in stopping
           /\ r \in filmed' <=> r \in filmed
           /\ audit'[r] = audit[r]
           /\ crossed'[r] = crossed[r]

\* Call c takes a step on session s.
StepAt(c, s) ==
    /\ \A d \in Calls \ {c} : calls'[d] = calls[d]
    /\ calls[c] = NoCall \/ calls[c].sid = s
    /\ calls'[c] = NoCall \/ calls'[c].sid = s
    /\ Elsewhere(s)

\* Such a step concerns no other session.
LEMMA OthersKept ==
    ASSUME NEW c \in Calls, NEW s \in Sessions, StepAt(c, s),
           NEW r \in Sessions, r # s, SessionAt(r)
    PROVE  SessionAt(r)'
  <1>1. ASSUME NEW d \in Calls
        PROVE  /\ On(d, r)' <=> On(d, r)
               /\ Deciding(d, r)' <=> Deciding(d, r)
               /\ Saving(d, r)' <=> Saving(d, r)
               /\ Switching(d, r)' <=> Switching(d, r)
               /\ Pausing(d, r)' <=> Pausing(d, r)
               /\ Locking(d, r)' <=> Locking(d, r)
               /\ On(d, r) \/ Deciding(d, r) \/ Saving(d, r) =>
                      calls[d].sid = r /\ calls'[d] = calls[d]
    <2>1. CASE d = c
      BY <2>1 DEF StepAt, On, Deciding, Saving, Switching, Pausing, Locking,
                  InFlight, Decides, NoCall
    <2>2. CASE d # c
      BY <2>2 DEF StepAt, On, Deciding, Saving, Switching, Pausing, Locking,
                  InFlight
    <2> QED
      BY <2>1, <2>2
  <1>2. \A gate : SettledAt(r, gate)' <=> SettledAt(r, gate)
    BY <1>1 DEF StepAt, Elsewhere, SettledAt
  <1>3. OrderAt(r)'
    <2>1. VerdictsInOrder(r)' => VerdictsInOrder(r)
      BY DEF StepAt, Elsewhere, VerdictsInOrder
    <2>2. ASSUME NEW d \in Calls, Deciding(d, r)', Decided(d)
          PROVE  Decided(d)'
      <3>1. calls[d].sid = r /\ calls'[d] = calls[d] /\ rows'[r] = rows[r]
        BY <1>1, <2>2 DEF StepAt, Elsewhere
      <3> QED
        BY <2>2, <3>1 DEF Decided
    <2>3. \A gate : LoggedAt(r, gate) => LoggedAt(r, gate)'
      BY DEF StepAt, Elsewhere, LoggedAt
    <2> QED
      BY <1>1, <1>2, <2>1, <2>2, <2>3 DEF SessionAt, OrderAt
  <1>4. AloneAt(r)'
    <2>1. VerdictsAlone(r)' => VerdictsAlone(r)
      BY DEF StepAt, Elsewhere, VerdictsAlone
    <2>2. \A gate : HeldAt(r, gate) /\ FilmedAt(r, gate)
                        => HeldAt(r, gate)' /\ FilmedAt(r, gate)'
      BY DEF StepAt, Elsewhere, HeldAt, FilmedAt
    <2>3. Active(r)' <=> Active(r)
      BY DEF StepAt, Elsewhere, Active
    <2> QED
      BY <1>1, <1>2, <2>1, <2>2, <2>3 DEF SessionAt, AloneAt
  <1>5. SwitchesAt(r)'
    <2>1. NoneCrossed(r)' => NoneCrossed(r)
      BY DEF StepAt, Elsewhere, NoneCrossed
    <2>2. ASSUME NEW d \in Calls, Switching(d, r)', Knows(d)
          PROVE  Knows(d)'
      <3>1. /\ calls[d].sid = r /\ calls'[d] = calls[d]
            /\ rows'[r] = rows[r] /\ rec'[r] = rec[r]
        BY <1>1, <2>2 DEF StepAt, Elsewhere, Switching
      <3> QED
        BY <2>2, <3>1 DEF Knows
    <2>3. InputHeld(r) => InputHeld(r)'
      BY <1>1 DEF StepAt, Elsewhere, InputHeld
    <2>4. \A gate : FlagAt(r, gate) => FlagAt(r, gate)'
      BY <1>1 DEF StepAt, Elsewhere, FlagAt
    <2> QED
      BY <1>1, <1>2, <2>1, <2>2, <2>3, <2>4 DEF SessionAt, SwitchesAt
  <1> QED
    BY <1>3, <1>4, <1>5 DEF SessionAt

\* So it is enough to look at the session of the call.
LEMMA OneSession ==
    ASSUME SessionInv, NEW c \in Calls, NEW s \in Sessions, StepAt(c, s),
           SessionAt(s)'
    PROVE  SessionInv'
  BY OthersKept DEF SessionInv

(***************************************************************************)
(* Calls that start                                                        *)
(***************************************************************************)

\* A step that writes no row and leaves the maps and the log alone.
Still == UNCHANGED <<rows, memory, audit, filmed, restarts>>

\* What starts finds no call in flight that the condition excludes.
LEMMA StartFacts ==
    ASSUME TypeOK, NEW c \in Calls, NEW s \in Sessions, NEW call,
           call.sid = s, Start(c, call), Still
    PROVE  /\ calls[c] = NoCall /\ calls'[c] = call
           /\ \A d \in Calls \ {c} : calls'[d] = calls[d]
           /\ StepAt(c, s)
           /\ VerdictsInOrder(s)' =>
                  /\ VerdictsInOrder(s)
                  /\ Decides(call) => \A d \in Calls : ~Deciding(d, s)
           /\ VerdictsAlone(s)' =>
                  /\ VerdictsAlone(s)
                  /\ Decides(call) => \A d \in Calls : ~On(d, s)
                  /\ ~Decides(call) => \A d \in Calls : ~Deciding(d, s)
           /\ NoneCrossed(s)' =>
                  /\ NoneCrossed(s)
                  /\ Switches(call) => \A d \in Calls : ~Switching(d, s)
  <1>1. /\ calls[c] = NoCall /\ calls'[c] = call
        /\ \A d \in Calls \ {c} : calls'[d] = calls[d]
    BY DEF Start, InFlight, Begin, TypeOK
  <1>2. /\ crossed'[s] = crossed[s] \cup
                           {kind \in Crossings : Crosses(call, s, kind)}
        /\ \A r \in Sessions \ {s} : crossed'[r] = crossed[r]
    BY DEF Start, TypeOK
  <1>3. StepAt(c, s)
    BY <1>1, <1>2 DEF StepAt, Elsewhere, Still, memory
  <1>4. ASSUME NEW d \in Calls, Deciding(d, s)
        PROVE  On(d, s) /\ d \in At(s) /\ Decides(calls[d])
    BY <1>4 DEF Deciding, Decides, On, At, InFlight, NoCall
  <1>5. ASSUME NEW d \in Calls, On(d, s)
        PROVE  d \in At(s) /\ (Decides(calls[d]) <=> Deciding(d, s))
    BY <1>5 DEF On, At, Deciding
  <1>6. ASSUME NEW d \in Calls, On(d, s)
        PROVE  /\ Decides(call) /\ Decides(calls[d]) => "verdicts" \in crossed'[s]
               /\ Decides(call) # Decides(calls[d]) => "verdict" \in crossed'[s]
               /\ Switches(call) /\ Switches(calls[d]) => "switches" \in crossed'[s]
    <2>1. \A kind \in Crossings : Crosses(call, s, kind) => kind \in crossed'[s]
      BY <1>2
    <2>2. "verdicts" \in Crossings /\ "verdict" \in Crossings
          /\ "switches" \in Crossings
      BY DEF Crossings
    <2>3. d \in At(s)
      BY <1>5, <1>6
    <2>4. Decides(call) /\ Decides(calls[d]) => Crosses(call, s, "verdicts")
      BY <2>3 DEF Crosses
    <2>5. Decides(call) # Decides(calls[d]) => Crosses(call, s, "verdict")
      BY <2>3 DEF Crosses
    <2>6. Switches(call) /\ Switches(calls[d]) => Crosses(call, s, "switches")
      BY <2>3 DEF Crosses
    <2> QED
      BY <2>1, <2>2, <2>4, <2>5, <2>6
  <1>7. Decides(call) \in BOOLEAN /\ \A d \in Calls : Decides(calls[d]) \in BOOLEAN
    BY DEF Decides
  <1>8. VerdictsInOrder(s)' =>
            /\ VerdictsInOrder(s)
            /\ Decides(call) => \A d \in Calls : ~Deciding(d, s)
    BY <1>2, <1>4, <1>6 DEF VerdictsInOrder
  <1>9. VerdictsAlone(s)' =>
            /\ VerdictsAlone(s)
            /\ Decides(call) => \A d \in Calls : ~On(d, s)
            /\ ~Decides(call) => \A d \in Calls : ~Deciding(d, s)
    <2>1. VerdictsAlone(s)' =>
              /\ VerdictsAlone(s)
              /\ "verdicts" \notin crossed'[s] /\ "verdict" \notin crossed'[s]
      BY <1>2 DEF VerdictsAlone
    <2> QED
      BY <2>1, <1>4, <1>6, <1>7
  <1>10. NoneCrossed(s)' =>
            /\ NoneCrossed(s)
            /\ Switches(call) => \A d \in Calls : ~Switching(d, s)
    BY <1>2, <1>6 DEF NoneCrossed, Switching
  <1> QED
    BY <1>1, <1>3, <1>8, <1>9, <1>10

\* A call that starts and knows what it needs of its session.
LEMMA Starts ==
    ASSUME TypeOK, SessionInv, NEW c \in Calls, NEW s \in Sessions, NEW call,
           call.sid = s, Start(c, call), Still,
           call.at \in {"decided", "frame-read", "queue-read", "input-read",
                        "recording-read", "audio-read", "quality-read"},
           call.at # "decided" => Active(s),
           call.at = "decided" /\ VerdictsInOrder(s)' => Decided(c)',
           Knows(c)'
    PROVE  SessionInv'
  <1>1. /\ calls[c] = NoCall /\ calls'[c] = call
        /\ \A d \in Calls \ {c} : calls'[d] = calls[d]
        /\ StepAt(c, s)
        /\ VerdictsInOrder(s)' =>
               /\ VerdictsInOrder(s)
               /\ Decides(call) => \A d \in Calls : ~Deciding(d, s)
        /\ VerdictsAlone(s)' =>
               /\ VerdictsAlone(s)
               /\ Decides(call) => \A d \in Calls : ~On(d, s)
               /\ ~Decides(call) => \A d \in Calls : ~Deciding(d, s)
        /\ NoneCrossed(s)' =>
               /\ NoneCrossed(s)
               /\ Switches(call) => \A d \in Calls : ~Switching(d, s)
    BY StartFacts
  <1>2. /\ rows' = rows /\ frames' = frames /\ capture' = capture
        /\ inputQ' = inputQ /\ rec' = rec /\ stopping' = stopping
        /\ audit' = audit /\ filmed' = filmed /\ restarts' = restarts
    BY DEF Still, memory
  <1>3. ASSUME NEW d \in Calls
        PROVE  /\ Saving(d, s)' <=> Saving(d, s)
               /\ Pausing(d, s)' <=> Pausing(d, s)
               /\ Locking(d, s)' <=> Locking(d, s)
               /\ Saving(d, s) => calls'[d] = calls[d]
    <2>1. CASE d = c
      BY <1>1, <2>1 DEF Saving, Pausing, Locking, NoCall
    <2>2. CASE d # c
      BY <1>1, <2>2 DEF Saving, Pausing, Locking
    <2> QED
      BY <2>1, <2>2
  <1>4. \A gate : SettledAt(s, gate)' <=> SettledAt(s, gate)
    BY <1>2, <1>3 DEF SettledAt
  <1>5. ASSUME NEW d \in Calls, d # c
        PROVE  /\ On(d, s)' <=> On(d, s)
               /\ Deciding(d, s)' <=> Deciding(d, s)
               /\ Switching(d, s)' <=> Switching(d, s)
               /\ Decided(d)' <=> Decided(d)
               /\ Knows(d)' <=> Knows(d)
    BY <1>1, <1>2, <1>5 DEF On, InFlight, Deciding, Switching, Decided, Knows
  <1>6. /\ Deciding(c, s)' <=> Decides(call)
        /\ Switching(c, s)' => Switches(call)
        /\ Decides(call) <=> call.at = "decided"
    BY <1>1 DEF Deciding, Switching, Decides
  <1>7. SessionAt(s)
    BY DEF SessionInv
  <1>8. OrderAt(s)'
    <2>1. \A gate : LoggedAt(s, gate)' <=> LoggedAt(s, gate)
      BY <1>2 DEF LoggedAt
    <2> SUFFICES ASSUME VerdictsInOrder(s)'
                 PROVE  /\ \A d, e \in Calls :
                               Deciding(d, s)' /\ Deciding(e, s)' => d = e
                        /\ \A d \in Calls : Deciding(d, s)' => Decided(d)'
                        /\ \A gate \in SessionState :
                               SettledAt(s, gate)' => LoggedAt(s, gate)'
      BY DEF OrderAt
    <2>2. /\ \A d, e \in Calls : Deciding(d, s) /\ Deciding(e, s) => d = e
          /\ \A d \in Calls : Deciding(d, s) => Decided(d)
          /\ \A gate \in SessionState : SettledAt(s, gate) => LoggedAt(s, gate)
          /\ Decides(call) => \A d \in Calls : ~Deciding(d, s)
      BY <1>1, <1>7 DEF SessionAt, OrderAt
    <2>3. \A d \in Calls : Deciding(d, s)' => Decided(d)'
      BY <1>5, <1>6, <2>2
    <2>4. \A d, e \in Calls : Deciding(d, s)' /\ Deciding(e, s)' => d = e
      BY <1>5, <1>6, <2>2
    <2> QED
      BY <1>4, <2>1, <2>2, <2>3, <2>4
  <1>9. AloneAt(s)'
    <2>1. /\ \A gate : HeldAt(s, gate)' <=> HeldAt(s, gate)
          /\ \A gate : FilmedAt(s, gate)' <=> FilmedAt(s, gate)
          /\ Active(s)' <=> Active(s)
      BY <1>2 DEF HeldAt, FilmedAt, Active
    <2> SUFFICES ASSUME VerdictsAlone(s)'
                 PROVE  /\ \A d, e \in Calls :
                               Deciding(d, s)' /\ On(e, s)' => d = e
                        /\ \A d \in Calls :
                               On(d, s)' /\ ~Deciding(d, s)' => Active(s)'
                        /\ \A gate \in SessionState : SettledAt(s, gate)' =>
                               HeldAt(s, gate)' /\ FilmedAt(s, gate)'
      BY DEF AloneAt
    <2>2. /\ \A d, e \in Calls : Deciding(d, s) /\ On(e, s) => d = e
          /\ \A d \in Calls : On(d, s) /\ ~Deciding(d, s) => Active(s)
          /\ \A gate \in SessionState : SettledAt(s, gate) =>
                 HeldAt(s, gate) /\ FilmedAt(s, gate)
      BY <1>1, <1>7 DEF SessionAt, AloneAt
    <2>5. \A d \in Calls : Deciding(d, s) => On(d, s)
      BY DEF Deciding, Decides, On, InFlight, NoCall
    <2>3. ASSUME NEW d \in Calls, NEW e \in Calls, Deciding(d, s)', On(e, s)'
          PROVE  d = e
      <3>1. CASE d = c
        BY <1>1, <1>5, <1>6, <2>3, <3>1
      <3>2. CASE d # c /\ e = c
        BY <1>1, <1>5, <2>3, <2>5, <3>2
      <3>3. CASE d # c /\ e # c
        BY <1>5, <2>2, <2>3, <3>3
      <3> QED
        BY <3>1, <3>2, <3>3
    <2>4. \A d \in Calls : On(d, s)' /\ ~Deciding(d, s)' => Active(s)
      BY <1>5, <1>6, <2>2
    <2> QED
      BY <1>4, <2>1, <2>2, <2>3, <2>4
  <1>10. SwitchesAt(s)'
    <2>1. /\ \A gate : FlagAt(s, gate)' <=> FlagAt(s, gate)
          /\ InputHeld(s)' <=> InputHeld(s)
      BY <1>2, <1>3 DEF FlagAt, InputHeld
    <2> SUFFICES ASSUME NoneCrossed(s)'
                 PROVE  /\ \A d, e \in Calls :
                               Switching(d, s)' /\ Switching(e, s)' => d = e
                        /\ \A d \in Calls : Switching(d, s)' => Knows(d)'
                        /\ InputHeld(s)'
                        /\ \A gate \in SessionState :
                               SettledAt(s, gate)' => FlagAt(s, gate)'
      BY DEF SwitchesAt
    <2>2. /\ \A d, e \in Calls : Switching(d, s) /\ Switching(e, s) => d = e
          /\ \A d \in Calls : Switching(d, s) => Knows(d)
          /\ InputHeld(s)
          /\ \A gate \in SessionState : SettledAt(s, gate) => FlagAt(s, gate)
      BY <1>1, <1>7 DEF SessionAt, SwitchesAt
    <2>3. \A d, e \in Calls : Switching(d, s)' /\ Switching(e, s)' => d = e
      BY <1>1, <1>5, <1>6, <2>2
    <2>4. \A d \in Calls : Switching(d, s)' => Knows(d)'
      BY <1>5, <2>2
    <2> QED
      BY <1>4, <2>1, <2>2, <2>3, <2>4
  <1>11. SessionAt(s)'
    BY <1>8, <1>9, <1>10 DEF SessionAt
  <1> QED
    BY <1>1, <1>11, OneSession

\* apply() reads the row.
LEMMA ApplyStarts ==
    ASSUME TypeOK, SessionInv, NEW c \in Calls, NEW s \in Sessions,
           NEW event \in EventType, NEW user \in People,
           ApplyRead(c, s, event, user)
    PROVE  SessionInv'
  <1> DEFINE before == rows[s].gate
             after  == Reduce(before, event, user, rows[s].times, rows[s].policy)
  <1>1. after # before
    BY DEF ApplyRead
  <1>2. /\ before \in SessionState /\ rows[s].times \in SessionTimes
        /\ rows[s].policy \in Policy
    BY DEF TypeOK, Row
  <1>3. ASSUME before.status \in Unstarted => before.consent = "pending"
        PROVE  Follows(before, after, rows[s].policy)
    BY <1>1, <1>2, <1>3, ReduceFollows
  <1> HIDE DEF after
  <1> DEFINE call == [at |-> "decided", sid |-> s,
                      before |-> before, after |-> after]
  <1>4. /\ call.sid = s /\ call.at = "decided" /\ Decides(call)
        /\ call.before = before /\ call.after = after
    BY DEF Decides
  <1>5. Start(c, call) /\ Still
    BY DEF ApplyRead, Still, after
  <1> HIDE DEF call
  <1>6. /\ calls'[c] = call
        /\ VerdictsInOrder(s)' => /\ VerdictsInOrder(s)
                                  /\ \A d \in Calls : ~Deciding(d, s)
    BY <1>4, <1>5, StartFacts
  <1>7. rows' = rows
    BY <1>5 DEF Still
  <1>8. ASSUME VerdictsInOrder(s)'
        PROVE  Decided(c)'
    <2>1. SettledAt(s, before)
      BY <1>6, <1>8 DEF SettledAt, Saving, Deciding, Decides
    <2>2. LoggedAt(s, before)
      BY <1>2, <1>6, <1>8, <2>1 DEF SessionInv, SessionAt, OrderAt
    <2>3. Follows(before, after, rows[s].policy)
      BY <1>3, <2>2 DEF LoggedAt
    <2> QED
      BY <1>4, <1>6, <1>7, <2>3 DEF Decided
  <1>9. Knows(c)'
    BY <1>4, <1>6 DEF Knows
  <1> QED
    BY <1>4, <1>5, <1>8, <1>9, Starts

\* The other calls read the row of a streaming session.
LEMMA WorkStarts ==
    ASSUME TypeOK, SessionInv, NEW c \in Calls, NEW s \in Sessions
    PROVE  /\ \A source \in Sources : FrameRead(c, s, source) => SessionInv'
           /\ QueueRead(c, s) => SessionInv'
           /\ InputRead(c, s) \/ RecordingRead(c, s) \/ AudioRead(c, s)
                 => SessionInv'
           /\ \A quality \in Qualities : QualityRead(c, s, quality) => SessionInv'
  <1>1. ASSUME NEW source \in Sources, FrameRead(c, s, source)
        PROVE  SessionInv'
    <2> DEFINE call == [at |-> "frame-read", sid |-> s, source |-> source]
    <2>1. /\ Start(c, call) /\ Still /\ Active(s)
          /\ call.sid = s /\ call.at = "frame-read"
      BY <1>1 DEF FrameRead, Still
    <2> HIDE DEF call
    <2>2. calls'[c] = call
      BY <2>1, StartFacts
    <2>3. Knows(c)'
      BY <2>1, <2>2 DEF Knows
    <2> QED
      BY <2>1, <2>3, Starts
  <1>2. ASSUME QueueRead(c, s)
        PROVE  SessionInv'
    <2> DEFINE call == [at |-> "queue-read", sid |-> s]
    <2>1. /\ Start(c, call) /\ Still /\ Active(s) /\ rows[s].inputEnabled
          /\ call.sid = s /\ call.at = "queue-read"
      BY <1>2 DEF QueueRead, Still
    <2> HIDE DEF call
    <2>2. calls'[c] = call /\ rows' = rows
      BY <2>1, StartFacts DEF Still
    <2>3. Knows(c)'
      BY <2>1, <2>2 DEF Knows
    <2> QED
      BY <2>1, <2>3, Starts
  <1>3. ASSUME NEW at \in {"input-read", "recording-read", "audio-read"},
               NEW feature, NEW column \in BOOLEAN,
               at = "recording-read" => column = rows[s].recording,
               SwitchRead(c, s, feature, column, at)
        PROVE  SessionInv'
    <2> DEFINE call == [at |-> at, sid |-> s, on |-> ~column]
    <2>1. /\ Start(c, call) /\ Still /\ Active(s)
          /\ call.sid = s /\ call.at = at /\ call.on = ~column
      BY <1>3 DEF SwitchRead, Still
    <2> HIDE DEF call
    <2>2. calls'[c] = call /\ rows' = rows
      BY <2>1, StartFacts DEF Still
    <2>3. at = "recording-read" => rows[s].recording = ~~column
      BY <1>3
    <2>4. Knows(c)'
      BY <2>1, <2>2, <2>3 DEF Knows
    <2> QED
      BY <2>1, <2>4, Starts
  <1>4. ASSUME InputRead(c, s) \/ RecordingRead(c, s) \/ AudioRead(c, s)
        PROVE  SessionInv'
    <2>1. /\ rows[s].inputEnabled \in BOOLEAN
          /\ rows[s].recording \in BOOLEAN
          /\ rows[s].audioEnabled \in BOOLEAN
      BY DEF TypeOK, Row
    <2>2. CASE InputRead(c, s)
      BY <1>3, <2>1, <2>2 DEF InputRead
    <2>3. CASE RecordingRead(c, s)
      BY <1>3, <2>1, <2>3 DEF RecordingRead
    <2>4. CASE AudioRead(c, s)
      BY <1>3, <2>1, <2>4 DEF AudioRead
    <2> QED
      BY <1>4, <2>2, <2>3, <2>4
  <1>5. ASSUME NEW quality \in Qualities, QualityRead(c, s, quality)
        PROVE  SessionInv'
    <2> DEFINE call == [at |-> "quality-read", sid |-> s, quality |-> quality]
    <2>1. /\ Start(c, call) /\ Still /\ Active(s)
          /\ call.sid = s /\ call.at = "quality-read"
      BY <1>5 DEF QualityRead, Still
    <2> HIDE DEF call
    <2>2. calls'[c] = call
      BY <2>1, StartFacts
    <2>3. Knows(c)'
      BY <2>1, <2>2 DEF Knows
    <2> QED
      BY <2>1, <2>3, Starts
  <1> QED
    BY <1>1, <1>2, <1>4, <1>5

(***************************************************************************)
(* Calls at work on a streaming session                                    *)
(***************************************************************************)

\* A call that decides nothing moves on or ends.  It writes no verdict and no
\* line, adds to the video of a running recorder only, and stops none.
WorkOn(c, s) ==
    /\ InFlight(c) /\ ~Decides(calls[c])
    /\ calls[c].sid = s
    /\ \A d \in Calls \ {c} : calls'[d] = calls[d]
    /\ \/ calls'[c] = NoCall
       \/ /\ calls'[c].sid = s /\ ~Decides(calls'[c])
          /\ Switches(calls'[c]) => Switches(calls[c])
    /\ Elsewhere(s)
    /\ rows'[s].gate = rows[s].gate
    /\ rows'[s].policy = rows[s].policy
    /\ rows'[s].recordingPath = rows[s].recordingPath
    /\ audit'[s] = audit[s]
    /\ crossed'[s] = crossed[s]
    /\ s \in stopping' <=> s \in stopping
    /\ s \in filmed' => s \in filmed \/ rec[s] = "on"
    /\ rec[s] # "off" => rec'[s] # "off"

\* Such a step is one of its call on its session.
LEMMA WorkStep ==
    ASSUME NEW c \in Calls, NEW s \in Sessions, WorkOn(c, s)
    PROVE  /\ StepAt(c, s)
           /\ On(c, s) /\ ~Deciding(c, s) /\ ~Deciding(c, s)'
           /\ Switching(c, s)' => Switching(c, s)
           /\ \A d \in Calls \ {c} :
                  /\ On(d, s)' <=> On(d, s)
                  /\ Deciding(d, s)' <=> Deciding(d, s)
                  /\ Switching(d, s)' <=> Switching(d, s)
                  /\ Pausing(d, s)' <=> Pausing(d, s)
                  /\ Locking(d, s)' <=> Locking(d, s)
           /\ \A gate : SettledAt(s, gate)' <=> SettledAt(s, gate)
  <1>1. StepAt(c, s)
    BY DEF WorkOn, StepAt
  <1>2. On(c, s) /\ ~Deciding(c, s) /\ ~Deciding(c, s)'
    BY DEF WorkOn, On, Deciding, Decides, NoCall
  <1>3. Switching(c, s)' => Switching(c, s)
    BY DEF WorkOn, Switching, On, InFlight
  <1>4. ASSUME NEW d \in Calls, d # c
        PROVE  /\ On(d, s)' <=> On(d, s)
               /\ Deciding(d, s)' <=> Deciding(d, s)
               /\ Switching(d, s)' <=> Switching(d, s)
               /\ Pausing(d, s)' <=> Pausing(d, s)
               /\ Locking(d, s)' <=> Locking(d, s)
               /\ Saving(d, s)' <=> Saving(d, s)
               /\ calls'[d] = calls[d]
    BY <1>4 DEF WorkOn, On, InFlight, Deciding, Switching, Pausing, Locking, Saving
  <1>5. ~Saving(c, s) /\ ~Saving(c, s)'
    BY <1>2 DEF Saving, Deciding, Decides
  <1>6. \A gate : SettledAt(s, gate)' <=> SettledAt(s, gate)
    <2>1. rows'[s].gate = rows[s].gate
      BY DEF WorkOn
    <2> QED
      BY <1>4, <1>5, <2>1 DEF SettledAt
  <1> QED
    BY <1>1, <1>2, <1>3, <1>4, <1>6

\* The gate, the log, the memory and the video stand it.
LEMMA WorkKeeps ==
    ASSUME TypeOK, GateSound, SessionInv, NEW c \in Calls, NEW s \in Sessions,
           WorkOn(c, s), SwitchesAt(s)'
    PROVE  SessionInv'
  <1>1. /\ StepAt(c, s)
        /\ On(c, s) /\ ~Deciding(c, s) /\ ~Deciding(c, s)'
        /\ \A d \in Calls \ {c} : /\ On(d, s)' <=> On(d, s)
                                  /\ Deciding(d, s)' <=> Deciding(d, s)
        /\ \A gate : SettledAt(s, gate)' <=> SettledAt(s, gate)
    BY WorkStep
  <1>2. SessionAt(s)
    BY DEF SessionInv
  <1>3. OrderAt(s)'
    <2>1. VerdictsInOrder(s)' <=> VerdictsInOrder(s)
      BY DEF WorkOn, VerdictsInOrder
    <2>2. ASSUME NEW d \in Calls, Deciding(d, s)', Decided(d)
          PROVE  Decided(d)'
      <3>1. /\ calls'[d] = calls[d] /\ calls[d].sid = s
            /\ rows'[s].gate = rows[s].gate /\ rows'[s].policy = rows[s].policy
        BY <1>1, <2>2 DEF WorkOn, Deciding
      <3> QED
        BY <2>2, <3>1 DEF Decided
    <2>3. \A gate : LoggedAt(s, gate)' <=> LoggedAt(s, gate)
      BY DEF WorkOn, Elsewhere, LoggedAt
    <2> QED
      BY <1>1, <1>2, <2>1, <2>2, <2>3 DEF SessionAt, OrderAt
  <1>4. AloneAt(s)'
    <2> SUFFICES ASSUME VerdictsAlone(s)'
                 PROVE  /\ \A d, e \in Calls :
                               Deciding(d, s)' /\ On(e, s)' => d = e
                        /\ \A d \in Calls :
                               On(d, s)' /\ ~Deciding(d, s)' => Active(s)'
                        /\ \A gate \in SessionState : SettledAt(s, gate)' =>
                               HeldAt(s, gate)' /\ FilmedAt(s, gate)'
      BY DEF AloneAt
    <2>1. /\ \A d, e \in Calls : Deciding(d, s) /\ On(e, s) => d = e
          /\ \A d \in Calls : On(d, s) /\ ~Deciding(d, s) => Active(s)
          /\ \A gate \in SessionState : SettledAt(s, gate) => FilmedAt(s, gate)
      <3>1. VerdictsAlone(s)
        BY DEF WorkOn, VerdictsAlone
      <3> QED
        BY <1>2, <3>1 DEF SessionAt, AloneAt
    <2>2. Active(s) /\ \A d \in Calls : ~Deciding(d, s) /\ ~Deciding(d, s)'
      BY <1>1, <2>1
    <2>3. Active(s)'
      BY <2>2 DEF WorkOn, Active
    <2>4. ASSUME NEW gate \in SessionState, SettledAt(s, gate)'
          PROVE  HeldAt(s, gate)' /\ FilmedAt(s, gate)'
      <3>1. SettledAt(s, gate)
        BY <1>1, <2>4
      <3>2. \A d \in Calls : ~Saving(d, s)
        BY <2>2 DEF Saving, Deciding, Decides
      <3>3. rows[s].gate = gate
        BY <3>1, <3>2 DEF SettledAt
      <3>4. gate.status = "active" /\ gate.consent \in Granted
        BY <2>2, <3>3 DEF Active, MayStream, GateSound, ConsentIsHonest, HonestGate
      <3>5. HeldAt(s, gate)'
        BY <3>4 DEF HeldAt, MayStream
      <3>6. FilmedAt(s, gate)
        BY <2>1, <3>1
      <3>7. FilmedAt(s, gate)'
        BY <3>4, <3>6 DEF WorkOn, Elsewhere, FilmedAt, Unstarted
      <3> QED
        BY <3>5, <3>7
    <2> QED
      BY <2>2, <2>3, <2>4
  <1>5. SessionAt(s)'
    BY <1>3, <1>4 DEF SessionAt
  <1> QED
    BY <1>1, <1>5, OneSession

\* A step that leaves the switches and the recorder alone, and may empty the
\* queue of input.
Aside(s) ==
    /\ rows'[s].recording = rows[s].recording
    /\ rows'[s].inputEnabled = rows[s].inputEnabled
    /\ rec'[s] = rec[s]
    /\ inputQ'[s] = inputQ[s] \/ inputQ'[s] = 0

\* A frame, or a switch of something else.
LEMMA AsideKeeps ==
    ASSUME TypeOK, GateSound, SessionInv, NEW c \in Calls, NEW s \in Sessions,
           WorkOn(c, s), Aside(s),
           calls[c].at \notin {"recording-pausing", "input-saved"},
           calls'[c] = NoCall \/ ~Switches(calls'[c])
    PROVE  SessionInv'
  <1>1. /\ On(c, s)
        /\ \A d \in Calls \ {c} :
               /\ Switching(d, s)' <=> Switching(d, s)
               /\ Pausing(d, s)' <=> Pausing(d, s)
               /\ Locking(d, s)' <=> Locking(d, s)
        /\ \A gate : SettledAt(s, gate)' <=> SettledAt(s, gate)
    BY WorkStep
  <1>2. ~Pausing(c, s) /\ ~Locking(c, s)
    BY DEF Pausing, Locking
  <1>3. ~Switching(c, s)' /\ ~Pausing(c, s)' /\ ~Locking(c, s)'
    BY DEF Switching, On, InFlight, Pausing, Locking, Switches, Decides, Brings,
           NoCall
  <1>4. SwitchesAt(s)'
    <2> SUFFICES ASSUME NoneCrossed(s)'
                 PROVE  /\ \A d, e \in Calls :
                               Switching(d, s)' /\ Switching(e, s)' => d = e
                        /\ \A d \in Calls : Switching(d, s)' => Knows(d)'
                        /\ InputHeld(s)'
                        /\ \A gate \in SessionState :
                               SettledAt(s, gate)' => FlagAt(s, gate)'
      BY DEF SwitchesAt
    <2>1. /\ \A d, e \in Calls : Switching(d, s) /\ Switching(e, s) => d = e
          /\ \A d \in Calls : Switching(d, s) => Knows(d)
          /\ InputHeld(s)
          /\ \A gate \in SessionState : SettledAt(s, gate) => FlagAt(s, gate)
      <3>1. NoneCrossed(s)
        BY DEF WorkOn, NoneCrossed
      <3> QED
        BY <3>1 DEF SessionInv, SessionAt, SwitchesAt
    <2>2. ASSUME NEW d \in Calls, Switching(d, s)'
          PROVE  Knows(d)'
      <3>1. d # c /\ calls'[d] = calls[d] /\ calls[d].sid = s /\ Knows(d)
        BY <1>1, <1>3, <2>1, <2>2 DEF WorkOn, Switching, On
      <3> QED
        BY <3>1 DEF Knows, Aside
    <2>3. InputHeld(s)'
      BY <1>1, <1>2, <2>1 DEF InputHeld, Aside
    <2>4. \A gate \in SessionState : FlagAt(s, gate) => FlagAt(s, gate)'
      BY <1>1, <1>2, <1>3 DEF FlagAt, Aside, WorkOn, Elsewhere
    <2> QED
      BY <1>1, <1>3, <2>1, <2>2, <2>3, <2>4
  <1> QED
    BY <1>4, WorkKeeps

\* A switch is alone among the switches: what it has to show.
LEMMA SwitchKeeps ==
    ASSUME TypeOK, GateSound, SessionInv, NEW c \in Calls, NEW s \in Sessions,
           WorkOn(c, s), Switches(calls[c]),
           ASSUME Knows(c), InputHeld(s), Active(s),
                  \A d \in Calls \ {c} : ~Switching(d, s),
                  \A gate \in SessionState : rows[s].gate = gate => FlagAt(s, gate)
           PROVE  /\ calls'[c] # NoCall => Knows(c)'
                  /\ InputHeld(s)'
                  /\ \A gate \in SessionState :
                         rows[s].gate = gate => FlagAt(s, gate)'
    PROVE  SessionInv'
  <1>1. /\ On(c, s) /\ ~Deciding(c, s)
        /\ \A d \in Calls \ {c} : Switching(d, s)' <=> Switching(d, s)
        /\ \A gate : SettledAt(s, gate)' <=> SettledAt(s, gate)
    BY WorkStep
  <1>2. SwitchesAt(s)'
    <2> SUFFICES ASSUME NoneCrossed(s)'
                 PROVE  /\ \A d, e \in Calls :
                               Switching(d, s)' /\ Switching(e, s)' => d = e
                        /\ \A d \in Calls : Switching(d, s)' => Knows(d)'
                        /\ InputHeld(s)'
                        /\ \A gate \in SessionState :
                               SettledAt(s, gate)' => FlagAt(s, gate)'
      BY DEF SwitchesAt
    <2>1. NoneCrossed(s) /\ VerdictsAlone(s) /\ SessionAt(s)
      BY Nested DEF WorkOn, NoneCrossed, SessionInv
    <2>2. /\ \A d, e \in Calls : Switching(d, s) /\ Switching(e, s) => d = e
          /\ \A d \in Calls : Switching(d, s) => Knows(d)
          /\ InputHeld(s)
          /\ \A gate \in SessionState : SettledAt(s, gate) => FlagAt(s, gate)
      BY <2>1 DEF SessionAt, SwitchesAt
    <2>3. Active(s) /\ \A d \in Calls : ~Deciding(d, s)
      BY <1>1, <2>1 DEF SessionAt, AloneAt
    <2>4. Switching(c, s)
      BY <1>1 DEF Switching
    <2>5. \A d \in Calls \ {c} : ~Switching(d, s)
      BY <2>2, <2>4
    <2>6. \A gate : SettledAt(s, gate) <=> rows[s].gate = gate
      BY <2>3 DEF SettledAt, Saving, Deciding, Decides
    <2>7. /\ calls'[c] # NoCall => Knows(c)'
          /\ InputHeld(s)'
          /\ \A gate \in SessionState : rows[s].gate = gate => FlagAt(s, gate)'
      BY <2>2, <2>3, <2>4, <2>5, <2>6
    <2>8. Switching(c, s)' => calls'[c] # NoCall
      BY DEF Switching, On, InFlight
    <2> QED
      BY <1>1, <2>5, <2>6, <2>7, <2>8
  <1> QED
    BY <1>2, WorkKeeps

\* A call in flight, and what moving on and ending it are.
LEMMA AtWork ==
    ASSUME TypeOK, NEW c \in Calls, calls[c].at # "idle"
    PROVE  \E s \in Sessions :
               /\ calls[c].sid = s /\ rows[s] \in Row /\ InFlight(c)
               /\ \A call : Begin(c, call) =>
                      /\ calls'[c] = call
                      /\ \A d \in Calls \ {c} : calls'[d] = calls[d]
               /\ Finish(c) => /\ calls'[c] = NoCall
                               /\ \A d \in Calls \ {c} : calls'[d] = calls[d]
  <1>1. InFlight(c)
    BY DEF InFlight, NoCall
  <1>2. calls[c].sid \in Sessions
    BY <1>1, CallSession DEF TypeOK, InFlight
  <1>3. rows[calls[c].sid] \in Row
    BY <1>2 DEF TypeOK
  <1> QED
    BY <1>1, <1>2, <1>3 DEF Begin, Finish, TypeOK

\* One row written.
LEMMA RowWritten ==
    ASSUME TypeOK, NEW s \in Sessions, NEW row, rows' = [rows EXCEPT ![s] = row]
    PROVE  rows'[s] = row /\ \A r \in Sessions \ {s} : rows'[r] = rows[r]
  BY DEF TypeOK

\* handleFrame(): the switches and the recorder are left alone.
LEMMA FrameWorks ==
    ASSUME TypeOK, GateSound, SessionInv, NEW c \in Calls,
           \/ FrameRejected(c) \/ FrameClaims(c) \/ FrameStored(c)
           \/ FrameEmpty(c) \/ FrameReplied(c)
    PROVE  SessionInv'
  <1>1. calls[c].at \in {"frame-read", "frame-claimed", "frame-counted"}
    BY DEF FrameRejected, FrameClaims, FrameStored, FrameEmpty, FrameReplied, Cleared
  <1>2. PICK s \in Sessions :
            /\ calls[c].sid = s /\ rows[s] \in Row /\ InFlight(c)
            /\ \A call : Begin(c, call) =>
                   /\ calls'[c] = call
                   /\ \A d \in Calls \ {c} : calls'[d] = calls[d]
            /\ Finish(c) => /\ calls'[c] = NoCall
                            /\ \A d \in Calls \ {c} : calls'[d] = calls[d]
    BY <1>1, AtWork
  <1>3. calls[c] \in FrameCall
    BY <1>1, CallCases DEF TypeOK
  <1>4. ~Decides(calls[c])
    BY <1>1 DEF Decides
  \* What a frame does, whichever step it takes.
  <1>5. ASSUME /\ calls'[c] = NoCall \/ /\ calls'[c].sid = s
                                        /\ calls'[c].at \in {"frame-claimed",
                                                             "frame-counted"},
               \A d \in Calls \ {c} : calls'[d] = calls[d],
               rows'[s].gate = rows[s].gate,
               rows'[s].policy = rows[s].policy,
               rows'[s].recordingPath = rows[s].recordingPath,
               Elsewhere(s), Aside(s),
               UNCHANGED <<audit, crossed, stopping>>,
               s \in filmed' => s \in filmed \/ rec[s] = "on"
        PROVE  SessionInv'
    <2>1. calls'[c] = NoCall \/ (~Decides(calls'[c]) /\ ~Switches(calls'[c]))
      BY <1>5 DEF Decides, Switches, Brings
    <2>2. WorkOn(c, s)
      BY <1>2, <1>4, <1>5, <2>1 DEF WorkOn, Aside
    <2> QED
      BY <1>1, <1>5, <2>1, <2>2, AsideKeeps
  <1>6. CASE FrameRejected(c)
    <2>1. Finish(c) /\ UNCHANGED <<rows, memory, audit, filmed, restarts, crossed>>
      BY <1>6 DEF FrameRejected
    <2> QED
      BY <1>2, <1>5, <2>1 DEF memory, Elsewhere, Aside
  <1>7. CASE FrameClaims(c)
    <2> DEFINE call == [calls[c] EXCEPT !.at = "frame-claimed"]
    <2>1. call.at = "frame-claimed" /\ call.sid = s
      BY <1>2, <1>3 DEF FrameCall
    <2>2. /\ Begin(c, call)
          /\ UNCHANGED <<memory, audit, filmed, restarts, crossed>>
          /\ rows' = [rows EXCEPT ![s] = [rows[s] EXCEPT
                                             !.captureSource = calls[c].source]]
      BY <1>2, <1>7 DEF FrameClaims
    <2> HIDE DEF call
    <2>3. /\ rows'[s] = [rows[s] EXCEPT !.captureSource = calls[c].source]
          /\ \A r \in Sessions \ {s} : rows'[r] = rows[r]
      BY <2>2, RowWritten
    <2>4. /\ rows'[s].gate = rows[s].gate
          /\ rows'[s].policy = rows[s].policy
          /\ rows'[s].recordingPath = rows[s].recordingPath
          /\ rows'[s].recording = rows[s].recording
          /\ rows'[s].inputEnabled = rows[s].inputEnabled
      BY <1>2, <2>3 DEF Row
    <2>5. Elsewhere(s) /\ Aside(s)
      BY <2>2, <2>3, <2>4 DEF memory, Elsewhere, Aside
    <2> QED
      BY <1>2, <1>5, <2>1, <2>2, <2>4, <2>5 DEF memory
  <1>8. CASE FrameStored(c)
    <2> DEFINE call == [calls[c] EXCEPT !.at = "frame-counted"]
    <2>1. call.at = "frame-counted" /\ call.sid = s
      BY <1>2, <1>3 DEF FrameCall
    <2>2. /\ Begin(c, call)
          /\ UNCHANGED <<inputQ, rec, stopping, audit, restarts, crossed>>
          /\ rows' = [rows EXCEPT ![s] = Counted(rows[s])]
      BY <1>2, <1>8 DEF FrameStored
    <2>3. /\ frames' = frames \cup {s}
          /\ \A r \in Sessions \ {s} : capture'[r] = capture[r]
          /\ \/ filmed' = filmed
             \/ rec[s] = "on" /\ filmed' = filmed \cup {s}
      BY <1>2, <1>8 DEF FrameStored, StoreFrame, Claimed, TypeOK
    <2> HIDE DEF call
    <2>4. /\ rows'[s] = Counted(rows[s])
          /\ \A r \in Sessions \ {s} : rows'[r] = rows[r]
      BY <2>2, RowWritten
    <2>5. /\ rows'[s].gate = rows[s].gate
          /\ rows'[s].policy = rows[s].policy
          /\ rows'[s].recordingPath = rows[s].recordingPath
          /\ rows'[s].recording = rows[s].recording
          /\ rows'[s].inputEnabled = rows[s].inputEnabled
      BY <1>2, <2>4 DEF Row, Counted
    <2>6. Elsewhere(s) /\ Aside(s)
      BY <2>2, <2>3, <2>4, <2>5 DEF Elsewhere, Aside
    <2> QED
      BY <1>2, <1>5, <2>1, <2>2, <2>3, <2>5, <2>6
  <1>9. CASE FrameEmpty(c)
    <2>1. /\ Finish(c)
          /\ UNCHANGED <<rows, frames, inputQ, rec, stopping, audit, filmed,
                         restarts, crossed>>
          /\ \A r \in Sessions \ {s} : capture'[r] = capture[r]
      BY <1>2, <1>9 DEF FrameEmpty, Claimed, TypeOK
    <2> QED
      BY <1>2, <1>5, <2>1 DEF Elsewhere, Aside
  <1>10. CASE FrameReplied(c)
    <2>1. /\ Finish(c)
          /\ UNCHANGED <<rows, frames, capture, rec, stopping, audit, filmed,
                         restarts, crossed>>
          /\ inputQ'[s] = 0
          /\ \A r \in Sessions \ {s} : inputQ'[r] = inputQ[r]
      BY <1>2, <1>10 DEF FrameReplied, TypeOK
    <2> QED
      BY <1>2, <1>5, <2>1 DEF Elsewhere, Aside
  <1> QED
    BY <1>6, <1>7, <1>8, <1>9, <1>10

\* setAudio() and setQuality() leave the other switches alone too.
LEMMA SettingWorks ==
    ASSUME TypeOK, GateSound, SessionInv, NEW c \in Calls,
           AudioWrite(c) \/ QualityWrite(c)
    PROVE  SessionInv'
  <1>1. calls[c].at \in {"audio-read", "quality-read"}
    BY DEF AudioWrite, QualityWrite
  <1>2. PICK s \in Sessions :
            /\ calls[c].sid = s /\ rows[s] \in Row /\ InFlight(c)
            /\ Finish(c) => /\ calls'[c] = NoCall
                            /\ \A d \in Calls \ {c} : calls'[d] = calls[d]
    BY <1>1, AtWork
  <1>3. /\ Finish(c) /\ UNCHANGED <<memory, audit, filmed, restarts, crossed>>
        /\ \/ rows' = [rows EXCEPT ![s] = [rows[s] EXCEPT
                                              !.audioEnabled = calls[c].on]]
           \/ rows' = [rows EXCEPT ![s] = [rows[s] EXCEPT
                                              !.quality = calls[c].quality]]
    BY <1>2 DEF AudioWrite, QualityWrite
  <1>4. /\ rows'[s] \in {[rows[s] EXCEPT !.audioEnabled = calls[c].on],
                         [rows[s] EXCEPT !.quality = calls[c].quality]}
        /\ \A r \in Sessions \ {s} : rows'[r] = rows[r]
    BY <1>3, RowWritten
  <1>5. /\ rows'[s].gate = rows[s].gate
        /\ rows'[s].policy = rows[s].policy
        /\ rows'[s].recordingPath = rows[s].recordingPath
        /\ rows'[s].recording = rows[s].recording
        /\ rows'[s].inputEnabled = rows[s].inputEnabled
    BY <1>2, <1>4 DEF Row
  <1>6. Elsewhere(s) /\ Aside(s)
    BY <1>3, <1>4, <1>5 DEF memory, Elsewhere, Aside
  <1>7. ~Decides(calls[c])
    BY <1>1 DEF Decides
  <1>8. WorkOn(c, s)
    BY <1>2, <1>3, <1>5, <1>6, <1>7 DEF WorkOn, memory, Aside
  <1> QED
    BY <1>1, <1>2, <1>3, <1>6, <1>8, AsideKeeps

\* queueInput() and setInput().
LEMMA InputWorks ==
    ASSUME TypeOK, GateSound, SessionInv, NEW c \in Calls,
           QueuePush(c) \/ InputWrite(c) \/ InputSettle(c)
    PROVE  SessionInv'
  <1>1. calls[c].at \in {"queue-read", "input-read", "input-saved"}
    BY DEF QueuePush, InputWrite, InputSettle
  <1>2. PICK s \in Sessions :
            /\ calls[c].sid = s /\ rows[s] \in Row /\ InFlight(c)
            /\ \A call : Begin(c, call) =>
                   /\ calls'[c] = call
                   /\ \A d \in Calls \ {c} : calls'[d] = calls[d]
            /\ Finish(c) => /\ calls'[c] = NoCall
                            /\ \A d \in Calls \ {c} : calls'[d] = calls[d]
    BY <1>1, AtWork
  <1>3. ~Decides(calls[c]) /\ Switches(calls[c])
    BY <1>1 DEF Decides, Switches, Brings
  <1>6. ~Pausing(c, s)
    BY <1>1 DEF Pausing
  \* The recorder and its flag are left alone.
  <1>7. ASSUME rows'[s].recording = rows[s].recording, rec'[s] = rec[s],
               WorkOn(c, s), NEW gate, FlagAt(s, gate)
        PROVE  FlagAt(s, gate)'
    <2>1. \A d \in Calls \ {c} : Pausing(d, s)' <=> Pausing(d, s)
      BY <1>7, WorkStep
    <2> QED
      BY <1>6, <1>7, <2>1 DEF FlagAt, WorkOn, Elsewhere
  <1>8. CASE QueuePush(c)
    <2>1. /\ Finish(c) /\ calls[c].at = "queue-read"
          /\ UNCHANGED <<rows, frames, capture, rec, stopping, audit, filmed,
                         restarts, crossed>>
          /\ \A r \in Sessions \ {s} : inputQ'[r] = inputQ[r]
      BY <1>2, <1>8 DEF QueuePush, TypeOK
    <2>2. calls'[c] = NoCall /\ \A d \in Calls \ {c} : calls'[d] = calls[d]
      BY <1>2, <2>1
    <2>3. WorkOn(c, s)
      BY <1>2, <1>3, <2>1, <2>2 DEF WorkOn, Elsewhere
    <2>4. Knows(c) => InputHeld(s)'
      BY <1>2, <2>1 DEF Knows, InputHeld
    <2>5. \A gate : FlagAt(s, gate) => FlagAt(s, gate)'
      BY <1>7, <2>1, <2>3
    <2> QED
      BY <1>3, <2>2, <2>3, <2>4, <2>5, SwitchKeeps
  <1>9. CASE InputWrite(c)
    <2> DEFINE call == [calls[c] EXCEPT !.at = "input-saved"]
               on   == calls[c].on
    <2>1. calls[c].at = "input-read" /\ calls[c] \in SwitchCall
      BY <1>9, CallCases DEF InputWrite, TypeOK
    <2>2. /\ call.at = "input-saved" /\ call.sid = s /\ call.on = on
          /\ on \in BOOLEAN
      BY <1>2, <2>1 DEF SwitchCall
    <2>3. /\ rows' = [rows EXCEPT ![s] = [rows[s] EXCEPT !.inputEnabled = on]]
          /\ Begin(c, call)
          /\ UNCHANGED <<memory, audit, filmed, restarts, crossed>>
      BY <1>2, <1>9 DEF InputWrite
    <2> HIDE DEF call
    <2>4. calls'[c] = call /\ \A d \in Calls \ {c} : calls'[d] = calls[d]
      BY <1>2, <2>3
    <2>5. /\ rows'[s] = [rows[s] EXCEPT !.inputEnabled = on]
          /\ \A r \in Sessions \ {s} : rows'[r] = rows[r]
      BY <2>3, RowWritten
    <2>6. /\ rows'[s].gate = rows[s].gate
          /\ rows'[s].policy = rows[s].policy
          /\ rows'[s].recordingPath = rows[s].recordingPath
          /\ rows'[s].recording = rows[s].recording
          /\ rows'[s].inputEnabled = on
      BY <1>2, <2>5 DEF Row
    <2>7. ~Decides(call)
      BY <2>2 DEF Decides
    <2>8. WorkOn(c, s)
      BY <1>2, <1>3, <2>2, <2>3, <2>4, <2>5, <2>6, <2>7
         DEF WorkOn, Elsewhere, memory
    <2>9. Knows(c)'
      BY <2>2, <2>4, <2>6 DEF Knows
    <2>10. InputHeld(s)'
      <3>1. ~on => Locking(c, s)'
        BY <2>2, <2>4 DEF Locking
      <3> QED
        BY <2>2, <2>6, <3>1 DEF InputHeld
    <2>11. \A gate : FlagAt(s, gate) => FlagAt(s, gate)'
      BY <1>7, <2>3, <2>6, <2>8 DEF memory
    <2> QED
      BY <1>3, <2>8, <2>9, <2>10, <2>11, SwitchKeeps
  <1>10. CASE InputSettle(c)
    <2>1. /\ Finish(c) /\ calls[c].at = "input-saved"
          /\ UNCHANGED <<rows, frames, capture, rec, stopping, audit, filmed,
                         restarts, crossed>>
          /\ \A r \in Sessions \ {s} : inputQ'[r] = inputQ[r]
          /\ ~calls[c].on => inputQ'[s] = 0
      BY <1>2, <1>10 DEF InputSettle, TypeOK
    <2>2. calls'[c] = NoCall /\ \A d \in Calls \ {c} : calls'[d] = calls[d]
      BY <1>2, <2>1
    <2>3. WorkOn(c, s)
      BY <1>2, <1>3, <2>1, <2>2 DEF WorkOn, Elsewhere
    <2>4. calls[c].on \in BOOLEAN
      BY <2>1, CallCases DEF TypeOK, SwitchCall
    <2>5. Knows(c) => InputHeld(s)'
      BY <1>2, <2>1, <2>4 DEF Knows, InputHeld
    <2>6. \A gate : FlagAt(s, gate) => FlagAt(s, gate)'
      BY <1>7, <2>1, <2>3
    <2> QED
      BY <1>3, <2>2, <2>3, <2>5, <2>6, SwitchKeeps
  <1> QED
    BY <1>8, <1>9, <1>10

\* setRecording().
LEMMA RecordingWorks ==
    ASSUME TypeOK, GateSound, SessionInv, NEW c \in Calls,
           RecordingResume(c) \/ RecordingPause(c) \/ RecordingPaused(c)
    PROVE  SessionInv'
  <1>1. calls[c].at \in {"recording-read", "recording-pausing"}
    BY DEF RecordingResume, RecordingPause, RecordingPaused
  <1>2. PICK s \in Sessions :
            /\ calls[c].sid = s /\ rows[s] \in Row /\ InFlight(c)
            /\ \A call : Begin(c, call) =>
                   /\ calls'[c] = call
                   /\ \A d \in Calls \ {c} : calls'[d] = calls[d]
            /\ Finish(c) => /\ calls'[c] = NoCall
                            /\ \A d \in Calls \ {c} : calls'[d] = calls[d]
    BY <1>1, AtWork
  <1>3. ~Decides(calls[c]) /\ Switches(calls[c])
    BY <1>1 DEF Decides, Switches, Brings
  <1>4. calls[c] \in SwitchCall /\ calls[c].on \in BOOLEAN
    BY <1>1, CallCases DEF TypeOK, SwitchCall
  <1>5. ~Locking(c, s)
    BY <1>1 DEF Locking
  \* The queue of input and its switch are left alone.
  <1>6. ASSUME rows'[s].inputEnabled = rows[s].inputEnabled,
               inputQ'[s] = inputQ[s], WorkOn(c, s), InputHeld(s)
        PROVE  InputHeld(s)'
    <2>1. \A d \in Calls \ {c} : Locking(d, s)' <=> Locking(d, s)
      BY <1>6, WorkStep
    <2> QED
      BY <1>5, <1>6, <2>1 DEF InputHeld
  \* Its write, once the recorder is as the call wants it.
  <1>7. ASSUME WriteRecording(c),
               UNCHANGED <<frames, capture, inputQ, stopping, audit, filmed,
                           restarts, crossed>>,
               \A r \in Sessions \ {s} : rec'[r] = rec[r],
               rec[s] # "off" => rec'[s] # "off",
               Knows(c) => (calls[c].on <=> rec'[s] = "on")
        PROVE  SessionInv'
    <2> DEFINE on == calls[c].on
    <2>1. calls'[c] = NoCall /\ \A d \in Calls \ {c} : calls'[d] = calls[d]
      BY <1>2, <1>7 DEF WriteRecording
    <2>2. /\ rows'[s] = [rows[s] EXCEPT !.recording = on]
          /\ \A r \in Sessions \ {s} : rows'[r] = rows[r]
      <3>1. rows' = [rows EXCEPT ![s] = [rows[s] EXCEPT !.recording = on]]
        BY <1>2, <1>7 DEF WriteRecording
      <3> QED
        BY <3>1, RowWritten
    <2>3. /\ rows'[s].gate = rows[s].gate
          /\ rows'[s].policy = rows[s].policy
          /\ rows'[s].recordingPath = rows[s].recordingPath
          /\ rows'[s].recording = on
          /\ rows'[s].inputEnabled = rows[s].inputEnabled
      BY <1>2, <2>2 DEF Row
    <2>4. WorkOn(c, s)
      BY <1>2, <1>3, <1>7, <2>1, <2>2, <2>3 DEF WorkOn, Elsewhere
    <2>5. InputHeld(s) => InputHeld(s)'
      BY <1>6, <1>7, <2>3, <2>4
    <2>6. ASSUME NEW gate \in SessionState, rows[s].gate = gate, Knows(c), Active(s)
          PROVE  FlagAt(s, gate)'
      BY <1>7, <2>3, <2>6 DEF FlagAt, Active, MayStream, Unstarted
    <2> QED
      BY <1>3, <2>1, <2>4, <2>5, <2>6, SwitchKeeps
  <1>8. CASE RecordingResume(c)
    <2>1. /\ WriteRecording(c) /\ calls[c].on
          /\ UNCHANGED <<frames, capture, inputQ, stopping, audit, filmed,
                         restarts, crossed>>
          /\ rec'[s] = "on"
          /\ \A r \in Sessions \ {s} : rec'[r] = rec[r]
      BY <1>2, <1>8 DEF RecordingResume, TypeOK
    <2> QED
      BY <1>7, <2>1
  <1>9. CASE RecordingPaused(c)
    <2>1. /\ WriteRecording(c)
          /\ UNCHANGED <<frames, capture, inputQ, rec, stopping, audit, filmed,
                         restarts, crossed>>
          /\ calls[c].at = "recording-read" => ~calls[c].on /\ rec[s] # "on"
      BY <1>2, <1>9 DEF RecordingPaused, memory
    <2>2. Knows(c) => ~calls[c].on /\ rec[s] # "on"
      BY <1>1, <1>2, <2>1 DEF Knows
    <2> QED
      BY <1>4, <1>7, <2>1, <2>2
  <1>10. CASE RecordingPause(c)
    <2> DEFINE call == [calls[c] EXCEPT !.at = "recording-pausing"]
    <2>1. /\ call.at = "recording-pausing" /\ call.sid = s
          /\ call.on = calls[c].on
      BY <1>2, <1>4 DEF SwitchCall
    <2>2. /\ Begin(c, call) /\ ~calls[c].on
          /\ UNCHANGED <<rows, frames, capture, inputQ, stopping, audit,
                         filmed, restarts, crossed>>
          /\ rec'[s] = "paused"
          /\ \A r \in Sessions \ {s} : rec'[r] = rec[r]
      BY <1>2, <1>10 DEF RecordingPause, TypeOK
    <2> HIDE DEF call
    <2>3. calls'[c] = call /\ \A d \in Calls \ {c} : calls'[d] = calls[d]
      BY <1>2, <2>2
    <2>4. ~Decides(call)
      BY <2>1 DEF Decides
    <2>5. WorkOn(c, s)
      BY <1>2, <1>3, <2>1, <2>2, <2>3, <2>4 DEF WorkOn, Elsewhere
    <2>6. Knows(c)'
      BY <2>1, <2>2, <2>3 DEF Knows
    <2>7. InputHeld(s) => InputHeld(s)'
      BY <1>6, <2>2, <2>5
    <2>8. ASSUME NEW gate \in SessionState, rows[s].gate = gate, Active(s)
          PROVE  FlagAt(s, gate)'
      <3>1. Pausing(c, s)'
        BY <2>1, <2>3 DEF Pausing
      <3> QED
        BY <2>8, <3>1 DEF FlagAt, Active, MayStream, Unstarted
    <2> QED
      BY <1>3, <2>5, <2>6, <2>7, <2>8, SwitchKeeps
  <1> QED
    BY <1>8, <1>9, <1>10

(***************************************************************************)
(* apply() writes and settles                                              *)
(***************************************************************************)

\* The gate the memory answers to, and the step that leads to the row's own.
LEMMA SettledGate ==
    ASSUME TypeOK, NEW s \in Sessions, OrderAt(s), VerdictsInOrder(s)
    PROVE  \E gate \in SessionState :
               /\ SettledAt(s, gate)
               /\ \/ gate = rows[s].gate
                  \/ Follows(gate, rows[s].gate, rows[s].policy)
  <1>1. CASE \A c \in Calls : ~Saving(c, s)
    <2>1. SettledAt(s, rows[s].gate) /\ rows[s].gate \in SessionState
      BY <1>1 DEF SettledAt, TypeOK, Row
    <2> QED
      BY <2>1
  <1>2. CASE \E c \in Calls : Saving(c, s)
    <2>1. PICK c \in Calls : Saving(c, s)
      BY <1>2
    <2>2. calls[c] \in ApplyCall /\ Deciding(c, s)
      BY <2>1, CallCases DEF Saving, TypeOK, Deciding, Decides
    <2>3. Decided(c)
      BY <2>2 DEF OrderAt
    <2>4. calls[c].before \in SessionState
      BY <2>2 DEF ApplyCall
    <2>5. Follows(calls[c].before, rows[s].gate, rows[s].policy)
      BY <2>1, <2>3 DEF Decided, Saving
    <2>6. SettledAt(s, calls[c].before)
      BY <2>1 DEF SettledAt
    <2> QED
      BY <2>4, <2>5, <2>6
  <1> QED
    BY <1>1, <1>2

\* An open gate has not started or streams.
LEMMA OpenGate ==
    ASSUME NEW gate \in SessionState
    PROVE  /\ IsTerminal(gate.status) \/ gate.status \in Unstarted
                  \/ MayStream(gate)
           /\ ~(IsTerminal(gate.status) /\ MayStream(gate))
           /\ ~(gate.status \in Unstarted /\ MayStream(gate))
           /\ ~(IsTerminal(gate.status) /\ gate.status \in Unstarted)
  BY DEF SessionState, SessionStatus, OpenStatus, TerminalStatus, IsTerminal,
         Unstarted, MayStream

\* apply() writes the row: memory and log still answer to the gate before.
LEMMA WriteKeeps ==
    ASSUME TypeOK, SessionInv, NEW c \in Calls, ApplyWrite(c)
    PROVE  SessionInv'
  <1>1. calls[c].at = "decided" /\ calls[c] \in ApplyCall
    BY CallCases DEF ApplyWrite, TypeOK
  <1>2. PICK s \in Sessions :
            /\ calls[c].sid = s /\ rows[s] \in Row /\ InFlight(c)
            /\ \A call : Begin(c, call) =>
                   /\ calls'[c] = call
                   /\ \A d \in Calls \ {c} : calls'[d] = calls[d]
    BY <1>1, AtWork
  <1> DEFINE call == [calls[c] EXCEPT !.at = "saved"]
  <1>3. /\ call.at = "saved" /\ call.sid = s
        /\ call.before = calls[c].before /\ call.after = calls[c].after
    BY <1>1, <1>2 DEF ApplyCall
  <1>4. /\ Begin(c, call)
        /\ UNCHANGED <<memory, audit, filmed, restarts, crossed>>
        /\ rows' = [rows EXCEPT ![s] = Saved(rows[s], calls[c])]
    BY <1>2 DEF ApplyWrite
  <1> HIDE DEF call
  <1>5. calls'[c] = call /\ \A d \in Calls \ {c} : calls'[d] = calls[d]
    BY <1>2, <1>4
  <1>6. /\ rows'[s] = Saved(rows[s], calls[c])
        /\ \A r \in Sessions \ {s} : rows'[r] = rows[r]
    BY <1>4, RowWritten
  <1>7. /\ rows'[s].gate = calls[c].after
        /\ rows'[s].policy = rows[s].policy
        /\ rows'[s].recording = rows[s].recording
        /\ rows'[s].recordingPath = rows[s].recordingPath
        /\ rows'[s].inputEnabled = rows[s].inputEnabled
    BY <1>2, <1>6 DEF Row, Saved
  <1>8. StepAt(c, s)
    BY <1>2, <1>3, <1>4, <1>5, <1>6 DEF StepAt, Elsewhere, memory
  <1>9. /\ Deciding(c, s) /\ Deciding(c, s)' /\ On(c, s) /\ On(c, s)'
        /\ ~Switching(c, s)' /\ ~Saving(c, s)
        /\ ~Pausing(c, s) /\ ~Pausing(c, s)' /\ ~Locking(c, s) /\ ~Locking(c, s)'
    BY <1>1, <1>2, <1>3, <1>5
       DEF Deciding, Decides, On, InFlight, NoCall, Switching, Switches, Saving,
           Pausing, Locking
  <1>10. ASSUME NEW d \in Calls, d # c
         PROVE  /\ On(d, s)' <=> On(d, s)
                /\ Deciding(d, s)' <=> Deciding(d, s)
                /\ Switching(d, s)' <=> Switching(d, s)
                /\ Saving(d, s)' <=> Saving(d, s)
                /\ Pausing(d, s)' <=> Pausing(d, s)
                /\ Locking(d, s)' <=> Locking(d, s)
    BY <1>5, <1>10 DEF On, InFlight, Deciding, Switching, Saving, Pausing, Locking
  <1>11. SessionAt(s) /\ (crossed'[s] = crossed[s])
    BY <1>4 DEF SessionInv
  <1>12. ASSUME VerdictsInOrder(s), NEW gate \in SessionState, SettledAt(s, gate)'
         PROVE  gate = calls[c].before /\ SettledAt(s, gate)
    <2>1. /\ \A d, e \in Calls : Deciding(d, s) /\ Deciding(e, s) => d = e
          /\ Decided(c)
      BY <1>9, <1>11, <1>12 DEF SessionAt, OrderAt
    <2>2. \A d \in Calls \ {c} : ~Saving(d, s) /\ ~Saving(d, s)'
      BY <1>9, <1>10, <2>1 DEF Saving, Deciding, Decides
    <2>3. Saving(c, s)'
      BY <1>3, <1>5 DEF Saving
    <2>4. gate = calls[c].before
      BY <1>3, <1>5, <1>12, <2>2, <2>3 DEF SettledAt
    <2>5. rows[s].gate = calls[c].before
      BY <1>1, <1>2, <2>1 DEF Decided
    <2> QED
      BY <1>9, <2>2, <2>4, <2>5 DEF SettledAt
  <1>13. OrderAt(s)'
    <2> SUFFICES ASSUME VerdictsInOrder(s)'
                 PROVE  /\ \A d, e \in Calls :
                               Deciding(d, s)' /\ Deciding(e, s)' => d = e
                        /\ \A d \in Calls : Deciding(d, s)' => Decided(d)'
                        /\ \A gate \in SessionState :
                               SettledAt(s, gate)' => LoggedAt(s, gate)'
      BY DEF OrderAt
    <2>1. VerdictsInOrder(s)
      BY <1>11 DEF VerdictsInOrder
    <2>2. /\ \A d, e \in Calls : Deciding(d, s) /\ Deciding(e, s) => d = e
          /\ Decided(c)
          /\ \A gate \in SessionState : SettledAt(s, gate) => LoggedAt(s, gate)
      BY <1>9, <1>11, <2>1 DEF SessionAt, OrderAt
    <2>3. \A d, e \in Calls : Deciding(d, s)' /\ Deciding(e, s)' => d = e
      BY <1>9, <1>10, <2>2
    <2>4. Decided(c)'
      BY <1>2, <1>3, <1>5, <1>7, <2>2 DEF Decided
    <2>5. \A d \in Calls : Deciding(d, s)' => Decided(d)'
      BY <1>9, <2>3, <2>4
    <2>6. \A gate : LoggedAt(s, gate)' <=> LoggedAt(s, gate)
      BY <1>4 DEF LoggedAt
    <2> QED
      BY <1>12, <2>1, <2>2, <2>3, <2>5, <2>6
  <1>14. AloneAt(s)'
    <2> SUFFICES ASSUME VerdictsAlone(s)'
                 PROVE  /\ \A d, e \in Calls :
                               Deciding(d, s)' /\ On(e, s)' => d = e
                        /\ \A d \in Calls :
                               On(d, s)' /\ ~Deciding(d, s)' => Active(s)'
                        /\ \A gate \in SessionState : SettledAt(s, gate)' =>
                               HeldAt(s, gate)' /\ FilmedAt(s, gate)'
      BY DEF AloneAt
    <2>1. VerdictsAlone(s) /\ VerdictsInOrder(s)
      BY <1>11, Nested DEF VerdictsAlone
    <2>2. /\ \A d, e \in Calls : Deciding(d, s) /\ On(e, s) => d = e
          /\ \A gate \in SessionState : SettledAt(s, gate) =>
                 HeldAt(s, gate) /\ FilmedAt(s, gate)
      BY <1>11, <2>1 DEF SessionAt, AloneAt
    <2>3. \A d \in Calls : On(d, s)' => d = c
      BY <1>9, <1>10, <2>2
    <2>4. \A d \in Calls : Deciding(d, s)' => d = c
      BY <1>9, <1>10, <2>2 DEF Deciding, Decides, On, InFlight, NoCall
    <2>5. \A gate : /\ HeldAt(s, gate)' <=> HeldAt(s, gate)
                    /\ FilmedAt(s, gate)' <=> FilmedAt(s, gate)
      BY <1>4, <1>7 DEF HeldAt, FilmedAt, memory
    <2> QED
      BY <1>9, <1>12, <2>1, <2>2, <2>3, <2>4, <2>5
  <1>15. SwitchesAt(s)'
    <2> SUFFICES ASSUME NoneCrossed(s)'
                 PROVE  /\ \A d \in Calls : ~Switching(d, s)'
                        /\ InputHeld(s)'
                        /\ \A gate \in SessionState :
                               SettledAt(s, gate)' => FlagAt(s, gate)'
      BY DEF SwitchesAt
    <2>1. NoneCrossed(s) /\ VerdictsAlone(s) /\ VerdictsInOrder(s)
      BY <1>11, Nested DEF NoneCrossed
    <2>2. /\ InputHeld(s)
          /\ \A gate \in SessionState : SettledAt(s, gate) => FlagAt(s, gate)
          /\ \A d, e \in Calls : Deciding(d, s) /\ On(e, s) => d = e
      BY <1>11, <2>1 DEF SessionAt, AloneAt, SwitchesAt
    <2>3. \A d \in Calls : ~Switching(d, s)'
      BY <1>9, <1>10, <2>2 DEF Switching
    <2>4. InputHeld(s)'
      BY <1>4, <1>7, <1>9, <1>10, <2>2 DEF InputHeld, memory
    <2>5. \A gate : FlagAt(s, gate)' <=> FlagAt(s, gate)
      BY <1>4, <1>7, <1>9, <1>10 DEF FlagAt, memory
    <2> QED
      BY <1>12, <2>1, <2>2, <2>3, <2>4, <2>5
  <1>16. SessionAt(s)'
    BY <1>13, <1>14, <1>15 DEF SessionAt
  <1> QED
    BY <1>8, <1>16, OneSession

\* What the log holds after a line for a step of the contract.
LEMMA LogGrows ==
    ASSUME NEW s \in Sessions, NEW before \in SessionState,
           NEW after \in SessionState, NEW policy, NEW told,
           Follows(before, after, policy),
           LoggedAt(s, before),
           audit'[s] = audit[s] \o told,
           after.status \in Unstarted => told = <<>>,
           MayStream(after) =>
               \E line \in AuditFact : line.says \in Granted /\ told = <<line>>,
           IsTerminal(after.status) =>
               \E line \in AuditFact : Ending(line) /\ told = <<line>>
    PROVE  LoggedAt(s, after)'
  <1>1. /\ ~IsTerminal(before.status)
        /\ MayStream(after) => before.status \in Unstarted
        /\ after.status \in Unstarted => /\ before.status \in Unstarted
                                         /\ after.consent = "pending"
    BY FollowsOn
  <1>2. /\ before.status \in Unstarted => audit[s] = <<>>
        /\ MayStream(before) =>
               \/ audit[s] = <<>>
               \/ \E line \in AuditFact : /\ line.says \in Granted
                                          /\ audit[s] = <<line>>
    BY DEF LoggedAt
  <1>3. CASE after.status \in Unstarted
    <2>1. audit'[s] = <<>>
      BY <1>1, <1>2, <1>3, ShortLogs
    <2> QED
      BY <1>1, <1>3, <2>1, OpenGate DEF LoggedAt
  <1>4. CASE MayStream(after)
    <2>1. audit'[s] = told
      BY <1>1, <1>2, <1>4, ShortLogs
    <2> QED
      BY <1>4, <2>1, OpenGate DEF LoggedAt
  <1>5. CASE IsTerminal(after.status)
    <2>1. PICK last \in AuditFact : Ending(last) /\ told = <<last>>
      BY <1>5
    <2>2. CASE audit[s] = <<>>
      <3>1. audit'[s] = <<last>>
        BY <2>1, <2>2, ShortLogs
      <3>2. 1 \in 1..Len(<<last>>) /\ <<last>>[1] = last
        OBVIOUS
      <3>3. \E i \in 1..Len(audit'[s]) : Ending(audit'[s][i])
        BY <2>1, <3>1, <3>2
      <3>4. \A i, j \in 1..Len(audit'[s]) : i = j
        BY <3>1, ShortLogs
      <3> QED
        BY <1>5, <3>3, <3>4, OpenGate DEF LoggedAt
    <2>3. CASE audit[s] # <<>>
      <3>1. PICK first \in AuditFact :
                first.says \in Granted /\ audit[s] = <<first>>
        BY <1>1, <1>2, <2>3, OpenGate
      <3>2. Len(audit'[s]) = 2 /\ audit'[s][1] = first /\ audit'[s][2] = last
        BY <2>1, <3>1, ShortLogs
      <3>3. first.says # last.says
        BY <2>1, <3>1 DEF Ending, Granted
      <3>4. \A i, j \in 1..Len(audit'[s]) :
                i # j => audit'[s][i].says # audit'[s][j].says
        BY <3>2, <3>3
      <3>5. \E i \in 1..Len(audit'[s]) : Ending(audit'[s][i])
        BY <2>1, <3>2
      <3> QED
        BY <1>5, <3>4, <3>5, OpenGate DEF LoggedAt
    <2> QED
      BY <2>2, <2>3
  <1> QED
    BY <1>3, <1>4, <1>5, OpenGate

\* apply() acts on the verdict: memory and log catch up with the row.
LEMMA SettleKeeps ==
    ASSUME TypeOK, SessionInv, NEW c \in Calls, ApplySettle(c)
    PROVE  SessionInv'
  <1>1. calls[c].at = "saved" /\ calls[c] \in ApplyCall
    BY CallCases DEF ApplySettle, TypeOK
  <1>2. PICK s \in Sessions :
            /\ calls[c].sid = s /\ rows[s] \in Row /\ InFlight(c)
            /\ calls'[c] = NoCall
            /\ \A d \in Calls \ {c} : calls'[d] = calls[d]
    BY <1>1, AtWork DEF ApplySettle
  <1>3. PICK before \in SessionState, after \in SessionState :
            calls[c].before = before /\ calls[c].after = after
    BY <1>1 DEF ApplyCall
  <1> DEFINE told == AuditOf(calls[c])
  <1>4. /\ audit' = [audit EXCEPT ![s] = audit[s] \o told]
        /\ UNCHANGED <<rows, filmed, restarts, crossed>>
    BY <1>2 DEF ApplySettle
  <1>5. /\ audit'[s] = audit[s] \o told
        /\ \A r \in Sessions \ {s} : audit'[r] = audit[r]
    BY <1>4 DEF TypeOK
  <1>6. \/ /\ MayStream(after)
           /\ rec[s] = "off" => rec'[s] = "on"
           /\ rec[s] # "off" => rec'[s] = rec[s]
           /\ \A r \in Sessions \ {s} : rec'[r] = rec[r]
           /\ UNCHANGED <<frames, capture, inputQ, stopping>>
        \/ ~MayStream(after) /\ DropMedia(s)
    BY <1>2, <1>3 DEF ApplySettle, StartRecorder, Becomes, MayStream, TypeOK
  <1>7. DropMedia(s) =>
            /\ s \notin frames' /\ capture'[s] = NoClaim
            /\ inputQ'[s] = 0 /\ rec'[s] = "off"
            /\ rec[s] # "off" => s \in stopping'
            /\ s \in stopping => s \in stopping'
            /\ \A r \in Sessions \ {s} :
                   /\ r \in frames' <=> r \in frames
                   /\ capture'[r] = capture[r]
                   /\ inputQ'[r] = inputQ[r]
                   /\ rec'[r] = rec[r]
                   /\ r \in stopping' <=> r \in stopping
    BY DEF DropMedia, TypeOK
  <1>8. StepAt(c, s)
    <2>1. Elsewhere(s)
      BY <1>4, <1>5, <1>6, <1>7 DEF Elsewhere
    <2> QED
      BY <1>2, <2>1 DEF StepAt
  <1>9. /\ Deciding(c, s) /\ On(c, s) /\ Saving(c, s)
        /\ ~Deciding(c, s)' /\ ~On(c, s)' /\ ~Switching(c, s)' /\ ~Saving(c, s)'
        /\ ~Pausing(c, s)' /\ ~Locking(c, s)'
    BY <1>1, <1>2
       DEF Deciding, Decides, On, InFlight, NoCall, Switching, Saving, Pausing,
           Locking
  <1>10. ASSUME NEW d \in Calls, d # c
         PROVE  /\ On(d, s)' <=> On(d, s)
                /\ Deciding(d, s)' <=> Deciding(d, s)
                /\ Switching(d, s)' <=> Switching(d, s)
                /\ Saving(d, s)' <=> Saving(d, s)
                /\ Pausing(d, s)' <=> Pausing(d, s)
                /\ Locking(d, s)' <=> Locking(d, s)
    BY <1>2, <1>10 DEF On, InFlight, Deciding, Switching, Saving, Pausing, Locking
  <1>11. SessionAt(s) /\ crossed'[s] = crossed[s]
    BY <1>4 DEF SessionInv
  <1>12. SettledAt(s, before)
    BY <1>3, <1>9 DEF SettledAt
  \* In order: what the call knows, and what is settled after it.
  <1>13. ASSUME VerdictsInOrder(s)
         PROVE  /\ \A d \in Calls : ~Deciding(d, s)'
                /\ rows[s].gate = after
                /\ Follows(before, after, rows[s].policy)
                /\ LoggedAt(s, before)
                /\ \A gate : SettledAt(s, gate)' => gate = after
    <2>1. /\ \A d, e \in Calls : Deciding(d, s) /\ Deciding(e, s) => d = e
          /\ Decided(c) /\ LoggedAt(s, before)
      BY <1>9, <1>11, <1>12, <1>13 DEF SessionAt, OrderAt
    <2>2. \A d \in Calls : ~Deciding(d, s)'
      BY <1>9, <1>10, <2>1
    <2>3. \A d \in Calls : ~Saving(d, s)'
      BY <2>2 DEF Saving, Deciding, Decides
    <2>4. rows[s].gate = after /\ Follows(before, after, rows[s].policy)
      BY <1>1, <1>2, <1>3, <2>1 DEF Decided
    <2>5. \A gate : SettledAt(s, gate)' => gate = after
      BY <1>4, <2>3, <2>4 DEF SettledAt
    <2> QED
      BY <2>1, <2>2, <2>4, <2>5
  <1>14. OrderAt(s)'
    <2> SUFFICES ASSUME VerdictsInOrder(s)'
                 PROVE  /\ \A d \in Calls : ~Deciding(d, s)'
                        /\ \A gate \in SessionState :
                               SettledAt(s, gate)' => LoggedAt(s, gate)'
      BY DEF OrderAt
    <2>1. VerdictsInOrder(s)
      BY <1>11 DEF VerdictsInOrder
    <2>2. /\ Follows(before, after, rows[s].policy) /\ LoggedAt(s, before)
      BY <1>13, <2>1
    <2>3. before.status \in Unstarted => before.consent = "pending"
      BY <2>2 DEF LoggedAt
    <2>4. /\ after.status \in Unstarted => told = <<>>
          /\ MayStream(after) =>
                 \E line \in AuditFact : line.says \in Granted /\ told = <<line>>
          /\ IsTerminal(after.status) =>
                 \E line \in AuditFact : Ending(line) /\ told = <<line>>
      BY <1>1, <1>3, <2>2, <2>3, AuditFollows
    <2> HIDE DEF told
    <2>5. LoggedAt(s, after)'
      BY <1>5, <2>2, <2>4, LogGrows
    <2> QED
      BY <1>13, <2>1, <2>5
  \* Alone: nothing else is in flight, and the memory answered to the gate
  \* before.
  <1>15. ASSUME VerdictsAlone(s)
         PROVE  /\ VerdictsInOrder(s)
                /\ \A d \in Calls : ~On(d, s)'
                /\ HeldAt(s, before) /\ FilmedAt(s, before)
                /\ MayStream(after) =>
                       before.status \in Unstarted /\ after.consent \in Granted
                /\ ~IsTerminal(before.status)
                /\ MayStream(before) => after.status \in {"ended", "failed"}
                                        /\ after.consent = before.consent
    <2>1. /\ \A d \in Calls : On(d, s) => d = c
          /\ HeldAt(s, before) /\ FilmedAt(s, before)
      BY <1>9, <1>11, <1>12, <1>15 DEF SessionAt, AloneAt
    <2>2. \A d \in Calls : ~On(d, s)'
      BY <1>9, <1>10, <2>1
    <2>3. VerdictsInOrder(s)
      BY <1>15, Nested
    <2> QED
      BY <1>13, <2>1, <2>2, <2>3, FollowsOn
  <1>16. AloneAt(s)'
    <2> SUFFICES ASSUME VerdictsAlone(s)'
                 PROVE  /\ \A d \in Calls : ~On(d, s)'
                        /\ \A gate \in SessionState : SettledAt(s, gate)' =>
                               HeldAt(s, gate)' /\ FilmedAt(s, gate)'
      BY DEF AloneAt
    <2>1. VerdictsAlone(s)
      BY <1>11 DEF VerdictsAlone
    <2>2. HeldAt(s, after)'
      BY <1>6, <1>7 DEF HeldAt
    <2>3. FilmedAt(s, after)'
      <3>1. CASE s \notin filmed
        BY <1>4, <3>1 DEF FilmedAt
      <3>2. CASE s \in filmed
        <4>1. before.consent \in Granted /\ before.status \notin Unstarted
          BY <1>15, <2>1, <3>2 DEF FilmedAt
        <4>2. after.status \in {"ended", "failed"} /\ after.consent \in Granted
          BY <1>15, <2>1, <4>1, OpenGate
        <4>3. ~MayStream(after) /\ after.status \notin Unstarted
          BY <4>2 DEF MayStream, Unstarted
        <4>4. restarts = 0 => s \in stopping' \/ rows[s].recordingPath
          BY <1>6, <1>7, <1>15, <2>1, <3>2, <4>3 DEF FilmedAt
        <4> QED
          BY <1>4, <4>2, <4>3, <4>4 DEF FilmedAt
      <3> QED
        BY <3>1, <3>2
    <2> QED
      BY <1>13, <1>15, <2>1, <2>2, <2>3
  <1>17. SwitchesAt(s)'
    <2> SUFFICES ASSUME NoneCrossed(s)'
                 PROVE  /\ \A d \in Calls : ~Switching(d, s)'
                        /\ InputHeld(s)'
                        /\ \A gate \in SessionState :
                               SettledAt(s, gate)' => FlagAt(s, gate)'
      BY DEF SwitchesAt
    <2>1. NoneCrossed(s) /\ VerdictsAlone(s) /\ VerdictsInOrder(s)
      BY <1>11, Nested DEF NoneCrossed
    <2>2. FlagAt(s, before)
      BY <1>11, <1>12, <2>1 DEF SessionAt, SwitchesAt
    <2>3. \A d \in Calls : ~Switching(d, s)'
      BY <1>15, <2>1 DEF Switching
    <2>4. inputQ'[s] = 0
      <3>1. CASE MayStream(after)
        <4>1. ~MayStream(before)
          BY <1>15, <2>1, <3>1, OpenGate
        <4> QED
          BY <1>6, <1>15, <2>1, <3>1, <4>1 DEF HeldAt
      <3>2. CASE ~MayStream(after)
        BY <1>6, <1>7, <3>2
      <3> QED
        BY <3>1, <3>2
    <2>5. FlagAt(s, after)'
      <3>1. CASE MayStream(after)
        <4>1. before.status \in Unstarted /\ ~MayStream(before)
          BY <1>15, <2>1, <3>1, OpenGate
        <4>2. rows[s].recording /\ rec[s] = "off"
          BY <1>15, <2>1, <2>2, <4>1 DEF FlagAt, HeldAt
        <4> QED
          BY <1>4, <1>6, <3>1, <4>2, OpenGate DEF FlagAt
      <3>2. CASE after.status \in Unstarted
        <4>1. before.status \in Unstarted
          BY <1>13, <2>1, <3>2, FollowsOn
        <4> QED
          BY <1>4, <2>2, <3>2, <4>1, OpenGate DEF FlagAt
      <3>3. CASE IsTerminal(after.status)
        BY <3>3, OpenGate DEF FlagAt
      <3> QED
        BY <3>1, <3>2, <3>3, OpenGate
    <2>6. InputHeld(s)'
      BY <2>4 DEF InputHeld
    <2> QED
      BY <1>13, <2>1, <2>3, <2>5, <2>6
  <1>18. SessionAt(s)'
    BY <1>14, <1>16, <1>17 DEF SessionAt
  <1> QED
    BY <1>8, <1>18, OneSession

(***************************************************************************)
(* Completions of the recorder, time and restarts                          *)
(***************************************************************************)

\* A step of no call.  It may write the path of a recording, and close the
\* parts of one once the row has its path.
Passing(s) ==
    /\ rows'[s].gate = rows[s].gate
    /\ rows'[s].policy = rows[s].policy
    /\ rows'[s].inputEnabled = rows[s].inputEnabled
    /\ rows'[s].recording = rows[s].recording
    /\ rows[s].recordingPath => rows'[s].recordingPath
    /\ s \in stopping => \/ s \in stopping'
                         \/ s \in filmed => rows'[s].recordingPath
    /\ capture[s] = NoClaim => capture'[s] = NoClaim

LEMMA Passes ==
    ASSUME SessionInv,
           UNCHANGED <<frames, inputQ, rec, calls, audit, filmed, restarts, crossed>>,
           \A s \in Sessions : Passing(s)
    PROVE  SessionInv'
  <1> SUFFICES ASSUME NEW s \in Sessions
               PROVE  SessionAt(s)'
    BY DEF SessionInv
  <1>1. SessionAt(s) /\ Passing(s)
    BY DEF SessionInv
  <1>2. \A c \in Calls : /\ On(c, s)' <=> On(c, s)
                         /\ Deciding(c, s)' <=> Deciding(c, s)
                         /\ Switching(c, s)' <=> Switching(c, s)
                         /\ Pausing(c, s)' <=> Pausing(c, s)
                         /\ Locking(c, s)' <=> Locking(c, s)
                         /\ Saving(c, s)' <=> Saving(c, s)
                         /\ calls'[c] = calls[c]
    BY DEF On, InFlight, Deciding, Switching, Pausing, Locking, Saving
  <1>3. \A gate : SettledAt(s, gate)' <=> SettledAt(s, gate)
    BY <1>1, <1>2 DEF SettledAt, Passing
  <1>4. OrderAt(s)'
    <2>1. VerdictsInOrder(s)' <=> VerdictsInOrder(s)
      BY DEF VerdictsInOrder
    <2>2. \A gate : LoggedAt(s, gate)' <=> LoggedAt(s, gate)
      BY DEF LoggedAt
    <2>3. ASSUME NEW c \in Calls, Deciding(c, s), Decided(c)
          PROVE  Decided(c)'
      <3>1. calls'[c] = calls[c] /\ calls[c].sid = s
        BY <1>2, <2>3 DEF Deciding
      <3> QED
        BY <1>1, <2>3, <3>1 DEF Decided, Passing
    <2> QED
      BY <1>1, <1>2, <1>3, <2>1, <2>2, <2>3 DEF SessionAt, OrderAt
  <1>5. AloneAt(s)'
    <2>1. VerdictsAlone(s)' <=> VerdictsAlone(s)
      BY DEF VerdictsAlone
    <2>2. \A gate : HeldAt(s, gate) /\ FilmedAt(s, gate)
                        => HeldAt(s, gate)' /\ FilmedAt(s, gate)'
      BY <1>1 DEF HeldAt, FilmedAt, Passing
    <2>3. Active(s)' <=> Active(s)
      BY <1>1 DEF Active, Passing
    <2> QED
      BY <1>1, <1>2, <1>3, <2>1, <2>2, <2>3 DEF SessionAt, AloneAt
  <1>6. SwitchesAt(s)'
    <2>1. NoneCrossed(s)' <=> NoneCrossed(s)
      BY DEF NoneCrossed
    <2>2. ASSUME NEW c \in Calls, Switching(c, s), Knows(c)
          PROVE  Knows(c)'
      <3>1. calls'[c] = calls[c] /\ calls[c].sid = s
        BY <1>2, <2>2 DEF Switching, On
      <3> QED
        BY <1>1, <2>2, <3>1 DEF Knows, Passing
    <2>3. InputHeld(s) => InputHeld(s)'
      BY <1>1, <1>2 DEF InputHeld, Passing
    <2>4. \A gate : FlagAt(s, gate) => FlagAt(s, gate)'
      BY <1>1, <1>2 DEF FlagAt, Passing
    <2> QED
      BY <1>1, <1>2, <1>3, <2>1, <2>2, <2>3, <2>4 DEF SessionAt, SwitchesAt
  <1> QED
    BY <1>4, <1>5, <1>6 DEF SessionAt

LEMMA PassingKeeps ==
    ASSUME SessionInv, TypeOK
    PROVE  /\ \A s \in Sessions : Finalise(s) => SessionInv'
           /\ Clock => SessionInv'
           /\ UNCHANGED vars => SessionInv'
  <1>1. ASSUME NEW r \in Sessions, Finalise(r)
        PROVE  SessionInv'
    <2>1. /\ stopping' = stopping \ {r}
          /\ UNCHANGED <<frames, capture, inputQ, rec, calls, audit, filmed,
                         restarts, crossed>>
          /\ rows' = [rows EXCEPT ![r] = [rows[r] EXCEPT
                         !.recordingPath = @ \/ r \in filmed]]
      BY <1>1 DEF Finalise
    <2>2. /\ rows'[r] = [rows[r] EXCEPT !.recordingPath = @ \/ r \in filmed]
          /\ \A s \in Sessions \ {r} : rows'[s] = rows[s]
      BY <2>1, RowWritten
    <2>3. rows[r] \in Row
      BY DEF TypeOK
    <2>4. /\ rows'[r].gate = rows[r].gate
          /\ rows'[r].policy = rows[r].policy
          /\ rows'[r].inputEnabled = rows[r].inputEnabled
          /\ rows'[r].recording = rows[r].recording
      BY <2>2, <2>3 DEF Row
    <2>5. /\ rows[r].recordingPath => rows'[r].recordingPath
          /\ r \in filmed => rows'[r].recordingPath
      BY <2>2, <2>3 DEF Row
    <2>6. ASSUME NEW s \in Sessions
          PROVE  Passing(s)
      <3>1. CASE s = r
        BY <2>1, <2>4, <2>5, <3>1 DEF Passing
      <3>2. CASE s # r
        BY <2>1, <2>2, <3>2 DEF Passing
      <3> QED
        BY <3>1, <3>2
    <2> QED
      BY <2>1, <2>6, Passes
  <1>2. ASSUME Clock
        PROVE  SessionInv'
    <2>1. UNCHANGED <<frames, inputQ, rec, stopping, calls, audit, filmed,
                      restarts, crossed>>
      BY <1>2 DEF Clock
    <2>2. ASSUME NEW s \in Sessions
          PROVE  Passing(s)
      <3>1. rows'[s] \in {rows[s], [rows[s] EXCEPT !.times = Aged(@)]}
        BY <1>2 DEF Clock
      <3>2. rows[s] \in Row
        BY DEF TypeOK
      <3>3. /\ rows'[s].gate = rows[s].gate
            /\ rows'[s].policy = rows[s].policy
            /\ rows'[s].inputEnabled = rows[s].inputEnabled
            /\ rows'[s].recording = rows[s].recording
            /\ rows'[s].recordingPath = rows[s].recordingPath
        BY <3>1, <3>2 DEF Row
      <3>4. capture[s] = NoClaim => capture'[s] = NoClaim
        BY <1>2 DEF Clock
      <3> QED
        BY <2>1, <3>3, <3>4 DEF Passing
    <2> QED
      BY <2>1, <2>2, Passes
  <1>3. ASSUME UNCHANGED vars
        PROVE  SessionInv'
    <2>1. \A s \in Sessions : Passing(s)
      BY <1>3 DEF vars, memory, Passing
    <2> QED
      BY <1>3, <2>1, Passes DEF vars, memory
  <1> QED
    BY <1>1, <1>2, <1>3

\* A restart of the API, whatever a call was doing.
LEMMA RestartKeeps ==
    ASSUME SessionInv, TypeOK, Restart
    PROVE  SessionInv'
  <1> SUFFICES ASSUME NEW s \in Sessions
               PROVE  SessionAt(s)'
    BY DEF SessionInv
  <1>1. \A c \in Calls : calls'[c] = NoCall
    BY DEF Restart
  <1>2. /\ UNCHANGED <<rows, audit, filmed, crossed>>
        /\ restarts' # 0
    BY DEF Restart, TypeOK
  <1>3. /\ s \notin frames' /\ capture'[s] = NoClaim
        /\ inputQ'[s] = 0 /\ rec'[s] = "off"
    BY DEF Restart
  <1>4. \A c \in Calls : ~On(c, s)' /\ ~Deciding(c, s)' /\ ~Switching(c, s)'
                         /\ ~Saving(c, s)'
    BY <1>1 DEF On, InFlight, Deciding, Decides, Switching, Saving, NoCall
  <1>5. \A gate : SettledAt(s, gate)' => gate = rows[s].gate
    BY <1>2, <1>4 DEF SettledAt
  <1>6. SessionAt(s) /\ rows[s].gate \in SessionState
    BY DEF SessionInv, TypeOK, Row
  <1> DEFINE gate == rows[s].gate
  <1>7. ASSUME VerdictsInOrder(s)
        PROVE  \E before \in SessionState :
                   /\ SettledAt(s, before)
                   /\ \/ before = gate
                      \/ /\ before.status \in Unstarted
                         /\ gate.status \in Unstarted => gate.consent = "pending"
                      \/ /\ MayStream(before) /\ IsTerminal(gate.status)
                         /\ gate.consent = before.consent
    <2>1. PICK before \in SessionState :
              /\ SettledAt(s, before)
              /\ before = gate \/ Follows(before, gate, rows[s].policy)
      BY <1>6, <1>7, SettledGate DEF SessionAt
    <2>2. CASE Follows(before, gate, rows[s].policy)
      <3>1. /\ ~IsTerminal(before.status)
            /\ MayStream(before) => /\ gate.status \in {"ended", "failed"}
                                    /\ gate.consent = before.consent
            /\ gate.status \in Unstarted => gate.consent = "pending"
        BY <1>6, <2>2, FollowsOn
      <3>2. gate.status \in {"ended", "failed"} => IsTerminal(gate.status)
        BY DEF IsTerminal, TerminalStatus
      <3> QED
        BY <2>1, <3>1, <3>2, OpenGate
    <2> QED
      BY <2>1, <2>2
  <1>8. OrderAt(s)'
    <2> SUFFICES ASSUME VerdictsInOrder(s)'
                 PROVE  LoggedAt(s, gate)'
      BY <1>2, <1>4, <1>5 DEF OrderAt
    <2>1. VerdictsInOrder(s)
      BY <1>2 DEF VerdictsInOrder
    <2>2. PICK before \in SessionState :
              /\ SettledAt(s, before)
              /\ \/ before = gate
                 \/ /\ before.status \in Unstarted
                    /\ gate.status \in Unstarted => gate.consent = "pending"
                 \/ /\ MayStream(before) /\ IsTerminal(gate.status)
                    /\ gate.consent = before.consent
      BY <1>7, <2>1
    <2>3. LoggedAt(s, before)
      BY <1>6, <2>1, <2>2 DEF SessionAt, OrderAt
    <2>4. CASE before = gate
      BY <1>2, <2>3, <2>4 DEF LoggedAt
    <2>5. CASE /\ before.status \in Unstarted
               /\ gate.status \in Unstarted => gate.consent = "pending"
      <3>1. audit'[s] = <<>>
        BY <1>2, <2>3, <2>5 DEF LoggedAt
      <3>2. \A i, j \in 1..Len(audit'[s]) : i # j => FALSE
        BY <3>1, ShortLogs
      <3> QED
        BY <1>2, <2>5, <3>1, <3>2 DEF LoggedAt
    <2>6. CASE MayStream(before) /\ IsTerminal(gate.status)
      <3>1. \A i, j \in 1..Len(audit'[s]) : i = j
        BY <1>2, <2>3, <2>6, ShortLogs DEF LoggedAt
      <3> QED
        BY <1>2, <1>6, <2>6, <3>1, OpenGate DEF LoggedAt
    <2> QED
      BY <2>2, <2>4, <2>5, <2>6
  <1>9. AloneAt(s)'
    <2> SUFFICES ASSUME VerdictsAlone(s)'
                 PROVE  HeldAt(s, gate)' /\ FilmedAt(s, gate)'
      BY <1>2, <1>4, <1>5 DEF AloneAt
    <2>1. VerdictsAlone(s) /\ VerdictsInOrder(s)
      BY <1>2, Nested DEF VerdictsAlone
    <2>2. PICK before \in SessionState :
              /\ SettledAt(s, before)
              /\ \/ before = gate
                 \/ before.status \in Unstarted
                 \/ /\ MayStream(before) /\ IsTerminal(gate.status)
                    /\ gate.consent = before.consent
      BY <1>7, <2>1
    <2>3. FilmedAt(s, before)
      BY <1>6, <2>1, <2>2 DEF SessionAt, AloneAt
    <2>4. s \in filmed => gate.consent \in Granted /\ gate.status \notin Unstarted
      BY <1>6, <2>2, <2>3, OpenGate DEF FilmedAt
    <2> QED
      BY <1>2, <1>3, <2>4 DEF HeldAt, FilmedAt
  <1>10. SwitchesAt(s)'
    <2> SUFFICES ASSUME NoneCrossed(s)'
                 PROVE  InputHeld(s)' /\ FlagAt(s, gate)'
      BY <1>2, <1>4, <1>5 DEF SwitchesAt
    <2>1. NoneCrossed(s) /\ VerdictsInOrder(s)
      BY <1>2, Nested DEF NoneCrossed
    <2>2. PICK before \in SessionState :
              /\ SettledAt(s, before)
              /\ \/ before = gate
                 \/ before.status \in Unstarted
                 \/ MayStream(before) /\ IsTerminal(gate.status)
      BY <1>7, <2>1
    <2>3. FlagAt(s, before)
      BY <1>6, <2>1, <2>2 DEF SessionAt, SwitchesAt
    <2>4. gate.status \in Unstarted => rows[s].recording
      BY <1>6, <2>2, <2>3, OpenGate DEF FlagAt
    <2> QED
      BY <1>2, <1>3, <2>4 DEF InputHeld, FlagAt
  <1> QED
    BY <1>8, <1>9, <1>10 DEF SessionAt

\* Initially nobody is at work and nothing is held.
LEMMA InitSessions == Init => SessionInv
  <1> SUFFICES ASSUME Init, NEW s \in Sessions
               PROVE  SessionAt(s)
    BY DEF SessionInv
  <1>1. \A c \in Calls : ~On(c, s) /\ ~Deciding(c, s) /\ ~Switching(c, s)
                         /\ ~Saving(c, s)
    <2>1. \A c \in Calls : calls[c] = NoCall
      BY DEF Init
    <2> QED
      BY <2>1 DEF On, InFlight, Deciding, Decides, Switching, Saving, NoCall
  <1>2. /\ s \notin frames /\ capture[s] = NoClaim /\ s \notin filmed
        /\ inputQ[s] = 0 /\ rec[s] = "off" /\ audit[s] = <<>>
    BY DEF Init
  <1>3. rows[s].recording /\ rows[s].gate = InitialState
    <2>1. PICK policies \in [Sessions -> Policy] :
              rows = [r \in Sessions |-> NewRow(policies[r])]
      BY DEF Init
    <2> QED
      BY <2>1 DEF NewRow
  <1>4. ASSUME NEW gate \in SessionState, SettledAt(s, gate)
        PROVE  /\ LoggedAt(s, gate) /\ HeldAt(s, gate)
               /\ FilmedAt(s, gate) /\ FlagAt(s, gate)
    <2>1. gate = InitialState
      BY <1>1, <1>3, <1>4 DEF SettledAt
    <2>2. gate.status = "requested" /\ gate.consent = "pending"
      BY <2>1 DEF InitialState
    <2> QED
      BY <1>2, <1>3, <2>2 DEF LoggedAt, HeldAt, FilmedAt, FlagAt, MayStream,
                              IsTerminal, TerminalStatus, Unstarted
  <1>5. InputHeld(s)
    BY <1>2 DEF InputHeld
  <1> QED
    BY <1>1, <1>4, <1>5 DEF SessionAt, OrderAt, AloneAt, SwitchesAt

\* Every step preserves the invariant.
LEMMA SessionStep ==
    ASSUME TypeOK, GateSound, SessionInv, [Next]_vars
    PROVE  SessionInv'
  <1>1. ASSUME NEW c \in Callers, NEW s \in Sessions, Request(c, s)
        PROVE  SessionInv'
    <2>1. c \in Calls
      BY DEF Calls
    <2>2. CASE AgentAck(c, s) \/ ConsentAnswer(c, s) \/ OperatorEnd(c, s)
               \/ AgentLost(c, s)
      BY <2>1, <2>2, ApplyStarts
         DEF AgentAck, ConsentAnswer, OperatorEnd, AgentLost, EventType, People
    <2>3. CASE \E source \in Sources : FrameRead(c, s, source)
      BY <2>1, <2>3, WorkStarts
    <2>4. CASE QueueRead(c, s) \/ InputRead(c, s) \/ RecordingRead(c, s)
               \/ AudioRead(c, s)
      BY <2>1, <2>4, WorkStarts
    <2>5. CASE \E quality \in Qualities : QualityRead(c, s, quality)
      BY <2>1, <2>5, WorkStarts
    <2> QED
      BY <1>1, <2>2, <2>3, <2>4, <2>5 DEF Request
  <1>2. ASSUME NEW t \in Timers, NEW s \in Sessions, Tick(t, s)
        PROVE  SessionInv'
    BY <1>2, ApplyStarts DEF Tick, EventType, People, Calls
  <1>3. ASSUME NEW c \in Calls, Continue(c)
        PROVE  SessionInv'
    BY <1>3, WriteKeeps, SettleKeeps, FrameWorks, InputWorks, RecordingWorks,
       SettingWorks DEF Continue
  <1>4. CASE (\E s \in Sessions : Finalise(s)) \/ Clock \/ UNCHANGED vars
    BY <1>4, PassingKeeps
  <1>5. CASE Restart
    BY <1>5, RestartKeeps
  <1> QED
    BY <1>1, <1>2, <1>3, <1>4, <1>5 DEF Next

\* Memory, log and recording of every session follow the last verdict apply()
\* has settled, and a call's reading is still true when it acts on it, as far as
\* the calls that met allow.
LEMMA SessionInvariant == Spec => []SessionInv
  <1>1. TypeOK /\ GateSound /\ SessionInv /\ [Next]_vars => SessionInv'
    BY SessionStep
  <1> QED
    BY <1>1, InitSessions, TypeCorrect, ConsentCorrect, PTL DEF Spec

(***************************************************************************)
(* What is seen of a session at rest                                       *)
(***************************************************************************)

\* What a session at rest answers to.
LEMMA AtRest ==
    ASSUME TypeOK, SessionInv, NEW s \in Sessions, Quiet(s)
    PROVE  /\ rows[s].gate \in SessionState
           /\ VerdictsInOrder(s) => LoggedAt(s, rows[s].gate)
           /\ VerdictsAlone(s) => /\ HeldAt(s, rows[s].gate)
                                  /\ FilmedAt(s, rows[s].gate)
           /\ NoneCrossed(s) => InputHeld(s) /\ FlagAt(s, rows[s].gate)
           /\ \A c \in Calls : ~Pausing(c, s) /\ ~Locking(c, s)
  <1>1. \A c \in Calls : ~Saving(c, s) /\ ~Pausing(c, s) /\ ~Locking(c, s)
    BY DEF Quiet, At, InFlight, Saving, Pausing, Locking, NoCall
  <1>2. SettledAt(s, rows[s].gate) /\ rows[s].gate \in SessionState
    BY <1>1 DEF SettledAt, TypeOK, Row
  <1>3. OrderAt(s) /\ AloneAt(s) /\ SwitchesAt(s)
    BY DEF SessionInv, SessionAt
  <1> QED
    BY <1>1, <1>2, <1>3 DEF OrderAt, AloneAt, SwitchesAt

\* Once no call is at work on a session that does not stream, it has no picture,
\* no capture claim, no encoder and no input in memory, unless an apply() of the
\* session was in flight together with another call (handleFrame() and
\* queueInput() store after awaits, and may do so after the drop).  Frames and
\* switches may overlap as they like.
THEOREM MemoryReleased == Spec => []NothingOutlivesSession
  <1>1. TypeOK /\ SessionInv => NothingOutlivesSession
    BY AtRest DEF NothingOutlivesSession, HeldAt, Active
  <1> QED
    BY <1>1, SessionInvariant, TypeCorrect, PTL

\* Keystrokes wait only while control is on, for a session at rest of whose
\* switches, input and verdicts no two were in flight at once.
THEOREM ControlTrue == Spec => []ControlHonest
  <1>1. TypeOK /\ SessionInv => ControlHonest
    BY AtRest DEF ControlHonest, InputHeld
  <1> QED
    BY <1>1, SessionInvariant, TypeCorrect, PTL

\* The recording flag tells the state of the recorder until a restart, when no
\* two switches or verdicts of the session met; video exists only of sessions
\* whose verdict allowed it, and a closed one leads to its video, when no
\* verdict met another call.
THEOREM RecordingTrue == Spec => []RecordingHonest
  <1>1. TypeOK /\ SessionInv => RecordingHonest
    <2> SUFFICES ASSUME TypeOK, SessionInv
                 PROVE  RecordingHonest
      OBVIOUS
    <2>1. RecordingFlagHonest
      BY AtRest DEF FlagAt, RecordingFlagHonest, Active
    <2>2. ASSUME NEW s \in Sessions, VerdictsAlone(s), s \in filmed
          PROVE  rows[s].gate.consent \in Granted
      <3>1. VerdictsInOrder(s) /\ SessionAt(s)
        BY <2>2, Nested DEF SessionInv
      <3>2. PICK before \in SessionState :
                /\ SettledAt(s, before)
                /\ \/ before = rows[s].gate
                   \/ Follows(before, rows[s].gate, rows[s].policy)
        BY <3>1, SettledGate DEF SessionAt
      <3>3. before.consent \in Granted /\ before.status \notin Unstarted
        BY <2>2, <3>1, <3>2 DEF SessionAt, AloneAt, FilmedAt
      <3>4. rows[s].gate \in SessionState
        BY DEF TypeOK, Row
      <3> QED
        BY <3>2, <3>3, <3>4, FollowsOn, OpenGate
    <2>3. ASSUME NEW s \in Sessions, VerdictsAlone(s), s \in filmed,
                 IsTerminal(rows[s].gate.status), Quiet(s),
                 s \notin stopping, restarts = 0
          PROVE  rows[s].recordingPath
      <3>1. ~MayStream(rows[s].gate)
        BY <2>3, AtRest, OpenGate
      <3> QED
        BY <2>3, <3>1, AtRest DEF HeldAt, FilmedAt
    <2>4. FilmedOnlyIfGranted
      BY <2>2, <2>3 DEF FilmedOnlyIfGranted
    <2> QED
      BY <2>1, <2>4 DEF RecordingHonest
  <1> QED
    BY <1>1, SessionInvariant, TypeCorrect, PTL

\* The event log of a session at rest tells its story once, and to the end
\* unless a restart cut it short, whatever frames, input and switches came
\* beside the verdicts, when no two apply() of the session were in flight.
THEOREM LogToldOnce == Spec => []AuditOnce
  <1>1. TypeOK /\ SessionInv => AuditOnce
    <2> SUFFICES ASSUME TypeOK, SessionInv, NEW s \in Sessions, Quiet(s),
                        VerdictsInOrder(s)
                 PROVE  /\ \A i, j \in 1..Len(audit[s]) :
                               i # j => audit[s][i].says # audit[s][j].says
                        /\ IsTerminal(rows[s].gate.status) /\ restarts = 0 =>
                               \E i \in 1..Len(audit[s]) : Ending(audit[s][i])
      BY DEF AuditOnce
    <2>1. LoggedAt(s, rows[s].gate) /\ rows[s].gate \in SessionState
      BY AtRest
    <2>2. CASE IsTerminal(rows[s].gate.status)
      BY <2>1, <2>2 DEF LoggedAt
    <2>3. CASE ~IsTerminal(rows[s].gate.status)
      <3>1. audit[s] = <<>> \/ \E line \in AuditFact : audit[s] = <<line>>
        BY <2>1, <2>3, OpenGate DEF LoggedAt
      <3>2. \A i, j \in 1..Len(audit[s]) : i # j => FALSE
        <4>1. CASE audit[s] = <<>>
          BY <4>1, ShortLogs
        <4>2. CASE \E line \in AuditFact : audit[s] = <<line>>
          BY <4>2, ShortLogs
        <4> QED
          BY <3>1, <4>1, <4>2
      <3> QED
        BY <2>3, <3>2
    <2> QED
      BY <2>2, <2>3
  <1> QED
    BY <1>1, SessionInvariant, TypeCorrect, PTL

(***************************************************************************)
(* The contract of the gate                                                *)
(***************************************************************************)

\* A call that starts has only read; of the conditions it may end those of its
\* own session.
LEMMA OnlyReads ==
    ASSUME TypeOK, NEW c, NEW s \in Sessions, Request(c, s) \/ Tick(c, s)
    PROVE  /\ UNCHANGED rows
           /\ \A r \in Sessions \ {s} : crossed'[r] = crossed[r]
           /\ crossed[s] \subseteq crossed'[s]
  <1>1. ASSUME NEW call, call.sid = s, Start(c, call)
        PROVE  /\ \A r \in Sessions \ {s} : crossed'[r] = crossed[r]
               /\ crossed[s] \subseteq crossed'[s]
    BY <1>1 DEF Start, TypeOK
  <1>2. ASSUME NEW event, NEW user, ApplyRead(c, s, event, user)
        PROVE  UNCHANGED rows /\ \E call : call.sid = s /\ Start(c, call)
    BY <1>2 DEF ApplyRead
  <1>3. ASSUME NEW source, FrameRead(c, s, source)
        PROVE  UNCHANGED rows /\ \E call : call.sid = s /\ Start(c, call)
    BY <1>3 DEF FrameRead
  <1>4. ASSUME NEW feature, NEW column, NEW at,
               SwitchRead(c, s, feature, column, at)
        PROVE  UNCHANGED rows /\ \E call : call.sid = s /\ Start(c, call)
    BY <1>4 DEF SwitchRead
  <1>5. ASSUME NEW quality, QualityRead(c, s, quality)
        PROVE  UNCHANGED rows /\ \E call : call.sid = s /\ Start(c, call)
    BY <1>5 DEF QualityRead
  <1>6. ASSUME QueueRead(c, s)
        PROVE  UNCHANGED rows /\ \E call : call.sid = s /\ Start(c, call)
    BY <1>6 DEF QueueRead
  <1>7. UNCHANGED rows /\ \E call : call.sid = s /\ Start(c, call)
    BY <1>2, <1>3, <1>4, <1>5, <1>6
       DEF Request, Tick, AgentAck, ConsentAnswer, OperatorEnd, AgentLost,
           InputRead, RecordingRead, AudioRead
  <1> QED
    BY <1>1, <1>7

\* A step that keeps every gate, every policy and every condition is a stutter.
LEMMA ContractStutters ==
    ASSUME \A s \in Sessions : /\ rows'[s].gate = rows[s].gate
                               /\ rows'[s].policy = rows[s].policy
                               /\ crossed'[s] = crossed[s]
    PROVE  UNCHANGED Contract!vars
  BY DEF Contract!vars, VerdictsInOrder

\* A call that starts may let the promises lapse.
LEMMA ContractLapses ==
    ASSUME TypeOK, NEW c, NEW s \in Sessions, Request(c, s) \/ Tick(c, s)
    PROVE  [Contract!Next]_(Contract!vars)
  <1> DEFINE bound == {r \in Sessions : VerdictsInOrder(r)}
  <1>1. /\ rows' = rows
        /\ \A r \in Sessions \ {s} : crossed'[r] = crossed[r]
        /\ crossed[s] \subseteq crossed'[s]
    BY OnlyReads
  <1>2. /\ \A r \in Sessions \ {s} : VerdictsInOrder(r)' <=> VerdictsInOrder(r)
        /\ VerdictsInOrder(s)' => VerdictsInOrder(s)
    BY <1>1 DEF VerdictsInOrder
  <1>3. CASE VerdictsInOrder(s) /\ ~VerdictsInOrder(s)'
    <2>1. bound' = bound \ {s} /\ s \in bound
      BY <1>2, <1>3
    <2>2. Contract!Lapse(s)
      BY <1>1, <2>1 DEF Contract!Lapse
    <2> QED
      BY <2>2 DEF Contract!Next
  <1>4. CASE ~(VerdictsInOrder(s) /\ ~VerdictsInOrder(s)')
    <2>1. bound' = bound
      BY <1>2, <1>4
    <2> QED
      BY <1>1, <2>1 DEF Contract!vars
  <1> QED
    BY <1>3, <1>4

\* The write of apply() is a step of the contract, or one of a session that the
\* contract has let go.
LEMMA ContractMoves ==
    ASSUME TypeOK, SessionInv, NEW c \in Calls, ApplyWrite(c)
    PROVE  Contract!Next
  <1> DEFINE status  == [s \in Sessions |-> rows[s].gate.status]
             verdict == [s \in Sessions |-> rows[s].gate.consent]
             policy  == [s \in Sessions |-> rows[s].policy]
             bound   == {s \in Sessions : VerdictsInOrder(s)}
  <1>1. calls[c].at = "decided" /\ calls[c] \in ApplyCall
    BY CallCases DEF ApplyWrite, TypeOK
  <1>2. PICK s \in Sessions : calls[c].sid = s /\ rows[s] \in Row
    BY <1>1, AtWork
  <1>3. PICK before \in SessionState, after \in SessionState :
            calls[c].before = before /\ calls[c].after = after
    BY <1>1 DEF ApplyCall
  <1>4. /\ rows' = [rows EXCEPT ![s] = Saved(rows[s], calls[c])]
        /\ crossed' = crossed
    BY <1>2 DEF ApplyWrite
  <1>5. /\ rows'[s] = Saved(rows[s], calls[c])
        /\ \A r \in Sessions \ {s} : rows'[r] = rows[r]
    BY <1>4, RowWritten
  <1>6. rows'[s].gate = after /\ rows'[s].policy = rows[s].policy
    BY <1>2, <1>3, <1>5 DEF Row, Saved
  <1>7. /\ status' = [status EXCEPT ![s] = after.status]
        /\ verdict' = [verdict EXCEPT ![s] = after.consent]
        /\ policy' = policy
    BY <1>5, <1>6
  <1>8. bound' = bound
    BY <1>4 DEF VerdictsInOrder
  <1>9. CASE ~VerdictsInOrder(s)
    <2>1. after.status \in Contract!Statuses /\ after.consent \in Contract!Verdicts
      BY DEF SessionState, SessionStatus, OpenStatus, TerminalStatus,
             ConsentState, Granted, Contract!Statuses, Contract!Verdicts
    <2>2. Contract!Unbound(s)
      BY <1>7, <1>8, <1>9, <2>1 DEF Contract!Unbound
    <2> QED
      BY <2>2 DEF Contract!Next
  <1>10. CASE VerdictsInOrder(s)
    <2>1. Deciding(c, s)
      BY <1>1, <1>2 DEF Deciding, Decides
    <2>2. Decided(c)
      BY <1>10, <2>1 DEF SessionInv, SessionAt, OrderAt
    <2>3. rows[s].gate = before /\ Follows(before, after, rows[s].policy)
      BY <1>1, <1>2, <1>3, <2>2 DEF Decided
    <2>4. /\ status[s] = before.status /\ verdict[s] = before.consent
          /\ policy[s] = rows[s].policy
      BY <2>3
    <2>5. ASSUME NEW from, before.status \in from, NEW to, to = after.status,
                 NEW outcome, outcome = after.consent
          PROVE  Contract!Move(s, from, to, outcome)
      BY <1>7, <1>8, <1>10, <2>4, <2>5 DEF Contract!Move
    <2>6. \/ Contract!Prompt(s) \/ Contract!GoUnasked(s) \/ Contract!Accept(s)
          \/ Contract!Decline(s) \/ Contract!ProceedUnanswered(s)
          \/ Contract!CancelUnanswered(s) \/ Contract!Expire(s)
          \/ Contract!Close(s)
      <3>1. CASE before.status = "requested" /\ after.status = "awaiting-consent"
        <4>1. after.consent = "pending" /\ rows[s].policy.consentRequired
          BY <2>3, <3>1 DEF Follows
        <4> QED
          BY <2>4, <2>5, <3>1, <4>1 DEF Contract!Prompt
      <3>2. CASE before.status = "requested" /\ after.status = "active"
        <4>1. after.consent = "not-required"
          BY <2>3, <3>2 DEF Follows
        <4> QED
          BY <2>5, <3>2, <4>1 DEF Contract!GoUnasked
      <3>3. CASE before.status = "requested" /\ after.status = "expired"
        <4>1. after.consent = "pending"
          BY <2>3, <3>3 DEF Follows
        <4> QED
          BY <2>5, <3>3, <4>1 DEF Contract!Expire
      <3>4. CASE before.status = "awaiting-consent" /\ after.status = "declined"
        <4>1. after.consent = "declined"
          BY <2>3, <3>4 DEF Follows
        <4> QED
          BY <2>5, <3>4, <4>1 DEF Contract!Decline
      <3>5. CASE before.status = "awaiting-consent" /\ after.status = "expired"
        <4>1. after.consent = "pending" /\ ~rows[s].policy.server
          BY <2>3, <3>5 DEF Follows
        <4> QED
          BY <2>4, <2>5, <3>5, <4>1 DEF Contract!CancelUnanswered
      <3>6. CASE before.status = "awaiting-consent" /\ after.status = "active"
        <4>1. \/ after.consent = "accepted"
              \/ after.consent = "auto-accepted" /\ rows[s].policy.server
          BY <2>3, <3>6 DEF Follows
        <4> QED
          BY <2>4, <2>5, <3>6, <4>1
             DEF Contract!Accept, Contract!ProceedUnanswered
      <3>7. CASE after.status \in {"ended", "failed"}
        <4>1. /\ before.status \in {"requested", "awaiting-consent", "active"}
              /\ after.consent = before.consent
          BY <2>3, <3>7 DEF Follows, OpenStatus
        <4>2. Contract!Move(s, {"requested", "awaiting-consent", "active"},
                            after.status, after.consent)
          BY <2>5, <4>1
        <4>3. [r \in Sessions |-> rows[r].gate.consent][s] = after.consent
          BY <2>3, <4>1
        <4> QED
          BY <3>7, <4>2, <4>3 DEF Contract!Close, Contract!Move
      <3> QED
        BY <2>3, <3>1, <3>2, <3>3, <3>4, <3>5, <3>6, <3>7 DEF Follows
    <2> QED
      BY <2>6 DEF Contract!Next
  <1> QED
    BY <1>9, <1>10

\* No other step of a call writes a verdict, a policy or a condition.
LEMMA ContinueKeepsGate ==
    ASSUME TypeOK, NEW c \in Calls, Continue(c), ~ApplyWrite(c),
           NEW s \in Sessions
    PROVE  /\ rows'[s].gate = rows[s].gate /\ rows'[s].policy = rows[s].policy
           /\ crossed' = crossed
  <1>1. rows[s] \in Row
    BY DEF TypeOK
  <1>2. ASSUME \/ UNCHANGED rows \/ FrameClaims(c) \/ FrameStored(c)
               \/ InputWrite(c) \/ WriteRecording(c) \/ AudioWrite(c)
               \/ QualityWrite(c)
        PROVE  rows'[s].gate = rows[s].gate /\ rows'[s].policy = rows[s].policy
    <2>1. CASE UNCHANGED rows
      BY <2>1
    <2>2. CASE FrameClaims(c)
      BY <1>1, <2>2 DEF FrameClaims, TypeOK, Row
    <2>3. CASE FrameStored(c)
      BY <1>1, <2>3 DEF FrameStored, Counted, TypeOK, Row
    <2>4. CASE InputWrite(c)
      BY <1>1, <2>4 DEF InputWrite, TypeOK, Row
    <2>5. CASE WriteRecording(c)
      BY <1>1, <2>5 DEF WriteRecording, TypeOK, Row
    <2>6. CASE AudioWrite(c)
      BY <1>1, <2>6 DEF AudioWrite, TypeOK, Row
    <2>7. CASE QualityWrite(c)
      BY <1>1, <2>7 DEF QualityWrite, TypeOK, Row
    <2> QED
      BY <1>2, <2>1, <2>2, <2>3, <2>4, <2>5, <2>6, <2>7
  <1>3. \/ UNCHANGED rows \/ FrameClaims(c) \/ FrameStored(c)
        \/ InputWrite(c) \/ WriteRecording(c) \/ AudioWrite(c)
        \/ QualityWrite(c)
    BY DEF Continue, ApplySettle, FrameRejected, FrameEmpty, FrameReplied,
           QueuePush, InputSettle, RecordingResume, RecordingPause,
           RecordingPaused
  <1>4. crossed' = crossed
    BY DEF Continue, ApplySettle, FrameRejected, FrameClaims, FrameStored,
           FrameEmpty, FrameReplied, QueuePush, InputWrite, InputSettle,
           RecordingResume, RecordingPause, RecordingPaused, AudioWrite,
           QualityWrite
  <1> QED
    BY <1>2, <1>3, <1>4

\* The gate keeps the contract: until two apply() of a session were in flight at
\* once, every write of its verdict is one of the contract's steps, whatever
\* frames, input and switches come in between and wherever a restart cuts in.
THEOREM ContractKept == Spec => KeepsContract
  <1>1. Init => Contract!Init
    <2> SUFFICES ASSUME Init
                 PROVE  Contract!Init
      OBVIOUS
    <2>1. PICK policies \in [Sessions -> Policy] :
              rows = [s \in Sessions |-> NewRow(policies[s])]
      BY DEF Init
    <2>2. ASSUME NEW s \in Sessions
          PROVE  /\ rows[s].gate.status = "requested"
                 /\ rows[s].gate.consent = "pending"
                 /\ rows[s].policy = policies[s]
                 /\ VerdictsInOrder(s)
      BY <2>1 DEF NewRow, InitialState, Init, VerdictsInOrder
    <2> QED
      BY <2>2 DEF Contract!Init, Contract!Policies, Policy
  <1>2. TypeOK /\ SessionInv /\ [Next]_vars => [Contract!Next]_(Contract!vars)
    <2> SUFFICES ASSUME TypeOK, SessionInv, [Next]_vars
                 PROVE  [Contract!Next]_(Contract!vars)
      OBVIOUS
    <2>1. CASE \E c \in Callers, s \in Sessions : Request(c, s)
      BY <2>1, ContractLapses
    <2>2. CASE \E t \in Timers, s \in Sessions : Tick(t, s)
      BY <2>2, ContractLapses
    <2>3. ASSUME NEW c \in Calls, Continue(c)
          PROVE  [Contract!Next]_(Contract!vars)
      <3>1. CASE ApplyWrite(c)
        BY <3>1, ContractMoves
      <3>2. CASE ~ApplyWrite(c)
        <4>1. \A s \in Sessions : /\ rows'[s].gate = rows[s].gate
                                  /\ rows'[s].policy = rows[s].policy
                                  /\ crossed'[s] = crossed[s]
          BY <2>3, <3>2, ContinueKeepsGate
        <4> QED
          BY <4>1, ContractStutters
      <3> QED
        BY <3>1, <3>2
    <2>4. CASE \/ \E s \in Sessions : Finalise(s)
               \/ Clock
               \/ Restart
      <3>1. \A s \in Sessions : /\ rows'[s].gate = rows[s].gate
                                /\ rows'[s].policy = rows[s].policy
                                /\ crossed'[s] = crossed[s]
        <4>1. \A s \in Sessions : rows[s] \in Row
          BY DEF TypeOK
        <4>2. CASE \E s \in Sessions : Finalise(s)
          <5>1. PICK r \in Sessions : Finalise(r)
            BY <4>2
          <5>2. /\ rows' = [rows EXCEPT ![r] = [rows[r] EXCEPT
                               !.recordingPath = @ \/ r \in filmed]]
                /\ crossed' = crossed
            BY <5>1 DEF Finalise
          <5>3. /\ rows'[r] = [rows[r] EXCEPT
                                  !.recordingPath = @ \/ r \in filmed]
                /\ \A s \in Sessions \ {r} : rows'[s] = rows[s]
            BY <5>2, RowWritten
          <5>4. rows'[r].gate = rows[r].gate /\ rows'[r].policy = rows[r].policy
            BY <4>1, <5>3 DEF Row
          <5> QED
            BY <5>2, <5>3, <5>4
        <4>3. CASE Clock
          BY <4>1, <4>3 DEF Clock, Row
        <4>4. CASE Restart
          BY <4>4 DEF Restart
        <4> QED
          BY <2>4, <4>2, <4>3, <4>4
      <3> QED
        BY <3>1, ContractStutters
    <2>5. CASE UNCHANGED vars
      BY <2>5, ContractStutters DEF vars
    <2> QED
      BY <2>1, <2>2, <2>3, <2>4, <2>5 DEF Next
  <1> QED
    BY <1>1, <1>2, SessionInvariant, TypeCorrect, PTL
       DEF Spec, KeepsContract, Contract!Spec

=============================================================================
