------------------------------ MODULE Recorder ------------------------------
(***************************************************************************)
(* The recording of one session: the Recorder (api/src/modules/remote/     *)
(* recorder.ts), the encoder processes it spawns, the part files they      *)
(* leave on disk, the columns of the session row that lead to those files, *)
(* and the three operations that delete them.                              *)
(*                                                                         *)
(* RemoteSession treats a recording as on, paused or off.  Here a pause, a *)
(* roll to the next part and a stop each wait in the background for an     *)
(* encoder to exit, while the recording clock, the end of the session and  *)
(* retention go on.  Files change at once; the row follows by a statement  *)
(* that is sent to the database and takes effect later, in any order with  *)
(* the others, or fails, which nobody is told.  What a continuation or a   *)
(* statement finds when its time comes is what the properties are about.   *)
(*                                                                         *)
(* The switches of the operator come one at a time, each on the status the *)
(* row has when it acts; RemoteSession has their interleavings.            *)
(***************************************************************************)
EXTENDS Naturals, Sequences, FiniteSets

CONSTANTS
    MaxParts,     \* bound on the parts of a session
    MaxRestarts,  \* bound on restarts of the API
    MaxFaults     \* bound on encoders that fail to start or to finish

ASSUME BoundsAssumption ==
    /\ MaxParts \in Nat \ {0}
    /\ MaxRestarts \in Nat
    /\ MaxFaults \in Nat

VARIABLES
    phase,    \* the session: not yet active, active, or closed
    rec,      \* the Rec object last created by start()
    clocks,   \* interval timers running for the session
    encoder,  \* encoder[p]: the ffmpeg process that writes part p
    file,     \* file[p]: what is on disk under the name of part p
    waiting,  \* continuations waiting for an encoder to exit, oldest first
    inflight, \* statements about the row that have not taken effect
    row,      \* recordingPath (as a part number, 0 for ''), recordingParts
              \* and the recording flag of the session row
    restarts, \* observation: restarts so far
    faults,   \* observation: encoders that failed so far
    deleted,  \* observation: retention or an administrator cleared something
    unwritten,\* observation: what statements that failed were to do
    crossed   \* observation: a file went while the row was being led to it

vars == <<phase, rec, clocks, encoder, file, waiting, inflight, row,
          restarts, faults, deleted, unwritten, crossed>>

Parts == 1..MaxParts

-----------------------------------------------------------------------------
(***************************************************************************)
(* State                                                                   *)
(***************************************************************************)

\* "held": the object is in the map recs; "frame": it has a frame to encode.
Rec   == [held: BOOLEAN, part: Parts, frame: BOOLEAN,
          stopped: BOOLEAN, rolling: BOOLEAN, paused: BOOLEAN]

\* An encoder opens its file, truncating it, on the first frame it is fed.
Encoder == {"off", "open", "fed", "ending"}

\* A file without its index, of an encoder that runs or that was killed.
File == {"none", "partial", "broken", "whole"}

Waiter == [for: {"roll", "pause", "stop"}, part: Parts]

\* stop() leads the row to its parts.  The others take it off a file: the
\* sweep by the name of the file; clearStorage() finds the rows, tests the file
\* of each and clears the row; clearSessionRecording() clears it.
\* Statements alike count as one.
Statement == [op: {"lead", "drop", "find", "test", "clear"},
              path: 0..MaxParts, parts: 0..MaxParts]

TypeOK ==
    /\ phase \in {"waiting", "active", "over"}
    /\ rec \in Rec
    /\ clocks \in Nat
    /\ encoder \in [Parts -> Encoder]
    /\ file \in [Parts -> File]
    /\ waiting \in Seq(Waiter)
    /\ inflight \in SUBSET Statement
    /\ row \in [path: 0..MaxParts, parts: 0..MaxParts, recording: BOOLEAN]
    /\ restarts \in 0..MaxRestarts
    /\ faults \in 0..MaxFaults
    /\ deleted \in BOOLEAN
    /\ unwritten \in SUBSET {"lead", "clear"}
    /\ crossed \in BOOLEAN

Fresh == [held |-> TRUE, part |-> 1, frame |-> FALSE,
          stopped |-> FALSE, rolling |-> FALSE, paused |-> FALSE]

NoRec == [Fresh EXCEPT !.held = FALSE, !.stopped = TRUE]

Init ==
    /\ phase = "waiting"
    /\ rec = NoRec
    /\ clocks = 0
    /\ encoder = [p \in Parts |-> "off"]
    /\ file = [p \in Parts |-> "none"]
    /\ waiting = <<>>
    /\ inflight = {}
    /\ row = [path |-> 0, parts |-> 0, recording |-> TRUE]
    /\ restarts = 0
    /\ faults = 0
    /\ deleted = FALSE
    /\ unwritten = {}
    /\ crossed = FALSE

Undisturbed == restarts = 0 /\ faults = 0

sent == <<inflight, deleted, unwritten, crossed>>
observed == <<restarts, faults, sent>>

NoVideo == [row EXCEPT !.path = 0, !.parts = 0]

OnDisk == {p \in Parts : file[p] # "none"}

Send(w) == inflight' = inflight \union {w}

Names(op, p) == [op |-> op, path |-> p, parts |-> 0]

\* The exit of an encoder resolves the promises that wait for it, and their
\* continuations run before the event loop takes anything else.
Calm == waiting # <<>> => encoder[Head(waiting).part] # "off"

Fails == faults < MaxFaults /\ faults' = faults + 1

-----------------------------------------------------------------------------
(***************************************************************************)
(* start(), write() and the clock                                          *)
(***************************************************************************)

Spawn(p) == encoder' = [encoder EXCEPT ![p] = "open"]

\* closeProc(): end the input of the encoder and wait for it to exit.
Close(p, for) ==
    /\ encoder' = [encoder EXCEPT ![p] = IF @ = "off" THEN "off" ELSE "ending"]
    /\ waiting' = Append(waiting, [for |-> for, part |-> p])

Start ==
    /\ Spawn(1)
    /\ rec' = Fresh
    /\ clocks' = clocks + 1
    /\ row' = [row EXCEPT !.recording = TRUE]
    /\ UNCHANGED <<file, waiting, observed>>

\* The consent verdict: recording starts with the session.
Activate ==
    /\ Calm
    /\ phase = "waiting"
    /\ phase' = "active"
    /\ Start

\* write()
OfferFrame ==
    /\ Calm
    /\ phase = "active"
    /\ rec.held /\ ~rec.stopped /\ ~rec.frame
    /\ rec' = [rec EXCEPT !.frame = TRUE]
    /\ UNCHANGED <<phase, clocks, encoder, file, waiting, row, observed>>

Ticks ==
    /\ Calm
    /\ clocks > 0
    /\ rec.held /\ rec.frame
    /\ ~rec.stopped /\ ~rec.rolling /\ ~rec.paused

\* pump() below the size and age caps.  Frames after the first change
\* nothing that is modelled.
PumpFeeds ==
    /\ Ticks
    /\ encoder[rec.part] = "open"
    /\ encoder' = [encoder EXCEPT ![rec.part] = "fed"]
    /\ file' = [file EXCEPT ![rec.part] = "partial"]
    /\ UNCHANGED <<phase, rec, clocks, waiting, row, observed>>

\* pump() at a cap: roll() ends the input first, so this frame is lost.
PumpRolls ==
    /\ Ticks
    /\ encoder[rec.part] = "fed"
    /\ rec.part < MaxParts
    /\ rec' = [rec EXCEPT !.rolling = TRUE]
    /\ Close(rec.part, "roll")
    /\ UNCHANGED <<phase, clocks, file, row, observed>>

-----------------------------------------------------------------------------
(***************************************************************************)
(* Encoders                                                                *)
(***************************************************************************)

Written(p, f) == [file EXCEPT ![p] = IF @ = "partial" THEN f ELSE @]

EncoderExits(p) ==
    /\ Calm
    /\ encoder[p] = "ending"
    /\ encoder' = [encoder EXCEPT ![p] = "off"]
    /\ file' = Written(p, "whole")
    /\ UNCHANGED <<phase, rec, clocks, waiting, row, observed>>

\* closeProc() kills an encoder that takes more than 15 seconds.
EncoderKilled(p) ==
    /\ Calm
    /\ encoder[p] = "ending"
    /\ Fails
    /\ encoder' = [encoder EXCEPT ![p] = "off"]
    /\ file' = Written(p, "broken")
    /\ UNCHANGED <<phase, rec, clocks, waiting, row, restarts, sent>>

\* The process never started.  The handler drops the entry, and that only.
EncoderError ==
    /\ rec.held
    /\ encoder[rec.part] = "open"
    /\ waiting = <<>>
    /\ Fails
    /\ encoder' = [encoder EXCEPT ![rec.part] = "off"]
    /\ rec' = [rec EXCEPT !.held = FALSE]
    /\ UNCHANGED <<phase, clocks, file, waiting, row, restarts, sent>>

-----------------------------------------------------------------------------
(***************************************************************************)
(* The continuations, in the order in which they began to wait             *)
(***************************************************************************)

Resumes(for) ==
    /\ waiting # <<>>
    /\ Head(waiting).for = for
    /\ encoder[Head(waiting).part] = "off"
    /\ waiting' = Tail(waiting)

\* roll() opens the next part whatever became of the object meanwhile.
RollDone ==
    /\ Resumes("roll")
    /\ Spawn(rec.part + 1)
    /\ rec' = [rec EXCEPT !.part = @ + 1, !.rolling = FALSE]
    /\ UNCHANGED <<phase, clocks, file, row, observed>>

RollFails ==
    /\ Resumes("roll")
    /\ Fails
    /\ rec' = [rec EXCEPT !.held = FALSE, !.stopped = TRUE, !.rolling = FALSE]
    /\ UNCHANGED <<phase, clocks, encoder, file, row, restarts, sent>>

PauseDone ==
    /\ Resumes("pause")
    /\ row' = [row EXCEPT !.recording = FALSE]
    /\ UNCHANGED <<phase, rec, clocks, encoder, file, observed>>

\* The end of stop(): count the parts with bytes, unlink the others, and
\* lead the row to them.  An encoder that still runs may have flushed nothing.
Collect ==
    \E empty \in SUBSET {p \in 1..rec.part : file[p] = "partial"} :
        LET kept == {p \in 1..rec.part : file[p] # "none"} \ empty IN
        /\ file' = [p \in Parts |-> IF p \in empty THEN "none" ELSE file[p]]
        /\ \/ kept = {} /\ UNCHANGED inflight
           \/ \E first \in kept :
                 /\ \A p \in kept : first <= p
                 /\ Send([op |-> "lead", path |-> first,
                          parts |-> Cardinality(kept)])

StopDone ==
    /\ Resumes("stop")
    /\ Collect
    /\ UNCHANGED <<phase, rec, clocks, encoder, row, restarts, faults,
                   deleted, unwritten, crossed>>

-----------------------------------------------------------------------------
(***************************************************************************)
(* The switch of the operator and the end of the session                   *)
(***************************************************************************)

\* A switch acts on an active row, and not while another waits for a pause.
MaySwitch(on) ==
    /\ Calm
    /\ phase = "active"
    /\ row.recording # on
    /\ \A i \in 1..Len(waiting) : waiting[i].for # "pause"

\* Mutant: the interval timer is not cleared.
PauseKeepsClock ==
    /\ MaySwitch(FALSE)
    /\ rec.held /\ ~rec.stopped /\ ~rec.paused
    /\ rec' = [rec EXCEPT !.paused = TRUE]
    /\ Close(rec.part, "pause")
    /\ UNCHANGED <<phase, clocks, file, row, observed>>

\* setRecording(id, false)
Pause ==
    /\ MaySwitch(FALSE)
    /\ rec.held /\ ~rec.stopped /\ ~rec.paused
    /\ rec' = [rec EXCEPT !.paused = TRUE]
    /\ clocks' = clocks - 1
    /\ Close(rec.part, "pause")
    /\ UNCHANGED <<phase, file, row, observed>>

\* Mutant: the part that was open is opened again.
ResumeSamePart ==
    /\ MaySwitch(TRUE)
    /\ rec.held /\ ~rec.stopped /\ rec.paused
    /\ Spawn(rec.part)
    /\ rec' = [rec EXCEPT !.paused = FALSE]
    /\ clocks' = clocks + 1
    /\ row' = [row EXCEPT !.recording = TRUE]
    /\ UNCHANGED <<phase, file, waiting, observed>>

\* setRecording(id, false) with no entry to pause: only the flag changes.
SwitchOff ==
    /\ MaySwitch(FALSE)
    /\ ~rec.held
    /\ row' = [row EXCEPT !.recording = FALSE]
    /\ UNCHANGED <<phase, rec, clocks, encoder, file, waiting, observed>>

\* setRecording(id, true) over a paused entry: resume() opens the next part.
Resume ==
    /\ MaySwitch(TRUE)
    /\ rec.held /\ ~rec.stopped /\ rec.paused
    /\ rec.part < MaxParts
    /\ Spawn(rec.part + 1)
    /\ rec' = [rec EXCEPT !.part = @ + 1, !.paused = FALSE]
    /\ clocks' = clocks + 1
    /\ row' = [row EXCEPT !.recording = TRUE]
    /\ UNCHANGED <<phase, file, waiting, observed>>

\* setRecording(id, true) when there is no entry: start() again.
StartAgain ==
    /\ MaySwitch(TRUE)
    /\ ~rec.held
    /\ Start
    /\ UNCHANGED phase

\* stop(), which a paused entry does not make wait.
Stop ==
    /\ rec' = [rec EXCEPT !.held = FALSE, !.stopped = TRUE]
    /\ clocks' = IF rec.paused THEN clocks ELSE clocks - 1
    /\ IF rec.paused
       THEN Collect /\ UNCHANGED <<encoder, waiting>>
       ELSE Close(rec.part, "stop") /\ UNCHANGED <<file, inflight>>

\* Mutant: the entry goes, and nobody waits for the encoder it closes.
EndWithoutStop ==
    /\ Calm
    /\ phase # "over"
    /\ phase' = "over"
    /\ rec' = [rec EXCEPT !.held = FALSE, !.stopped = TRUE]
    /\ clocks' = IF rec.held /\ ~rec.paused THEN clocks - 1 ELSE clocks
    /\ encoder' = [encoder EXCEPT ![rec.part] =
                       IF @ = "off" THEN "off" ELSE "ending"]
    /\ UNCHANGED <<file, waiting, row, observed>>

End ==
    /\ Calm
    /\ phase # "over"
    /\ phase' = "over"
    /\ IF rec.held THEN Stop
                   ELSE UNCHANGED <<rec, clocks, encoder, file, waiting, inflight>>
    /\ UNCHANGED <<row, restarts, faults, deleted, unwritten, crossed>>

-----------------------------------------------------------------------------
(***************************************************************************)
(* Deletion and restart                                                    *)
(***************************************************************************)

Unlink(gone) ==
    /\ file' = [p \in Parts |-> IF p \in gone THEN "none" ELSE file[p]]
    /\ deleted' = (deleted \/ gone \intersect OnDisk # {})
    /\ crossed' = (crossed \/ \E w \in inflight :
                                  w.op = "lead" /\ w.path \in gone)
    /\ UNCHANGED <<phase, rec, clocks, encoder, waiting, row,
                   restarts, faults, unwritten>>

\* Mutant: the file goes and nothing is said of the row.
RetireKeepsRow(p) ==
    /\ Calm
    /\ p \in OnDisk
    /\ Unlink({p})
    /\ UNCHANGED inflight

\* One victim of sweepRecordings().  The ages and sizes of the other
\* recordings, which the plan weighs, are not modelled: any file may go.
Retire(p) ==
    /\ Calm
    /\ p \in OnDisk
    /\ Unlink({p})
    /\ Send(Names("drop", p))

\* clearStorage(), by age or of everything
ClearStorage ==
    \E old \in SUBSET OnDisk :
        /\ Calm
        /\ Unlink(old)
        /\ Send(Names("find", 0))

\* clearSessionRecording() removes the parts the row counts.
ClearSession ==
    /\ Calm
    /\ Unlink(IF row.parts = 0 THEN {row.path} ELSE 1..row.parts)
    /\ Send(Names("clear", 0))

-----------------------------------------------------------------------------
(***************************************************************************)
(* The row                                                                 *)
(***************************************************************************)

Answered(w) ==
    /\ Calm
    /\ w \in inflight
    /\ inflight' = inflight \ {w}
    /\ UNCHANGED <<phase, rec, clocks, encoder, file, waiting,
                   restarts, faults, crossed>>

\* What the row becomes
Effect(w) ==
    CASE w.op = "lead"  -> [row EXCEPT !.path = w.path, !.parts = w.parts]
      [] w.op = "drop"  -> [row EXCEPT !.path = IF @ = w.path THEN 0 ELSE @]
      [] w.op = "clear" -> NoVideo

Writes(w) ==
    /\ w.op \in {"lead", "drop", "clear"}
    /\ Answered(w)
    /\ row' = Effect(w)
    /\ deleted' = (deleted \/ (w.op # "lead" /\ row' # row))
    /\ UNCHANGED unwritten

\* clearStorage() goes on with the rows that lead somewhere,
\* and with those whose file is gone.
GoesOn(w, next) ==
    /\ Calm
    /\ w \in inflight
    /\ inflight' = (inflight \ {w}) \union next
    /\ UNCHANGED <<phase, rec, clocks, encoder, file, waiting, row,
                   restarts, faults, deleted, unwritten, crossed>>

Finds(w) ==
    /\ w.op = "find"
    /\ GoesOn(w, IF row.path = 0 THEN {} ELSE {Names("test", row.path)})

Tests(w) ==
    /\ w.op = "test"
    /\ GoesOn(w, IF w.path \in OnDisk THEN {} ELSE {Names("clear", 0)})

Purpose(w) == IF w.op = "lead" THEN "lead" ELSE "clear"

\* The failure of an update is swallowed.  That of the search ends the call,
\* with the files gone.
FailsToWrite(w) ==
    /\ w.op # "test"
    /\ Answered(w)
    /\ unwritten' = unwritten \union {Purpose(w)}
    /\ UNCHANGED <<row, deleted>>

\* The API goes down: encoders see the end of their input, or die with it.
Restart ==
    /\ restarts < MaxRestarts
    /\ restarts' = restarts + 1
    /\ rec' = [rec EXCEPT !.held = FALSE, !.stopped = TRUE]
    /\ clocks' = 0
    /\ encoder' = [p \in Parts |-> "off"]
    /\ \E f \in {"whole", "broken"} :
           file' = [p \in Parts |-> IF file[p] = "partial" THEN f ELSE file[p]]
    /\ waiting' = <<>>
    /\ inflight' = {}
    /\ unwritten' = unwritten \union {Purpose(w) : w \in inflight}
    /\ UNCHANGED <<phase, row, faults, deleted, crossed>>

-----------------------------------------------------------------------------

Encoding == \E p \in Parts : EncoderExits(p) \/ EncoderKilled(p)

AnswerTo(w) == Writes(w) \/ Finds(w) \/ Tests(w) \/ FailsToWrite(w)

Answer == \E w \in inflight : AnswerTo(w)

AnswerStop == \E w \in inflight : w.op = "lead" /\ AnswerTo(w)

Continue == RollDone \/ RollFails \/ PauseDone \/ StopDone

Next ==
    \/ Activate \/ OfferFrame \/ PumpFeeds \/ PumpRolls
    \/ Encoding \/ EncoderError \/ Continue
    \/ Pause \/ SwitchOff \/ Resume \/ StartAgain \/ End
    \/ ClearSession \/ ClearStorage \/ \E p \in Parts : Retire(p)
    \/ Answer
    \/ Restart

Spec == Init /\ [][Next]_vars

\* An encoder whose input ends exits, or is killed after 15 seconds; a promise
\* that is resolved runs its continuation; the database answers,
\* to stop() in particular.
FairSpec ==
    Spec /\ WF_vars(Encoding) /\ WF_vars(Continue) /\ WF_vars(AnswerStop)

-----------------------------------------------------------------------------
(***************************************************************************)
(* Properties                                                              *)
(***************************************************************************)

\* A finished part is never opened again by an encoder, every gap in the
\* recording starts a new part and what was recorded stays, while the API
\* stays up and its encoders work: over every interleaving of rolls, switches, deletions and the end of the session.
FootageKeptWhileUp ==
    [][\A p \in Parts : (Undisturbed /\ file[p] = "whole")
                            => file'[p] # "partial"]_vars

\* The statement w will take the row off a file that is gone.
Heals(w) == \/ w.op \in {"find", "clear"}
            \/ w.op \in {"drop", "test"} /\ w.path = row.path

\* A row that leads to a file which is gone is about to be taken off it, over
\* every interleaving of deletions, closes and restarts: unless the statement
\* that was to do so failed, or the file went while stop() was leading the row
\* to it.
RowNeverDangles ==
    (row.path # 0 /\ row.path \notin OnDisk)
        => \/ \E w \in inflight : Heals(w)
           \/ "clear" \in unwritten
           \/ crossed

\* One clock per recording that runs, none for one that is paused or over, as
\* long as no encoder has failed (the error handler drops the entry and leaves
\* its timer running): a second clock would play the session back at twice its
\* speed.
OneClock ==
    faults = 0 => clocks = IF rec.held /\ ~rec.paused THEN 1 ELSE 0

\* A session that is over with footage on disk comes to lead to it, unless
\* somebody deletes a file, the API restarts, an encoder fails or the update of
\* the row fails, which the code swallows.
FootageAdvertised ==
    (phase = "over" /\ \E p \in Parts : file[p] = "whole")
        ~> (row.path # 0 \/ deleted \/ ~Undisturbed \/ "lead" \in unwritten)

=============================================================================
