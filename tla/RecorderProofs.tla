--------------------------- MODULE RecorderProofs ---------------------------
(***************************************************************************)
(* Theorems of Recorder, for any bound on parts, restarts and faults.      *)
(***************************************************************************)
EXTENDS Recorder, TLAPS, SequenceTheorems, FiniteSetTheorems

(***************************************************************************)
(* The inductive invariant                                                 *)
(***************************************************************************)

Only(for)     == Len(waiting) = 1 /\ waiting[1].for = for
RollThen(for) == /\ Len(waiting) = 2
                 /\ waiting[1].for = "roll" /\ waiting[2].for = for

\* Nothing leads the row, or is about to lead it, to a file.
Unled == row.path = 0 /\ \A w \in inflight : w.op # "lead"

\* Two continuations at most wait, a roll before the other, and what the object
\* looks like while they do.
QueueInv ==
    \/ Len(waiting) = 0 /\ (rec.held => ~rec.rolling)
    \/ Only("roll") /\ rec.held /\ ~rec.paused
    \/ Only("pause") /\ rec.paused /\ (rec.held => ~rec.rolling)
    \/ RollThen("pause") /\ rec.paused /\ (rec.held \/ phase = "over")
    \/ Only("stop") /\ phase = "over" /\ Unled
    \/ RollThen("stop") /\ phase = "over" /\ Unled

\* A roll in flight has a next part to open.
RollInv ==
    Len(waiting) > 0 /\ waiting[1].for = "roll"
        => rec.rolling /\ rec.part < MaxParts

RecInv ==
    /\ rec.held => phase = "active" /\ ~rec.stopped
    /\ phase = "waiting" => Len(waiting) = 0
    /\ rec.held /\ ~rec.paused => clocks > 0

\* stop() is about to lead the row to a file that is there, or was.
LeadInv == \A w \in inflight : w.op = "lead" => w.path \in OnDisk \/ crossed

RowInv ==
    /\ phase # "over" => Unled
    /\ LeadInv
    /\ RowNeverDangles

Inv == TypeOK /\ QueueInv /\ RollInv /\ RecInv /\ RowInv /\ OneClock

\* Parts the object has not reached are untouched, and an encoder that has
\* been fed nothing has found nothing under the name of its part.
PartsInv ==
    Undisturbed =>
        /\ phase = "active" => rec.held
        /\ \A p \in Parts :
               /\ phase = "waiting" \/ p > rec.part
                      => encoder[p] = "off" /\ file[p] = "none"
               /\ encoder[p] = "open" => file[p] = "none"

(***************************************************************************)
(* The queue of continuations                                              *)
(***************************************************************************)

LEMMA Enqueued ==
    ASSUME waiting \in Seq(Waiter), NEW p \in Parts,
           NEW for \in {"roll", "pause", "stop"}, Close(p, for)
    PROVE  /\ waiting' \in Seq(Waiter)
           /\ Len(waiting') = Len(waiting) + 1
           /\ \A i \in 1..Len(waiting) : waiting'[i] = waiting[i]
           /\ waiting'[Len(waiting) + 1].for = for
  <1>1. [for |-> for, part |-> p] \in Waiter
    BY DEF Waiter
  <1> QED
    BY <1>1, AppendProperties DEF Close

LEMMA Dequeued ==
    ASSUME waiting \in Seq(Waiter), NEW for, Resumes(for)
    PROVE  /\ waiting' \in Seq(Waiter)
           /\ Len(waiting) > 0
           /\ Len(waiting') = Len(waiting) - 1
           /\ \A i \in 1..Len(waiting') : waiting'[i] = waiting[i + 1]
           /\ waiting[1].for = for
  <1>1. /\ waiting' \in Seq(Waiter)
        /\ Len(waiting') = Len(waiting) - 1
        /\ \A i \in 1..Len(waiting') : waiting'[i] = waiting[i + 1]
    BY HeadTailProperties DEF Resumes
  <1>2. Len(waiting) > 0
    BY EmptySeq DEF Resumes
  <1>3. Head(waiting) = waiting[1]
    BY <1>2
  <1> QED
    BY <1>1, <1>2, <1>3 DEF Resumes

LEMMA NothingWaits ==
    ASSUME waiting \in Seq(Waiter)
    PROVE  /\ Len(waiting) \in Nat
           /\ waiting = <<>> <=> Len(waiting) = 0
  BY EmptySeq, LenProperties

(***************************************************************************)
(* Every step keeps the invariant                                          *)
(***************************************************************************)

LEMMA FreshType == 1 \in Parts /\ Fresh \in Rec /\ NoRec \in Rec
  <1>1. 1 \in Parts
    BY BoundsAssumption DEF Parts
  <1>2. Fresh \in Rec
    BY <1>1 DEF Fresh, Rec
  <1> QED
    BY <1>1, <1>2 DEF NoRec, Rec

Row == [path: 0..MaxParts, parts: 0..MaxParts, recording: BOOLEAN]

CountsType ==
    /\ phase \in {"waiting", "active", "over"}
    /\ clocks \in Nat /\ restarts \in 0..MaxRestarts /\ faults \in 0..MaxFaults

FilesType == encoder \in [Parts -> Encoder] /\ file \in [Parts -> File]

SentType ==
    /\ inflight \in SUBSET Statement
    /\ deleted \in BOOLEAN /\ crossed \in BOOLEAN
    /\ unwritten \in SUBSET {"lead", "clear"}

LEMMA TypeParts ==
    TypeOK <=> /\ CountsType /\ FilesType /\ SentType
               /\ rec \in Rec /\ row \in Row /\ waiting \in Seq(Waiter)
  BY DEF TypeOK, CountsType, FilesType, SentType, Row

LEMMA TypeNext ==
    ASSUME CountsType', FilesType', rec' \in Rec, row' \in Row,
           waiting' \in Seq(Waiter), SentType'
    PROVE  TypeOK'
  BY DEF TypeOK, CountsType, FilesType, SentType, Row

LEMMA SentKept ==
    ASSUME TypeOK, UNCHANGED sent
    PROVE  SentType'
  BY TypeParts DEF SentType, sent

\* A step that sends nothing, deletes nothing and leaves the path alone.
LEMMA RowSame ==
    ASSUME Inv, row'.path = row.path, OnDisk \subseteq OnDisk', UNCHANGED sent,
           phase = "over" => phase' = "over"
    PROVE  RowInv' /\ (Unled => Unled')
  <1>1. UNCHANGED <<inflight, unwritten, crossed>>
    BY DEF sent
  <1>2. Unled' <=> Unled
    BY <1>1 DEF Unled
  <1>3. LeadInv'
    BY <1>1 DEF Inv, RowInv, LeadInv
  <1>4. \A w \in inflight : Heals(w)' <=> Heals(w)
    BY DEF Heals
  <1>5. RowNeverDangles'
    BY <1>1, <1>4 DEF Inv, RowInv, RowNeverDangles
  <1> QED
    BY <1>2, <1>3, <1>5 DEF Inv, RowInv

\* What the actions make of the object, the row, the encoders and the files.
LEMMA RecForms ==
    ASSUME rec \in Rec
    PROVE  /\ [rec EXCEPT !.frame = TRUE] \in Rec
           /\ [rec EXCEPT !.rolling = TRUE] \in Rec
           /\ [rec EXCEPT !.paused = TRUE] \in Rec
           /\ [rec EXCEPT !.held = FALSE] \in Rec
           /\ [rec EXCEPT !.held = FALSE, !.stopped = TRUE] \in Rec
           /\ [rec EXCEPT !.held = FALSE, !.stopped = TRUE, !.rolling = FALSE]
                \in Rec
  BY DEF Rec

LEMMA RecNextPart ==
    ASSUME rec \in Rec, rec.part < MaxParts
    PROVE  /\ rec.part + 1 \in Parts
           /\ [rec EXCEPT !.part = @ + 1, !.rolling = FALSE] \in Rec
           /\ [rec EXCEPT !.part = @ + 1, !.paused = FALSE] \in Rec
  <1>1. rec.part + 1 \in Parts
    BY BoundsAssumption DEF Rec, Parts
  <1> QED
    BY <1>1 DEF Rec

LEMMA RowForms ==
    ASSUME row \in Row
    PROVE  /\ [row EXCEPT !.recording = TRUE] \in Row
           /\ [row EXCEPT !.recording = FALSE] \in Row
           /\ NoVideo \in Row
           /\ [row EXCEPT !.path = 0] \in Row
  <1>1. 0 \in 0..MaxParts
    BY BoundsAssumption
  <1> QED
    BY <1>1 DEF Row, NoVideo

LEMMA EncoderForms ==
    ASSUME encoder \in [Parts -> Encoder], NEW p \in Parts
    PROVE  /\ \A e \in Encoder : [encoder EXCEPT ![p] = e] \in [Parts -> Encoder]
           /\ [encoder EXCEPT ![p] = IF @ = "off" THEN "off" ELSE "ending"]
                \in [Parts -> Encoder]
           /\ {"off", "open", "fed", "ending"} = Encoder
  BY DEF Encoder

NoPauseWaits == \A i \in 1..Len(waiting) : waiting[i].for # "pause"

\* A switch finds the queue empty, or a roll of the entry it acts on.
LEMMA NoPauseShape ==
    ASSUME QueueInv, NoPauseWaits, phase # "over"
    PROVE  Len(waiting) = 0 \/ (Only("roll") /\ rec.held /\ ~rec.paused)
  <1>1. ~Only("pause")
    BY DEF Only, NoPauseWaits
  <1>2. ~RollThen("pause")
    BY DEF RollThen, NoPauseWaits
  <1> QED
    BY <1>1, <1>2 DEF QueueInv

LEMMA InitInv == Init => Inv
  <1> SUFFICES ASSUME Init PROVE Inv
    OBVIOUS
  <1>1. TypeOK
    <2>1. rec \in Rec
      BY FreshType DEF Init
    <2>2. FilesType
      BY DEF Init, FilesType, Encoder, File
    <2>3. waiting \in Seq(Waiter)
      BY EmptySeq DEF Init
    <2>4. row \in Row
      BY BoundsAssumption DEF Init, Row
    <2>5. CountsType
      BY BoundsAssumption DEF Init, CountsType
    <2>6. SentType
      BY DEF Init, SentType
    <2> QED
      BY <2>1, <2>2, <2>3, <2>4, <2>5, <2>6, TypeParts
  <1>2. Len(waiting) = 0 /\ rec.held = FALSE /\ rec.paused = FALSE
    BY EmptySeq DEF Init, NoRec, Fresh
  <1>3. row.path = 0 /\ clocks = 0 /\ inflight = {}
    BY DEF Init
  <1>4. QueueInv /\ RollInv /\ RecInv /\ OneClock
    BY <1>2, <1>3 DEF QueueInv, RollInv, RecInv, OneClock
  <1>5. RowInv
    BY <1>3 DEF RowInv, RowNeverDangles, LeadInv, Unled
  <1> QED
    BY <1>1, <1>4, <1>5 DEF Inv

LEMMA StartStep ==
    ASSUME Inv, Activate \/ StartAgain
    PROVE  Inv'
  <1> USE DEF Inv
  <1>0. Start /\ phase' = "active" /\ phase # "over" /\ ~rec.held
    BY DEF Activate, StartAgain, MaySwitch, RecInv
  <1>1. TypeOK'
    <2>1. CountsType'
      BY <1>0, TypeParts DEF CountsType, Start, observed
    <2>2. FilesType'
      BY <1>0, TypeParts, FreshType, EncoderForms DEF FilesType, Start, Spawn
    <2>3. rec' \in Rec /\ row' \in Row
      BY <1>0, TypeParts, FreshType, RowForms DEF Start
    <2>4. waiting' \in Seq(Waiter) /\ SentType'
      BY <1>0, TypeParts, SentKept DEF Start, observed
    <2> QED
      BY <2>1, <2>2, <2>3, <2>4, TypeNext
  <1>2. /\ rec'.held /\ ~rec'.paused /\ ~rec'.rolling /\ ~rec'.stopped
        /\ clocks' = clocks + 1 /\ clocks \in Nat /\ waiting' = waiting
        /\ faults' = faults /\ file' = file /\ sent' = sent
    BY <1>0, TypeParts DEF Start, Fresh, CountsType, observed
  <1>3. Len(waiting) = 0
    <2>1. CASE Activate
      BY <2>1 DEF Activate, RecInv
    <2>2. CASE StartAgain
      <3>1. phase = "active" /\ NoPauseWaits
        BY <2>2 DEF StartAgain, MaySwitch, NoPauseWaits
      <3> QED
        BY <1>0, <3>1, NoPauseShape
    <2> QED
      BY <2>1, <2>2
  <1>4. row'.path = row.path
    BY <1>0, TypeParts DEF Start, Row
  <1>5. QueueInv' /\ RollInv' /\ RecInv' /\ OneClock'
    BY <1>0, <1>2, <1>3 DEF QueueInv, RollInv, RecInv, OneClock
  <1>6. RowInv'
    BY <1>0, <1>2, <1>4, RowSame DEF OnDisk
  <1> QED
    BY <1>1, <1>5, <1>6

(***************************************************************************)
(* Steps that leave the object, its clock and the queue alone              *)
(***************************************************************************)

LEMMA StillStep ==
    ASSUME Inv, TypeOK', UNCHANGED <<phase, rec, waiting, clocks>>,
           RowInv', Unled => Unled', faults' = 0 => faults = 0
    PROVE  Inv'
  <1>1. phase' = phase /\ rec' = rec /\ waiting' = waiting /\ clocks' = clocks
    OBVIOUS
  <1>2. QueueInv'
    BY <1>1 DEF Inv, QueueInv, Only, RollThen
  <1>3. RollInv' /\ RecInv'
    BY <1>1 DEF Inv, RollInv, RecInv
  <1>4. OneClock'
    BY <1>1 DEF Inv, OneClock
  <1> QED
    BY <1>2, <1>3, <1>4 DEF Inv

LEMMA MoreFaults ==
    ASSUME TypeOK, Fails
    PROVE  faults' \in 0..MaxFaults /\ faults' # 0
  BY BoundsAssumption, TypeParts DEF Fails, CountsType

LEMMA WrittenType ==
    ASSUME file \in [Parts -> File], NEW p \in Parts, NEW f \in {"whole", "broken"}
    PROVE  /\ Written(p, f) \in [Parts -> File]
           /\ \A q \in Parts : file[q] # "none" => Written(p, f)[q] # "none"
  BY DEF Written, File

LEMMA FileStep ==
    ASSUME Inv,
           \/ PumpFeeds
           \/ \E p \in Parts : EncoderExits(p) \/ EncoderKilled(p)
    PROVE  Inv'
  <1>1. TypeOK
    BY DEF Inv
  <1>2. CASE PumpFeeds
    <2>1. rec.part \in Parts
      BY <1>1, TypeParts DEF Rec
    <2>2. FilesType'
      BY <1>1, <1>2, <2>1, TypeParts, EncoderForms DEF PumpFeeds, FilesType, File
    <2>3. /\ UNCHANGED <<phase, rec, waiting, clocks, row>>
          /\ UNCHANGED <<restarts, faults, sent>>
      BY <1>2 DEF PumpFeeds, observed
    <2>4. TypeOK'
      <3>1. CountsType'
        BY <1>1, <2>3, TypeParts DEF CountsType
      <3> QED
        BY <1>1, <2>2, <2>3, <3>1, TypeParts, TypeNext, SentKept
    <2>5. \A q \in Parts : file[q] # "none" => file'[q] # "none"
      BY <1>1, <1>2, <2>1, TypeParts DEF PumpFeeds, FilesType
    <2>6. RowInv' /\ (Unled => Unled')
      BY <2>3, <2>5, RowSame DEF OnDisk
    <2> QED
      BY <2>3, <2>4, <2>6, StillStep
  <1>3. ASSUME NEW p \in Parts, EncoderExits(p) \/ EncoderKilled(p)
        PROVE  Inv'
    <2>1. PICK f \in {"whole", "broken"} : file' = Written(p, f)
      BY <1>3 DEF EncoderExits, EncoderKilled
    <2>2. FilesType'
      <3>1. encoder' \in [Parts -> Encoder]
        BY <1>1, <1>3, TypeParts, EncoderForms DEF EncoderExits, EncoderKilled, FilesType
      <3> QED
        BY <1>1, <2>1, <3>1, WrittenType, TypeParts DEF FilesType
    <2>3. UNCHANGED <<phase, rec, waiting, clocks, row, restarts, sent>>
      BY <1>3 DEF EncoderExits, EncoderKilled, observed
    <2>4. faults' \in 0..MaxFaults /\ (faults' = 0 => faults = 0)
      <3>1. CASE EncoderExits(p)
        BY <1>1, <3>1, TypeParts DEF EncoderExits, observed, CountsType
      <3>2. CASE EncoderKilled(p)
        BY <1>1, <3>2, MoreFaults DEF EncoderKilled
      <3> QED
        BY <1>3, <3>1, <3>2
    <2>5. TypeOK'
      <3>1. CountsType'
        BY <1>1, <2>3, <2>4, TypeParts DEF CountsType
      <3> QED
        BY <1>1, <2>2, <2>3, <3>1, TypeParts, TypeNext, SentKept
    <2>6. OnDisk \subseteq OnDisk'
      BY <1>1, <2>1, WrittenType, TypeParts DEF OnDisk, FilesType
    <2>7. RowInv' /\ (Unled => Unled')
      BY <2>3, <2>6, RowSame
    <2> QED
      BY <2>3, <2>4, <2>5, <2>7, StillStep
  <1> QED
    BY <1>2, <1>3

LEMMA SwitchOffStep ==
    ASSUME Inv, SwitchOff
    PROVE  Inv'
  <1>1. TypeOK
    BY DEF Inv
  <1>2. /\ UNCHANGED <<phase, rec, waiting, clocks, encoder, file>>
        /\ UNCHANGED <<restarts, faults, sent>>
        /\ row' = [row EXCEPT !.recording = FALSE]
    BY DEF SwitchOff, observed
  <1>3. row' \in Row /\ row'.path = row.path
    BY <1>1, <1>2, TypeParts, RowForms DEF Row
  <1>4. TypeOK'
    <2>1. CountsType' /\ FilesType'
      BY <1>1, <1>2, TypeParts DEF CountsType, FilesType
    <2> QED
      BY <1>1, <1>2, <1>3, <2>1, TypeParts, TypeNext, SentKept
  <1>5. RowInv' /\ (Unled => Unled')
    BY <1>2, <1>3, RowSame DEF OnDisk
  <1> QED
    BY <1>2, <1>4, <1>5, StillStep

\* A deletion takes some files, and something is sent that heals the row if
\* its file is among them.
LEMMA DeletionStep ==
    ASSUME Inv, NEW gone, NEW w \in Statement,
           Unlink(gone), Send(w), w.op # "lead", row.path \in gone => Heals(w)
    PROVE  Inv'
  <1>1. TypeOK
    BY DEF Inv
  <1>2. /\ UNCHANGED <<phase, rec, clocks, encoder, waiting, row>>
        /\ UNCHANGED <<restarts, faults, unwritten>>
        /\ file' = [p \in Parts |-> IF p \in gone THEN "none" ELSE file[p]]
        /\ inflight' = inflight \union {w}
        /\ crossed' = (crossed \/ \E v \in inflight :
                                      v.op = "lead" /\ v.path \in gone)
        /\ deleted' \in BOOLEAN /\ crossed' \in BOOLEAN
    BY DEF Unlink, Send
  <1>3. TypeOK'
    <2>1. CountsType'
      BY <1>1, <1>2, TypeParts DEF CountsType
    <2>2. FilesType'
      BY <1>1, <1>2, TypeParts DEF FilesType, File
    <2>3. SentType'
      BY <1>1, <1>2, TypeParts DEF SentType
    <2> QED
      BY <1>1, <1>2, <2>1, <2>2, <2>3, TypeParts, TypeNext
  <1>4. \A p \in OnDisk : p \in OnDisk' \/ p \in gone
    BY <1>2 DEF OnDisk
  <1>5. Unled => Unled'
    BY <1>2 DEF Unled
  <1>6. LeadInv'
    BY <1>2, <1>4 DEF Inv, RowInv, LeadInv
  <1>7. \A v \in inflight' : Heals(v)' <=> Heals(v)
    BY <1>2 DEF Heals
  <1>8. RowNeverDangles'
    <2> SUFFICES ASSUME row'.path # 0, row'.path \notin OnDisk'
                 PROVE  \/ \E v \in inflight' : Heals(v)
                        \/ "clear" \in unwritten' \/ crossed'
      BY <1>7 DEF RowNeverDangles
    <2>1. CASE row.path \in gone
      BY <1>2, <2>1
    <2>2. CASE row.path \notin OnDisk
      BY <1>2, <2>2 DEF Inv, RowInv, RowNeverDangles
    <2> QED
      BY <1>2, <1>4, <2>1, <2>2
  <1>9. RowInv'
    BY <1>2, <1>5, <1>6, <1>8 DEF Inv, RowInv
  <1> QED
    BY <1>2, <1>3, <1>5, <1>9, StillStep

LEMMA DeleteStep ==
    ASSUME Inv, ClearStorage \/ ClearSession \/ \E p \in Parts : Retire(p)
    PROVE  Inv'
  <1>1. ASSUME NEW op \in {"drop", "find", "clear"}, NEW p \in 0..MaxParts
        PROVE  Names(op, p) \in Statement /\ Names(op, p).op # "lead"
    BY BoundsAssumption DEF Names, Statement
  <1>2. 0 \in 0..MaxParts /\ Parts \subseteq 0..MaxParts
    BY BoundsAssumption DEF Parts
  <1>3. CASE ClearStorage
    <2>1. PICK old \in SUBSET OnDisk : Unlink(old) /\ Send(Names("find", 0))
      BY <1>3 DEF ClearStorage
    <2> QED
      BY <1>1, <1>2, <2>1, DeletionStep DEF Heals, Names
  <1>4. CASE ClearSession
    BY <1>1, <1>2, <1>4, DeletionStep DEF ClearSession, Heals, Names
  <1>5. ASSUME NEW p \in Parts, Retire(p) PROVE Inv'
    <2>1. Heals(Names("drop", p)) <=> p = row.path
      BY DEF Heals, Names
    <2> QED
      BY <1>1, <1>2, <1>5, <2>1, DeletionStep DEF Retire
  <1> QED
    BY <1>3, <1>4, <1>5

(***************************************************************************)
(* What becomes of a statement                                             *)
(***************************************************************************)

\* Whatever a statement does, it adds no other that leads the row somewhere.
LEMMA AnswerStep ==
    ASSUME Inv, Answer
    PROVE  Inv'
  <1>1. TypeOK
    BY DEF Inv
  <1>2. PICK w \in inflight : AnswerTo(w)
    BY DEF Answer
  <1>3. w \in Statement /\ w.path \in 0..MaxParts /\ w.parts \in 0..MaxParts
    BY <1>1, TypeParts DEF SentType, Statement
  <1>4. /\ UNCHANGED <<phase, rec, clocks, encoder, file, waiting>>
        /\ UNCHANGED <<restarts, faults, crossed>>
        /\ deleted' \in BOOLEAN
    BY <1>1, <1>2, TypeParts
       DEF AnswerTo, Writes, Finds, Tests, FailsToWrite, Answered, GoesOn, SentType
  <1>5. CountsType' /\ FilesType' /\ rec' \in Rec /\ waiting' \in Seq(Waiter)
    BY <1>1, <1>4, TypeParts DEF CountsType, FilesType
  <1>6. OnDisk' = OnDisk
    BY <1>4 DEF OnDisk
  <1>7. SUFFICES /\ SentType' /\ row' \in Row
                 /\ Unled => Unled'
                 /\ LeadInv' /\ RowNeverDangles'
    <2>1. TypeOK'
      BY <1>5, <1>7, TypeNext
    <2>2. RowInv'
      BY <1>4, <1>7 DEF Inv, RowInv
    <2> QED
      BY <1>4, <1>7, <2>1, <2>2, StillStep
  <1>8. CASE Writes(w)
    <2>1. /\ w.op \in {"lead", "drop", "clear"} /\ row' = Effect(w)
          /\ inflight' = inflight \ {w} /\ unwritten' = unwritten
      BY <1>8 DEF Writes, Answered
    <2>2. /\ row' \in Row
          /\ w.op = "lead" => row'.path = w.path
          /\ w.op = "drop" => row'.path = IF row.path = w.path THEN 0 ELSE row.path
          /\ w.op = "clear" => row'.path = 0
      <3>1. row \in Row
        BY <1>1, TypeParts
      <3>2. CASE w.op = "lead"
        BY <1>3, <2>1, <3>1, <3>2 DEF Effect, Row
      <3>3. CASE w.op = "drop"
        <4> DEFINE p == IF row.path = w.path THEN 0 ELSE row.path
        <4>1. row' = [row EXCEPT !.path = p]
          BY <2>1, <3>3 DEF Effect
        <4>2. p \in 0..MaxParts
          BY <3>1, BoundsAssumption DEF Row
        <4> HIDE DEF p
        <4>3. row' \in Row /\ row'.path = p
          BY <3>1, <4>1, <4>2 DEF Row
        <4> QED
          BY <3>3, <4>3 DEF p
      <3>4. CASE w.op = "clear"
        BY <2>1, <3>1, <3>4, RowForms DEF Effect, NoVideo, Row
      <3> QED
        BY <2>1, <3>2, <3>3, <3>4
    <2>3. SentType'
      BY <1>1, <1>4, <2>1, TypeParts DEF SentType
    <2>4. Unled => Unled'
      BY <2>1, <2>2 DEF Unled
    <2>5. LeadInv'
      BY <1>4, <1>6, <2>1 DEF Inv, RowInv, LeadInv
    <2>6. RowNeverDangles'
      <3> SUFFICES ASSUME row'.path # 0, row'.path \notin OnDisk'
                   PROVE  \/ \E v \in inflight' : Heals(v)'
                          \/ "clear" \in unwritten' \/ crossed'
        BY DEF RowNeverDangles
      <3>1. CASE w.op = "lead"
        BY <1>4, <1>6, <2>2, <3>1 DEF Inv, RowInv, LeadInv
      <3>2. CASE w.op = "drop"
        <4>1. row'.path = row.path /\ w.path # row.path
          BY <2>2, <3>2
        <4>2. ~Heals(w) /\ \A v \in inflight : Heals(v)' <=> Heals(v)
          BY <3>2, <4>1 DEF Heals
        <4>3. \/ \E v \in inflight : Heals(v)
              \/ "clear" \in unwritten \/ crossed
          BY <1>6, <4>1 DEF Inv, RowInv, RowNeverDangles
        <4> QED
          BY <1>4, <2>1, <4>2, <4>3
      <3> QED
        BY <2>1, <2>2, <3>1, <3>2
    <2> QED
      BY <2>2, <2>3, <2>4, <2>5, <2>6
  <1>9. CASE Finds(w) \/ Tests(w) \/ FailsToWrite(w)
    <2>1. UNCHANGED row /\ (\A v \in Statement : Heals(v)' <=> Heals(v))
      BY <1>9 DEF Finds, Tests, FailsToWrite, GoesOn, Heals
    <2>2. row' \in Row /\ row.path \in 0..MaxParts
      BY <1>1, <2>1, TypeParts DEF Row
    <2>3. PICK next \in SUBSET Statement :
            /\ inflight' = (inflight \ {w}) \union next
            /\ \A v \in next : v.op # "lead"
            /\ Heals(w) /\ row.path # 0 /\ row.path \notin OnDisk
                  => (\E v \in next : Heals(v)) \/ "clear" \in unwritten'
            /\ unwritten \subseteq unwritten'
            /\ unwritten' \in SUBSET {"lead", "clear"}
      <3>1. 0 \in 0..MaxParts
        BY BoundsAssumption
      <3>2. unwritten \in SUBSET {"lead", "clear"}
        BY <1>1, TypeParts DEF SentType
      <3>3. CASE Finds(w)
        <4> DEFINE next == IF row.path = 0 THEN {} ELSE {Names("test", row.path)}
        <4>1. next \in SUBSET Statement /\ \A v \in next : v.op # "lead"
          BY <2>2, <3>1 DEF Names, Statement
        <4>2. row.path # 0 => \E v \in next : Heals(v)
          BY DEF Names, Heals
        <4>3. inflight' = (inflight \ {w}) \union next /\ unwritten' = unwritten
          BY <3>3 DEF Finds, GoesOn
        <4> QED
          BY <3>2, <4>1, <4>2, <4>3
      <3>4. CASE Tests(w)
        <4> DEFINE next == IF w.path \in OnDisk THEN {} ELSE {Names("clear", 0)}
        <4>1. next \in SUBSET Statement /\ \A v \in next : v.op # "lead"
          BY <3>1 DEF Names, Statement
        <4>2. Heals(w) /\ row.path \notin OnDisk => \E v \in next : Heals(v)
          BY <3>4 DEF Tests, Names, Heals
        <4>3. inflight' = (inflight \ {w}) \union next /\ unwritten' = unwritten
          BY <3>4 DEF Tests, GoesOn
        <4> QED
          BY <3>2, <4>1, <4>2, <4>3
      <3>5. CASE FailsToWrite(w)
        <4>1. /\ inflight' = (inflight \ {w}) \union {}
              /\ unwritten' = unwritten \union {Purpose(w)}
          BY <3>5 DEF FailsToWrite, Answered
        <4>2. Purpose(w) \in {"lead", "clear"} /\ (Heals(w) => Purpose(w) = "clear")
          BY DEF Purpose, Heals
        <4>3. /\ unwritten' \in SUBSET {"lead", "clear"}
              /\ Heals(w) => "clear" \in unwritten'
          BY <3>2, <4>1, <4>2
        <4> WITNESS {} \in SUBSET Statement
        <4> QED
          BY <4>1, <4>3
      <3> QED
        BY <1>9, <3>3, <3>4, <3>5
    <2>4. SentType'
      BY <1>1, <1>4, <2>3, TypeParts DEF SentType
    <2>5. Unled => Unled'
      BY <2>1, <2>3 DEF Unled
    <2>6. LeadInv'
      BY <1>4, <1>6, <2>3 DEF Inv, RowInv, LeadInv
    <2>7. RowNeverDangles'
      <3> SUFFICES ASSUME row'.path # 0, row'.path \notin OnDisk'
                   PROVE  \/ \E v \in inflight' : Heals(v)'
                          \/ "clear" \in unwritten' \/ crossed'
        BY DEF RowNeverDangles
      <3>1. inflight' \subseteq Statement
        BY <2>4 DEF SentType
      <3>2. \/ \E v \in inflight : Heals(v)
            \/ "clear" \in unwritten \/ crossed
        BY <1>6, <2>1 DEF Inv, RowInv, RowNeverDangles
      <3>3. CASE \E v \in inflight : Heals(v) /\ v # w
        BY <2>1, <2>3, <3>1, <3>3
      <3>4. CASE Heals(w)
        BY <1>6, <2>1, <2>3, <3>1, <3>4
      <3> QED
        BY <1>4, <2>3, <3>2, <3>3, <3>4
    <2> QED
      BY <2>2, <2>4, <2>5, <2>6, <2>7
  <1> QED
    BY <1>2, <1>8, <1>9 DEF AnswerTo

(***************************************************************************)
(* The clock, the encoder that fails, and the switch                       *)
(***************************************************************************)

\* What the parts other than the type need of a step that touches the object.
LEMMA RestStep ==
    ASSUME TypeOK', QueueInv', RollInv', RecInv', RowInv', OneClock'
    PROVE  Inv'
  BY DEF Inv

LEMMA OfferFrameStep ==
    ASSUME Inv, OfferFrame
    PROVE  Inv'
  <1>1. TypeOK
    BY DEF Inv
  <1>2. /\ UNCHANGED <<phase, clocks, encoder, file, waiting, row>>
        /\ UNCHANGED <<restarts, faults, sent>>
        /\ rec' = [rec EXCEPT !.frame = TRUE]
    BY DEF OfferFrame, observed
  <1>3. /\ rec' \in Rec /\ rec'.held = rec.held /\ rec'.paused = rec.paused
        /\ rec'.rolling = rec.rolling /\ rec'.part = rec.part
        /\ rec'.stopped = rec.stopped
    BY <1>1, <1>2, TypeParts, RecForms DEF Rec
  <1>4. TypeOK'
    <2>1. CountsType' /\ FilesType'
      BY <1>1, <1>2, TypeParts DEF CountsType, FilesType
    <2> QED
      BY <1>1, <1>2, <1>3, <2>1, TypeParts, TypeNext, SentKept
  <1>5. RowInv' /\ (Unled => Unled')
    BY <1>2, RowSame DEF OnDisk
  <1>6. QueueInv' /\ RollInv' /\ RecInv'
    BY <1>2, <1>3, <1>5 DEF Inv, QueueInv, RollInv, RecInv, Only, RollThen
  <1>7. OneClock'
    BY <1>2, <1>3 DEF Inv, OneClock
  <1> QED
    BY <1>4, <1>5, <1>6, <1>7, RestStep

LEMMA PumpRollsStep ==
    ASSUME Inv, PumpRolls
    PROVE  Inv'
  <1>1. TypeOK
    BY DEF Inv
  <1>2. /\ UNCHANGED <<phase, clocks, file, row, restarts, faults, sent>>
        /\ rec' = [rec EXCEPT !.rolling = TRUE]
        /\ Close(rec.part, "roll")
    BY DEF PumpRolls, observed
  <1>3. rec.held /\ ~rec.rolling /\ ~rec.paused /\ rec.part < MaxParts
    BY DEF PumpRolls, Ticks
  <1>4. /\ rec' \in Rec /\ rec'.held = rec.held /\ rec'.paused = rec.paused
        /\ rec'.rolling = TRUE /\ rec'.part = rec.part
        /\ rec'.stopped = rec.stopped /\ rec.part \in Parts
    BY <1>1, <1>2, TypeParts, RecForms DEF Rec
  <1>5. Len(waiting) = 0
    BY <1>3 DEF Inv, QueueInv, RollInv, RecInv, Only, RollThen
  <1>6. waiting' \in Seq(Waiter) /\ Len(waiting') = 1 /\ waiting'[1].for = "roll"
    BY <1>1, <1>2, <1>4, <1>5, Enqueued, TypeParts
  <1>7. TypeOK'
    <2>1. CountsType' /\ FilesType'
      BY <1>1, <1>2, <1>4, TypeParts, EncoderForms DEF CountsType, FilesType, Close
    <2> QED
      BY <1>1, <1>2, <1>4, <1>6, <2>1, TypeParts, TypeNext, SentKept
  <1>8. QueueInv' /\ RollInv' /\ RecInv'
    BY <1>2, <1>3, <1>4, <1>6 DEF Inv, QueueInv, RollInv, RecInv, Only
  <1>9. OneClock'
    BY <1>2, <1>4 DEF Inv, OneClock
  <1>10. RowInv'
    BY <1>2, RowSame DEF OnDisk
  <1> QED
    BY <1>7, <1>8, <1>9, <1>10, RestStep

LEMMA EncoderErrorStep ==
    ASSUME Inv, EncoderError
    PROVE  Inv'
  <1>1. TypeOK
    BY DEF Inv
  <1>2. /\ UNCHANGED <<phase, clocks, file, waiting, row, restarts, sent>>
        /\ rec' = [rec EXCEPT !.held = FALSE]
        /\ encoder' = [encoder EXCEPT ![rec.part] = "off"]
        /\ Fails /\ waiting = <<>>
    BY DEF EncoderError
  <1>3. rec' \in Rec /\ ~rec'.held /\ rec.part \in Parts
    BY <1>1, <1>2, TypeParts, RecForms DEF Rec
  <1>4. faults' \in 0..MaxFaults /\ faults' # 0
    BY <1>1, <1>2, MoreFaults
  <1>5. Len(waiting') = 0
    BY <1>1, <1>2, NothingWaits, TypeParts
  <1>6. TypeOK'
    <2>1. CountsType' /\ FilesType'
      BY <1>1, <1>2, <1>3, <1>4, TypeParts, EncoderForms DEF CountsType, FilesType
    <2> QED
      BY <1>1, <1>2, <1>3, <2>1, TypeParts, TypeNext, SentKept
  <1>7. QueueInv' /\ RollInv' /\ RecInv' /\ OneClock'
    BY <1>3, <1>4, <1>5 DEF QueueInv, RollInv, RecInv, OneClock
  <1>8. RowInv'
    BY <1>2, RowSame DEF OnDisk
  <1> QED
    BY <1>6, <1>7, <1>8, RestStep

LEMMA PauseStep ==
    ASSUME Inv, Pause
    PROVE  Inv'
  <1>1. TypeOK
    BY DEF Inv
  <1>2. /\ UNCHANGED <<phase, file, row, restarts, faults, sent>>
        /\ rec' = [rec EXCEPT !.paused = TRUE]
        /\ clocks' = clocks - 1
        /\ Close(rec.part, "pause")
        /\ rec.held /\ ~rec.paused /\ phase = "active" /\ NoPauseWaits
    BY DEF Pause, MaySwitch, NoPauseWaits, observed
  <1>3. /\ rec' \in Rec /\ rec'.held = rec.held /\ rec'.paused
        /\ rec'.rolling = rec.rolling /\ rec'.part = rec.part
        /\ rec'.stopped = rec.stopped /\ rec.part \in Parts
    BY <1>1, <1>2, TypeParts, RecForms DEF Rec
  <1>4. /\ waiting' \in Seq(Waiter)
        /\ Len(waiting') = Len(waiting) + 1
        /\ \A i \in 1..Len(waiting) : waiting'[i] = waiting[i]
        /\ waiting'[Len(waiting) + 1].for = "pause"
    BY <1>1, <1>2, <1>3, Enqueued, TypeParts
  <1>5. clocks \in Nat /\ clocks > 0
    BY <1>1, <1>2, TypeParts DEF CountsType, Inv, RecInv
  <1>6. TypeOK'
    <2>1. CountsType' /\ FilesType'
      BY <1>1, <1>2, <1>3, <1>5, TypeParts, EncoderForms DEF CountsType, FilesType, Close
    <2> QED
      BY <1>1, <1>2, <1>3, <1>4, <2>1, TypeParts, TypeNext, SentKept
  <1>7. QueueInv' /\ RollInv'
    <2>1. CASE Len(waiting) = 0
      <3>1. Only("pause")'
        BY <1>4, <2>1 DEF Only
      <3>2. ~rec.rolling
        BY <1>2, <2>1 DEF Inv, QueueInv, Only, RollThen
      <3> QED
        BY <1>3, <3>1, <3>2 DEF QueueInv, RollInv, Only
    <2>2. CASE Only("roll")
      <3>1. RollThen("pause")'
        BY <1>4, <2>2 DEF Only, RollThen
      <3> QED
        BY <1>2, <1>3, <2>2, <3>1 DEF Inv, QueueInv, RollInv, Only, RollThen
    <2> QED
      BY <1>2, <2>1, <2>2, NoPauseShape DEF Inv
  <1>8. RecInv' /\ OneClock'
    BY <1>2, <1>3, <1>5 DEF Inv, RecInv, OneClock
  <1>9. RowInv'
    BY <1>2, RowSame DEF OnDisk
  <1> QED
    BY <1>6, <1>7, <1>8, <1>9, RestStep

LEMMA ResumeStep ==
    ASSUME Inv, Resume
    PROVE  Inv'
  <1>1. TypeOK
    BY DEF Inv
  <1>2. /\ UNCHANGED <<phase, file, waiting, restarts, faults, sent>>
        /\ rec' = [rec EXCEPT !.part = @ + 1, !.paused = FALSE]
        /\ row' = [row EXCEPT !.recording = TRUE]
        /\ clocks' = clocks + 1
        /\ Spawn(rec.part + 1)
        /\ rec.held /\ rec.paused /\ phase = "active" /\ NoPauseWaits
        /\ rec.part < MaxParts
    BY DEF Resume, MaySwitch, NoPauseWaits, observed
  <1>3. /\ rec' \in Rec /\ rec'.held = rec.held /\ ~rec'.paused
        /\ rec'.rolling = rec.rolling /\ rec'.stopped = rec.stopped
        /\ rec.part + 1 \in Parts
    BY <1>1, <1>2, TypeParts, RecNextPart DEF Rec
  <1>4. row' \in Row /\ row'.path = row.path
    BY <1>1, <1>2, TypeParts, RowForms DEF Row
  <1>5. clocks \in Nat
    BY <1>1, TypeParts DEF CountsType
  <1>6. TypeOK'
    <2>1. CountsType' /\ FilesType'
      BY <1>1, <1>2, <1>3, <1>5, TypeParts, EncoderForms DEF CountsType, FilesType, Spawn
    <2> QED
      BY <1>1, <1>2, <1>3, <1>4, <2>1, TypeParts, TypeNext, SentKept
  <1>7. Len(waiting) = 0
    BY <1>2, NoPauseShape DEF Inv
  <1>8. QueueInv' /\ RollInv'
    BY <1>2, <1>3, <1>7 DEF Inv, QueueInv, RollInv, Only, RollThen
  <1>9. RecInv' /\ OneClock'
    BY <1>2, <1>3, <1>5 DEF Inv, RecInv, OneClock
  <1>10. RowInv'
    BY <1>2, <1>4, RowSame DEF OnDisk
  <1> QED
    BY <1>6, <1>8, <1>9, <1>10, RestStep

(***************************************************************************)
(* The continuations                                                       *)
(***************************************************************************)

LEMMA RollDoneStep ==
    ASSUME Inv, RollDone
    PROVE  Inv'
  <1>1. TypeOK
    BY DEF Inv
  <1>2. /\ UNCHANGED <<phase, clocks, file, row, restarts, faults, sent>>
        /\ rec' = [rec EXCEPT !.part = @ + 1, !.rolling = FALSE]
        /\ Spawn(rec.part + 1)
        /\ Resumes("roll")
    BY DEF RollDone, observed
  <1>3. /\ waiting' \in Seq(Waiter)
        /\ Len(waiting) > 0 /\ Len(waiting') = Len(waiting) - 1
        /\ \A i \in 1..Len(waiting') : waiting'[i] = waiting[i + 1]
        /\ waiting[1].for = "roll"
    BY <1>1, <1>2, Dequeued, TypeParts
  <1>4. rec.part < MaxParts
    BY <1>3 DEF Inv, RollInv
  <1>5. /\ rec' \in Rec /\ rec'.held = rec.held /\ rec'.paused = rec.paused
        /\ ~rec'.rolling /\ rec'.stopped = rec.stopped /\ rec.part + 1 \in Parts
    BY <1>1, <1>2, <1>4, TypeParts, RecNextPart DEF Rec
  <1>6. TypeOK'
    <2>1. CountsType' /\ FilesType'
      BY <1>1, <1>2, <1>5, TypeParts, EncoderForms DEF CountsType, FilesType, Spawn
    <2> QED
      BY <1>1, <1>2, <1>3, <1>5, <2>1, TypeParts, TypeNext, SentKept
  <1>0. RowInv' /\ (Unled => Unled')
    BY <1>2, RowSame DEF OnDisk
  <1>7. QueueInv' /\ RollInv'
    <2>1. CASE Only("roll")
      <3>1. Len(waiting') = 0
        BY <1>3, <2>1 DEF Only
      <3> QED
        BY <1>5, <3>1 DEF QueueInv, RollInv
    <2>2. CASE RollThen("pause") \/ RollThen("stop")
      <3>1. Len(waiting') = 1 /\ waiting'[1].for = waiting[2].for
        BY <1>3, <2>2 DEF RollThen
      <3>2. RollInv'
        BY <2>2, <3>1 DEF RollInv, RollThen
      <3>3. QueueInv'
        BY <1>0, <1>2, <1>3, <1>5, <2>2, <3>1 DEF Inv, QueueInv, Only, RollThen
      <3> QED
        BY <3>2, <3>3
    <2> QED
      BY <1>3, <2>1, <2>2 DEF Inv, QueueInv, Only
  <1>8. RecInv' /\ OneClock'
    BY <1>2, <1>3, <1>5 DEF Inv, RecInv, OneClock
  <1> QED
    BY <1>0, <1>6, <1>7, <1>8, RestStep

LEMMA RollFailsStep ==
    ASSUME Inv, RollFails
    PROVE  Inv'
  <1>1. TypeOK
    BY DEF Inv
  <1>2. /\ UNCHANGED <<phase, clocks, encoder, file, row, restarts, sent>>
        /\ rec' = [rec EXCEPT !.held = FALSE, !.stopped = TRUE, !.rolling = FALSE]
        /\ Resumes("roll") /\ Fails
    BY DEF RollFails
  <1>3. /\ waiting' \in Seq(Waiter)
        /\ Len(waiting) > 0 /\ Len(waiting') = Len(waiting) - 1
        /\ \A i \in 1..Len(waiting') : waiting'[i] = waiting[i + 1]
        /\ waiting[1].for = "roll"
    BY <1>1, <1>2, Dequeued, TypeParts
  <1>4. rec' \in Rec /\ ~rec'.held /\ rec'.paused = rec.paused
    BY <1>1, <1>2, TypeParts, RecForms DEF Rec
  <1>5. faults' \in 0..MaxFaults /\ faults' # 0
    BY <1>1, <1>2, MoreFaults
  <1>6. TypeOK'
    <2>1. CountsType' /\ FilesType'
      BY <1>1, <1>2, <1>5, TypeParts DEF CountsType, FilesType
    <2> QED
      BY <1>1, <1>2, <1>3, <1>4, <2>1, TypeParts, TypeNext, SentKept
  <1>0. RowInv' /\ (Unled => Unled')
    BY <1>2, RowSame DEF OnDisk
  <1>7. QueueInv' /\ RollInv'
    <2>1. CASE Only("roll")
      <3>1. Len(waiting') = 0
        BY <1>3, <2>1 DEF Only
      <3> QED
        BY <1>4, <3>1 DEF QueueInv, RollInv
    <2>2. CASE RollThen("pause") \/ RollThen("stop")
      <3>1. Len(waiting') = 1 /\ waiting'[1].for = waiting[2].for
        BY <1>3, <2>2 DEF RollThen
      <3> QED
        BY <1>0, <1>2, <1>3, <1>4, <2>2, <3>1 DEF Inv, QueueInv, RollInv, Only, RollThen
    <2> QED
      BY <1>3, <2>1, <2>2 DEF Inv, QueueInv, Only
  <1>8. RecInv' /\ OneClock'
    BY <1>2, <1>3, <1>4, <1>5 DEF Inv, RecInv, OneClock
  <1> QED
    BY <1>0, <1>6, <1>7, <1>8, RestStep

LEMMA PauseDoneStep ==
    ASSUME Inv, PauseDone
    PROVE  Inv'
  <1>1. TypeOK
    BY DEF Inv
  <1>2. /\ UNCHANGED <<phase, rec, clocks, encoder, file, restarts, faults, sent>>
        /\ row' = [row EXCEPT !.recording = FALSE]
        /\ Resumes("pause")
    BY DEF PauseDone, observed
  <1>3. /\ waiting' \in Seq(Waiter)
        /\ Len(waiting) > 0 /\ Len(waiting') = Len(waiting) - 1
        /\ waiting[1].for = "pause"
    BY <1>1, <1>2, Dequeued, TypeParts
  <1>4. row' \in Row /\ row'.path = row.path
    BY <1>1, <1>2, TypeParts, RowForms DEF Row
  <1>5. TypeOK'
    <2>1. CountsType' /\ FilesType'
      BY <1>1, <1>2, TypeParts DEF CountsType, FilesType
    <2> QED
      BY <1>1, <1>2, <1>3, <1>4, <2>1, TypeParts, TypeNext, SentKept
  <1>6. Only("pause") /\ (rec.held => ~rec.rolling)
    BY <1>3 DEF Inv, QueueInv, Only, RollThen
  <1>7. QueueInv' /\ RollInv' /\ RecInv' /\ OneClock'
    BY <1>2, <1>3, <1>6 DEF Inv, QueueInv, RollInv, RecInv, OneClock, Only
  <1>8. RowInv'
    BY <1>2, <1>4, RowSame DEF OnDisk
  <1> QED
    BY <1>5, <1>7, <1>8, RestStep

\* stop() sends a statement that leads the row to a file that is there, or none.
LEMMA CollectFacts ==
    ASSUME TypeOK, Collect
    PROVE  /\ file' \in [Parts -> File]
           /\ inflight' \in SUBSET Statement
           /\ \A w \in inflight' : w \in inflight \/ w.path \in OnDisk'
  <1> DEFINE Kept(empty) == {p \in 1..rec.part : file[p] # "none"} \ empty
             Lead(empty, first) == [op |-> "lead", path |-> first,
                                    parts |-> Cardinality(Kept(empty))]
  <1>1. /\ file \in [Parts -> File] /\ inflight \in SUBSET Statement
        /\ rec.part \in Nat /\ 1..rec.part \subseteq Parts
    BY TypeParts, BoundsAssumption DEF FilesType, SentType, Rec, Parts
  <1>2. PICK empty \in SUBSET {p \in 1..rec.part : file[p] = "partial"} :
          /\ file' = [p \in Parts |-> IF p \in empty THEN "none" ELSE file[p]]
          /\ \/ UNCHANGED inflight
             \/ \E first \in Kept(empty) : Send(Lead(empty, first))
    BY DEF Collect
  <1>3. file' \in [Parts -> File]
    BY <1>1, <1>2 DEF File
  <1>4. ASSUME NEW first \in Kept(empty), Send(Lead(empty, first))
        PROVE  /\ inflight' \in SUBSET Statement
               /\ \A w \in inflight' : w \in inflight \/ w.path \in OnDisk'
    <2>1. first \in Parts /\ file'[first] # "none"
      BY <1>1, <1>2
    <2>2. Cardinality(Kept(empty)) \in 0..MaxParts
      <3>1. Kept(empty) \in SUBSET Parts
        BY <1>1
      <3>2. IsFiniteSet(Parts) /\ Cardinality(Parts) = MaxParts
        BY FS_Interval, BoundsAssumption DEF Parts
      <3>3. /\ IsFiniteSet(Kept(empty))
            /\ Cardinality(Kept(empty)) <= MaxParts
        BY <3>1, <3>2, FS_Subset
      <3>4. Cardinality(Kept(empty)) \in Nat
        BY <3>3, FS_CardinalityType
      <3> QED
        BY <3>3, <3>4, BoundsAssumption
    <2>3. first \in 0..MaxParts
      BY <2>1, BoundsAssumption DEF Parts
    <2>4. Lead(empty, first) \in Statement
      BY <2>2, <2>3 DEF Statement
    <2> QED
      BY <1>1, <1>4, <2>1, <2>4 DEF Send, OnDisk
  <1> QED
    BY <1>1, <1>2, <1>3, <1>4

\* Collecting before anything leads the row somewhere.
LEMMA CollectRow ==
    ASSUME TypeOK, Unled, Collect, phase' = "over", UNCHANGED <<row, crossed>>
    PROVE  RowInv'
  <1>1. \A w \in inflight' : w \in inflight \/ w.path \in OnDisk'
    BY CollectFacts
  <1>2. LeadInv'
    BY <1>1 DEF Unled, LeadInv
  <1>3. RowNeverDangles'
    BY DEF Unled, RowNeverDangles
  <1> QED
    BY <1>2, <1>3 DEF RowInv

LEMMA StopDoneStep ==
    ASSUME Inv, StopDone
    PROVE  Inv'
  <1>1. TypeOK
    BY DEF Inv
  <1>2. /\ UNCHANGED <<phase, rec, clocks, encoder, row, restarts, faults>>
        /\ UNCHANGED <<deleted, unwritten, crossed>>
        /\ Collect /\ Resumes("stop")
    BY DEF StopDone
  <1>3. /\ waiting' \in Seq(Waiter)
        /\ Len(waiting) > 0 /\ Len(waiting') = Len(waiting) - 1
        /\ waiting[1].for = "stop"
    BY <1>1, <1>2, Dequeued, TypeParts
  <1>4. Only("stop") /\ phase = "over" /\ Unled
    BY <1>3 DEF Inv, QueueInv, Only, RollThen
  <1>5. file' \in [Parts -> File] /\ inflight' \in SUBSET Statement
    BY <1>1, <1>2, CollectFacts
  <1>6. TypeOK'
    <2>1. CountsType' /\ FilesType' /\ SentType'
      BY <1>1, <1>2, <1>5, TypeParts DEF CountsType, FilesType, SentType
    <2> QED
      BY <1>1, <1>2, <1>3, <2>1, TypeParts, TypeNext
  <1>7. Len(waiting') = 0 /\ ~rec.held
    BY <1>3, <1>4 DEF Inv, RecInv, Only
  <1>8. QueueInv' /\ RollInv' /\ RecInv' /\ OneClock'
    BY <1>2, <1>4, <1>7 DEF Inv, QueueInv, RollInv, RecInv, OneClock
  <1>9. RowInv'
    BY <1>1, <1>2, <1>4, CollectRow
  <1> QED
    BY <1>6, <1>8, <1>9, RestStep

(***************************************************************************)
(* The end of the session and restarts                                     *)
(***************************************************************************)

LEMMA EndStep ==
    ASSUME Inv, End
    PROVE  Inv'
  <1>1. TypeOK
    BY DEF Inv
  <1>2. /\ phase # "over" /\ phase' = "over"
        /\ UNCHANGED <<row, restarts, faults, deleted, unwritten, crossed>>
        /\ Unled
    BY DEF End, Inv, RowInv
  <1>3. CASE ~rec.held
    <2>1. UNCHANGED <<rec, clocks, encoder, file, waiting, inflight, sent>>
      BY <1>2, <1>3 DEF End, sent
    <2>2. TypeOK'
      <3>1. CountsType' /\ FilesType'
        BY <1>1, <1>2, <2>1, TypeParts DEF CountsType, FilesType
      <3> QED
        BY <1>1, <1>2, <2>1, <3>1, TypeParts, TypeNext, SentKept
    <2>3. QueueInv' /\ RollInv'
      BY <1>2, <1>3, <2>1 DEF Inv, QueueInv, RollInv, Only, RollThen
    <2>4. RecInv' /\ OneClock'
      BY <1>2, <1>3, <2>1 DEF Inv, RecInv, OneClock
    <2>5. RowInv'
      BY <1>2, <2>1, RowSame DEF OnDisk
    <2> QED
      BY <2>2, <2>3, <2>4, <2>5, RestStep
  <1>4. CASE rec.held
    <2>1. /\ rec' = [rec EXCEPT !.held = FALSE, !.stopped = TRUE]
          /\ clocks' = IF rec.paused THEN clocks ELSE clocks - 1
          /\ rec.paused => Collect /\ UNCHANGED <<encoder, waiting>>
          /\ ~rec.paused => Close(rec.part, "stop") /\ UNCHANGED <<file, inflight>>
      BY <1>4 DEF End, Stop
    <2>2. /\ rec' \in Rec /\ ~rec'.held /\ rec'.paused = rec.paused
          /\ rec'.rolling = rec.rolling /\ rec'.part = rec.part
          /\ rec.part \in Parts
      BY <1>1, <2>1, TypeParts, RecForms DEF Rec
    <2>3. CountsType' /\ OneClock'
      <3>1. clocks \in Nat /\ (~rec.paused => clocks > 0)
        BY <1>1, <1>4, TypeParts DEF CountsType, Inv, RecInv
      <3> QED
        BY <1>1, <1>2, <1>4, <2>1, <2>2, <3>1, TypeParts
           DEF CountsType, Inv, OneClock
    <2>4. CASE rec.paused
      <3>1. file' \in [Parts -> File] /\ inflight' \in SUBSET Statement
        BY <1>1, <2>1, <2>4, CollectFacts
      <3>2. TypeOK'
        <4>1. FilesType' /\ SentType' /\ waiting' = waiting
          BY <1>1, <1>2, <2>1, <2>4, <3>1, TypeParts DEF FilesType, SentType
        <4> QED
          BY <1>1, <1>2, <2>2, <2>3, <4>1, TypeParts, TypeNext
      <3>3. QueueInv' /\ RollInv' /\ RecInv'
        BY <1>2, <1>4, <2>1, <2>2, <2>4
           DEF Inv, QueueInv, RollInv, RecInv, Only, RollThen
      <3>4. RowInv'
        BY <1>1, <1>2, <2>1, <2>4, CollectRow
      <3> QED
        BY <2>3, <3>2, <3>3, <3>4, RestStep
    <2>5. CASE ~rec.paused
      <3>1. Close(rec.part, "stop") /\ UNCHANGED <<file, inflight, sent>>
        BY <1>2, <2>1, <2>5 DEF sent
      <3>2. /\ waiting' \in Seq(Waiter)
            /\ Len(waiting') = Len(waiting) + 1
            /\ \A i \in 1..Len(waiting) : waiting'[i] = waiting[i]
            /\ waiting'[Len(waiting) + 1].for = "stop"
        BY <1>1, <2>2, <3>1, Enqueued, TypeParts
      <3>3. TypeOK'
        <4>1. FilesType'
          BY <1>1, <2>2, <3>1, TypeParts, EncoderForms DEF FilesType, Close
        <4> QED
          BY <1>1, <1>2, <2>2, <2>3, <3>1, <3>2, <4>1, TypeParts, TypeNext, SentKept
      <3>0. RowInv' /\ Unled'
        BY <1>2, <3>1, RowSame DEF OnDisk
      <3>4. QueueInv' /\ RollInv'
        <4>1. CASE Len(waiting) = 0
          <5>1. Only("stop")'
            BY <3>2, <4>1 DEF Only
          <5> QED
            BY <1>2, <3>0, <5>1 DEF QueueInv, RollInv, Only
        <4>2. CASE Only("roll")
          <5>1. RollThen("stop")'
            BY <3>2, <4>2 DEF Only, RollThen
          <5> QED
            BY <1>2, <2>2, <3>0, <4>2, <5>1
               DEF Inv, QueueInv, RollInv, Only, RollThen
        <4> QED
          BY <1>2, <1>4, <2>5, <4>1, <4>2 DEF Inv, QueueInv
      <3>5. RecInv'
        BY <1>2, <2>2, <3>1 DEF RecInv
      <3> QED
        BY <2>3, <3>0, <3>3, <3>4, <3>5, RestStep
    <2> QED
      BY <2>4, <2>5
  <1> QED
    BY <1>3, <1>4

LEMMA RestartStep ==
    ASSUME Inv, Restart
    PROVE  Inv'
  <1>1. TypeOK
    BY DEF Inv
  <1>2. /\ UNCHANGED <<phase, row, faults, deleted, crossed>>
        /\ inflight' = {}
        /\ unwritten' = unwritten \union {Purpose(w) : w \in inflight}
        /\ rec' = [rec EXCEPT !.held = FALSE, !.stopped = TRUE]
        /\ clocks' = 0 /\ waiting' = <<>>
        /\ restarts < MaxRestarts /\ restarts' = restarts + 1
        /\ encoder' = [p \in Parts |-> "off"]
    BY DEF Restart
  <1>3. PICK f \in {"whole", "broken"} :
            file' = [p \in Parts |-> IF file[p] = "partial" THEN f ELSE file[p]]
    BY DEF Restart
  <1>4. rec' \in Rec /\ ~rec'.held
    BY <1>1, <1>2, TypeParts, RecForms DEF Rec
  <1>5. waiting' \in Seq(Waiter) /\ Len(waiting') = 0
    BY <1>2, EmptySeq
  <1>6. TypeOK'
    <2>1. CountsType'
      BY <1>1, <1>2, TypeParts, BoundsAssumption DEF CountsType
    <2>2. FilesType'
      BY <1>1, <1>2, <1>3, TypeParts DEF FilesType, Encoder, File
    <2>3. SentType'
      BY <1>1, <1>2, TypeParts DEF SentType, Purpose
    <2> QED
      BY <1>1, <1>2, <1>4, <1>5, <2>1, <2>2, <2>3, TypeParts, TypeNext
  <1>7. QueueInv' /\ RollInv' /\ RecInv' /\ OneClock'
    BY <1>2, <1>4, <1>5 DEF QueueInv, RollInv, RecInv, OneClock
  <1>8. OnDisk' = OnDisk
    BY <1>3 DEF OnDisk
  <1>9. \A w \in inflight : Heals(w) => "clear" \in unwritten'
    BY <1>2 DEF Heals, Purpose
  <1>10. RowNeverDangles'
    BY <1>2, <1>8, <1>9 DEF Inv, RowInv, RowNeverDangles
  <1>11. RowInv'
    BY <1>2, <1>10 DEF Inv, RowInv, LeadInv, Unled
  <1> QED
    BY <1>6, <1>7, <1>11, RestStep

LEMMA NextInv == Inv /\ [Next]_vars => Inv'
  <1> SUFFICES ASSUME Inv, [Next]_vars PROVE Inv'
    OBVIOUS
  <1>1. CASE Activate \/ StartAgain
    BY <1>1, StartStep
  <1>2. CASE OfferFrame
    BY <1>2, OfferFrameStep
  <1>3. CASE PumpFeeds \/ Encoding
    BY <1>3, FileStep DEF Encoding
  <1>4. CASE PumpRolls
    BY <1>4, PumpRollsStep
  <1>5. CASE EncoderError
    BY <1>5, EncoderErrorStep
  <1>6. CASE Continue
    BY <1>6, RollDoneStep, RollFailsStep, PauseDoneStep, StopDoneStep DEF Continue
  <1>7. CASE Pause \/ SwitchOff \/ Resume
    BY <1>7, PauseStep, SwitchOffStep, ResumeStep
  <1>8. CASE End
    BY <1>8, EndStep
  <1>9. CASE ClearSession \/ ClearStorage \/ \E p \in Parts : Retire(p)
    BY <1>9, DeleteStep
  <1>10. CASE Restart
    BY <1>10, RestartStep
  <1>11. CASE UNCHANGED vars
    BY <1>11 DEF vars, Inv, TypeOK, QueueInv, RollInv, RecInv, RowInv, LeadInv,
                 RowNeverDangles, Heals, Unled, OneClock, OnDisk, Only, RollThen
  <1>12. CASE Answer
    BY <1>12, AnswerStep
  <1> QED
    BY <1>1, <1>2, <1>3, <1>4, <1>5, <1>6, <1>7, <1>8, <1>9, <1>10, <1>11, <1>12
       DEF Next

(***************************************************************************)
(* Footage                                                                 *)
(***************************************************************************)

PartUntouched(p) ==
    /\ phase = "waiting" \/ p > rec.part => encoder[p] = "off" /\ file[p] = "none"
    /\ encoder[p] = "open" => file[p] = "none"

LEMMA PartsForm ==
    PartsInv <=> (Undisturbed => /\ phase = "active" => rec.held
                                 /\ \A p \in Parts : PartUntouched(p))
  BY DEF PartsInv, PartUntouched

LEMMA PartsInit == Init => PartsInv
  BY DEF Init, PartsInv

\* Whatever leaves an API that never restarted, with encoders that all worked,
\* found one.
LEMMA StillUndisturbed ==
    ASSUME TypeOK, Next, Undisturbed'
    PROVE  /\ Undisturbed
           /\ ~RollFails /\ ~EncoderError /\ ~Restart
           /\ \A p \in Parts : ~EncoderKilled(p)
  <1>1. restarts \in Nat /\ faults \in Nat
    BY BoundsAssumption, TypeParts DEF CountsType
  <1>2. ~Fails
    BY <1>1 DEF Fails, Undisturbed
  <1>3. ~Restart
    BY <1>1 DEF Restart, Undisturbed
  <1>4. ~RollFails /\ ~EncoderError /\ \A p \in Parts : ~EncoderKilled(p)
    BY <1>2 DEF RollFails, EncoderError, EncoderKilled
  <1>5. UNCHANGED <<restarts, faults>>
    BY <1>3, <1>4
       DEF Next, Encoding, Continue, Activate, StartAgain, Start, OfferFrame,
           PumpFeeds, PumpRolls, EncoderExits, RollDone, PauseDone, StopDone,
           Pause, SwitchOff, Resume, End, ClearSession, ClearStorage, Retire,
           Unlink, Answer, AnswerTo, Writes, Finds, Tests, FailsToWrite,
           Answered, GoesOn, observed
  <1> QED
    BY <1>3, <1>4, <1>5 DEF Undisturbed

\* A step that opens no part: what is off stays off, and no file appears but
\* under an encoder that was fed.
LEMMA NoneOpened ==
    ASSUME TypeOK, Undisturbed, PartsInv,
           phase' = "waiting" => phase = "waiting",
           phase' = "active" => rec'.held,
           rec'.part = rec.part,
           \A p \in Parts :
               /\ encoder[p] = "off" => encoder'[p] = "off"
               /\ encoder'[p] = "open" => encoder[p] = "open"
               /\ file[p] = "none" => \/ file'[p] = "none"
                                      \/ /\ phase # "waiting" /\ p = rec.part
                                         /\ encoder'[p] # "open"
               /\ file[p] = "none" \/ encoder'[p] # "open" \/ file'[p] = "none"
    PROVE  PartsInv'
  <1>1. rec.part \in Nat /\ Parts \subseteq Nat
    BY TypeParts, BoundsAssumption DEF Rec, Parts
  <1>2. \A p \in Parts : PartUntouched(p)
    BY PartsForm
  <1>3. ASSUME NEW p \in Parts PROVE PartUntouched(p)'
    <2>1. (phase' = "waiting" \/ p > rec'.part)
              => encoder'[p] = "off" /\ file'[p] = "none"
      BY <1>1, <1>2 DEF PartUntouched
    <2>2. encoder'[p] = "open" => file'[p] = "none"
      BY <1>2 DEF PartUntouched
    <2> QED
      BY <2>1, <2>2 DEF PartUntouched
  <1> QED
    BY <1>3, PartsForm DEF PartsInv, PartUntouched

\* A step that opens a part nobody has opened.
LEMMA OneOpened ==
    ASSUME TypeOK, Undisturbed, PartsInv, NEW q \in Parts,
           phase = "waiting" \/ q > rec.part,
           Spawn(q), file' = file, phase' # "waiting", rec'.part = q,
           phase' = "active" => rec'.held
    PROVE  PartsInv'
  <1>1. /\ rec.part \in Nat /\ Parts \subseteq Nat
        /\ encoder \in [Parts -> Encoder]
    BY TypeParts, BoundsAssumption DEF Rec, Parts, FilesType
  <1>2. \A p \in Parts : PartUntouched(p)
    BY PartsForm
  <1>3. ASSUME NEW p \in Parts PROVE PartUntouched(p)'
    BY <1>1, <1>2, <1>3 DEF PartUntouched, Spawn
  <1> QED
    BY <1>3 DEF PartsInv, PartUntouched

LEMMA StopsOver ==
    ASSUME Inv, StopDone \/ End
    PROVE  phase' = "over" /\ rec'.part = rec.part
  <1>1. TypeOK /\ rec \in Rec
    BY TypeParts DEF Inv
  <1>2. CASE StopDone
    <2>1. rec' = rec /\ phase' = phase /\ Resumes("stop")
      BY <1>2 DEF StopDone
    <2>2. waiting \in Seq(Waiter)
      BY <1>1, TypeParts
    <2>3. Len(waiting) > 0 /\ waiting[1].for = "stop"
      BY <2>1, <2>2, Dequeued
    <2>4. phase = "over"
      BY <2>3 DEF Inv, QueueInv, Only, RollThen
    <2> QED
      BY <2>1, <2>4
  <1>3. CASE End
    BY <1>1, <1>3 DEF End, Stop, Rec
  <1> QED
    BY <1>2, <1>3

LEMMA PartsNext ==
    ASSUME Inv, PartsInv, Next
    PROVE  PartsInv'
  <1> SUFFICES ASSUME Undisturbed' PROVE PartsInv'
    BY DEF PartsInv
  <1>1. /\ TypeOK /\ rec \in Rec /\ rec.part \in Parts
        /\ encoder \in [Parts -> Encoder] /\ file \in [Parts -> File]
    BY TypeParts DEF Inv, Rec, FilesType
  <1>2. /\ Undisturbed /\ ~RollFails /\ ~EncoderError /\ ~Restart
        /\ \A p \in Parts : ~EncoderKilled(p)
    BY <1>1, StillUndisturbed
  <1>3. phase = "active" => rec.held
    BY <1>2 DEF PartsInv
  <1>4. CASE Activate
    <2>1. /\ Spawn(1) /\ file' = file /\ phase = "waiting" /\ phase' = "active"
          /\ rec'.part = 1 /\ rec'.held
      BY <1>4 DEF Activate, Start, Fresh
    <2> QED
      BY <1>1, <1>2, <2>1, FreshType, OneOpened
  <1>5. CASE StartAgain
    BY <1>3, <1>5 DEF StartAgain, MaySwitch
  <1>6. CASE OfferFrame \/ PumpRolls \/ Pause \/ SwitchOff \/ PauseDone
    <2>1. /\ phase' = phase /\ file' = file
          /\ rec'.held = rec.held /\ rec'.part = rec.part
      BY <1>1, <1>6 DEF OfferFrame, PumpRolls, Pause, SwitchOff, PauseDone, Rec
    <2>2. \/ encoder' = encoder
          \/ encoder' = [encoder EXCEPT ![rec.part] =
                             IF @ = "off" THEN "off" ELSE "ending"]
      BY <1>6 DEF OfferFrame, PumpRolls, Pause, SwitchOff, PauseDone, Close
    <2>3. \A p \in Parts : PartUntouched(p)
      BY <1>2, PartsForm
    <2>4. \A p \in Parts : /\ encoder[p] = "off" => encoder'[p] = "off"
                           /\ encoder'[p] = "open" => encoder[p] = "open"
      BY <1>1, <2>2
    <2> QED
      BY <1>1, <1>2, <1>3, <2>1, <2>3, <2>4, NoneOpened DEF PartUntouched
  <1>7. CASE PumpFeeds
    <2>1. /\ phase' = phase /\ rec' = rec /\ phase = "active"
          /\ encoder' = [encoder EXCEPT ![rec.part] = "fed"]
          /\ file' = [file EXCEPT ![rec.part] = "partial"]
          /\ encoder[rec.part] = "open"
      BY <1>7 DEF PumpFeeds, Ticks, Inv, RecInv
    <2>2. \A p \in Parts : PartUntouched(p)
      BY <1>2, PartsForm
    <2>3. \A p \in Parts :
             /\ encoder[p] = "off" => encoder'[p] = "off"
             /\ encoder'[p] = "open" => encoder[p] = "open"
             /\ p # rec.part => file'[p] = file[p] /\ encoder'[p] = encoder[p]
             /\ encoder'[rec.part] # "open"
      BY <1>1, <2>1
    <2> QED
      BY <1>1, <1>2, <1>3, <2>1, <2>2, <2>3, NoneOpened DEF PartUntouched
  <1>8. ASSUME NEW q \in Parts, EncoderExits(q)
        PROVE  PartsInv'
    <2>1. /\ phase' = phase /\ rec' = rec
          /\ encoder' = [encoder EXCEPT ![q] = "off"]
          /\ file' = Written(q, "whole") /\ encoder[q] = "ending"
      BY <1>8 DEF EncoderExits
    <2>2. \A p \in Parts : PartUntouched(p)
      BY <1>2, PartsForm
    <2>3. \A p \in Parts :
             /\ encoder[p] = "off" => encoder'[p] = "off"
             /\ encoder'[p] = "open" => encoder[p] = "open"
             /\ file[p] = "none" => file'[p] = "none"
      BY <1>1, <2>1 DEF Written
    <2> QED
      BY <1>1, <1>2, <1>3, <2>1, <2>2, <2>3, NoneOpened DEF PartUntouched
  <1>9. CASE RollDone
    <2>1. /\ phase' = phase /\ file' = file /\ Spawn(rec.part + 1)
          /\ rec'.part = rec.part + 1 /\ rec'.held = rec.held
      BY <1>1, <1>9 DEF RollDone, Rec
    <2>2. waiting \in Seq(Waiter) /\ Len(waiting) > 0 /\ waiting[1].for = "roll"
      BY <1>1, <1>9, TypeParts, Dequeued DEF RollDone
    <2>3. phase # "waiting" /\ rec.part < MaxParts
      BY <2>2 DEF Inv, RecInv, RollInv
    <2>4. rec.part + 1 \in Parts /\ rec.part + 1 > rec.part
      BY <1>1, <2>3, BoundsAssumption DEF Parts
    <2> QED
      BY <1>1, <1>2, <1>3, <2>1, <2>3, <2>4, OneOpened
  <1>10. CASE Resume
    <2>1. /\ phase' = phase /\ phase = "active" /\ file' = file
          /\ Spawn(rec.part + 1) /\ rec.part < MaxParts
          /\ rec'.part = rec.part + 1 /\ rec'.held = rec.held
      BY <1>1, <1>10 DEF Resume, MaySwitch, Rec
    <2>2. rec.part + 1 \in Parts /\ rec.part + 1 > rec.part
      BY <1>1, <2>1, BoundsAssumption DEF Parts
    <2> QED
      BY <1>1, <1>2, <1>3, <2>1, <2>2, OneOpened
  <1>11. CASE StopDone \/ End
    <2>1. /\ phase' # "waiting" /\ phase' # "active" /\ rec'.part = rec.part
      BY <1>1, <1>11, StopsOver
    <2>2. \A p \in Parts : file'[p] \in {file[p], "none"}
      BY <1>1, <1>11 DEF StopDone, End, Stop, Collect
    <2>3. \/ encoder' = encoder
          \/ encoder' = [encoder EXCEPT ![rec.part] =
                             IF @ = "off" THEN "off" ELSE "ending"]
      BY <1>11 DEF StopDone, End, Stop, Close
    <2>4. \A p \in Parts : PartUntouched(p)
      BY <1>2, PartsForm
    <2>5. \A p \in Parts : /\ encoder[p] = "off" => encoder'[p] = "off"
                           /\ encoder'[p] = "open" => encoder[p] = "open"
      BY <1>1, <2>3
    <2> QED
      BY <1>1, <1>2, <2>1, <2>2, <2>4, <2>5, NoneOpened DEF PartUntouched
  <1>12. CASE ClearSession \/ ClearStorage \/ \E q \in Parts : Retire(q)
    <2>1. phase' = phase /\ rec' = rec /\ encoder' = encoder
      BY <1>12 DEF ClearSession, ClearStorage, Retire, Unlink
    <2>2. \A p \in Parts : file'[p] \in {file[p], "none"}
      BY <1>1, <1>12 DEF ClearSession, ClearStorage, Retire, Unlink
    <2>3. \A p \in Parts : PartUntouched(p)
      BY <1>2, PartsForm
    <2> QED
      BY <1>1, <1>2, <1>3, <2>1, <2>2, <2>3, NoneOpened DEF PartUntouched
  <1>13. CASE Answer
    <2>1. UNCHANGED <<phase, rec, encoder, file, restarts, faults>>
      BY <1>13 DEF Answer, AnswerTo, Writes, Finds, Tests, FailsToWrite,
                   Answered, GoesOn
    <2> QED
      BY <2>1 DEF PartsInv, Undisturbed
  <1> QED
    BY <1>2, <1>4, <1>5, <1>6, <1>7, <1>8, <1>9, <1>10, <1>11, <1>12, <1>13
       DEF Next, Encoding, Continue

(***************************************************************************)
(* The theorems                                                            *)
(***************************************************************************)

\* The variables keep their types.
THEOREM RecorderTypeCorrect == Spec => []TypeOK
  <1>1. Inv => TypeOK
    BY DEF Inv
  <1> QED
    BY <1>1, InitInv, NextInv, PTL DEF Spec

\* recordingPath names a file that is there, or a statement is in flight that
\* takes it off one that is gone, or such a statement failed, or the file went
\* while stop() was writing the row; over every interleaving of rolls, switches,
\* deletions, restarts and answers of the database.
THEOREM RowCorrect == Spec => []RowNeverDangles
  <1>1. Inv => RowNeverDangles
    BY DEF Inv, RowInv
  <1> QED
    BY <1>1, InitInv, NextInv, PTL DEF Spec

\* As long as no encoder has failed, a recording that runs has one timer and no
\* other recording has any, though switches come while a part is being closed
\* (start, resume, stop).
THEOREM ClockCorrect == Spec => []OneClock
  <1>1. Inv => OneClock
    BY DEF Inv, RowInv
  <1> QED
    BY <1>1, InitInv, NextInv, PTL DEF Spec

\* While the API stays up and its encoders work, a part that is finished is
\* never opened again: roll() and resume() open parts nobody has written.
THEOREM FootageIsKept == Spec => FootageKeptWhileUp
  <1>1. Inv /\ PartsInv /\ [Next]_vars => (Inv /\ PartsInv)'
    <2> SUFFICES ASSUME Inv, PartsInv, [Next]_vars PROVE Inv' /\ PartsInv'
      OBVIOUS
    <2>1. CASE UNCHANGED vars
      BY <2>1, NextInv DEF vars, PartsInv, Undisturbed
    <2> QED
      BY <2>1, NextInv, PartsNext
  <1>2. Inv /\ PartsInv /\ [Next]_vars
            => [\A p \in Parts : (Undisturbed /\ file[p] = "whole")
                                    => file'[p] # "partial"]_vars
    <2> SUFFICES ASSUME Inv, PartsInv, Next,
                        NEW p \in Parts, Undisturbed, file[p] = "whole"
                 PROVE  file'[p] # "partial"
      BY DEF vars
    <2>1. encoder[p] # "open"
      BY DEF PartsInv
    <2>2. file \in [Parts -> File] /\ file[p] # "partial"
      BY TypeParts DEF Inv, FilesType
    <2> QED
      BY <2>1, <2>2
         DEF Next, Encoding, Continue, Activate, StartAgain, Start, OfferFrame,
             PumpFeeds, PumpRolls, EncoderExits, EncoderKilled, Written,
             EncoderError, RollDone, RollFails, PauseDone, StopDone, Collect,
             Pause, SwitchOff, Resume, End, Stop, ClearSession, ClearStorage,
             Retire, Unlink, Restart, Answer, AnswerTo, Writes, Finds, Tests,
             FailsToWrite, Answered, GoesOn
  <1> QED
    BY <1>1, <1>2, InitInv, PartsInit, PTL DEF Spec, FootageKeptWhileUp

=============================================================================
