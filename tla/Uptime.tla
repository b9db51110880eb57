------------------------------- MODULE Uptime -------------------------------
(***************************************************************************)
(* Device uptime (uptime.service.ts) and its arithmetic (uptime.ts), for   *)
(* one device: passes that notice a change of its verdict and store it as  *)
(* a transition, reports computed from the transitions, and the day rows   *)
(* kept beside them.                                                       *)
(*                                                                         *)
(* A tick stands for a part of a second (the code's milliseconds): reports *)
(* and day rows are in seconds, each piece of time rounded before it is    *)
(* added.                                                                  *)
(***************************************************************************)
EXTENDS Integers, Sequences, FiniteSetsExt, SequencesExt

CONSTANTS
    SecLen, HourLen,       \* a second and an hour, in ticks
    HoursPerDay,           \* 24
    Offsets,               \* time zones, in ticks east of UTC
    Passes,                \* collections under way at once: timer and POST collect
    Sla,                   \* the target, in hundredths of a percent
    LastTick,              \* bound: how long it is watched
    MaxEvents,             \* bound: transitions stored
    Timer,                 \* the pass the timer starts
    MaxRuns,               \* bound: rollups, one at a time, and passes somebody asks for
    MaxLosses              \* bound: restarts of the API and failed writes

ASSUME UptimeAssumption ==
    /\ SecLen \in Nat \ {0} /\ HourLen \in Nat \ {0} /\ HourLen % SecLen = 0
    /\ HoursPerDay \in Nat \ {0} /\ LastTick \in Nat
    /\ Offsets \subseteq Nat /\ (\A o \in Offsets : o % SecLen = 0) /\ Sla \in 0 .. 10000

VARIABLES
    tz,      \* uptimeTzOffsetMin
    now, verdict,  \* the time, and what currentDevices() says of the device
    events,  \* DeviceUptimeEvent, in the order of their stamps
    days,    \* [day -> DeviceUptimeDay row or NoRow]
    api,     \* the process: up, booted, lastState, whether the first rollup was begun,
             \* and whether primeState() read too few rows to find the device
    pass, roll,
    \* observation
    told,    \* the verdict the last pass ended with
    muddled, \* a transition was lost, or two passes wrote against each other
    rolled,  \* when the last rollup that lost no row was begun
    spent    \* runs and faults so far

upVars == <<tz, now, verdict, events, days, api, pass, roll, told, muddled, rolled, spent>>

(***************************************************************************)
(* uptime.ts: a timeline from transitions.                                 *)
(***************************************************************************)
DayLen == HourLen * HoursPerDay
Never == -1
UpSide(a, b) == IF a > b THEN a ELSE b
DownSide(a, b) == IF a < b THEN a ELSE b
\* Math.round(a / b)
Rounded(a, b) == (2 * a + b) \div (2 * b)

Intervals(trs, from, to) ==
    LET before == SelectSeq(trs, LAMBDA x : x.at <= from)
        inside == SelectSeq(trs, LAMBDA x : x.at > from /\ x.at < to)
        first == [at |-> from, up |-> IF before = <<>> THEN "unknown" ELSE Last(before).up]
        cuts == <<first>> \o inside
        Piece(i) == [from |-> cuts[i].at, to |-> IF i = Len(cuts) THEN to ELSE cuts[i + 1].at, up |-> cuts[i].up]
    IN  IF to <= from THEN <<>>
        ELSE SelectSeq([i \in 1 .. Len(cuts) |-> Piece(i)], LAMBDA p : p.to > p.from)

DayKey(at) == (at + tz) \div DayLen
DayStart(at) == DayKey(at) * DayLen - tz
StartOf(day) == day * DayLen - tz

Clipped(p, from, to) == [p EXCEPT !.from = UpSide(@, from), !.to = DownSide(p.to, to)]
\* Seconds: Math.round(ms / 1000), piece by piece.
Seconds(ticks) == Rounded(UpSide(0, ticks), SecLen)
Length(p) == Seconds(p.to - p.from)
Clip(ivs, from, to) == SelectSeq([i \in 1 .. Len(ivs) |-> Clipped(ivs[i], from, to)], LAMBDA p : p.to > p.from)
Sum(ivs, state) == MapThenSumSet(LAMBDA i : Length(ivs[i]), {i \in 1 .. Len(ivs) : ivs[i].up = state})
Totals(ivs) == [up |-> Sum(ivs, "up"), down |-> Sum(ivs, "down"), unknown |-> Sum(ivs, "unknown")]

\* Mutant: an interval belongs to the day it begins in.
UncutChunks(ivs, day) == SelectSeq(ivs, LAMBDA p : DayKey(p.from) = day)

\* The pieces of one day: every interval is cut at the midnights it spans.
ChunksOf(ivs, day) == Clip(ivs, StartOf(day), StartOf(day) + DayLen)

DailyRollup(ivs, from, to) ==
    [day \in DayKey(from) .. DayKey(to - 1) |->
        LET chunks == ChunksOf(ivs, day)
            offs == SelectSeq(chunks, LAMBDA p : p.up = "down")
        IN  [sec |-> Totals(chunks),
             outages |-> [i \in 1 .. Len(offs) |-> [from |-> offs[i].from, to |-> offs[i].to, ongoing |-> offs[i].to = to]]]]

HourlyRollup(ivs, start) ==
    [h \in 0 .. HoursPerDay - 1 |-> Totals(Clip(ivs, start + h * HourLen, start + (h + 1) * HourLen))]

DaySegments(ivs, start) == Clip(ivs, start, start + DayLen)

\* Down pieces that touch are one outage.
Outages(ivs, end) ==
    LET Add(out, p) ==
            LET ongoing == p.to >= end
                touches == out # <<>> /\ ~Last(out).ongoing /\ Last(out).to = p.from
            IN  IF touches
                THEN [out EXCEPT ![Len(out)] = [from |-> @.from, to |-> p.to, seconds |-> @.seconds + Length(p), ongoing |-> ongoing]]
                ELSE Append(out, [from |-> p.from, to |-> p.to, seconds |-> Length(p), ongoing |-> ongoing])
    IN  FoldLeft(Add, <<>>, SelectSeq(ivs, LAMBDA p : p.up = "down"))

\* MIN_COVERAGE_PCT is 5; the percentages are the rounded ones the report shows.
Summarize(ivs, from, to) ==
    LET sec == Totals(ivs)
        observed == sec.up + sec.down
        window == Seconds(to - from)
        availability == IF observed > 0 THEN Rounded(10000 * sec.up, observed) ELSE Never
        coverage == IF window > 0 THEN Rounded(1000 * observed, window) ELSE 0
        rated == observed > 0 /\ coverage >= 50
        budget == Rounded(window * (10000 - Sla), 10000)
        outages == Outages(ivs, to)
    IN  [sec |-> sec, observed |-> observed, window |-> window, availability |-> availability,
         outages |-> Len(outages), rated |-> rated, slaMet |-> rated /\ availability >= Sla,
         longest |-> FoldLeft(LAMBDA m, o : UpSide(m, o.seconds), 0, outages),
         errorBudget |-> budget - sec.down]

\* transitionsFor(): of what precedes the window only the last is kept.
TransitionsFor(from) ==
    LET before == SelectSeq(events, LAMBDA x : x.at < from)
    IN  (IF before = <<>> THEN <<>> ELSE <<Last(before)>>) \o SelectSeq(events, LAMBDA x : x.at >= from)

Timeline(from, to) == Intervals(TransitionsFor(from), from, to)

(***************************************************************************)
(* State.                                                                  *)
(***************************************************************************)
\* No row is stored of a day nothing was seen of.
NoRow == [sec |-> [up |-> 0, down |-> 0, unknown |-> 0], outages |-> <<>>]
Verdicts == {"up", "down", "none"}  \* none: not tracked, or not probed yet
Resting == [pc |-> "idle", v |-> "none"]
NoRoll == [todo |-> {}, rows |-> <<>>, at |-> Never, clean |-> FALSE]
Offline == [up |-> FALSE, booted |-> FALSE, last |-> "none", rolled |-> FALSE, missed |-> FALSE]

UpInit ==
    /\ tz \in Offsets /\ now = 0 /\ verdict \in Verdicts
    /\ events = <<>> /\ days = [d \in 0 .. (LastTick + DayLen) \div DayLen |-> NoRow]
    /\ api = [Offline EXCEPT !.up = TRUE]
    /\ pass = [p \in Passes |-> Resting] /\ roll = NoRoll
    /\ told = "none" /\ muddled = FALSE /\ rolled = Never
    /\ spent = [runs |-> 0, faults |-> 0]

Takes(what, most) == spent[what] < most /\ spent' = [spent EXCEPT ![what] = @ + 1]
Collecting == \E p \in Passes : pass[p] # Resting

(***************************************************************************)
(* collect(): prime once, read the verdict, and store it if it is new.     *)
(***************************************************************************)
Newest == IF events = <<>> THEN "none" ELSE Last(events).up

\* Mutant: after a start nothing is known of the device.
Unprimed(reached) == [api EXCEPT !.booted = TRUE]

\* primeState(): what is not known since the start of the process is read, if the
\* newest row of this device is among the 5000 newest of all devices.
Primed(reached) ==
    [api EXCEPT !.booted = TRUE, !.missed = ~reached, !.last = IF @ = "none" /\ reached THEN Newest ELSE @]

\* primeState() once, then currentDevices(). A device it leaves out costs nothing.
Collect(p) ==
    /\ api.up /\ pass[p] = Resting
    /\ IF p = Timer THEN UNCHANGED spent ELSE Takes("runs", MaxRuns)
    /\ IF api.booted THEN UNCHANGED api
       ELSE \E reached \in {TRUE, events = <<>>} : api' = Primed(reached)
    /\ pass' = [pass EXCEPT ![p] = IF verdict = "none" THEN Resting ELSE [pc |-> "compare", v |-> verdict]]
    /\ UNCHANGED <<tz, now, verdict, events, days, roll, told, muddled, rolled>>

Compare(p) ==
    /\ pass[p].pc = "compare"
    /\ LET steady == api.last = pass[p].v IN
       /\ pass' = [pass EXCEPT ![p] = IF steady THEN Resting ELSE [@ EXCEPT !.pc = "create"]]
       /\ told' = IF steady THEN pass[p].v ELSE told
    /\ UNCHANGED <<tz, now, verdict, events, days, api, roll, muddled, rolled, spent>>

Against(p) == \E q \in Passes \ {p} : pass[q].pc \in {"create", "remember"} /\ pass[q].v # pass[p].v

\* The row is stamped by the database. A failed write is swallowed.
Create(p) ==
    /\ pass[p].pc = "create" /\ Len(events) < MaxEvents
    /\ pass' = [pass EXCEPT ![p].pc = "remember"]
    /\ \/ /\ events' = Append(events, [at |-> now, up |-> pass[p].v])
          /\ muddled' = (muddled \/ Against(p))
          /\ UNCHANGED spent
       \/ /\ Takes("faults", MaxLosses)
          /\ muddled' = TRUE
          /\ UNCHANGED events
    /\ UNCHANGED <<tz, now, verdict, days, api, roll, told, rolled>>

Remember(p) ==
    /\ pass[p].pc = "remember"
    /\ api' = [api EXCEPT !.last = pass[p].v]
    /\ told' = pass[p].v
    /\ pass' = [pass EXCEPT ![p] = Resting]
    /\ UNCHANGED <<tz, now, verdict, events, days, roll, muddled, rolled, spent>>

(***************************************************************************)
(* rollupDays(): the last days, through the end of today, whatever passes  *)
(* are under way. It reads the transitions in one query.                   *)
(***************************************************************************)
Today == DayKey(now)
Window(back) == [from |-> UpSide(StartOf(Today - back + 1), StartOf(0)), to |-> StartOf(Today + 1)]
RowsOf(w) == DailyRollup(Timeline(w.from, w.to), w.from, w.to)
Observed(row) == row.sec.up + row.sec.down > 0
\* The first one after the start covers everything, the others two days.
Rollup ==
    /\ api.up /\ roll = NoRoll
    /\ Takes("runs", MaxRuns)
    /\ api' = [api EXCEPT !.rolled = TRUE]
    /\ LET rows == RowsOf(Window(IF api.rolled THEN 2 ELSE LastTick)) IN
       roll' = [todo |-> DOMAIN rows, rows |-> rows, at |-> now, clean |-> TRUE]
    /\ UNCHANGED <<tz, now, verdict, events, days, pass, told, muddled, rolled>>

\* The rows go in one after the other; one that cannot be stored is skipped. The
\* last one ends it.
Upsert ==
    /\ roll # NoRoll
    /\ LET d == Min(roll.todo)
           row == roll.rows[d]
           After(clean) ==
               /\ roll' = IF roll.todo = {d} THEN NoRoll ELSE [roll EXCEPT !.todo = @ \ {d}, !.clean = clean]
               /\ rolled' = IF roll.todo = {d} /\ clean THEN roll.at ELSE rolled
       IN  \/ /\ days' = IF Observed(row) THEN [days EXCEPT ![d] = row] ELSE days
              /\ After(roll.clean)
              /\ UNCHANGED spent
           \/ /\ Observed(row) /\ Takes("faults", MaxLosses)
              /\ After(FALSE)
              /\ UNCHANGED days
    /\ UNCHANGED <<tz, now, verdict, events, api, pass, told, muddled>>

(***************************************************************************)
(* Time, the device, and the process.                                      *)
(***************************************************************************)
\* Once probed, a device has a verdict.
Tick ==
    /\ now < LastTick /\ now' = now + 1
    /\ verdict' \in Verdicts \ {"none"}
    /\ UNCHANGED <<tz, events, days, api, pass, roll, told, muddled, rolled, spent>>

Crash ==
    /\ api.up /\ Takes("faults", MaxLosses)
    /\ api' = Offline
    /\ pass' = [p \in Passes |-> Resting] /\ roll' = NoRoll
    /\ told' = "none" /\ muddled' = FALSE
    /\ UNCHANGED <<tz, now, verdict, events, days, rolled>>

Boot ==
    /\ ~api.up
    /\ api' = [api EXCEPT !.up = TRUE]
    /\ UNCHANGED <<tz, now, verdict, events, days, pass, roll, told, muddled, rolled, spent>>

UpNext ==
    \/ Tick \/ Crash \/ Boot
    \/ \E p \in Passes : Collect(p) \/ Compare(p) \/ Create(p) \/ Remember(p)
    \/ Rollup \/ Upsert

UpSpec == UpInit /\ [][UpNext]_upVars

(***************************************************************************)
(* Properties.                                                             *)
(***************************************************************************)
\* What the transitions say of an instant.
StateAt(at) ==
    LET before == {i \in DOMAIN events : events[i].at <= at}
    IN  IF before = {} THEN "unknown" ELSE events[Max(before)].up

\* Two accounts of the same time in seconds, of so many rounded pieces: each piece
\* is off by half a second at most.
Near(a, b, pieces) == 2 * UpSide(a - b, b - a) <= pieces

\* The figures of one report agree with the transitions, and with each other:
\* the intervals tile the window and each says what the transitions say; the
\* summary, the days and the hours account for the same time, to within half a
\* second for each piece they rounded, and a day for its strip exactly; the
\* outages are apart from each other and add up to the time off.
AddsUp(from, to) ==
    LET ivs == Timeline(from, to)
        sec == Totals(ivs)
        daily == DailyRollup(ivs, from, to)
        sum == Summarize(ivs, from, to)
        outs == Outages(ivs, to)
        Strip(d) == DaySegments(ivs, StartOf(d))
        DaySum(s) == MapThenSumSet(LAMBDA d : daily[d].sec[s], DOMAIN daily)
    IN  /\ ivs # <<>> /\ ivs[1].from = from /\ Last(ivs).to = to
        /\ \A i \in 1 .. Len(ivs) - 1 : ivs[i].to = ivs[i + 1].from
        /\ \A i \in 1 .. Len(ivs) : \A at \in ivs[i].from .. ivs[i].to - 1 : ivs[i].up = StateAt(at)
        /\ Near(sum.sec.up + sum.sec.down + sum.sec.unknown, sum.window, Len(ivs) + 1)
        /\ \A s \in DOMAIN sec :
              Near(DaySum(s), sec[s], MapThenSumSet(LAMBDA d : Len(Strip(d)), DOMAIN daily) + Len(ivs))
        /\ \A d \in DOMAIN daily :
              LET hourly == HourlyRollup(ivs, StartOf(d))
              IN  /\ daily[d].sec = Totals(Strip(d))
                  /\ \A s \in DOMAIN sec :
                        Near(daily[d].sec[s], MapThenSumSet(LAMBDA h : hourly[h][s], DOMAIN hourly),
                             2 * Len(Strip(d)) + HoursPerDay - 1)
        /\ \A i \in 1 .. Len(outs) - 1 : outs[i].to < outs[i + 1].from /\ ~outs[i].ongoing
        /\ FoldLeft(LAMBDA n, o : n + o.seconds, 0, outs) = sec.down
        /\ sum.longest <= sec.down /\ (sum.outages <= 1 => sum.longest = sec.down)

\* A finished day's row is what the transitions say of that day; of a day of which
\* nothing was seen there is none. (Of one that was seen for parts of less than
\* half a second only, an earlier row may stay.)
DaysTold ==
    rolled # Never =>
        \A d \in {DayKey(rolled) - 1} \cap DOMAIN days :
            roll = NoRoll =>
                LET to == StartOf(Today + 1)
                    row == RowsOf([from |-> StartOf(d), to |-> to])[d]
                    seen == SelectSeq(ChunksOf(Timeline(StartOf(d), to), d), LAMBDA p : p.up # "unknown")
                IN  /\ Observed(row) => days[d] = row
                    /\ seen = <<>> => days[d] = NoRow

\* A report reads the transitions only, and whatever they are, they are so with no
\* pass or rollup under way too: there the reports are checked.
Quiet == ~Collecting /\ roll = NoRoll /\ \A d \in DOMAIN days : days[d] = NoRow

\* UptimeTold: reports add up. Whatever passes overlapped, writes were lost and
\* restarts came to the transitions a report reads: over every window and time zone,
\* no instant is counted twice or dropped, and its figures differ by the rounding of
\* their pieces only (half a second each); a day or an hour may so be off from the
\* summary. The row of a day that is over is that day's account once a rollup has
\* been through, also one that passes overlapped (uptime.ts, uptime.service.ts).
UptimeTold ==
    /\ Quiet => \A from \in 0 .. now : \A to \in {now, StartOf(Today + 1)} : from < to => AddsUp(from, to)
    /\ DaysTold

\* What the process knows of the device: its newest row, or nothing yet, when other
\* devices had 5000 newer rows at the start.
Remembered == api.last = Newest \/ (api.missed /\ api.last = "none")

\* PassesTold: the newest transition is what the last pass found. Unless a write
\* was lost or two passes wrote against each other since the process started, what
\* it remembers of the device is the newest row, also after a restart, when the
\* memory is primed from the rows: of a device whose newest row is not among the
\* 5000 read then it remembers nothing, until its next pass writes it as changed,
\* which it may not be. And the state the reports show now is the verdict the last
\* pass ended with, however passes overlap (UptimeService.collect, primeState).
PassesTold ==
    (~muddled /\ \A p \in Passes : pass[p].pc # "remember") =>
        /\ api.booted => Remembered
        /\ told # "none" => StateAt(now) = told

=============================================================================
