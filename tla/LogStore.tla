------------------------------ MODULE LogStore ------------------------------
(***************************************************************************)
(* The shipping of log rows from Postgres to the log store (syncLogs,      *)
(* database.service.ts), for one of the three tables.                      *)
(*                                                                         *)
(* A pass reads the newest stamp in the store, to the second, fetches at   *)
(* most Fetch rows from that second on, oldest first, and inserts them in  *)
(* chunks; rows that are there already collapse with their copies.  The    *)
(* store forgets rows that are older than its own limit, and Postgres, by  *)
(* another limit, forgets too.                                             *)
(***************************************************************************)
EXTENDS Naturals, FiniteSets

CONSTANTS
    LogRows,            \* ids of rows, in the order in which they are written
    LastSecond,         \* bound: seconds
    Fetch, Chunk,       \* rows per query, rows per insert
    StoreKeeps, PostgresKeeps,  \* seconds
    MaxLogEvents        \* bound: calls of the button, failures, expiries, late rows

ASSUME LogStoreAssumption ==
    /\ LogRows \subseteq Nat /\ LastSecond \in Nat \ {0} /\ Fetch \in Nat \ {0} /\ Chunk \in Nat \ {0}
    /\ StoreKeeps \in Nat /\ PostgresKeeps \in Nat /\ MaxLogEvents \in Nat

VARIABLES
    second,    \* the time
    stamp,     \* [LogRows -> the second of the row, 0 before it is written]
    kept,      \* rows in Postgres
    shipped,   \* rows in the store
    ship,      \* the syncLogs() under way: the watermark and the rows to insert
    late,      \* observation: rows written with a stamp older than another's
    logEvents

logVars == <<second, stamp, kept, shipped, ship, late, logEvents>>

NoPassage == [pc |-> "idle", from |-> 0, batch |-> {}]
LogEvent == logEvents < MaxLogEvents /\ logEvents' = logEvents + 1
Newest(rows) ==
    CHOOSE t \in 0 .. LastSecond : (\A r \in rows : stamp[r] <= t) /\ (t = 0 \/ \E q \in rows : stamp[q] = t)
Since(t) == {r \in kept : stamp[r] >= t}
Precedes(r, q) == stamp[r] < stamp[q] \/ (stamp[r] = stamp[q] /\ r < q)
\* Mutant: the last n rows.
Youngest(rows, n) == {r \in rows : Cardinality({q \in rows : Precedes(r, q)}) < n}

\* The first n rows by their stamps (which are finer than a second).
Oldest(rows, n) == {r \in rows : Cardinality({q \in rows : Precedes(q, r)}) < n}

LogInit ==
    /\ second = 1 /\ stamp = [r \in LogRows |-> 0] /\ kept = {} /\ shipped = {}
    /\ ship = NoPassage /\ late = {} /\ logEvents = 0

\* A row is written: stamped now, or with the time a machine gave its event.
Log(r) ==
    /\ stamp[r] = 0 /\ \A q \in LogRows : q < r => stamp[q] # 0
    /\ \E t \in 1 .. second :
         /\ IF t = second THEN UNCHANGED logEvents ELSE LogEvent
         /\ stamp' = [stamp EXCEPT ![r] = t]
         /\ late' = IF \E q \in LogRows : stamp[q] > t THEN late \cup {r} ELSE late
    /\ kept' = kept \cup {r}
    /\ UNCHANGED <<second, shipped, ship>>

LogTick ==
    /\ second < LastSecond /\ second' = second + 1
    /\ UNCHANGED <<stamp, kept, shipped, ship, late, logEvents>>

\* Mutant: a watermark that was shipped is not fetched again.
AfterWatermark(t) == IF t = 0 THEN 0 ELSE t + 1

Watermark(t) == t

\* The timer, or the button; a second one returns at once.
ReadWatermark ==
    /\ ship.pc = "idle"
    /\ \/ ship' = [ship EXCEPT !.pc = "fetch", !.from = Watermark(Newest(shipped))] /\ UNCHANGED logEvents
       \/ LogEvent /\ ship' = [ship EXCEPT !.pc = "fetch", !.from = 0]
    /\ UNCHANGED <<second, stamp, kept, shipped, late>>

FetchRows ==
    /\ ship.pc = "fetch"
    /\ LET batch == Oldest(Since(ship.from), Fetch) IN
       ship' = IF batch = {} THEN NoPassage ELSE [ship EXCEPT !.pc = "insert", !.batch = batch]
    /\ UNCHANGED <<second, stamp, kept, shipped, late, logEvents>>

\* One chunk, oldest first; a failure ends the pass and keeps the chunks before it.
InsertChunk ==
    LET chunk == Oldest(ship.batch, Chunk) IN
    /\ ship.pc = "insert"
    /\ \/ /\ shipped' = shipped \cup chunk
          /\ ship' = IF ship.batch = chunk THEN NoPassage ELSE [ship EXCEPT !.batch = @ \ chunk]
          /\ UNCHANGED logEvents
       \/ LogEvent /\ ship' = NoPassage /\ UNCHANGED shipped
    /\ UNCHANGED <<second, stamp, kept, late>>

Outlived(rows, limit) == {r \in rows : stamp[r] + limit < second}

\* A merge of the store drops what is too old; so does the retention of Postgres.
Expire ==
    /\ LogEvent /\ Outlived(shipped, StoreKeeps) # {}
    /\ shipped' = shipped \ Outlived(shipped, StoreKeeps)
    /\ UNCHANGED <<second, stamp, kept, ship, late>>

PurgeOld ==
    /\ Outlived(kept, PostgresKeeps) # {}
    /\ kept' = kept \ Outlived(kept, PostgresKeeps)
    /\ UNCHANGED <<second, stamp, shipped, ship, late, logEvents>>

LogNext ==
    \/ \E r \in LogRows : Log(r)
    \/ LogTick \/ ReadWatermark \/ FetchRows \/ InsertChunk \/ Expire \/ PurgeOld

LogDuty == ReadWatermark \/ FetchRows \/ InsertChunk
LogSpec == LogInit /\ [][LogNext]_logVars /\ WF_logVars(LogDuty)

(***************************************************************************)
(* Properties.                                                             *)
(***************************************************************************)
(* The variables keep their types. *)
LogTypes ==
    /\ second \in 1 .. LastSecond /\ stamp \in [LogRows -> 0 .. LastSecond]
    /\ kept \subseteq LogRows /\ shipped \subseteq LogRows /\ late \subseteq LogRows
    /\ ship \in [pc : {"idle", "fetch", "insert"}, from : 0 .. LastSecond, batch : SUBSET LogRows]
    /\ logEvents \in 0 .. MaxLogEvents

(* Between passes the store has no gap: what it holds of a table is every    *)
(* row up to some point, but for rows written late, which a pass may have    *)
(* left behind for good.                                                     *)
NoGap ==
    \A r \in kept \ late, q \in shipped :
        Precedes(r, q) => r \in shipped \/ r \in Outlived(LogRows, StoreKeeps)

(* Each row that Postgres keeps and the store would arrives in it, in the    *)
(* end, whatever failed or expired: unless it was written late, or a second  *)
(* holds as many rows as one query fetches, which stops the shipping there.  *)
Crowded == \E t \in 1 .. LastSecond : Cardinality({r \in LogRows : stamp[r] = t}) >= Fetch
LogsArrived == Crowded \/ kept \ (late \cup Outlived(kept, StoreKeeps)) \subseteq shipped
LogsArrive == []<>LogsArrived

=============================================================================
