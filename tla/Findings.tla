------------------------------ MODULE Findings ------------------------------
(***************************************************************************)
(* The anomaly feed (aiops.service.ts): a scan, alone at a time, stores    *)
(* what the detectors find and raises alerts inside the product; people    *)
(* confirm or dismiss what it found, and a confirmation is told outside.   *)
(* The alerts are alerts like any other: an operator may resolve one, and  *)
(* the engine escalates one left open, outside too. Windows of expected    *)
(* load are declared meanwhile, and the scan keeps a copy of them.         *)
(*                                                                         *)
(* What the detectors say is any set of keys (Detectors models them).      *)
(***************************************************************************)
EXTENDS Naturals, Sequences, FiniteSets

CONSTANTS
    Keys,         \* resource, detector and metric
    Statistical,  \* those of high severity and of a statistical detector
    Reviews,      \* reviews under way at once, the free one with the lowest number next
    MaxRows, MaxReviews,
    MaxFeedEvents     \* bounds; events are declarations, failures, restarts, and what
                      \* the engine or an operator does to an alert

ASSUME FindingsAssumption ==
    /\ Statistical \subseteq Keys /\ Reviews \subseteq Nat
    /\ MaxRows \in Nat /\ MaxReviews \in Nat /\ MaxFeedEvents \in Nat

VARIABLES
    rows,      \* AnomalyDetection: key, verdict, alert, detected in the last six hours
    raised,    \* the alerts raised for them: active, told by the gate, escalated
    scan,      \* the scan under way
    review,    \* [Reviews -> a confirm() or dismiss() under way]
    declared,  \* the keys the stored windows cover now
    cache,     \* suppressionCache
    clearing,  \* setSuppressions() has stored and not yet dropped the copy
    \* observation and bounds
    tangled,   \* rows whose handling was overtaken, cut off or failed in part
    unjust,    \* rows of a load that was declared before the scan began
    did

findVars == <<rows, raised, scan, review, declared, cache, clearing, tangled, unjust, did>>

Verdict == {"unreviewed", "confirmed", "dismissed"}
NoScan == [pc |-> "idle", found |-> {}, windows |-> {}, row |-> 0, alert |-> 0, just |-> FALSE]
NoReview == [pc |-> "idle", kind |-> "none", row |-> 0, alert |-> 0]
NoCopy == [fresh |-> FALSE, keys |-> {}, old |-> FALSE]

FindInit ==
    /\ rows = <<>> /\ raised = <<>>
    /\ scan = NoScan /\ review = [k \in Reviews |-> NoReview]
    /\ declared = {} /\ cache = NoCopy /\ clearing = FALSE
    /\ tangled = {} /\ unjust = {}
    /\ did = [reviews |-> 0, events |-> 0]

Does(what, most) == did[what] < most /\ did' = [did EXCEPT ![what] = @ + 1]
Event == Does("events", MaxFeedEvents)
NewAlert(told) == [active |-> TRUE, told |-> told, escalated |-> FALSE]

(***************************************************************************)
(* scan(): single flight.                                                  *)
(***************************************************************************)
\* The series are read and the detectors run; `just': all declarations so far
\* have returned.
Scan(found) ==
    /\ scan = NoScan /\ found # {} /\ Len(rows) + Cardinality(found) <= MaxRows
    /\ scan' = [NoScan EXCEPT !.pc = "windows", !.found = found, !.just = ~clearing]
    /\ UNCHANGED <<rows, raised, review, declared, cache, clearing, tangled, unjust, did>>

\* liveSuppressions(): the copy, or a query; a failed query suppresses nothing.
Look ==
    /\ scan.pc = "windows"
    /\ \/ /\ cache.fresh
          /\ scan' = [scan EXCEPT !.pc = "store row", !.windows = cache.keys, !.just = @ /\ ~cache.old]
          /\ UNCHANGED did
       \/ /\ ~cache.fresh
          /\ scan' = [scan EXCEPT !.pc = "keep copy", !.windows = declared]
          /\ UNCHANGED did
       \/ /\ ~cache.fresh /\ Event
          /\ scan' = [scan EXCEPT !.pc = "keep copy", !.just = FALSE]
    /\ UNCHANGED <<rows, raised, review, declared, cache, clearing, tangled, unjust>>

KeepCopy ==
    /\ scan.pc = "keep copy"
    /\ cache' = [fresh |-> TRUE, keys |-> scan.windows, old |-> ~scan.just]
    /\ scan' = [scan EXCEPT !.pc = "store row"]
    /\ UNCHANGED <<rows, raised, review, declared, clearing, tangled, unjust, did>>

Duplicate(k) == \E i \in 1 .. Len(rows) : rows[i].key = k /\ rows[i].verdict = "unreviewed" /\ rows[i].recent

\* Nobody else stores rows, so the look for a duplicate and the row are one.
StoreRow(k) ==
    /\ scan.pc = "store row" /\ k \in scan.found
    /\ IF k \in scan.windows \/ Duplicate(k)
       THEN /\ scan' = [scan EXCEPT !.found = @ \ {k}]
            /\ UNCHANGED <<rows, unjust>>
       ELSE /\ rows' = Append(rows, [key |-> k, verdict |-> "unreviewed", alert |-> 0, recent |-> TRUE])
            /\ scan' = [scan EXCEPT !.found = @ \ {k}, !.row = Len(rows) + 1,
                                    !.pc = IF k \in Statistical THEN "raise" ELSE @]
            /\ unjust' = IF scan.just /\ k \in declared THEN unjust \cup {Len(rows) + 1} ELSE unjust
    /\ UNCHANGED <<raised, review, declared, cache, clearing, tangled, did>>

\* An alert that cannot be stored is given up.
RaiseAlert ==
    /\ scan.pc = "raise"
    /\ \/ /\ raised' = Append(raised, NewAlert(FALSE))
          /\ scan' = [scan EXCEPT !.pc = "link", !.alert = Len(raised) + 1]
          /\ UNCHANGED did
       \/ /\ Event
          /\ scan' = [scan EXCEPT !.pc = "store row"]
          /\ UNCHANGED raised
    /\ UNCHANGED <<rows, review, declared, cache, clearing, tangled, unjust>>

LinkAlert ==
    /\ scan.pc = "link"
    /\ rows' = [rows EXCEPT ![scan.row].alert = scan.alert]
    /\ scan' = [scan EXCEPT !.pc = "store row"]
    /\ UNCHANGED <<raised, review, declared, cache, clearing, tangled, unjust, did>>

ScanEnds ==
    /\ scan.pc = "store row" /\ scan.found = {}
    /\ scan' = NoScan
    /\ UNCHANGED <<rows, raised, review, declared, cache, clearing, tangled, unjust, did>>

(***************************************************************************)
(* confirm() and dismiss(): the row as read, the verdict, then the alert.  *)
(***************************************************************************)
Handled(i) ==
    \/ \E k \in Reviews : review[k].row = i
    \/ scan.pc \in {"raise", "link"} /\ scan.row = i

Review(k, kind, i) ==
    /\ review[k] = NoReview /\ \A j \in Reviews : j < k => review[j] # NoReview
    /\ Does("reviews", MaxReviews)
    /\ review' = [review EXCEPT ![k] = [pc |-> "judge", kind |-> kind, row |-> i, alert |-> rows[i].alert]]
    /\ tangled' = IF Handled(i) THEN tangled \cup {i} ELSE tangled
    /\ UNCHANGED <<rows, raised, scan, declared, cache, clearing, unjust>>

Confirm(k, i) == Review(k, "confirmed", i)
Dismiss(k, i) == Review(k, "dismissed", i)

Judge(k) ==
    /\ review[k].pc = "judge"
    /\ LET r == review[k]
           next == IF r.kind = "confirmed" THEN (IF r.alert = 0 THEN "raise" ELSE "tell")
                   ELSE (IF r.alert = 0 THEN "idle" ELSE "resolve")
       IN  /\ rows' = [rows EXCEPT ![r.row].verdict = r.kind]
           /\ review' = [review EXCEPT ![k] = IF next = "idle" THEN NoReview ELSE [@ EXCEPT !.pc = next]]
    /\ UNCHANGED <<raised, scan, declared, cache, clearing, tangled, unjust, did>>

RaiseConfirmed(k) ==
    /\ review[k].pc = "raise"
    /\ raised' = Append(raised, NewAlert(FALSE))
    /\ review' = [review EXCEPT ![k].pc = "link", ![k].alert = Len(raised) + 1]
    /\ UNCHANGED <<rows, scan, declared, cache, clearing, tangled, unjust, did>>

LinkConfirmed(k) ==
    /\ review[k].pc = "link"
    /\ rows' = [rows EXCEPT ![review[k].row].alert = review[k].alert]
    /\ review' = [review EXCEPT ![k].pc = "tell"]
    /\ UNCHANGED <<raised, scan, declared, cache, clearing, tangled, unjust, did>>

\* notifyExternal(): the channels are Delivery's. A failure is logged, and the
\* confirmation stands.
Tell(k) ==
    /\ review[k].pc = "tell"
    /\ \/ /\ raised' = [raised EXCEPT ![review[k].alert].told = TRUE]
          /\ UNCHANGED <<tangled, did>>
       \/ /\ Event /\ tangled' = tangled \cup {review[k].row}
          /\ UNCHANGED raised
    /\ review' = [review EXCEPT ![k] = NoReview]
    /\ UNCHANGED <<rows, scan, declared, cache, clearing, unjust>>

\* A failure here is swallowed.
Resolve(k) ==
    /\ review[k].pc = "resolve"
    /\ \/ /\ raised' = [raised EXCEPT ![review[k].alert].active = FALSE]
          /\ UNCHANGED <<tangled, did>>
       \/ /\ Event /\ tangled' = tangled \cup {review[k].row}
          /\ UNCHANGED raised
    /\ review' = [review EXCEPT ![k] = NoReview]
    /\ UNCHANGED <<rows, scan, declared, cache, clearing, unjust>>

(***************************************************************************)
(* What the rest of the product does to these alerts.                      *)
(***************************************************************************)
\* checkWorkflowEscalations() and checkEscalations() of the alerting engine: any
\* open alert, confirmed or not (Alerting models their steps one by one).
Escalate(a) ==
    /\ raised[a].active /\ ~raised[a].escalated /\ Event
    /\ raised' = [raised EXCEPT ![a].escalated = TRUE]
    /\ UNCHANGED <<rows, scan, review, declared, cache, clearing, tangled, unjust>>

\* resolveAlert(): the finding and its verdict are left as they are.
OperatorResolves(a) ==
    /\ raised[a].active /\ Event
    /\ raised' = [raised EXCEPT ![a].active = FALSE]
    /\ UNCHANGED <<rows, scan, review, declared, cache, clearing, tangled, unjust>>

(***************************************************************************)
(* Windows, time, and the process.                                         *)
(***************************************************************************)
\* setSuppressions(): stored, then the copy dropped.
Declare(keys) ==
    /\ ~clearing /\ keys # declared /\ Event
    /\ declared' = keys /\ clearing' = TRUE
    /\ scan' = [scan EXCEPT !.just = FALSE]
    /\ UNCHANGED <<rows, raised, review, cache, tangled, unjust>>

\* Mutant: the copy the scan keeps is left to expire.
KeepsCopy ==
    /\ clearing /\ clearing' = FALSE
    /\ UNCHANGED <<rows, raised, scan, review, declared, cache, tangled, unjust, did>>

DropCopy ==
    /\ clearing /\ clearing' = FALSE
    /\ cache' = NoCopy
    /\ UNCHANGED <<rows, raised, scan, review, declared, tangled, unjust, did>>

CopyExpires ==
    /\ cache.fresh /\ cache' = NoCopy
    /\ UNCHANGED <<rows, raised, scan, review, declared, clearing, tangled, unjust, did>>

\* Of a finding that was judged nobody asks how old it is.
SixHoursPass(i) ==
    /\ rows[i].recent /\ rows[i].verdict = "unreviewed"
    /\ rows' = [rows EXCEPT ![i].recent = FALSE]
    /\ UNCHANGED <<raised, scan, review, declared, cache, clearing, tangled, unjust, did>>

Restarts ==
    /\ Event
    /\ tangled' = tangled \cup {i \in 1 .. Len(rows) : Handled(i)}
    /\ scan' = NoScan /\ review' = [k \in Reviews |-> NoReview]
    /\ cache' = NoCopy /\ clearing' = FALSE
    /\ UNCHANGED <<rows, raised, declared, unjust>>

FindNext ==
    \/ \E found \in SUBSET Keys : Scan(found)
    \/ Look \/ KeepCopy \/ RaiseAlert \/ LinkAlert \/ ScanEnds
    \/ \E k \in Keys : StoreRow(k)
    \/ \E k \in Reviews : Judge(k) \/ RaiseConfirmed(k) \/ LinkConfirmed(k) \/ Tell(k) \/ Resolve(k)
    \/ \E k \in Reviews, i \in 1 .. Len(rows) : Confirm(k, i) \/ Dismiss(k, i)
    \/ \E keys \in SUBSET Keys : Declare(keys)
    \/ DropCopy \/ CopyExpires \/ Restarts
    \/ \E i \in 1 .. Len(rows) : SixHoursPass(i)
    \/ \E a \in 1 .. Len(raised) : Escalate(a) \/ OperatorResolves(a)

FindSpec == FindInit /\ [][FindNext]_findVars

(***************************************************************************)
(* Properties.                                                             *)
(***************************************************************************)
\* A finding waits for one verdict at a time.
OneOpenFinding ==
    \A i, j \in 1 .. Len(rows) :
        rows[i].verdict = "unreviewed" /\ rows[i].recent /\ rows[j].verdict = "unreviewed" /\ rows[j].recent
        /\ rows[i].key = rows[j].key => i = j

\* The gate tells only what somebody confirmed; what was dismissed last leaves no
\* active alert, and what was confirmed last has been told.
VerdictsKept ==
    /\ \A i \in 1 .. Len(rows) : ~Handled(i) /\ i \notin tangled =>
          LET a == rows[i].alert
          IN  /\ rows[i].verdict = "dismissed" => a = 0 \/ ~raised[a].active
              /\ rows[i].verdict = "confirmed" => a # 0 /\ raised[a].told
              /\ rows[i].verdict = "unreviewed" /\ a # 0 => ~raised[a].told
    /\ \A i, j \in 1 .. Len(rows) : i # j /\ rows[i].alert # 0 => rows[i].alert # rows[j].alert
    /\ tangled = {} => \A a \in 1 .. Len(raised) :
          \/ \E i \in 1 .. Len(rows) : rows[i].alert = a
          \/ scan.alert = a \/ \E k \in Reviews : review[k].alert = a

\* FindingsHonest: the feed keeps its word, about what it does itself. No finding
\* waits twice for a verdict within six hours. Once nobody handles a finding, its
\* alert is closed if it was dismissed last, told by confirm() if it was confirmed
\* last, and not told by it before. Excused are the findings that two reviews or
\* a review and the scan had in hand at once, that a restart cut off, or whose
\* telling or resolving failed, which both calls swallow. It says nothing of the
\* engine, which escalates an open alert whether anybody confirmed it or not. A
\* load declared before a scan began is not reported by it, unless the copy of
\* the windows was filled by a query that the declaration overtook or that failed
\* (aiops.service.ts).
FindingsHonest == OneOpenFinding /\ VerdictsKept /\ unjust = {}

=============================================================================
