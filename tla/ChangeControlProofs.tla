------------------------- MODULE ChangeControlProofs -------------------------
(***************************************************************************)
(* Theorems of ChangeControl, for any requests, jobs and users, and of     *)
(* Advice, for any resources, feeds and admins: what people approve, with  *)
(* any bound on calls, faults, evaluations and changes of the settings.    *)
(***************************************************************************)
EXTENDS ChangeControl, Advice, FiniteSetTheorems, WellFoundedInduction, TLAPS

(***************************************************************************)
(* The inductive invariant                                                 *)
(***************************************************************************)
Statuses(c) == IF c \in Jobs THEN JobStatus ELSE RequestStatus
OfRequests == {"approve", "retry", "reject"}
OfJobs == {"plan", "apply", "destroy"}
Row == [status : RequestStatus \cup JobStatus, by : Users \cup {None}, late : BOOLEAN]
Call == [kind : Kinds \cup {"none"}, of : Changes \cup {None}, by : Users \cup {None},
         pc : {"idle", "check", "mark", "run", "unheard", "save", "expire"},
         seen : RequestStatus \cup JobStatus, ok : BOOLEAN]

\* What a call may be: idle, of a request, or of a job, at a step it has.
CallFits(k) ==
    \/ call[k] = Idle
    \/ /\ call[k].of \in Requests /\ call[k].kind \in OfRequests /\ call[k].by \in Users
       /\ call[k].pc \in CASE call[k].kind = "approve" -> {"check", "run", "unheard", "save", "expire"}
                           [] call[k].kind = "retry" -> {"run", "unheard", "save"}
                           [] OTHER -> {"save"}
       /\ call[k].seen = IF call[k].kind = "retry" THEN "failed" ELSE "pending"
    \/ /\ call[k].of \in Jobs /\ call[k].kind \in OfJobs /\ call[k].by \in Users
       /\ call[k].pc \in IF call[k].kind = "apply" THEN {"check", "mark", "run", "unheard", "save"}
                         ELSE {"run", "unheard", "save"}
       /\ call[k].kind = "plan" => call[k].seen = "none"
       /\ call[k].kind = "apply" => call[k].seen = "pending_apply"
       /\ call[k].kind = "destroy" => call[k].seen # "none"
       /\ call[k].seen \in JobStatus

\* Types, and who is concerned with what.
WellFormed ==
    /\ change \in [Changes -> Row] /\ \A c \in Changes : change[c].status \in Statuses(c)
    /\ call \in [Open -> Call] /\ \A k \in Open : CallFits(k)
    /\ effect \in [Changes -> Nat] /\ halfway \subseteq Changes
    /\ starters \in [Changes -> SUBSET Users]
    /\ makerChecker \in BOOLEAN /\ everOff \in BOOLEAN /\ troubled \subseteq Changes

\* A change nobody asked for has no calls and nobody who started it.
NothingUnasked ==
    \A c \in Changes : change[c].status = "none" => starters[c] = {} /\ ~UnderWay(c)

\* What was executed, is being executed or may be retried, somebody started.
SomebodyStarted ==
    /\ \A c \in Changes : effect[c] > 0 \/ c \in halfway => starters[c] # {}
    /\ \A c \in Requests : change[c].status \in {"executed", "failed"} => starters[c] # {}
    /\ \A k \in Open : (call[k].kind \in {"approve", "retry", "apply"} /\ call[k].pc \in {"mark", "run", "unheard", "save"})
                          => starters[call[k].of] # {}

\* While the setting was never off, nobody started his own change, but where it
\* could not be read.
NobodyHisOwn ==
    ~everOff => makerChecker /\ \A c \in Changes \ unread : change[c].by \notin starters[c]

FourEyesInv == WellFormed /\ NothingUnasked /\ SomebodyStarted /\ NobodyHisOwn

\* What the row of an untroubled change says, with the given status.
Tells(c, status) ==
    /\ c \in Requests => effect[c] = IF status = "executed" THEN 1 ELSE 0
    /\ c \in Jobs /\ status = "applied" => effect[c] = 1
    /\ c \in Jobs /\ status \in {"none", "planned", "pending_apply", "plan_failed", "destroyed"} => effect[c] = 0
    /\ c \in Jobs => status # "applying"
    /\ c \in halfway => status \in {"failed", "executed", "apply_failed", "applied"}

\* The only call on its change: until it executes the row stays what the call
\* read, and what it will write will be true.
CallTells(k) ==
    /\ call[k].pc # "unheard"
    /\ call[k].pc \in {"check", "mark", "expire", "run"} => Tells(call[k].of, call[k].seen)
    /\ call[k].pc \in {"check", "mark", "expire"} => change[call[k].of].status = call[k].seen
    /\ call[k].pc = "save" => Tells(call[k].of, Status(k))

Untroubled(c) ==
    /\ ~UnderWay(c) => Tells(c, change[c].status)
    /\ \A k, l \in Open : call[k].of = c /\ call[l].of = c => k = l
    /\ \A k \in Open : call[k].of = c => CallTells(k)

OutcomeInv == \A c \in Changes \ troubled : Untroubled(c)

USE DEF happened

(***************************************************************************)
(* Types                                                                   *)
(***************************************************************************)
LEMMA CallIsNotNone ==
    ASSUME NEW k \in Open, CallFits(k)
    PROVE  call[k] = Idle \/ (call[k].of \in Changes /\ call[k].pc # "idle" /\ call[k].kind # "none")
  BY DEF CallFits, Changes, OfRequests, OfJobs

LEMMA StatusFits ==
    ASSUME NEW k \in Open, CallFits(k), call[k] # Idle, call[k].pc = "save"
    PROVE  Status(k) \in Statuses(call[k].of) /\ Status(k) # "none"
  BY ChangeAssumption DEF CallFits, Status, Statuses, JobStatus, RequestStatus, OfRequests, OfJobs, Changes

\* A call that opens puts one new call in a free place.
LEMMA OpensWhat ==
    ASSUME WellFormed, NEW k \in Open, NEW c \in Changes, NEW u \in Users, NEW what, NEW pc,
           Opens(k, what, c, u, pc)
    PROVE  /\ call[k] = Idle
           /\ call' = [call EXCEPT ![k] = [kind |-> what, of |-> c, by |-> u, pc |-> pc,
                                           seen |-> change[c].status, ok |-> FALSE]]
           /\ \A n \in Open : n # k => call'[n] = call[n]
           /\ call'[k] = [kind |-> what, of |-> c, by |-> u, pc |-> pc, seen |-> change[c].status, ok |-> FALSE]
           /\ troubled' = IF UnderWay(c) THEN troubled \cup {c} ELSE troubled
  <1>1. call \in [Open -> Call]
    BY DEF WellFormed
  <1> QED
    BY <1>1 DEF Opens

LEMMA CallsUnchanged ==
    ASSUME NEW k \in Open, call'[k] = call[k], CallFits(k)
    PROVE  CallFits(k)'
  BY DEF CallFits

(***************************************************************************)
(* Two people                                                              *)
(***************************************************************************)
LEMMA OpensKeeps ==
    ASSUME FourEyesInv, NEW k \in Open, NEW c \in Changes, NEW u \in Users,
           NEW what \in Kinds, NEW pc \in {"check", "run", "save", "expire"},
           Opens(k, what, c, u, pc), change[c].status # "none",
           UNCHANGED <<change, makerChecker, effect, halfway, starters, everOff, unread>>,
           CallFits(k)',
           pc \in {"run", "save"} /\ what \in {"approve", "retry", "apply"} => starters[c] # {}
    PROVE  FourEyesInv'
  <1>1. WellFormed /\ NothingUnasked /\ SomebodyStarted /\ NobodyHisOwn
    BY DEF FourEyesInv
  <1>2. /\ call' = [call EXCEPT ![k] = [kind |-> what, of |-> c, by |-> u, pc |-> pc,
                                        seen |-> change[c].status, ok |-> FALSE]]
        /\ \A n \in Open : n # k => call'[n] = call[n]
        /\ call'[k] = [kind |-> what, of |-> c, by |-> u, pc |-> pc, seen |-> change[c].status, ok |-> FALSE]
        /\ troubled' = IF UnderWay(c) THEN troubled \cup {c} ELSE troubled
    BY <1>1, OpensWhat
  <1>3. WellFormed'
    <2>1. change[c].status \in RequestStatus \cup JobStatus
      BY <1>1 DEF WellFormed, Row
    <2>2. call' \in [Open -> Call]
      BY <1>1, <1>2, <2>1 DEF WellFormed, Call
    <2>3. \A n \in Open : CallFits(n)'
      <3> SUFFICES ASSUME NEW n \in Open PROVE CallFits(n)'
        OBVIOUS
      <3>1. CASE n = k
        BY <3>1
      <3>2. CASE n # k
        BY <3>2, <1>1, <1>2, CallsUnchanged DEF WellFormed
      <3> QED
        BY <3>1, <3>2
    <2> QED
      BY <1>1, <1>2, <2>2, <2>3 DEF WellFormed, Statuses
  <1>4. NothingUnasked'
    BY <1>1, <1>2 DEF NothingUnasked, UnderWay
  <1>5. SomebodyStarted'
    <2>1. ASSUME NEW n \in Open, call[n]'.kind \in {"approve", "retry", "apply"},
                 call[n]'.pc \in {"mark", "run", "unheard", "save"}
          PROVE  starters[call[n]'.of] # {}
      <3>1. CASE n = k
        BY <2>1, <3>1, <1>2
      <3>2. CASE n # k
        BY <2>1, <3>2, <1>1, <1>2 DEF SomebodyStarted
      <3> QED
        BY <3>1, <3>2
    <2> QED
      BY <1>1, <2>1 DEF SomebodyStarted
  <1>6. NobodyHisOwn'
    BY <1>1 DEF NobodyHisOwn
  <1> QED
    BY <1>3, <1>4, <1>5, <1>6 DEF FourEyesInv

\* What a step of call k leaves of the others.
LEMMA OneCallMoves ==
    ASSUME WellFormed, NEW k \in Open, NEW new \in Call, call' = [call EXCEPT ![k] = new], CallFits(k)'
    PROVE  /\ call' \in [Open -> Call] /\ \A n \in Open : CallFits(n)'
           /\ call'[k] = new /\ \A n \in Open : n # k => call'[n] = call[n]
  <1>1. call \in [Open -> Call] /\ \A n \in Open : CallFits(n)
    BY DEF WellFormed
  <1>2. call' \in [Open -> Call] /\ call'[k] = new /\ \A n \in Open : n # k => call'[n] = call[n]
    BY <1>1
  <1>3. \A n \in Open : CallFits(n)'
    BY <1>1, <1>2, CallsUnchanged
  <1> QED
    BY <1>2, <1>3

LEMMA IdleIsCall == Idle \in Call
  BY DEF Idle, Call, RequestStatus

LEMMA FourEyesInit == Init => FourEyesInv
  <1> SUFFICES ASSUME Init PROVE FourEyesInv
    OBVIOUS
  <1>1. \A c \in Changes : change[c] = [status |-> "none", by |-> None, late |-> FALSE]
    BY DEF Init
  <1>2. \A k \in Open : call[k] = Idle
    BY DEF Init
  <1>3. WellFormed
    BY <1>1, <1>2, IdleIsCall DEF Init, WellFormed, Row, CallFits, Statuses, RequestStatus, JobStatus
  <1>4. NothingUnasked
    BY <1>1, <1>2, ChangeAssumption DEF Init, NothingUnasked, UnderWay, Idle
  <1>5. SomebodyStarted
    BY <1>1, <1>2 DEF Init, SomebodyStarted, Idle, Changes
  <1>6. NobodyHisOwn
    BY <1>1 DEF Init, NobodyHisOwn
  <1> QED
    BY <1>3, <1>4, <1>5, <1>6 DEF FourEyesInv

LEMMA FourEyesAsk ==
    ASSUME FourEyesInv, NEW c \in Changes, NEW u \in Users, Ask(c, u)
    PROVE  FourEyesInv'
  <1>1. WellFormed /\ NothingUnasked /\ SomebodyStarted /\ NobodyHisOwn
    BY DEF FourEyesInv
  <1>2. /\ change' = [change EXCEPT ![c].status = "pending", ![c].by = u]
        /\ change[c].status = "none" /\ c \in Requests
        /\ UNCHANGED <<call, makerChecker, effect, halfway, starters, everOff, unread, troubled>>
    BY DEF Ask, New, world
  <1>3. change[c] \in Row /\ u \in Users /\ c \notin Jobs
    BY <1>1, <1>2, ChangeAssumption DEF WellFormed
  <1>4. /\ \A d \in Changes : d # c => change'[d] = change[d]
        /\ change'[c].status = "pending" /\ change'[c].by = u /\ change'[c] \in Row
        /\ change' \in [Changes -> Row]
    BY <1>1, <1>2, <1>3 DEF WellFormed, Row, RequestStatus
  <1>5. WellFormed'
    <2>1. \A k \in Open : CallFits(k)'
      BY <1>1, <1>2, CallsUnchanged DEF WellFormed
    <2> QED
      BY <1>1, <1>2, <1>3, <1>4, <2>1 DEF WellFormed, Statuses, RequestStatus
  <1>6. NothingUnasked'
    BY <1>1, <1>2, <1>4 DEF NothingUnasked, UnderWay
  <1>7. SomebodyStarted'
    BY <1>1, <1>2, <1>4 DEF SomebodyStarted, Changes
  <1>8. NobodyHisOwn'
    BY <1>1, <1>2, <1>4 DEF NobodyHisOwn, NothingUnasked
  <1> QED
    BY <1>5, <1>6, <1>7, <1>8 DEF FourEyesInv

LEMMA FourEyesPlan ==
    ASSUME FourEyesInv, NEW k \in Open, NEW c \in Changes, NEW u \in Users, Plan(k, c, u)
    PROVE  FourEyesInv'
  <1>1. WellFormed /\ NothingUnasked /\ SomebodyStarted /\ NobodyHisOwn
    BY DEF FourEyesInv
  <1>2. /\ change' = [change EXCEPT ![c].status = "planned", ![c].by = u]
        /\ change[c].status = "none" /\ c \in Jobs /\ Opens(k, "plan", c, u, "run")
        /\ UNCHANGED <<makerChecker, effect, halfway, starters, everOff, unread>>
    BY DEF Plan, New
  <1>3. /\ call[k] = Idle
        /\ \A n \in Open : n # k => call'[n] = call[n]
        /\ call'[k] = [kind |-> "plan", of |-> c, by |-> u, pc |-> "run", seen |-> "none", ok |-> FALSE]
        /\ call' = [call EXCEPT ![k] = [kind |-> "plan", of |-> c, by |-> u, pc |-> "run", seen |-> "none", ok |-> FALSE]]
        /\ troubled' = IF UnderWay(c) THEN troubled \cup {c} ELSE troubled
    BY <1>1, <1>2, OpensWhat
  <1>4. change[c] \in Row /\ c \notin Requests
    BY <1>1, <1>2, ChangeAssumption DEF WellFormed
  <1>5. /\ \A d \in Changes : d # c => change'[d] = change[d]
        /\ change'[c].status = "planned" /\ change'[c].by = u /\ change'[c] \in Row
        /\ change' \in [Changes -> Row]
    BY <1>1, <1>2, <1>4 DEF WellFormed, Row, JobStatus
  <1>6. [kind |-> "plan", of |-> c, by |-> u, pc |-> "run", seen |-> "none", ok |-> FALSE] \in Call
    BY DEF Call, Kinds, RequestStatus
  <1>7. CallFits(k)'
    BY <1>2, <1>3 DEF CallFits, OfJobs, JobStatus
  <1>8. call' \in [Open -> Call] /\ \A n \in Open : CallFits(n)'
    BY <1>1, <1>3, <1>6, <1>7, OneCallMoves
  <1>9. WellFormed'
    BY <1>1, <1>2, <1>3, <1>4, <1>5, <1>8 DEF WellFormed, Statuses, JobStatus
  <1>10. NothingUnasked'
    <2> SUFFICES ASSUME NEW d \in Changes, change'[d].status = "none"
                 PROVE  starters'[d] = {} /\ \A n \in Open : call'[n].of # d
      BY DEF NothingUnasked, UnderWay
    <2>1. d # c /\ change[d].status = "none"
      BY <1>5
    <2>2. starters[d] = {} /\ \A n \in Open : call[n].of # d
      BY <1>1, <2>1 DEF NothingUnasked, UnderWay
    <2>3. \A n \in Open : call'[n].of # d
      BY <1>3, <2>1, <2>2
    <2> QED
      BY <1>2, <2>2, <2>3
  <1>11. SomebodyStarted'
    <2>1. /\ \A d \in Changes : effect'[d] > 0 \/ d \in halfway' => starters'[d] # {}
          /\ \A d \in Requests : change'[d].status \in {"executed", "failed"} => starters'[d] # {}
      BY <1>1, <1>2, <1>4, <1>5 DEF SomebodyStarted, Changes
    <2>2. ASSUME NEW n \in Open, call'[n].kind \in {"approve", "retry", "apply"},
                 call'[n].pc \in {"mark", "run", "unheard", "save"}
          PROVE  starters'[call'[n].of] # {}
      <3>1. n # k
        BY <1>3, <2>2
      <3>2. call'[n] = call[n] /\ starters[call[n].of] # {}
        BY <1>1, <1>3, <2>2, <3>1 DEF SomebodyStarted
      <3> QED
        BY <1>2, <3>2
    <2> QED
      BY <2>1, <2>2 DEF SomebodyStarted
  <1>12. NobodyHisOwn'
    BY <1>1, <1>2, <1>5 DEF NobodyHisOwn, NothingUnasked
  <1> QED
    BY <1>9, <1>10, <1>11, <1>12 DEF FourEyesInv

LEMMA FourEyesOpens ==
    ASSUME FourEyesInv, NEW k \in Open, NEW c \in Changes, NEW u \in Users,
           Approve(k, c, u) \/ Reject(k, c, u) \/ Retry(k, c, u) \/ Apply(k, c, u) \/ Destroy(k, c, u)
    PROVE  FourEyesInv'
  <1>1. WellFormed /\ NothingUnasked /\ SomebodyStarted /\ NobodyHisOwn
    BY DEF FourEyesInv
  <1>2. change[c].status \in Statuses(c) /\ (c \in Requests \/ c \in Jobs) /\ Requests \cap Jobs = {}
    BY <1>1, ChangeAssumption DEF WellFormed, Changes
  <1>3. CASE Approve(k, c, u)
    <2>1. PICK pc \in {"expire", "check"} : Opens(k, "approve", c, u, pc)
      BY <1>3 DEF Approve
    <2>2. change[c].status = "pending" /\ UNCHANGED <<change, makerChecker, effect, halfway, starters, everOff, unread>>
      BY <1>3 DEF Approve
    <2>3. c \in Requests
      BY <1>2, <2>2 DEF Statuses, JobStatus
    <2>4. call'[k] = [kind |-> "approve", of |-> c, by |-> u, pc |-> pc, seen |-> "pending", ok |-> FALSE]
      BY <1>1, <2>1, <2>2, OpensWhat
    <2>5. CallFits(k)'
      BY <2>3, <2>4 DEF CallFits, OfRequests
    <2> QED
      BY <2>1, <2>2, <2>5, OpensKeeps DEF Kinds
  <1>4. CASE Reject(k, c, u)
    <2>1. /\ Opens(k, "reject", c, u, "save")
          /\ change[c].status = "pending" /\ UNCHANGED <<change, makerChecker, effect, halfway, starters, everOff, unread>>
      BY <1>4 DEF Reject
    <2>2. c \in Requests
      BY <1>2, <2>1 DEF Statuses, JobStatus
    <2>3. call'[k] = [kind |-> "reject", of |-> c, by |-> u, pc |-> "save", seen |-> "pending", ok |-> FALSE]
      BY <1>1, <2>1, OpensWhat
    <2>4. CallFits(k)'
      BY <2>2, <2>3 DEF CallFits, OfRequests
    <2> QED
      BY <2>1, <2>4, OpensKeeps DEF Kinds
  <1>5. CASE Retry(k, c, u)
    <2>1. /\ Opens(k, "retry", c, u, "run") /\ c \in Requests
          /\ change[c].status = "failed" /\ UNCHANGED <<change, makerChecker, effect, halfway, starters, everOff, unread>>
      BY <1>5 DEF Retry, Retryable
    <2>2. call'[k] = [kind |-> "retry", of |-> c, by |-> u, pc |-> "run", seen |-> "failed", ok |-> FALSE]
      BY <1>1, <2>1, OpensWhat
    <2>3. CallFits(k)'
      BY <2>1, <2>2 DEF CallFits, OfRequests
    <2>4. starters[c] # {}
      BY <1>1, <2>1 DEF SomebodyStarted
    <2> QED
      BY <2>1, <2>3, <2>4, OpensKeeps DEF Kinds
  <1>6. CASE Apply(k, c, u)
    <2>1. /\ Opens(k, "apply", c, u, "check")
          /\ change[c].status = "pending_apply" /\ UNCHANGED <<change, makerChecker, effect, halfway, starters, everOff, unread>>
      BY <1>6 DEF Apply
    <2>2. c \in Jobs
      BY <1>2, <2>1 DEF Statuses, RequestStatus
    <2>3. call'[k] = [kind |-> "apply", of |-> c, by |-> u, pc |-> "check", seen |-> "pending_apply", ok |-> FALSE]
      BY <1>1, <2>1, OpensWhat
    <2>4. CallFits(k)'
      BY <2>2, <2>3 DEF CallFits, OfJobs, JobStatus
    <2> QED
      BY <2>1, <2>4, OpensKeeps DEF Kinds
  <1>7. CASE Destroy(k, c, u)
    <2>1. /\ Opens(k, "destroy", c, u, "run") /\ c \in Jobs
          /\ change[c].status # "none" /\ UNCHANGED <<change, makerChecker, effect, halfway, starters, everOff, unread>>
      BY <1>7 DEF Destroy
    <2>2. call'[k] = [kind |-> "destroy", of |-> c, by |-> u, pc |-> "run", seen |-> change[c].status, ok |-> FALSE]
      BY <1>1, <2>1, OpensWhat
    <2>3. CallFits(k)'
      BY <1>2, <2>1, <2>2 DEF CallFits, OfJobs, Statuses
    <2> QED
      BY <2>1, <2>3, OpensKeeps DEF Kinds
  <1> QED
    BY <1>3, <1>4, <1>5, <1>6, <1>7

LEMMA FourEyesExpire ==
    ASSUME FourEyesInv, NEW c \in Changes, Expire(c)
    PROVE  FourEyesInv'
  <1>1. WellFormed /\ NothingUnasked /\ SomebodyStarted /\ NobodyHisOwn
    BY DEF FourEyesInv
  <1>2. /\ change' = [change EXCEPT ![c].late = TRUE]
        /\ UNCHANGED <<call, makerChecker, effect, halfway, starters, everOff, unread, troubled>>
    BY DEF Expire, world
  <1>3. /\ change' \in [Changes -> Row]
        /\ \A d \in Changes : change'[d].status = change[d].status /\ change'[d].by = change[d].by
    BY <1>1, <1>2 DEF WellFormed, Row
  <1>4. \A k \in Open : CallFits(k)'
    BY <1>1, <1>2, CallsUnchanged DEF WellFormed
  <1>5. WellFormed'
    BY <1>1, <1>2, <1>3, <1>4 DEF WellFormed, Statuses
  <1>6. NothingUnasked'
    BY <1>1, <1>2, <1>3 DEF NothingUnasked, UnderWay
  <1>7. SomebodyStarted'
    BY <1>1, <1>2, <1>3 DEF SomebodyStarted, Changes
  <1>8. NobodyHisOwn'
    BY <1>1, <1>2, <1>3 DEF NobodyHisOwn
  <1> QED
    BY <1>5, <1>6, <1>7, <1>8 DEF FourEyesInv

\* A call at a step is no idle one: it is one of a change, which somebody asked for.
LEMMA AtWork ==
    ASSUME FourEyesInv, NEW k \in Open, call[k].pc # "idle"
    PROVE  /\ call[k] \in Call /\ call[k] # Idle /\ CallFits(k)
           /\ call[k].of \in Changes /\ call[k].by \in Users
           /\ change[call[k].of].status # "none"
  <1>1. call[k] \in Call /\ CallFits(k) /\ call[k] # Idle
    BY DEF FourEyesInv, WellFormed, Idle
  <1>2. call[k].of \in Changes /\ call[k].by \in Users
    BY <1>1 DEF CallFits, Changes
  <1>3. change[call[k].of].status # "none"
    BY <1>2 DEF FourEyesInv, NothingUnasked, UnderWay
  <1> QED
    BY <1>1, <1>2, <1>3

\* A step that ends a call, or moves it on, brings no call to a change without one.
LEMMA NothingNewUnderWay ==
    ASSUME NEW k \in Open, NEW new, call'[k] = new, new.of \in {None, call[k].of},
           \A n \in Open : n # k => call'[n] = call[n], NEW c \in Changes, UnderWay(c)'
    PROVE  UnderWay(c)
  BY ChangeAssumption DEF UnderWay

LEMMA FourEyesCheck ==
    ASSUME FourEyesInv, NEW k \in Open, Check(k)
    PROVE  FourEyesInv'
  <1> DEFINE c == call[k].of
  <1>1. WellFormed /\ NothingUnasked /\ SomebodyStarted /\ NobodyHisOwn
    BY DEF FourEyesInv
  <1>2. /\ call[k].pc = "check"
        /\ UNCHANGED <<change, makerChecker, effect, halfway, everOff, troubled>>
    BY DEF Check
  <1> PICK read \in {makerChecker, FALSE} :
          /\ unread' = IF read = makerChecker THEN unread ELSE unread \cup {c}
          /\ IF read /\ Own(k)
             THEN call' = [call EXCEPT ![k] = Idle] /\ UNCHANGED starters
             ELSE /\ call' = [call EXCEPT ![k].pc = IF call[k].kind = "apply" THEN "mark" ELSE "run"]
                  /\ starters' = [starters EXCEPT ![c] = @ \cup {call[k].by}]
    BY DEF Check
  <1>3. /\ call[k] \in Call /\ call[k] # Idle /\ CallFits(k) /\ c \in Changes /\ call[k].by \in Users
        /\ change[c].status # "none"
    BY <1>2, AtWork
  <1>4. call[k].kind \in {"approve", "apply"}
    BY <1>2, <1>3 DEF CallFits, OfRequests, OfJobs
  <1>5. CASE read /\ Own(k)
    <2>1. call' = [call EXCEPT ![k] = Idle] /\ starters' = starters
      BY <1>5
    <2>2. CallFits(k)'
      BY <1>1, <2>1 DEF WellFormed, CallFits
    <2>3. /\ call' \in [Open -> Call] /\ \A n \in Open : CallFits(n)'
          /\ call'[k] = Idle /\ \A n \in Open : n # k => call'[n] = call[n]
      BY <1>1, <2>1, <2>2, IdleIsCall, OneCallMoves
    <2>4. WellFormed'
      BY <1>1, <1>2, <2>1, <2>3 DEF WellFormed, Statuses
    <2>5. \A d \in Changes : UnderWay(d)' => UnderWay(d)
      BY <2>3, NothingNewUnderWay DEF Idle
    <2>6. NothingUnasked'
      BY <1>1, <1>2, <2>1, <2>5 DEF NothingUnasked
    <2>7. SomebodyStarted'
      BY <1>1, <1>2, <2>1, <2>3 DEF SomebodyStarted, Idle
    <2>8. NobodyHisOwn'
      BY <1>1, <1>2, <2>1 DEF NobodyHisOwn
    <2> QED
      BY <2>4, <2>6, <2>7, <2>8 DEF FourEyesInv
  <1>6. CASE ~(read /\ Own(k))
    <2> DEFINE new == [call[k] EXCEPT !.pc = IF call[k].kind = "apply" THEN "mark" ELSE "run"]
    <2>1. call' = [call EXCEPT ![k] = new] /\ starters' = [starters EXCEPT ![c] = @ \cup {call[k].by}]
      BY <1>1, <1>6 DEF WellFormed
    <2>2. /\ new \in Call /\ new.of = c /\ new.kind = call[k].kind /\ new.by = call[k].by /\ new.seen = call[k].seen
          /\ new.pc = IF call[k].kind = "apply" THEN "mark" ELSE "run"
      BY <1>3 DEF Call
    <2> HIDE DEF new
    <2>3. call'[k] = new
      BY <1>1, <2>1 DEF WellFormed
    <2>4. CallFits(k)'
      BY <1>2, <1>3, <2>2, <2>3 DEF CallFits, OfRequests, OfJobs
    <2>5. /\ call' \in [Open -> Call] /\ \A n \in Open : CallFits(n)'
          /\ call'[k] = new /\ \A n \in Open : n # k => call'[n] = call[n]
      BY <1>1, <2>1, <2>2, <2>4, OneCallMoves
    <2>6. /\ starters' \in [Changes -> SUBSET Users] /\ starters'[c] = starters[c] \cup {call[k].by}
          /\ \A d \in Changes : d # c => starters'[d] = starters[d]
      BY <1>1, <1>3, <2>1 DEF WellFormed
    <2>7. WellFormed'
      BY <1>1, <1>2, <2>5, <2>6 DEF WellFormed, Statuses
    <2>8. \A d \in Changes : UnderWay(d)' => UnderWay(d)
      BY <2>2, <2>5, NothingNewUnderWay
    <2>9. NothingUnasked'
      BY <1>1, <1>2, <1>3, <2>6, <2>8 DEF NothingUnasked
    <2>10. \A d \in Changes : starters[d] # {} => starters'[d] # {}
      BY <2>6
    <2>11. SomebodyStarted'
      <3>1. \A n \in Open : n # k /\ call[n].kind \in {"approve", "retry", "apply"} => call[n].of \in Changes
        BY <1>1, CallIsNotNone DEF WellFormed, Idle
      <3>2. starters'[new.of] # {}
        BY <2>2, <2>6
      <3> QED
        BY <1>1, <1>2, <2>5, <2>10, <3>1, <3>2 DEF SomebodyStarted, Changes
    <2>12. NobodyHisOwn'
      BY <1>1, <1>2, <1>6, <2>6 DEF NobodyHisOwn, Own
    <2> QED
      BY <2>7, <2>9, <2>11, <2>12 DEF FourEyesInv
  <1> QED
    BY <1>5, <1>6

LEMMA FourEyesMark ==
    ASSUME FourEyesInv, NEW k \in Open, Mark(k)
    PROVE  FourEyesInv'
  <1> DEFINE c == call[k].of
             new == [call[k] EXCEPT !.pc = "run"]
  <1>1. WellFormed /\ NothingUnasked /\ SomebodyStarted /\ NobodyHisOwn
    BY DEF FourEyesInv
  <1>2. /\ call[k].pc = "mark" /\ UNCHANGED <<makerChecker, effect, halfway, starters, everOff, unread, troubled>>
        /\ change' = [change EXCEPT ![c].status = "applying"] /\ call' = [call EXCEPT ![k] = new]
    BY <1>1 DEF Mark, world, WellFormed
  <1>3. call[k] \in Call /\ call[k] # Idle /\ CallFits(k) /\ c \in Changes
    BY <1>2, AtWork
  <1>4. call[k].kind = "apply" /\ c \in Jobs /\ c \notin Requests
    BY <1>2, <1>3, ChangeAssumption DEF CallFits, OfRequests, OfJobs
  <1>5. /\ new \in Call /\ new.of = c /\ new.kind = "apply" /\ new.by = call[k].by
        /\ new.pc = "run" /\ new.seen = call[k].seen
    BY <1>3, <1>4 DEF Call
  <1> HIDE DEF new
  <1>6. call'[k] = new
    BY <1>1, <1>2 DEF WellFormed
  <1>7. CallFits(k)'
    BY <1>2, <1>3, <1>4, <1>5, <1>6 DEF CallFits, OfRequests, OfJobs
  <1>8. /\ call' \in [Open -> Call] /\ \A n \in Open : CallFits(n)'
        /\ \A n \in Open : n # k => call'[n] = call[n]
    BY <1>1, <1>2, <1>5, <1>7, OneCallMoves
  <1>9. /\ change' \in [Changes -> Row] /\ change'[c].status = "applying" /\ change'[c].by = change[c].by
        /\ \A d \in Changes : d # c => change'[d] = change[d]
    BY <1>1, <1>2, <1>3 DEF WellFormed, Row, JobStatus
  <1>10. WellFormed'
    BY <1>1, <1>2, <1>4, <1>8, <1>9 DEF WellFormed, Statuses, JobStatus
  <1>11. \A d \in Changes : UnderWay(d)' => UnderWay(d)
    BY <1>5, <1>6, <1>8, NothingNewUnderWay
  <1>12. NothingUnasked'
    BY <1>1, <1>2, <1>9, <1>11 DEF NothingUnasked
  <1>13. SomebodyStarted'
    BY <1>1, <1>2, <1>4, <1>5, <1>6, <1>8, <1>9 DEF SomebodyStarted, Changes
  <1>14. NobodyHisOwn'
    BY <1>1, <1>2, <1>9 DEF NobodyHisOwn
  <1> QED
    BY <1>10, <1>12, <1>13, <1>14 DEF FourEyesInv

\* What an execution leaves stood before, or the call was approved or may be retried.
LEMMA AfterWhat ==
    ASSUME effect \in [Changes -> Nat], halfway \subseteq Changes,
           NEW c \in Changes, NEW what, NEW ok \in BOOLEAN,
           NEW half \in HalfwayAfter(what, c, ok)
    PROVE  /\ After(what, c, ok) \in Nat
           /\ After(what, c, ok) > 0 => effect[c] > 0 \/ what \in {"approve", "retry", "apply"}
           /\ half \subseteq Changes /\ \A d \in Changes : d # c => (d \in half <=> d \in halfway)
           /\ c \in half => \/ c \in halfway \/ effect[c] > 0
                            \/ what \in {"approve", "retry", "apply"}
  <1>1. effect[c] \in Nat
    OBVIOUS
  <1>2. CASE what \in {"approve", "retry"}
    BY <1>1, <1>2 DEF After, HalfwayAfter
  <1>3. CASE what = "apply"
    BY <1>1, <1>3 DEF After, HalfwayAfter
  <1>4. CASE what = "destroy"
    BY <1>1, <1>4 DEF After, HalfwayAfter
  <1>5. CASE what \notin {"approve", "retry", "apply", "destroy"}
    BY <1>1, <1>5 DEF After, HalfwayAfter
  <1> QED
    BY <1>2, <1>3, <1>4, <1>5

LEMMA FourEyesExecuted ==
    ASSUME FourEyesInv, NEW k \in Open, Executed(k)
    PROVE  FourEyesInv'
  <1> DEFINE c == call[k].of
  <1>1. WellFormed /\ NothingUnasked /\ SomebodyStarted /\ NobodyHisOwn
    BY DEF FourEyesInv
  <1>2. PICK ok \in BOOLEAN :
            /\ call' = [call EXCEPT ![k] = IF @.pc = "run" THEN [@ EXCEPT !.pc = "save", !.ok = ok] ELSE Idle]
            /\ effect' = [effect EXCEPT ![c] = After(call[k].kind, c, ok)]
            /\ halfway' \in HalfwayAfter(call[k].kind, c, ok)
    BY DEF Executed
  <1>3. call[k].pc \in {"run", "unheard"} /\ UNCHANGED <<change, makerChecker, starters, everOff, unread, troubled>>
    BY DEF Executed
  <1>4. call[k] \in Call /\ call[k] # Idle /\ CallFits(k) /\ c \in Changes
    BY <1>3, AtWork
  <1>5. /\ effect' \in [Changes -> Nat] /\ \A d \in Changes : d # c => effect'[d] = effect[d]
        /\ halfway' \subseteq Changes /\ \A d \in Changes : d # c => (d \in halfway' <=> d \in halfway)
        /\ effect'[c] > 0 \/ c \in halfway'
             => effect[c] > 0 \/ c \in halfway \/ call[k].kind \in {"approve", "retry", "apply"}
    <2> DEFINE e == After(call[k].kind, c, ok)
    <2>1. effect \in [Changes -> Nat] /\ halfway \subseteq Changes
      BY <1>1 DEF WellFormed
    <2>2. /\ e \in Nat /\ (e > 0 => effect[c] > 0 \/ call[k].kind \in {"approve", "retry", "apply"})
          /\ halfway' \subseteq Changes /\ \A d \in Changes : d # c => (d \in halfway' <=> d \in halfway)
          /\ c \in halfway' => c \in halfway \/ effect[c] > 0 \/ call[k].kind \in {"approve", "retry", "apply"}
      BY <1>2, <1>4, <2>1, AfterWhat
    <2>3. effect' = [effect EXCEPT ![c] = e]
      BY <1>2
    <2> HIDE DEF e
    <2> QED
      BY <1>4, <2>1, <2>2, <2>3
  <1>6. \A d \in Changes : effect'[d] > 0 \/ d \in halfway' => starters'[d] # {}
    BY <1>1, <1>3, <1>4, <1>5 DEF SomebodyStarted
  <1>7. /\ WellFormed' /\ \A n \in Open : n # k => call'[n] = call[n]
        /\ call'[k].of \in {None, c} /\ (call'[k] = Idle \/ (call'[k].kind = call[k].kind /\ call'[k].of = c))
    <2>1. CASE call[k].pc = "run"
      <3> DEFINE mid == [call[k] EXCEPT !.pc = "save"]
                 new == [mid EXCEPT !.ok = ok]
      <3>1. call' = [call EXCEPT ![k] = new]
        BY <1>1, <1>2, <2>1 DEF WellFormed
      <3>2. /\ mid \in Call /\ mid.of = c /\ mid.kind = call[k].kind /\ mid.by = call[k].by
            /\ mid.pc = "save" /\ mid.seen = call[k].seen
        BY <1>4 DEF Call
      <3> HIDE DEF mid
      <3>3. /\ new \in Call /\ new.of = c /\ new.kind = call[k].kind /\ new.by = call[k].by
            /\ new.pc = "save" /\ new.seen = call[k].seen
        BY <3>2 DEF Call
      <3> HIDE DEF new
      <3>4. call'[k] = new
        BY <1>1, <3>1 DEF WellFormed
      <3>5. CallFits(k)'
        BY <1>4, <2>1, <3>3, <3>4 DEF CallFits, OfRequests, OfJobs
      <3>6. call' \in [Open -> Call] /\ (\A n \in Open : CallFits(n)') /\ \A n \in Open : n # k => call'[n] = call[n]
        BY <1>1, <3>1, <3>3, <3>5, OneCallMoves
      <3>7. WellFormed'
        BY <1>1, <1>3, <1>5, <3>6 DEF WellFormed, Statuses
      <3> QED
        BY <3>3, <3>4, <3>6, <3>7
    <2>2. CASE call[k].pc # "run"
      <3>1. call' = [call EXCEPT ![k] = Idle]
        BY <1>1, <1>2, <2>2 DEF WellFormed
      <3>2. CallFits(k)' /\ call'[k] = Idle
        BY <1>1, <3>1 DEF WellFormed, CallFits
      <3>3. call' \in [Open -> Call] /\ (\A n \in Open : CallFits(n)') /\ \A n \in Open : n # k => call'[n] = call[n]
        BY <1>1, <3>1, <3>2, IdleIsCall, OneCallMoves
      <3>4. WellFormed'
        BY <1>1, <1>3, <1>5, <3>3 DEF WellFormed, Statuses
      <3>5. call'[k].of \in {None, c}
        BY <3>2 DEF Idle
      <3> QED
        BY <3>2, <3>3, <3>4, <3>5
    <2> QED
      BY <2>1, <2>2
  <1>8. \A d \in Changes : UnderWay(d)' => UnderWay(d)
    BY <1>7, NothingNewUnderWay
  <1>9. NothingUnasked'
    BY <1>1, <1>3, <1>8 DEF NothingUnasked
  <1>10. SomebodyStarted'
    <2>1. \A n \in Open : call'[n].kind \in {"approve", "retry", "apply"} /\ call'[n].pc \in {"mark", "run", "unheard", "save"}
                            => starters[call'[n].of] # {}
      BY <1>1, <1>3, <1>7 DEF SomebodyStarted, Idle
    <2> QED
      BY <1>1, <1>3, <1>6, <2>1 DEF SomebodyStarted
  <1>11. NobodyHisOwn'
    BY <1>1, <1>3 DEF NobodyHisOwn
  <1> QED
    BY <1>7, <1>9, <1>10, <1>11 DEF FourEyesInv

LEMMA FourEyesSave ==
    ASSUME FourEyesInv, NEW k \in Open, Save(k)
    PROVE  FourEyesInv'
  <1> DEFINE c == call[k].of
             status == IF call[k].pc = "expire" THEN "expired" ELSE Status(k)
  <1>1. WellFormed /\ NothingUnasked /\ SomebodyStarted /\ NobodyHisOwn
    BY DEF FourEyesInv
  <1>2. /\ call[k].pc \in {"save", "expire"} /\ UNCHANGED <<makerChecker, effect, halfway, starters, everOff, unread, troubled>>
        /\ change' = [change EXCEPT ![c].status = status] /\ call' = [call EXCEPT ![k] = Idle]
    BY DEF Save, world
  <1>3. call[k] \in Call /\ call[k] # Idle /\ CallFits(k) /\ c \in Changes
    BY <1>2, AtWork
  <1>4. status \in Statuses(c) /\ status # "none"
    <2>1. CASE call[k].pc = "expire"
      BY <1>3, <2>1, ChangeAssumption DEF CallFits, Statuses, RequestStatus
    <2>2. CASE call[k].pc # "expire"
      BY <1>2, <1>3, <2>2, StatusFits
    <2> QED
      BY <2>1, <2>2
  <1>5. c \in Requests /\ status \in {"executed", "failed"} => starters[c] # {}
    <2>1. SUFFICES ASSUME c \in Requests, status \in {"executed", "failed"} PROVE starters[c] # {}
      OBVIOUS
    <2>2. call[k].pc = "save" /\ Status(k) \in {"executed", "failed"}
      BY <1>2, <2>1
    <2>3. call[k].kind \in {"approve", "retry"}
      BY <1>3, <2>1, <2>2, ChangeAssumption DEF CallFits, OfRequests, OfJobs, Status
    <2> QED
      BY <1>1, <2>2, <2>3 DEF SomebodyStarted
  <1> HIDE DEF status
  <1>6. /\ change' \in [Changes -> Row] /\ change'[c].status = status /\ change'[c].by = change[c].by
        /\ \A d \in Changes : d # c => change'[d] = change[d]
    <2>1. status \in RequestStatus \cup JobStatus
      BY <1>4 DEF Statuses
    <2> QED
      BY <1>1, <1>2, <1>3, <2>1 DEF WellFormed, Row
  <1>7. CallFits(k)' /\ call'[k] = Idle
    BY <1>1, <1>2 DEF WellFormed, CallFits
  <1>8. /\ call' \in [Open -> Call] /\ \A n \in Open : CallFits(n)'
        /\ \A n \in Open : n # k => call'[n] = call[n]
    BY <1>1, <1>2, <1>7, IdleIsCall, OneCallMoves
  <1>9. WellFormed'
    BY <1>1, <1>2, <1>4, <1>6, <1>8 DEF WellFormed, Statuses
  <1>10. \A d \in Changes : UnderWay(d)' => UnderWay(d)
    BY <1>7, <1>8, NothingNewUnderWay DEF Idle
  <1>11. NothingUnasked'
    BY <1>1, <1>2, <1>4, <1>6, <1>10 DEF NothingUnasked
  <1>12. SomebodyStarted'
    <2>1. /\ \A d \in Changes : effect'[d] > 0 \/ d \in halfway' => starters'[d] # {}
          /\ \A d \in Requests : change'[d].status \in {"executed", "failed"} => starters'[d] # {}
      BY <1>1, <1>2, <1>5, <1>6 DEF SomebodyStarted, Changes
    <2>2. \A n \in Open : call'[n].kind \in {"approve", "retry", "apply"} /\ call'[n].pc \in {"mark", "run", "unheard", "save"}
                            => starters'[call'[n].of] # {}
      BY <1>1, <1>2, <1>7, <1>8 DEF SomebodyStarted, Idle
    <2> QED
      BY <2>1, <2>2 DEF SomebodyStarted
  <1>13. NobodyHisOwn'
    BY <1>1, <1>2, <1>6 DEF NobodyHisOwn
  <1> QED
    BY <1>9, <1>11, <1>12, <1>13 DEF FourEyesInv

LEMMA FourEyesTimeOut ==
    ASSUME FourEyesInv, NEW k \in Open, TimeOut(k)
    PROVE  FourEyesInv'
  <1> DEFINE c == call[k].of
             new == [call[k] EXCEPT !.pc = "unheard"]
  <1>1. WellFormed /\ NothingUnasked /\ SomebodyStarted /\ NobodyHisOwn
    BY DEF FourEyesInv
  <1>2. /\ call[k].pc = "run" /\ UNCHANGED <<change, makerChecker, effect, halfway, starters, everOff, unread>>
        /\ call' = [call EXCEPT ![k] = new] /\ troubled' = troubled \cup {c}
    BY <1>1 DEF TimeOut, WellFormed
  <1>3. call[k] \in Call /\ call[k] # Idle /\ CallFits(k) /\ c \in Changes
    BY <1>2, AtWork
  <1>4. /\ new \in Call /\ new.of = c /\ new.kind = call[k].kind /\ new.by = call[k].by
        /\ new.pc = "unheard" /\ new.seen = call[k].seen
    BY <1>3 DEF Call
  <1> HIDE DEF new
  <1>5. call'[k] = new
    BY <1>1, <1>2 DEF WellFormed
  <1>6. CallFits(k)'
    BY <1>2, <1>3, <1>4, <1>5 DEF CallFits, OfRequests, OfJobs
  <1>7. /\ call' \in [Open -> Call] /\ \A n \in Open : CallFits(n)'
        /\ \A n \in Open : n # k => call'[n] = call[n]
    BY <1>1, <1>2, <1>4, <1>6, OneCallMoves
  <1>8. WellFormed'
    BY <1>1, <1>2, <1>3, <1>7 DEF WellFormed, Statuses
  <1>9. \A d \in Changes : UnderWay(d)' => UnderWay(d)
    BY <1>4, <1>5, <1>7, NothingNewUnderWay
  <1>10. NothingUnasked'
    BY <1>1, <1>2, <1>9 DEF NothingUnasked
  <1>11. SomebodyStarted'
    BY <1>1, <1>2, <1>4, <1>5, <1>7 DEF SomebodyStarted
  <1>12. NobodyHisOwn'
    BY <1>1, <1>2 DEF NobodyHisOwn
  <1> QED
    BY <1>8, <1>10, <1>11, <1>12 DEF FourEyesInv

LEMMA FourEyesRestart ==
    ASSUME FourEyesInv, Restart
    PROVE  FourEyesInv'
  <1>1. WellFormed /\ NothingUnasked /\ SomebodyStarted /\ NobodyHisOwn
    BY DEF FourEyesInv
  <1>2. /\ UNCHANGED <<change, makerChecker, effect, halfway, starters, everOff, unread>>
        /\ troubled' = troubled \cup {c \in Changes : UnderWay(c)}
        /\ call' = [k \in Open |-> IF call[k].pc \in {"run", "unheard"} THEN [call[k] EXCEPT !.pc = "unheard"] ELSE Idle]
    BY DEF Restart
  <1>3. ASSUME NEW k \in Open
        PROVE  /\ call'[k] \in Call /\ CallFits(k)'
               /\ \/ call'[k] = Idle
                  \/ /\ call[k].pc \in {"run", "unheard"} /\ call'[k].pc = "unheard"
                     /\ call'[k].of = call[k].of /\ call'[k].kind = call[k].kind
    <2>1. CASE call[k].pc \in {"run", "unheard"}
      <3>1. call[k] \in Call /\ call[k] # Idle /\ CallFits(k)
        BY <2>1, AtWork
      <3>2. call'[k] = [call[k] EXCEPT !.pc = "unheard"]
        BY <1>2, <2>1
      <3>3. /\ call'[k] \in Call /\ call'[k].of = call[k].of /\ call'[k].kind = call[k].kind
            /\ call'[k].by = call[k].by /\ call'[k].pc = "unheard" /\ call'[k].seen = call[k].seen
        BY <3>1, <3>2 DEF Call
      <3>4. CallFits(k)'
        BY <2>1, <3>1, <3>3 DEF CallFits, OfRequests, OfJobs
      <3> QED
        BY <2>1, <3>3, <3>4
    <2>2. CASE call[k].pc \notin {"run", "unheard"}
      BY <1>2, <2>2, IdleIsCall DEF CallFits
    <2> QED
      BY <2>1, <2>2
  <1>4. call' \in [Open -> Call]
    BY <1>2, <1>3
  <1>5. WellFormed'
    BY <1>1, <1>2, <1>3, <1>4 DEF WellFormed, Statuses
  <1>6. \A d \in Changes : UnderWay(d)' => UnderWay(d)
    BY <1>3, ChangeAssumption DEF UnderWay, Idle
  <1>7. NothingUnasked'
    BY <1>1, <1>2, <1>6 DEF NothingUnasked
  <1>8. SomebodyStarted'
    <2>1. \A k \in Open : call'[k].kind \in {"approve", "retry", "apply"} /\ call'[k].pc \in {"mark", "run", "unheard", "save"}
                            => starters[call'[k].of] # {}
      BY <1>1, <1>3 DEF SomebodyStarted, Idle
    <2> QED
      BY <1>1, <1>2, <2>1 DEF SomebodyStarted
  <1>9. NobodyHisOwn'
    BY <1>1, <1>2 DEF NobodyHisOwn
  <1> QED
    BY <1>5, <1>7, <1>8, <1>9 DEF FourEyesInv

LEMMA FourEyesSetMakerChecker ==
    ASSUME FourEyesInv, SetMakerChecker
    PROVE  FourEyesInv'
  <1>1. WellFormed /\ NothingUnasked /\ SomebodyStarted /\ NobodyHisOwn
    BY DEF FourEyesInv
  <1>2. /\ makerChecker' = ~makerChecker /\ everOff' = TRUE
        /\ UNCHANGED <<change, call, effect, halfway, starters, unread, troubled>>
    BY DEF SetMakerChecker
  <1>3. \A k \in Open : CallFits(k)'
    BY <1>1, <1>2, CallsUnchanged DEF WellFormed
  <1>4. WellFormed'
    BY <1>1, <1>2, <1>3 DEF WellFormed, Statuses
  <1>5. NothingUnasked' /\ SomebodyStarted' /\ NobodyHisOwn'
    BY <1>1, <1>2 DEF NothingUnasked, SomebodyStarted, NobodyHisOwn, UnderWay
  <1> QED
    BY <1>4, <1>5 DEF FourEyesInv

LEMMA FourEyesStep == FourEyesInv /\ [Next]_vars => FourEyesInv'
  <1> SUFFICES ASSUME FourEyesInv, [Next]_vars PROVE FourEyesInv'
    OBVIOUS
  <1>1. ASSUME NEW c \in Changes, NEW u \in Users,
               Ask(c, u) \/ \E k \in Open : Plan(k, c, u) \/ Approve(k, c, u) \/ Reject(k, c, u)
                                             \/ Retry(k, c, u) \/ Apply(k, c, u) \/ Destroy(k, c, u)
        PROVE  FourEyesInv'
    BY <1>1, FourEyesAsk, FourEyesPlan, FourEyesOpens
  <1>2. ASSUME NEW k \in Open, Check(k) \/ Mark(k) \/ Executed(k) \/ Save(k) \/ TimeOut(k)
        PROVE  FourEyesInv'
    BY <1>2, FourEyesCheck, FourEyesMark, FourEyesExecuted, FourEyesSave, FourEyesTimeOut
  <1>3. ASSUME NEW c \in Changes, Expire(c) PROVE FourEyesInv'
    BY <1>3, FourEyesExpire
  <1>4. CASE Restart \/ SetMakerChecker
    BY <1>4, FourEyesRestart, FourEyesSetMakerChecker
  <1>5. CASE UNCHANGED vars
    <2>1. UNCHANGED <<change, call, makerChecker, effect, halfway, starters, everOff, unread, troubled>>
      BY <1>5 DEF vars
    <2>2. \A k \in Open : CallFits(k)'
      BY <2>1, CallsUnchanged DEF FourEyesInv, WellFormed
    <2>3. WellFormed'
      BY <2>1, <2>2 DEF FourEyesInv, WellFormed, Statuses
    <2>4. NothingUnasked' /\ SomebodyStarted' /\ NobodyHisOwn'
      BY <2>1 DEF FourEyesInv, NothingUnasked, SomebodyStarted, NobodyHisOwn, UnderWay
    <2> QED
      BY <2>3, <2>4 DEF FourEyesInv
  <1> QED
    BY <1>1, <1>2, <1>3, <1>4, <1>5 DEF Next

\* Every state the code reaches is well formed, and the four conjuncts hold.
THEOREM FourEyesInvariant == Spec => []FourEyesInv
  BY FourEyesInit, FourEyesStep, PTL DEF Spec

\* With maker-checker never off, nothing was executed that its requester started
\* (unless the setting could not be read when that was checked), nor, even in
\* part, that nobody started: approvals and Terraform jobs, whatever calls
\* overlap, fail, time out, are retried or are cut off by a restart.
THEOREM FourEyesSafe == Spec => []FourEyes
  <1>1. FourEyesInv => FourEyes
    <2> SUFFICES ASSUME FourEyesInv PROVE FourEyes
      OBVIOUS
    <2>1. TypeOK
      BY DEF FourEyesInv, WellFormed, TypeOK, Row, Call, Statuses
    <2> QED
      BY <2>1 DEF FourEyesInv, NobodyHisOwn, SomebodyStarted, FourEyes
  <1> QED
    BY <1>1, FourEyesInvariant, PTL

(***************************************************************************)
(* What the row tells                                                      *)
(***************************************************************************)
LEMMA OthersUntroubled ==
    ASSUME NEW d \in Changes, Untroubled(d),
           change'[d].status = change[d].status, effect'[d] = effect[d],
           d \in halfway' <=> d \in halfway,
           \A n \in Open : call'[n] = call[n] \/ (call[n].of # d /\ call'[n].of # d)
    PROVE  Untroubled(d)'
  <1>1. UnderWay(d)' <=> UnderWay(d)
    BY DEF UnderWay
  <1>2. ~UnderWay(d)' => Tells(d, change[d].status)'
    BY <1>1 DEF Untroubled, Tells
  <1>3. \A k, l \in Open : call'[k].of = d /\ call'[l].of = d => k = l
    BY DEF Untroubled
  <1>4. ASSUME NEW k \in Open, call'[k].of = d
        PROVE  CallTells(k)'
    <2>1. call'[k] = call[k] /\ call[k].of = d /\ CallTells(k)
      BY <1>4 DEF Untroubled
    <2> QED
      BY <2>1 DEF CallTells, Tells, Status
  <1> QED
    BY <1>2, <1>3, <1>4 DEF Untroubled

\* The only call on its change, moved on: what it does tells of the change.
LEMMA OnlyCallMoves ==
    ASSUME NEW k \in Open, NEW c \in Changes, call[k].of = c, Untroubled(c),
           \A n \in Open : n # k => call'[n] = call[n], call'[k].of = c, CallTells(k)'
    PROVE  Untroubled(c)'
  <1>1. \A n \in Open : call'[n].of = c => n = k
    BY DEF Untroubled
  <1>2. UnderWay(c)'
    BY DEF UnderWay
  <1> QED
    BY <1>1, <1>2 DEF Untroubled

\* The only call on its change, ended: the row tells of the change.
LEMMA OnlyCallEnds ==
    ASSUME NEW k \in Open, NEW c \in Changes, call[k].of = c, Untroubled(c),
           \A n \in Open : n # k => call'[n] = call[n], call'[k] = Idle, Tells(c, change[c].status)'
    PROVE  Untroubled(c)'
  <1>1. \A n \in Open : call'[n].of # c
    BY ChangeAssumption DEF Untroubled, Idle
  <1> QED
    BY <1>1 DEF Untroubled

\* The first call on its change: nothing else is told of it yet.
LEMMA FirstCall ==
    ASSUME NEW k \in Open, NEW c \in Changes, ~UnderWay(c),
           \A n \in Open : n # k => call'[n] = call[n], call'[k].of = c, CallTells(k)'
    PROVE  Untroubled(c)'
  <1>1. \A n \in Open : call'[n].of = c => n = k
    BY DEF UnderWay
  <1>2. UnderWay(c)'
    BY DEF UnderWay
  <1> QED
    BY <1>1, <1>2 DEF Untroubled

LEMMA OutcomeInit == Init => OutcomeInv
  <1> SUFFICES ASSUME Init, NEW c \in Changes PROVE Untroubled(c)
    BY DEF OutcomeInv
  <1>1. /\ change[c].status = "none" /\ effect[c] = 0 /\ c \notin halfway
        /\ \A k \in Open : call[k].of # c
    BY ChangeAssumption DEF Init, Idle
  <1> QED
    BY <1>1 DEF Untroubled, Tells, UnderWay

LEMMA OutcomeAsk ==
    ASSUME FourEyesInv, OutcomeInv, NEW c \in Changes, NEW u \in Users, Ask(c, u)
    PROVE  OutcomeInv'
  <1> SUFFICES ASSUME NEW d \in Changes \ troubled' PROVE Untroubled(d)'
    BY DEF OutcomeInv
  <1>1. /\ change' = [change EXCEPT ![c].status = "pending", ![c].by = u]
        /\ change[c].status = "none" /\ c \in Requests
        /\ UNCHANGED <<call, effect, halfway, troubled>>
    BY DEF Ask, New, world
  <1>2. Untroubled(d) /\ ~UnderWay(c)
    BY <1>1 DEF OutcomeInv, FourEyesInv, NothingUnasked
  <1>3. /\ \A e \in Changes : e # c => change'[e] = change[e]
        /\ change'[c].status = "pending"
    BY <1>1 DEF FourEyesInv, WellFormed, Row
  <1>4. CASE d # c
    BY <1>1, <1>2, <1>3, <1>4, OthersUntroubled
  <1>5. CASE d = c
    <2>1. effect'[c] = 0 /\ c \notin halfway'
      BY <1>1, <1>2, <1>5 DEF Untroubled, Tells
    <2>2. Tells(c, change[c].status)'
      BY <1>1, <1>3, <2>1, ChangeAssumption DEF Tells
    <2>3. \A k \in Open : call'[k].of # c
      BY <1>1, <1>2 DEF UnderWay
    <2> QED
      BY <1>5, <2>2, <2>3 DEF Untroubled
  <1> QED
    BY <1>4, <1>5

LEMMA OutcomePlan ==
    ASSUME FourEyesInv, OutcomeInv, NEW k \in Open, NEW c \in Changes, NEW u \in Users, Plan(k, c, u)
    PROVE  OutcomeInv'
  <1> SUFFICES ASSUME NEW d \in Changes \ troubled' PROVE Untroubled(d)'
    BY DEF OutcomeInv
  <1>1. /\ change' = [change EXCEPT ![c].status = "planned", ![c].by = u]
        /\ change[c].status = "none" /\ c \in Jobs /\ Opens(k, "plan", c, u, "run") /\ UNCHANGED <<effect, halfway>>
    BY DEF Plan, New
  <1>2. /\ call[k] = Idle /\ troubled' = IF UnderWay(c) THEN troubled \cup {c} ELSE troubled
        /\ \A n \in Open : n # k => call'[n] = call[n]
        /\ call'[k] = [kind |-> "plan", of |-> c, by |-> u, pc |-> "run", seen |-> "none", ok |-> FALSE]
    BY <1>1, OpensWhat DEF FourEyesInv
  <1>3. Untroubled(d) /\ ~UnderWay(c)
    BY <1>1, <1>2 DEF OutcomeInv, FourEyesInv, NothingUnasked
  <1>4. \A e \in Changes : e # c => change'[e] = change[e]
    BY <1>1 DEF FourEyesInv, WellFormed
  <1>5. CASE d # c
    <2>1. call[k].of # d /\ call'[k].of # d
      BY <1>2, <1>5, ChangeAssumption DEF Idle
    <2> QED
      BY <1>1, <1>2, <1>3, <1>4, <1>5, <2>1, OthersUntroubled
  <1>6. CASE d = c
    <2>1. Tells(c, "none")
      BY <1>1, <1>3, <1>6 DEF Untroubled
    <2>2. CallTells(k)'
      BY <1>1, <1>2, <2>1 DEF CallTells, Tells
    <2> QED
      BY <1>2, <1>3, <1>6, <2>2, FirstCall
  <1> QED
    BY <1>5, <1>6

LEMMA OutcomeExpire ==
    ASSUME FourEyesInv, OutcomeInv, NEW c \in Changes, Expire(c)
    PROVE  OutcomeInv'
  <1> SUFFICES ASSUME NEW d \in Changes \ troubled' PROVE Untroubled(d)'
    BY DEF OutcomeInv
  <1>1. change' = [change EXCEPT ![c].late = TRUE] /\ UNCHANGED <<call, effect, halfway, troubled>>
    BY DEF Expire, world
  <1>2. change'[d].status = change[d].status
    BY <1>1 DEF FourEyesInv, WellFormed, Row
  <1>3. Untroubled(d)
    BY <1>1 DEF OutcomeInv
  <1> QED
    BY <1>1, <1>2, <1>3, OthersUntroubled

\* A call that opens knows what the row says, and what the row says is true.
LEMMA OutcomeOpensCall ==
    ASSUME FourEyesInv, OutcomeInv, NEW k \in Open, NEW c \in Changes, NEW u \in Users,
           NEW what \in Kinds, NEW pc \in {"check", "run", "save", "expire"},
           Opens(k, what, c, u, pc), UNCHANGED <<change, effect, halfway>>,
           pc = "save" => what = "reject" /\ c \in Requests /\ change[c].status = "pending"
    PROVE  OutcomeInv'
  <1> SUFFICES ASSUME NEW d \in Changes \ troubled' PROVE Untroubled(d)'
    BY DEF OutcomeInv
  <1>1. /\ call[k] = Idle /\ troubled' = IF UnderWay(c) THEN troubled \cup {c} ELSE troubled
        /\ \A n \in Open : n # k => call'[n] = call[n]
        /\ call'[k] = [kind |-> what, of |-> c, by |-> u, pc |-> pc, seen |-> change[c].status, ok |-> FALSE]
    BY OpensWhat DEF FourEyesInv
  <1>2. Untroubled(d)
    BY <1>1 DEF OutcomeInv
  <1>3. CASE d # c
    <2>1. call[k].of # d /\ call'[k].of # d
      BY <1>1, <1>3, ChangeAssumption DEF Idle
    <2> QED
      BY <1>1, <1>2, <1>3, <2>1, OthersUntroubled
  <1>4. CASE d = c
    <2>1. ~UnderWay(c) /\ Tells(c, change[c].status)
      BY <1>1, <1>2, <1>4 DEF Untroubled
    <2>2. CASE pc # "save"
      <3>1. CallTells(k)'
        BY <1>1, <2>1, <2>2 DEF CallTells, Tells
      <3> QED
        BY <1>1, <1>4, <2>1, <3>1, FirstCall
    <2>3. CASE pc = "save"
      <3>1. Status(k)' = "rejected"
        BY <1>1, <2>3 DEF Status
      <3>2. CallTells(k)'
        BY <1>1, <2>1, <2>3, <3>1, ChangeAssumption DEF CallTells, Tells
      <3> QED
        BY <1>1, <1>4, <2>1, <3>2, FirstCall
    <2> QED
      BY <2>2, <2>3
  <1> QED
    BY <1>3, <1>4

LEMMA OutcomeOpens ==
    ASSUME FourEyesInv, OutcomeInv, NEW k \in Open, NEW c \in Changes, NEW u \in Users,
           Approve(k, c, u) \/ Reject(k, c, u) \/ Retry(k, c, u) \/ Apply(k, c, u) \/ Destroy(k, c, u)
    PROVE  OutcomeInv'
  <1>1. UNCHANGED <<change, effect, halfway>>
    BY DEF Approve, Reject, Retry, Apply, Destroy
  <1>2. CASE Reject(k, c, u)
    <2>1. Opens(k, "reject", c, u, "save") /\ change[c].status = "pending"
      BY <1>2 DEF Reject
    <2>2. c \in Requests
      BY <2>1 DEF FourEyesInv, WellFormed, Statuses, JobStatus, Changes
    <2> QED
      BY <1>1, <2>1, <2>2, OutcomeOpensCall DEF Kinds
  <1>3. CASE ~Reject(k, c, u)
    <2>1. PICK what \in Kinds, pc \in {"check", "run", "expire"} : Opens(k, what, c, u, pc)
      BY <1>3 DEF Approve, Retry, Apply, Destroy, Kinds
    <2> QED
      BY <1>1, <2>1, OutcomeOpensCall
  <1> QED
    BY <1>2, <1>3

LEMMA OutcomeCheck ==
    ASSUME FourEyesInv, OutcomeInv, NEW k \in Open, Check(k)
    PROVE  OutcomeInv'
  <1> SUFFICES ASSUME NEW d \in Changes \ troubled' PROVE Untroubled(d)'
    BY DEF OutcomeInv
  <1>1. call[k].pc = "check" /\ UNCHANGED <<change, effect, halfway, troubled>>
    BY DEF Check
  <1>2. /\ call[k] \in Call /\ call[k] # Idle /\ call[k].of \in Changes /\ CallFits(k)
        /\ call \in [Open -> Call]
    BY <1>1, AtWork DEF FourEyesInv, WellFormed
  <1>3. Untroubled(d)
    BY <1>1 DEF OutcomeInv
  <1>4. CASE call' = [call EXCEPT ![k] = Idle]
    <2>1. call'[k] = Idle /\ \A n \in Open : n # k => call'[n] = call[n]
      BY <1>2, <1>4
    <2>2. CASE d # call[k].of
      BY <1>1, <1>3, <2>1, <2>2, OthersUntroubled, ChangeAssumption DEF Idle
    <2>3. CASE d = call[k].of
      <3>1. Tells(d, change[d].status)
        BY <1>1, <1>3, <2>3 DEF Untroubled, CallTells
      <3>2. Tells(d, change[d].status)'
        BY <1>1, <3>1 DEF Tells
      <3> QED
        BY <1>3, <2>1, <2>3, <3>2, OnlyCallEnds
    <2> QED
      BY <2>2, <2>3
  <1>5. CASE call' = [call EXCEPT ![k].pc = IF call[k].kind = "apply" THEN "mark" ELSE "run"]
    <2>1. /\ \A n \in Open : n # k => call'[n] = call[n]
          /\ call'[k].of = call[k].of /\ call'[k].seen = call[k].seen /\ call'[k].pc \in {"mark", "run"}
      BY <1>2, <1>5 DEF Call
    <2>2. CASE d # call[k].of
      BY <1>1, <1>3, <2>1, <2>2, OthersUntroubled
    <2>3. CASE d = call[k].of
      <3>1. Tells(d, call[k].seen) /\ change[d].status = call[k].seen
        BY <1>1, <1>3, <2>3 DEF Untroubled, CallTells
      <3>2. CallTells(k)'
        BY <1>1, <2>1, <2>3, <3>1 DEF CallTells, Tells
      <3> QED
        BY <1>3, <2>1, <2>3, <3>2, OnlyCallMoves
    <2> QED
      BY <2>2, <2>3
  <1> QED
    BY <1>4, <1>5 DEF Check

LEMMA OutcomeMark ==
    ASSUME FourEyesInv, OutcomeInv, NEW k \in Open, Mark(k)
    PROVE  OutcomeInv'
  <1> SUFFICES ASSUME NEW d \in Changes \ troubled' PROVE Untroubled(d)'
    BY DEF OutcomeInv
  <1>1. /\ call[k].pc = "mark" /\ UNCHANGED <<effect, halfway, troubled>>
        /\ change' = [change EXCEPT ![call[k].of].status = "applying"]
        /\ call' = [call EXCEPT ![k].pc = "run"]
    BY DEF Mark, world
  <1>2. call[k] \in Call /\ call[k].of \in Changes /\ call \in [Open -> Call]
    BY <1>1, AtWork DEF FourEyesInv, WellFormed
  <1>3. Untroubled(d)
    BY <1>1 DEF OutcomeInv
  <1>4. /\ \A n \in Open : n # k => call'[n] = call[n]
        /\ call'[k].of = call[k].of /\ call'[k].seen = call[k].seen /\ call'[k].pc = "run"
    BY <1>1, <1>2 DEF Call
  <1>5. CASE d # call[k].of
    <2>1. change'[d] = change[d]
      BY <1>1, <1>5 DEF FourEyesInv, WellFormed
    <2> QED
      BY <1>1, <1>3, <1>4, <1>5, <2>1, OthersUntroubled
  <1>6. CASE d = call[k].of
    <2>1. Tells(d, call[k].seen)
      BY <1>1, <1>3, <1>6 DEF Untroubled, CallTells
    <2>2. CallTells(k)'
      BY <1>1, <1>4, <1>6, <2>1 DEF CallTells, Tells
    <2> QED
      BY <1>3, <1>4, <1>6, <2>2, OnlyCallMoves
  <1> QED
    BY <1>5, <1>6

\* Executing turns what the call read into what it will write.
LEMMA ExecutionTells ==
    ASSUME NEW k \in Open, call[k] \in Call, CallFits(k), call[k] # Idle, NEW c \in Changes, call[k].of = c,
           effect[c] \in Nat, Tells(c, call[k].seen), NEW ok \in BOOLEAN, NEW e, e = After(call[k].kind, c, ok),
           effect'[c] = e, halfway' \in HalfwayAfter(call[k].kind, c, ok), call'[k].of = c, call'[k].kind = call[k].kind, call'[k].seen = call[k].seen,
           call'[k].ok = ok
    PROVE  Tells(c, Status(k))'
  <1>1. CASE c \in Requests
    <2>1. /\ call[k].kind \in {"approve", "retry", "reject"} /\ c \notin Jobs
          /\ call[k].seen \in {"pending", "failed"}
      BY <1>1, ChangeAssumption DEF CallFits, OfRequests
    <2>2. effect[c] = 0 /\ (call[k].seen = "pending" => c \notin halfway)
      BY <1>1, <2>1 DEF Tells
    <2>3. CASE call[k].kind \in {"approve", "retry"}
      <3>1. e = (IF ok THEN 1 ELSE 0)
        BY <2>2, <2>3 DEF After
      <3>2. Status(k)' = IF ok THEN "executed" ELSE "failed"
        BY <2>3 DEF Status
      <3> QED
        BY <2>1, <3>1, <3>2 DEF Tells
    <2>4. CASE call[k].kind = "reject"
      <3>1. e = 0 /\ c \notin halfway'
        <4>1. call[k].seen = "pending"
          BY <1>1, <2>4, ChangeAssumption DEF CallFits
        <4> QED
          BY <2>2, <2>4, <4>1 DEF After, HalfwayAfter
      <3>2. Status(k)' = "rejected"
        BY <2>4 DEF Status
      <3> QED
        BY <2>1, <3>1, <3>2 DEF Tells
    <2> QED
      BY <2>1, <2>3, <2>4
  <1>2. CASE c \in Jobs
    <2>1. /\ call[k].kind \in {"plan", "apply", "destroy"} /\ c \notin Requests
          /\ call[k].kind = "plan" => call[k].seen = "none"
          /\ call[k].kind = "apply" => call[k].seen = "pending_apply"
      BY <1>2, ChangeAssumption DEF CallFits, OfJobs
    <2>2. CASE call[k].kind = "plan"
      <3>1. e = 0 /\ c \notin halfway'
        BY <1>2, <2>1, <2>2 DEF After, HalfwayAfter, Tells
      <3>2. Status(k)' = IF ok THEN "pending_apply" ELSE "plan_failed"
        BY <2>2 DEF Status
      <3> QED
        BY <2>1, <3>1, <3>2 DEF Tells
    <2>3. CASE call[k].kind = "apply"
      <3>1. ok => e = 1 /\ c \notin halfway'
        BY <2>3 DEF After, HalfwayAfter
      <3>2. Status(k)' = IF ok THEN "applied" ELSE "apply_failed"
        BY <2>3 DEF Status
      <3> QED
        BY <2>1, <3>1, <3>2 DEF Tells
    <2>4. CASE call[k].kind = "destroy"
      <3>1. /\ e = IF ok THEN 0 ELSE effect[c]
            /\ c \in halfway' => ~ok /\ (effect[c] > 0 \/ c \in halfway)
        BY <2>4 DEF After, HalfwayAfter
      <3>3. effect[c] > 0 \/ c \in halfway => call[k].seen \in {"applied", "apply_failed"}
        <4>1. call[k].seen \in JobStatus
          BY <1>2, <2>4 DEF CallFits, OfRequests
        <4> QED
          BY <1>2, <4>1 DEF Tells, JobStatus
      <3>2. Status(k)' = IF ok THEN "destroyed" ELSE call[k].seen
        BY <2>4 DEF Status
      <3> QED
        BY <1>2, <2>1, <3>1, <3>2, <3>3 DEF Tells
    <2> QED
      BY <2>1, <2>2, <2>3, <2>4
  <1> QED
    BY <1>1, <1>2 DEF Changes

LEMMA OutcomeExecuted ==
    ASSUME FourEyesInv, OutcomeInv, NEW k \in Open, Executed(k)
    PROVE  OutcomeInv'
  <1> SUFFICES ASSUME NEW d \in Changes \ troubled' PROVE Untroubled(d)'
    BY DEF OutcomeInv
  <1>1. PICK ok \in BOOLEAN :
            /\ call' = [call EXCEPT ![k] = IF @.pc = "run" THEN [@ EXCEPT !.pc = "save", !.ok = ok] ELSE Idle]
            /\ effect' = [effect EXCEPT ![call[k].of] = After(call[k].kind, call[k].of, ok)]
            /\ halfway' \in HalfwayAfter(call[k].kind, call[k].of, ok)
    BY DEF Executed
  <1> DEFINE e == After(call[k].kind, call[k].of, ok)
  <1>2. effect' = [effect EXCEPT ![call[k].of] = e]
    BY <1>1
  <1>3. call[k].pc \in {"run", "unheard"} /\ UNCHANGED <<change, troubled>>
    BY DEF Executed
  <1>4. /\ call[k] \in Call /\ call[k] # Idle /\ CallFits(k) /\ call[k].of \in Changes
        /\ call \in [Open -> Call] /\ effect \in [Changes -> Nat] /\ halfway \subseteq Changes
    BY <1>3, AtWork DEF FourEyesInv, WellFormed
  <1>0. \A c \in Changes : c # call[k].of => (c \in halfway' <=> c \in halfway)
    BY <1>1, <1>4, AfterWhat
  <1>5. Untroubled(d)
    BY <1>3 DEF OutcomeInv
  <1>6. \A n \in Open : n # k => call'[n] = call[n]
    BY <1>1, <1>4
  <1>7. CASE d # call[k].of
    <2>1. effect'[d] = effect[d] /\ (d \in halfway' <=> d \in halfway)
      BY <1>0, <1>2, <1>4, <1>7
    <2>2. call'[k].of # d
      <3>1. CASE call[k].pc = "run"
        <4> DEFINE mid == [call[k] EXCEPT !.pc = "save"]
        <4>1. call'[k] = [mid EXCEPT !.ok = ok]
          BY <1>1, <1>4, <3>1
        <4>2. mid \in Call /\ mid.of = call[k].of
          BY <1>4 DEF Call
        <4> HIDE DEF mid
        <4> QED
          BY <1>7, <4>1, <4>2 DEF Call
      <3>2. CASE call[k].pc # "run"
        <4>1. call'[k] = Idle
          BY <1>1, <1>4, <3>2
        <4> QED
          BY <4>1, ChangeAssumption DEF Idle
      <3> QED
        BY <3>1, <3>2
    <2> QED
      BY <1>3, <1>5, <1>6, <1>7, <2>1, <2>2, OthersUntroubled
  <1>8. CASE d = call[k].of
    <2>1. call[k].pc = "run" /\ Tells(d, call[k].seen)
      BY <1>3, <1>5, <1>8 DEF Untroubled, CallTells
    <2> DEFINE mid == [call[k] EXCEPT !.pc = "save"]
    <2>2. call'[k] = [mid EXCEPT !.ok = ok]
      BY <1>1, <1>4, <2>1
    <2>3. mid \in Call /\ mid.of = d /\ mid.kind = call[k].kind /\ mid.seen = call[k].seen /\ mid.pc = "save"
      BY <1>4, <1>8 DEF Call
    <2> HIDE DEF mid
    <2>4. /\ call'[k].of = d /\ call'[k].kind = call[k].kind /\ call'[k].seen = call[k].seen
          /\ call'[k].pc = "save" /\ call'[k].ok = ok
      BY <2>2, <2>3 DEF Call
    <2>5. effect'[d] = e /\ effect[d] \in Nat /\ d \in Changes
      BY <1>2, <1>4, <1>8
    <2>6. Tells(d, Status(k))'
      BY <1>1, <1>4, <1>8, <2>1, <2>4, <2>5, ExecutionTells
    <2>7. CallTells(k)'
      BY <2>4, <2>6 DEF CallTells
    <2> QED
      BY <1>5, <1>6, <1>8, <2>4, <2>7, OnlyCallMoves
  <1> QED
    BY <1>7, <1>8

LEMMA OutcomeSave ==
    ASSUME FourEyesInv, OutcomeInv, NEW k \in Open, Save(k)
    PROVE  OutcomeInv'
  <1> SUFFICES ASSUME NEW d \in Changes \ troubled' PROVE Untroubled(d)'
    BY DEF OutcomeInv
  <1> DEFINE status == IF call[k].pc = "expire" THEN "expired" ELSE Status(k)
  <1>1. /\ call[k].pc \in {"save", "expire"} /\ UNCHANGED <<effect, halfway, troubled>>
        /\ change' = [change EXCEPT ![call[k].of].status = status] /\ call' = [call EXCEPT ![k] = Idle]
    BY DEF Save, world
  <1>2. /\ call[k] \in Call /\ call[k] # Idle /\ CallFits(k) /\ call[k].of \in Changes
        /\ call \in [Open -> Call] /\ change \in [Changes -> Row]
    BY <1>1, AtWork DEF FourEyesInv, WellFormed
  <1>3. Untroubled(d)
    BY <1>1 DEF OutcomeInv
  <1>4. call'[k] = Idle /\ \A n \in Open : n # k => call'[n] = call[n]
    BY <1>1, <1>2
  <1>5. CASE d # call[k].of
    <2>1. change'[d] = change[d] /\ call'[k].of # d
      BY <1>1, <1>2, <1>4, <1>5, ChangeAssumption DEF Idle
    <2> QED
      BY <1>1, <1>3, <1>4, <1>5, <2>1, OthersUntroubled
  <1>6. CASE d = call[k].of
    <2>1. Tells(d, status)
      <3>1. CASE call[k].pc = "save"
        BY <1>3, <1>6, <3>1 DEF Untroubled, CallTells
      <3>2. CASE call[k].pc = "expire"
        <4>1. d \in Requests /\ d \notin Jobs /\ call[k].seen = "pending"
          BY <1>2, <1>6, <3>2, ChangeAssumption DEF CallFits
        <4>2. effect[d] = 0 /\ d \notin halfway
          BY <1>3, <1>6, <3>2, <4>1 DEF Untroubled, CallTells, Tells
        <4> QED
          BY <3>2, <4>1, <4>2 DEF Tells
      <3> QED
        BY <1>1, <3>1, <3>2
    <2> HIDE DEF status
    <2>2. change'[d].status = status
      BY <1>1, <1>2, <1>6 DEF Row
    <2>3. Tells(d, change[d].status)'
      BY <1>1, <2>1, <2>2 DEF Tells
    <2> QED
      BY <1>3, <1>4, <1>6, <2>3, OnlyCallEnds
  <1> QED
    BY <1>5, <1>6

LEMMA OutcomeCutOff ==
    ASSUME FourEyesInv, OutcomeInv, (\E k \in Open : TimeOut(k)) \/ Restart
    PROVE  OutcomeInv'
  <1> SUFFICES ASSUME NEW d \in Changes \ troubled' PROVE Untroubled(d)'
    BY DEF OutcomeInv
  <1>1. CASE \E k \in Open : TimeOut(k)
    <2>1. PICK k \in Open : TimeOut(k)
      BY <1>1
    <2>2. /\ UNCHANGED <<change, effect, halfway>> /\ call' = [call EXCEPT ![k].pc = "unheard"]
          /\ troubled' = troubled \cup {call[k].of} /\ call[k].pc = "run"
      BY <2>1 DEF TimeOut
    <2>3. call[k] \in Call /\ call \in [Open -> Call]
      BY <2>2, AtWork DEF FourEyesInv, WellFormed
    <2>4. call'[k].of = call[k].of /\ d # call[k].of /\ \A n \in Open : n # k => call'[n] = call[n]
      BY <2>2, <2>3 DEF Call
    <2>5. Untroubled(d)
      BY <2>2 DEF OutcomeInv
    <2> QED
      BY <2>2, <2>4, <2>5, OthersUntroubled
  <1>2. CASE Restart
    <2>1. /\ UNCHANGED <<change, effect, halfway>> /\ troubled' = troubled \cup {c \in Changes : UnderWay(c)}
          /\ call' = [k \in Open |-> IF call[k].pc \in {"run", "unheard"} THEN [call[k] EXCEPT !.pc = "unheard"] ELSE Idle]
      BY <1>2 DEF Restart
    <2>2. Untroubled(d) /\ \A n \in Open : call[n].of # d
      BY <2>1 DEF OutcomeInv, UnderWay
    <2>3. ASSUME NEW n \in Open PROVE call'[n].of # d
      <3>1. CASE call[n].pc \in {"run", "unheard"}
        <4>1. call[n] \in Call /\ call'[n] = [call[n] EXCEPT !.pc = "unheard"]
          BY <2>1, <3>1 DEF FourEyesInv, WellFormed
        <4> QED
          BY <2>2, <4>1 DEF Call
      <3>2. CASE call[n].pc \notin {"run", "unheard"}
        BY <2>1, <3>2, ChangeAssumption DEF Idle
      <3> QED
        BY <3>1, <3>2
    <2> QED
      BY <2>1, <2>2, <2>3, OthersUntroubled
  <1> QED
    BY <1>1, <1>2

LEMMA OutcomeStep == FourEyesInv /\ OutcomeInv /\ [Next]_vars => OutcomeInv'
  <1> SUFFICES ASSUME FourEyesInv, OutcomeInv, [Next]_vars PROVE OutcomeInv'
    OBVIOUS
  <1>1. ASSUME NEW c \in Changes, NEW u \in Users,
               Ask(c, u) \/ \E k \in Open : Plan(k, c, u) \/ Approve(k, c, u) \/ Reject(k, c, u)
                                             \/ Retry(k, c, u) \/ Apply(k, c, u) \/ Destroy(k, c, u)
        PROVE  OutcomeInv'
    BY <1>1, OutcomeAsk, OutcomePlan, OutcomeOpens
  <1>2. ASSUME NEW k \in Open, Check(k) \/ Mark(k) \/ Executed(k) \/ Save(k)
        PROVE  OutcomeInv'
    BY <1>2, OutcomeCheck, OutcomeMark, OutcomeExecuted, OutcomeSave
  <1>3. ASSUME NEW c \in Changes, Expire(c) PROVE OutcomeInv'
    BY <1>3, OutcomeExpire
  <1>4. CASE (\E k \in Open : TimeOut(k)) \/ Restart
    BY <1>4, OutcomeCutOff
  <1>5. CASE SetMakerChecker \/ UNCHANGED vars
    <2>1. UNCHANGED <<change, call, effect, halfway, troubled>>
      BY <1>5 DEF vars, SetMakerChecker
    <2>2. \A d \in Changes \ troubled' : Untroubled(d)'
      BY <2>1, OthersUntroubled DEF OutcomeInv
    <2> QED
      BY <2>2 DEF OutcomeInv
  <1> QED
    BY <1>1, <1>2, <1>3, <1>4, <1>5 DEF Next

\* The row tells what happened to every change whose calls never overlapped
\* and were never cut off, whatever failed, even half way, and whatever happened
\* to the others.
THEOREM OutcomeTrue == Spec => []OutcomeTold
  <1>1. OutcomeInv => OutcomeTold
    BY DEF OutcomeInv, Untroubled, Tells, OutcomeTold
  <1> QED
    BY <1>1, FourEyesInvariant, OutcomeInit, OutcomeStep, PTL DEF Spec

HIDE DEF happened

(***************************************************************************)
(* The feedback loop                                                       *)
(*                                                                         *)
(* AdviceInv holds of every state of Advice.  EvalInv: an evaluation under *)
(* way that has read the present facts wants what they say, and once one   *)
(* has purged, or has finished, nothing but that is shown until one of     *)
(* former facts writes.  RecInv: who handles a proposal alone knows its      *)
(* status and whether its change was made, and what a screening let pass   *)
(* waits for no answer.  From these, AdviceHonest.                         *)
(***************************************************************************)
ProposalRow == [key : {"tighten", "rule"} \cup Resources, status : {"pending", "applied", "dismissed"},
                cooling : BOOLEAN, made : Nat]
ActRow == [pc : {"idle", "read", "purge", "file", "count", "erase", "change", "mark", "dismiss"},
           rec : Nat, want : SUBSET Resources, late : BOOLEAN, spoilt : BOOLEAN, alone : BOOLEAN]

AdviceTyped ==
    /\ policy \in [there : BOOLEAN, enabled : BOOLEAN, effect : {"audit", "alert"}, count : Nat]
    /\ bad \subseteq Resources /\ breaches \in [Resources -> Nat] /\ feed \in Feeds
    /\ recs \in Seq(ProposalRow)
    /\ gen \in [pc : {"idle", "screen", "publish"}, found : SUBSET ({"tighten", "rule"} \cup Resources)]
    /\ act \in [Actors -> ActRow]
    /\ stale \in BOOLEAN /\ single \in BOOLEAN

(***************************************************************************)
(* Evaluations.                                                            *)
(***************************************************************************)
NoRows == \A r \in Resources : breaches[r] = 0
OneRow == \A r \in Resources : breaches[r] <= 1

\* What has been read of the present facts.
FreshRight == \A a \in Actors : Evaluating(a) /\ ~act[a].late => policy.there /\ act[a].want = Expected
\* The facts are being told: somebody purged on their strength, and no
\* evaluation of former facts has written since.
Telling(a) == act[a].pc \in {"file", "count"} /\ ~act[a].late /\ ~act[a].spoilt
ShownRight ==
    /\ ~stale \/ (\E a \in Actors : Telling(a)) => Shown \subseteq Expected
    /\ (~stale \/ \E a \in Actors : Telling(a) /\ act[a].pc = "count") /\ (\A a \in Actors : act[a].pc # "file")
          => Shown = Expected
    /\ ~stale /\ policy.there => policy.count = Cardinality(Expected)
    /\ ~stale /\ ~policy.there => NoRows /\ \A a \in Actors : ~Evaluating(a)
\* One that evaluates alone leaves each violation once.
AloneRight ==
    /\ \A a \in Actors : Evaluating(a) /\ (single \/ act[a].alone) =>
          /\ \A b \in Actors : Evaluating(b) => a = b
          /\ act[a].pc = "file" => NoRows
          /\ act[a].pc = "count" => OneRow
    /\ \A a \in Actors : act[a].pc = "erase" /\ act[a].alone => NoRows /\ \A b \in Actors : ~Evaluating(b)
    /\ single => OneRow

EvalInv == FreshRight /\ ShownRight /\ AloneRight

(***************************************************************************)
(* Proposals.                                                              *)
(***************************************************************************)
\* What the one who handles proposal i knows of it.
Handles(a, i) ==
    /\ recs[i].status = "pending"
    /\ recs[i].made = IF act[a].pc \in {"change", "dismiss"} THEN 0 ELSE 1
ActsRight ==
    /\ \A a \in Actors : act[a].rec <= Len(recs)
    /\ \A a \in Actors : act[a].pc \in {"idle", "erase"} => act[a].rec = 0
    /\ \A a \in Actors : act[a].pc \in {"change", "mark", "dismiss"} => act[a].rec # 0
    /\ \A a \in Actors : act[a].rec # 0 /\ act[a].rec \notin crossed => Handles(a, act[a].rec)
    /\ \A a, b \in Actors : act[a].rec = act[b].rec /\ act[a].rec # 0 /\ act[a].rec \notin crossed => a = b
MadeOnce ==
    \A i \in 1 .. Len(recs) : ~Busy(i) /\ i \notin crossed => recs[i].made = IF recs[i].status = "applied" THEN 1 ELSE 0
Waits(i) == recs[i].status = "pending"
Cools(i) == recs[i].status = "dismissed" /\ recs[i].cooling /\ i \notin crossed
OneWaits ==
    /\ \A i, j \in 1 .. Len(recs) : Waits(i) /\ Waits(j) /\ recs[i].key = recs[j].key => i = j
    /\ \A i, j \in 1 .. Len(recs) : Waits(i) /\ Cools(j) => recs[i].key # recs[j].key
    /\ gen.pc = "publish" => \A j \in 1 .. Len(recs) : Waits(j) \/ Cools(j) => recs[j].key \notin gen.found

RecInv == ActsRight /\ MadeOnce /\ OneWaits

AdviceInv == AdviceTyped /\ EvalInv /\ RecInv

\* One row of a table is replaced.
LEMMA OneReplaced ==
    ASSUME NEW S, NEW q \in Seq(S), NEW i \in 1 .. Len(q), NEW e \in S
    PROVE  /\ [q EXCEPT ![i] = e] \in Seq(S) /\ Len([q EXCEPT ![i] = e]) = Len(q)
           /\ [q EXCEPT ![i] = e][i] = e
           /\ \A j \in 1 .. Len(q) : j # i => [q EXCEPT ![i] = e][j] = q[j]
  OBVIOUS

LEMMA AdviceTypes ==
    ASSUME AdviceTyped
    PROVE  /\ Len(recs) \in Nat /\ DOMAIN recs = 1 .. Len(recs)
           /\ \A i \in 1 .. Len(recs) : recs[i] \in ProposalRow
           /\ \A a \in Actors : act[a] \in ActRow
           /\ NoAct \in ActRow /\ NoGen.found = {} /\ NoGen.pc = "idle"
           /\ Admins \subseteq Actors /\ Clock \in Actors
  BY DEF AdviceTyped, NoAct, ActRow, NoGen, Actors

LEMMA AdviceInitHolds == AdviceInit => AdviceInv
  <1> SUFFICES ASSUME AdviceInit PROVE AdviceInv
    OBVIOUS
  <1>1. /\ recs = <<>> /\ Len(recs) = 0 /\ recs \in Seq(ProposalRow)
        /\ \A a \in Actors : act[a] = NoAct
        /\ act = [a \in Actors |-> NoAct]
        /\ gen.pc = "idle" /\ gen.found = {} /\ NoAct.pc = "idle" /\ NoAct.rec = 0
    BY DEF AdviceInit, NoAct, NoGen
  <1>2. /\ NoAct \in ActRow /\ breaches = [r \in Resources |-> 0]
        /\ policy = [there |-> TRUE, enabled |-> TRUE, effect |-> "audit", count |-> 0]
        /\ bad \subseteq Resources /\ feed \in Feeds /\ single = TRUE /\ stale = (bad # {})
        /\ gen = [pc |-> "idle", found |-> {}]
    BY DEF AdviceInit, NoAct, ActRow, NoGen
  <1>3. AdviceTyped
    BY <1>1, <1>2 DEF AdviceTyped
  <1>4. \A a \in Actors : ~Evaluating(a) /\ ~Telling(a) /\ act[a].pc = "idle" /\ act[a].rec = 0
    BY <1>1 DEF Evaluating, Telling
  <1>5. NoRows /\ OneRow /\ Shown = {}
    BY <1>2 DEF NoRows, OneRow, Shown
  <1>6. Expected = bad /\ Cardinality({}) = 0
    BY <1>2, FS_EmptySet DEF Expected, Violations
  <1>7. FreshRight /\ AloneRight
    BY <1>4, <1>5 DEF FreshRight, AloneRight
  <1>8. ShownRight
    BY <1>2, <1>4, <1>5, <1>6 DEF ShownRight
  <1>9. RecInv
    BY <1>1, <1>4 DEF RecInv, ActsRight, MadeOnce, OneWaits
  <1> QED
    BY <1>3, <1>7, <1>8, <1>9 DEF AdviceInv, EvalInv

(***************************************************************************)
(* Steps after which what is said of evaluations, or of proposals, is what *)
(* was said before.                                                        *)
(***************************************************************************)
Aside(pc) == pc \in {"idle", "read", "change", "mark", "dismiss"}

\* Whoever does not evaluate goes on not evaluating.
LEMMA EvalRests ==
    ASSUME EvalInv,
           policy'.there = policy.there, policy'.enabled = policy.enabled, policy'.count = policy.count,
           bad' = bad, breaches' = breaches, stale' = stale, single' = single,
           \A a \in Actors :
               \/ /\ act'[a].pc = act[a].pc /\ act'[a].want = act[a].want /\ act'[a].late = act[a].late
                  /\ act'[a].spoilt = act[a].spoilt /\ act'[a].alone = act[a].alone
               \/ Aside(act[a].pc) /\ Aside(act'[a].pc)
    PROVE  EvalInv'
  <1>1. \A a \in Actors : /\ Evaluating(a)' <=> Evaluating(a)
                          /\ Telling(a)' <=> Telling(a)
                          /\ act'[a].pc = "file" <=> act[a].pc = "file"
                          /\ act'[a].pc = "count" <=> act[a].pc = "count"
                          /\ act'[a].pc = "erase" <=> act[a].pc = "erase"
                          /\ Evaluating(a) => /\ act'[a].want = act[a].want /\ act'[a].late = act[a].late
                                              /\ act'[a].alone = act[a].alone
                          /\ act[a].pc = "erase" => act'[a].alone = act[a].alone
    BY DEF Aside, Evaluating, Telling
  <1>2. Expected' = Expected /\ Shown' = Shown /\ NoRows' = NoRows /\ OneRow' = OneRow
    BY DEF Expected, Violations, Shown, NoRows, OneRow
  <1>3. FreshRight'
    BY <1>1, <1>2 DEF FreshRight, EvalInv
  <1>4. ShownRight'
    BY <1>1, <1>2 DEF ShownRight, EvalInv
  <1>5. AloneRight'
    BY <1>1, <1>2 DEF AloneRight, EvalInv
  <1> QED
    BY <1>3, <1>4, <1>5 DEF EvalInv

\* Nobody opens, changes, marks or puts away a proposal.
LEMMA RecRests ==
    ASSUME RecInv, recs' = recs, crossed' = crossed, gen' = gen \/ gen'.pc # "publish",
           \A a \in Actors : 
               /\ act'[a].rec = act[a].rec
               /\ act'[a].pc \in {"change", "dismiss"} <=> act[a].pc \in {"change", "dismiss"}
               /\ act'[a].pc \in {"idle", "erase"} => act[a].rec = 0
               /\ act'[a].pc \in {"change", "mark", "dismiss"} => act[a].rec # 0
    PROVE  RecInv'
  <1>1. \A i : Busy(i)' <=> Busy(i)
    BY DEF Busy
  <1>2. \A i : \A a \in Actors : Handles(a, i)' <=> Handles(a, i)
    BY DEF Handles
  <1>3. \A i : (Waits(i)' <=> Waits(i)) /\ (Cools(i)' <=> Cools(i))
    BY DEF Waits, Cools
  <1>4. ActsRight'
    <2>1. ASSUME NEW a \in Actors, act'[a].rec # 0, act'[a].rec \notin crossed'
          PROVE  Handles(a, act[a].rec)'
      <3>1. PICK i : i = act[a].rec /\ i = act'[a].rec
        OBVIOUS
      <3>2. Handles(a, i)
        BY <2>1, <3>1 DEF RecInv, ActsRight
      <3>3. Handles(a, i)'
        BY <1>2, <3>2
      <3> QED
        BY <3>1, <3>3 DEF Handles
    <2> QED
      BY <2>1 DEF RecInv, ActsRight
  <1>5. MadeOnce'
    BY <1>1 DEF RecInv, MadeOnce
  <1>6. OneWaits'
    BY <1>3 DEF RecInv, OneWaits
  <1> QED
    BY <1>4, <1>5, <1>6 DEF RecInv

LEMMA AdviceGather ==
    ASSUME AdviceInv, Gather
    PROVE  AdviceInv'
  <1>1. AdviceTyped /\ EvalInv /\ RecInv
    BY DEF AdviceInv
  <1>2. UNCHANGED <<policy, bad, breaches, feed, recs, act, stale, single, crossed>>
    BY DEF Gather
  <1>3. PICK found \in SUBSET ({"tighten", "rule"} \cup Resources) : gen' = [pc |-> "screen", found |-> found]
    <2>1. PICK newer \in OtherRows : \E listed \in Listable(newer) :
                   gen' = [pc |-> "screen", found |-> Candidates(listed) \ flows]
      BY DEF Gather
    <2>2. PICK listed \in Listable(newer) : gen' = [pc |-> "screen", found |-> Candidates(listed) \ flows]
      BY <2>1
    <2>3. Candidates(listed) \subseteq {"tighten", "rule"} \cup Resources
      BY DEF Candidates, IdleOnes, Flagged
    <2> QED
      BY <2>2, <2>3
  <1>4. gen' \in [pc : {"idle", "screen", "publish"}, found : SUBSET ({"tighten", "rule"} \cup Resources)]
    BY <1>2, <1>3
  <1>5. AdviceTyped'
    BY <1>1, <1>2, <1>4 DEF AdviceTyped
  <1>6. EvalInv'
    BY <1>1, <1>2, EvalRests
  <1>7. RecInv'
    <2>1. gen'.pc # "publish"
      BY <1>3
    <2>2. \A a \in Actors : /\ act[a].pc \in {"idle", "erase"} => act[a].rec = 0
                            /\ act[a].pc \in {"change", "mark", "dismiss"} => act[a].rec # 0
      BY <1>1 DEF RecInv, ActsRight
    <2> QED
      BY <1>1, <1>2, <2>1, <2>2, RecRests
  <1> QED
    BY <1>5, <1>6, <1>7 DEF AdviceInv

\* What moves none of the rows the invariant speaks of.
LEMMA AdviceAround ==
    ASSUME AdviceInv, 
           \/ RuleGoes
           \/ \E levels \in Feeds : FeedMoves(levels)
           \/ UNCHANGED adviceVars
    PROVE  AdviceInv'
  <1>1. AdviceTyped /\ EvalInv /\ RecInv
    BY DEF AdviceInv
  <1>2. UNCHANGED <<policy, bad, breaches, recs, gen, act, stale, single, crossed>> /\ feed' \in Feeds
    BY <1>1 DEF RuleGoes, FeedMoves, adviceVars, AdviceTyped
  <1>3. AdviceTyped'
    BY <1>1, <1>2 DEF AdviceTyped
  <1>4. EvalInv'
    BY <1>1, <1>2, EvalRests
  <1>5. RecInv'
    <2>1. \A a \in Actors : /\ act[a].pc \in {"idle", "erase"} => act[a].rec = 0
                            /\ act[a].pc \in {"change", "mark", "dismiss"} => act[a].rec # 0
      BY <1>1 DEF RecInv, ActsRight
    <2> QED
      BY <1>1, <1>2, <2>1, RecRests
  <1> QED
    BY <1>3, <1>4, <1>5 DEF AdviceInv

LEMMA AdviceScreen ==
    ASSUME AdviceInv, Screen
    PROVE  AdviceInv'
  <1>1. AdviceTyped /\ EvalInv /\ RecInv
    BY DEF AdviceInv
  <1> DEFINE fresh == {k \in gen.found : ~Suppressed(k)}
  <1>2. /\ UNCHANGED <<policy, bad, breaches, feed, recs, act, stale, single, crossed>>
        /\ gen' = IF fresh = {} THEN NoGen ELSE [gen EXCEPT !.pc = "publish", !.found = fresh]
    BY DEF Screen
  <1>3. /\ gen' \in [pc : {"idle", "screen", "publish"}, found : SUBSET ({"tighten", "rule"} \cup Resources)]
        /\ gen'.pc = "publish" => gen'.found = fresh
    BY <1>1, <1>2 DEF AdviceTyped, NoGen
  <1>4. AdviceTyped'
    BY <1>1, <1>2, <1>3 DEF AdviceTyped
  <1>5. EvalInv'
    BY <1>1, <1>2, EvalRests
  <1>6. RecInv'
    <2>1. ActsRight' /\ MadeOnce'
      BY <1>1, <1>2 DEF RecInv, ActsRight, MadeOnce, Handles, Busy
    <2>2. \A j \in 1 .. Len(recs) : Waits(j) \/ Cools(j) => recs[j].key \notin fresh
      BY DEF Suppressed, OnHold, Waits, Cools
    <2>3. OneWaits'
      BY <1>1, <1>2, <1>3, <2>2 DEF RecInv, OneWaits, Waits, Cools
    <2> QED
      BY <2>1, <2>3 DEF RecInv
  <1> QED
    BY <1>4, <1>5, <1>6 DEF AdviceInv

\* SetToSeq lists a finite set, each element once.
LEMMA ListedOnce ==
    ASSUME NEW S, IsFiniteSet(S)
    PROVE  /\ Cardinality(S) \in Nat /\ SetToSeq(S) \in [1 .. Cardinality(S) -> S]
           /\ \A m, n \in 1 .. Cardinality(S) : SetToSeq(S)[m] = SetToSeq(S)[n] => m = n
  <1>1. Cardinality(S) \in Nat /\ ExistsBijection(1 .. Cardinality(S), S)
    BY FS_CardinalityType
  <1>2. PICK f \in [1 .. Cardinality(S) -> S] : \A m, n \in 1 .. Cardinality(S) : f[m] = f[n] => m = n
    BY <1>1 DEF ExistsBijection, Bijection, Injection, IsInjective
  <1> DEFINE Lists(g) == \A m, n \in DOMAIN g : g[m] = g[n] => m = n
  <1>3. Lists(f)
    BY <1>2
  <1>4. SetToSeq(S) = CHOOSE g \in [1 .. Cardinality(S) -> S] : Lists(g)
    BY DEF SetToSeq, IsInjective
  <1> HIDE DEF Lists
  <1>5. SetToSeq(S) \in [1 .. Cardinality(S) -> S] /\ Lists(SetToSeq(S))
    BY <1>3, <1>4
  <1> QED
    BY <1>1, <1>5 DEF Lists

\* One list behind another keeps the rows of both.
LEMMA RowsJoined ==
    ASSUME NEW S, NEW s \in Seq(S), NEW r \in Seq(S)
    PROVE  /\ s \o r \in Seq(S) /\ Len(s \o r) = Len(s) + Len(r)
           /\ \A i \in 1 .. Len(s) : (s \o r)[i] = s[i]
           /\ \A n \in 1 .. Len(r) : (s \o r)[Len(s) + n] = r[n]
  OBVIOUS

LEMMA AdvicePublish ==
    ASSUME AdviceInv, Publish
    PROVE  AdviceInv'
  <1> USE AdviceAssumption
  <1>1. AdviceTyped /\ EvalInv /\ RecInv
    BY DEF AdviceInv
  <1> DEFINE c == Cardinality(gen.found)
             s == SetToSeq(gen.found)
             more == [n \in 1 .. c |-> Proposal(s[n])]
  <1>2. /\ UNCHANGED <<policy, bad, breaches, feed, act, stale, single, crossed>>
        /\ gen.pc = "publish" /\ gen' = NoGen /\ recs' = recs \o more
    BY DEF Publish
  <1>3. /\ c \in Nat /\ s \in [1 .. c -> gen.found] /\ \A m, n \in 1 .. c : s[m] = s[n] => m = n
        /\ gen.found \subseteq {"tighten", "rule"} \cup Resources
    <2>1. gen.found \in SUBSET ({"tighten", "rule"} \cup Resources)
      BY <1>1 DEF AdviceTyped
    <2>2. IsFiniteSet((Resources \cup {"tighten"}) \cup {"rule"})
      BY FS_AddElement DEF AdviceAssumption
    <2>3. (Resources \cup {"tighten"}) \cup {"rule"} = {"tighten", "rule"} \cup Resources
      OBVIOUS
    <2>4. IsFiniteSet(gen.found)
      BY <2>1, <2>2, <2>3, FS_Subset
    <2> QED
      BY <2>1, <2>4, ListedOnce
  <1> HIDE DEF c, s
  <1>4. \A n \in 1 .. c : more[n] \in ProposalRow /\ more[n].key = s[n] /\ s[n] \in gen.found
                          /\ more[n].status = "pending" /\ more[n].cooling = FALSE /\ more[n].made = 0
    BY <1>3 DEF Proposal, ProposalRow
  <1>5. more \in Seq(ProposalRow) /\ Len(more) = c
    <2>1. DOMAIN more = 1 .. c /\ more \in [1 .. c -> ProposalRow]
      BY <1>4
    <2> QED
      BY <1>3, <2>1
  <1> HIDE DEF more
  <1> DEFINE l == Len(recs)
  <1>6. recs \in Seq(ProposalRow) /\ l \in Nat
    BY <1>1, AdviceTypes DEF AdviceTyped
  <1>7. /\ recs' \in Seq(ProposalRow) /\ Len(recs') = l + c
        /\ \A i \in 1 .. l : recs'[i] = recs[i]
        /\ \A n \in 1 .. c : recs'[l + n] = more[n]
    <2>1. /\ recs \o more \in Seq(ProposalRow) /\ Len(recs \o more) = Len(recs) + Len(more)
          /\ \A i \in 1 .. Len(recs) : (recs \o more)[i] = recs[i]
          /\ \A n \in 1 .. Len(more) : (recs \o more)[Len(recs) + n] = more[n]
      <3>1. recs \in Seq(ProposalRow) /\ more \in Seq(ProposalRow)
        BY <1>5, <1>6
      <3>2. /\ recs \o more \in Seq(ProposalRow) /\ Len(recs \o more) = Len(recs) + Len(more)
            /\ \A i \in 1 .. Len(recs) : (recs \o more)[i] = recs[i]
        BY <3>1, RowsJoined
      <3>3. \A n \in 1 .. Len(more) : (recs \o more)[Len(recs) + n] = more[n]
        BY <3>1, RowsJoined
      <3> QED
        BY <3>2, <3>3
    <2> QED
      BY <1>2, <1>5, <2>1
  <1>8. \A i \in 1 .. Len(recs') : \/ i \in 1 .. l
                                   \/ \E n \in 1 .. c : i = l + n /\ i \notin 1 .. l
    <2>1. ASSUME NEW i \in 1 .. Len(recs'), i \notin 1 .. l
          PROVE  i - l \in 1 .. c /\ i = l + (i - l)
      BY <1>3, <1>6, <1>7, <2>1
    <2> QED
      BY <2>1
  <1>9. AdviceTyped'
    BY <1>1, <1>2, <1>7, AdviceTypes DEF AdviceTyped, NoGen
  <1>10. EvalInv'
    BY <1>1, <1>2, EvalRests
  <1>11. ActsRight'
    <2>1. \A a \in Actors : act[a].rec \in Nat /\ act[a].rec <= l
      BY <1>1, AdviceTypes DEF ActRow, RecInv, ActsRight
    <2>2. \A a \in Actors : act[a].rec <= Len(recs')
      BY <1>3, <1>6, <1>7, <2>1
    <2>3. ASSUME NEW a \in Actors, act[a].rec # 0, act[a].rec \notin crossed
          PROVE  Handles(a, act[a].rec)'
      <3>1. act[a].rec \in 1 .. l
        BY <1>6, <2>1, <2>3
      <3>2. Handles(a, act[a].rec)
        BY <1>1, <2>3 DEF RecInv, ActsRight
      <3>3. recs'[act[a].rec] = recs[act[a].rec] /\ act' = act
        BY <1>2, <1>7, <3>1
      <3> QED
        BY <3>2, <3>3 DEF Handles
    <2> QED
      BY <1>1, <1>2, <2>2, <2>3 DEF RecInv, ActsRight
  <1>12. MadeOnce'
    <2>1. ASSUME NEW i \in 1 .. Len(recs'), ~Busy(i)', i \notin crossed'
          PROVE  recs'[i].made = IF recs'[i].status = "applied" THEN 1 ELSE 0
      <3>1. ~Busy(i) /\ i \notin crossed
        BY <1>2, <2>1 DEF Busy
      <3>2. CASE i \in 1 .. l
        BY <1>1, <1>7, <3>1, <3>2 DEF RecInv, MadeOnce
      <3>3. CASE \E n \in 1 .. c : i = l + n
        BY <1>4, <1>7, <3>3
      <3> QED
        BY <1>8, <3>2, <3>3
    <2> QED
      BY <2>1 DEF MadeOnce
  <1>13. OneWaits'
    <2>1. \A i \in 1 .. l : (Waits(i)' <=> Waits(i)) /\ (Cools(i)' <=> Cools(i)) /\ recs'[i].key = recs[i].key
      BY <1>2, <1>7 DEF Waits, Cools
    <2>2. \A i, n : n \in 1 .. c /\ i = l + n => recs'[i].key = s[n] /\ s[n] \in gen.found /\ ~Cools(i)'
      BY <1>4, <1>7 DEF Cools
    <2>3. \A j \in 1 .. l : Waits(j) \/ Cools(j) => recs[j].key \notin gen.found
      BY <1>1, <1>2 DEF RecInv, OneWaits
    <2>7. \A i \in 1 .. Len(recs') : i \notin 1 .. l => recs'[i].key \in gen.found /\ ~Cools(i)'
      <3>1. ASSUME NEW i \in 1 .. Len(recs'), i \notin 1 .. l
            PROVE  recs'[i].key \in gen.found /\ ~Cools(i)'
        <4>1. PICK n \in 1 .. c : i = l + n
          BY <1>8, <3>1
        <4> QED
          BY <2>2, <4>1
      <3> QED
        BY <3>1
    <2>8. \A j \in 1 .. l : Waits(j)' \/ Cools(j)' => recs'[j].key \notin gen.found
      BY <2>1, <2>3
    <2>4. ASSUME NEW i \in 1 .. Len(recs'), NEW j \in 1 .. Len(recs'), Waits(i)', Waits(j)', recs'[i].key = recs'[j].key
          PROVE  i = j
      <3>1. CASE i \in 1 .. l /\ j \in 1 .. l
        BY <1>1, <2>1, <2>4, <3>1 DEF RecInv, OneWaits
      <3>2. CASE i \notin 1 .. l /\ j \in 1 .. l
        BY <2>4, <2>7, <2>8, <3>2
      <3>3. CASE i \in 1 .. l /\ j \notin 1 .. l
        BY <2>4, <2>7, <2>8, <3>3
      <3>4. CASE i \notin 1 .. l /\ j \notin 1 .. l
        <4>1. PICK m \in 1 .. c : i = l + m
          BY <1>8, <3>4
        <4>2. PICK n \in 1 .. c : j = l + n
          BY <1>8, <3>4
        <4>3. s[m] = s[n]
          BY <2>2, <2>4, <4>1, <4>2
        <4> QED
          BY <1>3, <4>1, <4>2, <4>3
      <3> QED
        BY <3>1, <3>2, <3>3, <3>4
    <2>5. ASSUME NEW i \in 1 .. Len(recs'), NEW j \in 1 .. Len(recs'), Waits(i)', Cools(j)'
          PROVE  recs'[i].key # recs'[j].key
      <3>1. j \in 1 .. l
        BY <2>5, <2>7
      <3>2. CASE i \in 1 .. l
        BY <1>1, <2>1, <2>5, <3>1, <3>2 DEF RecInv, OneWaits
      <3>3. CASE i \notin 1 .. l
        BY <2>5, <2>7, <2>8, <3>1, <3>3
      <3> QED
        BY <3>2, <3>3
    <2>6. gen'.pc # "publish"
      BY <1>2 DEF NoGen
    <2> QED
      BY <2>4, <2>5, <2>6 DEF OneWaits
  <1> QED
    BY <1>9, <1>10, <1>11, <1>12, <1>13 DEF AdviceInv, RecInv

\* Somebody's handling breaks off, which the ghost remembers.
LEMMA RecBreaksOff ==
    ASSUME RecInv, recs' = recs, gen' = gen \/ gen'.pc # "publish", crossed \subseteq crossed',
           \A a \in Actors : \/ act'[a].rec = act[a].rec /\ act'[a].pc = act[a].pc
                             \/ act'[a] = NoAct /\ (act[a].rec = 0 \/ act[a].rec \in crossed')
    PROVE  RecInv'
  <1>1. NoAct.rec = 0 /\ NoAct.pc = "idle"
    BY DEF NoAct
  <1>2. ActsRight'
    <2>1. ASSUME NEW a \in Actors, act'[a].rec # 0, act'[a].rec \notin crossed'
          PROVE  Handles(a, act[a].rec)'
      <3>1. PICK i : i = act[a].rec /\ i = act'[a].rec /\ act'[a].pc = act[a].pc
        BY <1>1, <2>1
      <3>2. Handles(a, i)
        BY <2>1, <3>1 DEF RecInv, ActsRight
      <3> QED
        BY <3>1, <3>2 DEF Handles
    <2>2. \A a \in Actors : /\ act'[a].rec = act[a].rec \/ act'[a].rec = 0
                            /\ act'[a].pc \in {"idle", "erase"} => act'[a].rec = 0
                            /\ act'[a].pc \in {"change", "mark", "dismiss"} => act'[a].rec # 0
      BY <1>1 DEF RecInv, ActsRight
    <2>3. \A a \in Actors : act'[a].rec <= Len(recs')
      BY <1>1, AdviceTypes DEF RecInv, ActsRight
    <2>4. \A a, b \in Actors : act'[a].rec = act'[b].rec /\ act'[a].rec # 0 /\ act'[a].rec \notin crossed' => a = b
      BY <2>2 DEF RecInv, ActsRight
    <2> QED
      BY <2>1, <2>2, <2>3, <2>4 DEF ActsRight
  <1>3. MadeOnce'
    <2>1. ASSUME NEW i \in 1 .. Len(recs), ~Busy(i)', i \notin crossed'
          PROVE  ~Busy(i)
      <3>1. i # 0
        OBVIOUS
      <3> QED
        BY <2>1, <3>1 DEF Busy
    <2> QED
      BY <2>1 DEF RecInv, MadeOnce
  <1>4. OneWaits'
    BY DEF RecInv, OneWaits, Waits, Cools
  <1> QED
    BY <1>2, <1>3, <1>4 DEF RecInv

LEMMA AdviceEvaluate ==
    ASSUME AdviceInv, Evaluate
    PROVE  AdviceInv'
  <1>1. AdviceTyped /\ EvalInv /\ RecInv
    BY DEF AdviceInv
  <1>2. /\ UNCHANGED <<policy, bad, breaches, feed, recs, gen, stale, single, crossed>>
        /\ act[Clock] = NoAct /\ act' = [act EXCEPT ![Clock].pc = "read"]
    BY DEF Evaluate
  <1>3. act \in [Actors -> ActRow] /\ Clock \in Actors /\ NoAct.pc = "idle" /\ NoAct.rec = 0
    BY <1>1 DEF AdviceTyped, Actors, NoAct
  <1>4. /\ act' \in [Actors -> ActRow]
        /\ \A b \in Actors : b # Clock => act'[b] = act[b]
        /\ act'[Clock].pc = "read" /\ act'[Clock].rec = 0
    BY <1>2, <1>3 DEF ActRow
  <1>5. AdviceTyped'
    BY <1>1, <1>2, <1>4 DEF AdviceTyped
  <1>6. EvalInv'
    BY <1>1, <1>2, <1>3, <1>4, EvalRests DEF Aside
  <1>7. RecInv'
    <2>1. \A a \in Actors : /\ act[a].pc \in {"idle", "erase"} => act[a].rec = 0
                            /\ act[a].pc \in {"change", "mark", "dismiss"} => act[a].rec # 0
      BY <1>1 DEF RecInv, ActsRight
    <2> QED
      BY <1>1, <1>2, <1>3, <1>4, <2>1, RecRests
  <1> QED
    BY <1>5, <1>6, <1>7 DEF AdviceInv

\* An evaluation that has ended goes back to the proposal it was for.
EndsRow(a) ==
    /\ Ended(a) \in ActRow /\ Ended(a).rec = act[a].rec
    /\ Ended(a).pc = IF act[a].rec = 0 THEN "idle" ELSE "mark"

LEMMA EndsWhat ==
    ASSUME act \in [Actors -> ActRow], NEW a \in Actors
    PROVE  EndsRow(a)
  <1>1. act[a] \in ActRow /\ NoAct \in ActRow /\ NoAct.pc = "idle" /\ NoAct.rec = 0
    BY DEF NoAct, ActRow
  <1> QED
    BY <1>1 DEF EndsRow, Ended, ActRow

LEMMA NotAlone ==
    ASSUME NEW e \in ActRow, NEW d, d = [e EXCEPT !.alone = FALSE]
    PROVE  d \in ActRow /\ d.pc = e.pc /\ d.rec = e.rec /\ d.want = e.want /\ d.late = e.late
           /\ d.spoilt = e.spoilt /\ d.alone = FALSE
  BY DEF ActRow

LEMMA AdviceRead ==
    ASSUME AdviceInv, NEW a \in Actors, Read(a)
    PROVE  AdviceInv'
  <1>1. AdviceTyped /\ EvalInv /\ RecInv
    BY DEF AdviceInv
  <1> DEFINE others == {b \in Actors \ {a} : Evaluating(b)}
             alone == ~\E b \in Actors \ {a} : Replacing(b)
  <1>2. /\ UNCHANGED <<policy, bad, breaches, feed, recs, gen, stale, crossed>> /\ act[a].pc = "read"
        /\ policy.there =>
              /\ act' = [Crowded(act) EXCEPT ![a] = [@ EXCEPT !.pc = "purge", !.want = Violations,
                                                              !.late = FALSE, !.spoilt = FALSE, !.alone = alone]]
              /\ single' = (single /\ others = {})
        /\ ~policy.there => act' = [act EXCEPT ![a] = Ended(a)] /\ single' = single
    BY DEF Read
  <1>3. act \in [Actors -> ActRow] /\ Violations \in SUBSET Resources /\ alone \in BOOLEAN
    BY <1>1 DEF AdviceTyped, Violations
  <1> HIDE DEF alone, others
  <1>4. policy.there =>
           /\ act' \in [Actors -> ActRow] /\ single' \in BOOLEAN
           /\ \A b \in Actors : b # a => /\ act'[b].pc = act[b].pc /\ act'[b].rec = act[b].rec
                                         /\ act'[b].want = act[b].want /\ act'[b].late = act[b].late
                                         /\ act'[b].spoilt = act[b].spoilt /\ act'[b].alone = FALSE
           /\ act'[a].pc = "purge" /\ act'[a].rec = act[a].rec /\ act'[a].want = Violations
           /\ act'[a].late = FALSE /\ act'[a].alone = alone
    <2>1. /\ Crowded(act) \in [Actors -> ActRow]
          /\ \A b \in Actors : Crowded(act)[b] = [act[b] EXCEPT !.alone = FALSE]
      BY <1>3 DEF Crowded, ActRow
    <2>2. ASSUME policy.there
          PROVE  /\ \A b \in Actors : b # a => act'[b] = [act[b] EXCEPT !.alone = FALSE]
                 /\ act'[a] = [[act[a] EXCEPT !.alone = FALSE] EXCEPT !.pc = "purge", !.want = Violations,
                                                                     !.late = FALSE, !.spoilt = FALSE, !.alone = alone]
                 /\ act' = [b \in Actors |-> act'[b]]
      BY <1>2, <2>1, <2>2
    <2>3. ASSUME policy.there
          PROVE  /\ \A b \in Actors : act'[b] \in ActRow
                 /\ \A b \in Actors : b # a => /\ act'[b].pc = act[b].pc /\ act'[b].rec = act[b].rec
                                               /\ act'[b].want = act[b].want /\ act'[b].late = act[b].late
                                               /\ act'[b].spoilt = act[b].spoilt /\ act'[b].alone = FALSE
                 /\ act'[a].pc = "purge" /\ act'[a].rec = act[a].rec /\ act'[a].want = Violations
                 /\ act'[a].late = FALSE /\ act'[a].alone = alone
      <3>1. PICK e \in ActRow : e = act[a]
        BY <1>3
      <3>2. PICK n \in BOOLEAN, w \in SUBSET Resources : n = alone /\ w = Violations
        BY <1>3
      <3>3. PICK d \in ActRow : d = [e EXCEPT !.alone = FALSE] /\ d.rec = e.rec
        <4>1. PICK d : d = [e EXCEPT !.alone = FALSE]
          OBVIOUS
        <4> QED
          BY <4>1, NotAlone
      <3>4. act'[a] = [d EXCEPT !.pc = "purge", !.want = w, !.late = FALSE, !.spoilt = FALSE, !.alone = n]
        BY <2>2, <2>3, <3>1, <3>2, <3>3
      <3>5. /\ act'[a] \in ActRow /\ act'[a].pc = "purge" /\ act'[a].rec = d.rec /\ act'[a].want = w
            /\ act'[a].late = FALSE /\ act'[a].alone = n
        BY <3>4 DEF ActRow
      <3>6. ASSUME NEW b \in Actors, b # a
            PROVE  /\ act'[b].pc = act[b].pc /\ act'[b].rec = act[b].rec
                   /\ act'[b].want = act[b].want /\ act'[b].late = act[b].late
                   /\ act'[b].spoilt = act[b].spoilt /\ act'[b].alone = FALSE /\ act'[b] \in ActRow
        <4>1. act[b] \in ActRow /\ act'[b] = [act[b] EXCEPT !.alone = FALSE]
          BY <1>3, <2>2, <2>3, <3>6
        <4> QED
          BY <4>1, NotAlone
      <3> QED
        BY <1>3, <3>1, <3>2, <3>3, <3>5, <3>6
    <2>4. policy.there => act' \in [Actors -> ActRow] /\ single' \in BOOLEAN
      BY <1>1, <1>2, <2>2, <2>3 DEF AdviceTyped
    <2> QED
      BY <2>3, <2>4
  <1>5. ~policy.there =>
           /\ act' \in [Actors -> ActRow] /\ single' \in BOOLEAN
           /\ \A b \in Actors : b # a => act'[b] = act[b]
           /\ act'[a].rec = act[a].rec
           /\ act'[a].pc = IF act[a].rec = 0 THEN "idle" ELSE "mark"
    <2>1. EndsRow(a)
      BY <1>3, EndsWhat
    <2> QED
      BY <1>1, <1>2, <1>3, <2>1 DEF EndsRow, AdviceTyped
  <1>6. AdviceTyped'
    BY <1>1, <1>2, <1>4, <1>5 DEF AdviceTyped
  <1>7. RecInv'
    <2>1. \A b \in Actors : /\ act[b].pc \in {"idle", "erase"} => act[b].rec = 0
                            /\ act[b].pc \in {"change", "mark", "dismiss"} => act[b].rec # 0
      BY <1>1 DEF RecInv, ActsRight
    <2>2. policy.there \in BOOLEAN
      BY <1>1 DEF AdviceTyped
    <2>3. \A b \in Actors : 
               /\ act'[b].rec = act[b].rec
               /\ act'[b].pc \in {"change", "dismiss"} <=> act[b].pc \in {"change", "dismiss"}
               /\ act'[b].pc \in {"idle", "erase"} => act[b].rec = 0
               /\ act'[b].pc \in {"change", "mark", "dismiss"} => act[b].rec # 0
      BY <1>2, <1>4, <1>5, <2>1, <2>2
    <2> QED
      BY <1>1, <1>2, <2>3, RecRests
  <1>8. EvalInv'
    <2>1. CASE ~policy.there
      <3>1. \A b \in Actors : b = a => Aside(act[b].pc) /\ Aside(act'[b].pc)
        BY <1>2, <1>5, <2>1 DEF Aside
      <3>2. \A b \in Actors :
               \/ /\ act'[b].pc = act[b].pc /\ act'[b].want = act[b].want /\ act'[b].late = act[b].late
                  /\ act'[b].spoilt = act[b].spoilt /\ act'[b].alone = act[b].alone
               \/ Aside(act[b].pc) /\ Aside(act'[b].pc)
        BY <1>5, <2>1, <3>1
      <3> QED
        BY <1>1, <1>2, <2>1, <3>2, EvalRests
    <2>2. CASE policy.there
      <3>1. /\ \A b \in Actors : b # a => (Evaluating(b)' <=> Evaluating(b)) /\ (Telling(b)' <=> Telling(b))
            /\ Evaluating(a)' /\ ~Evaluating(a) /\ ~Telling(a)' /\ ~Telling(a)
        BY <1>2, <1>4, <2>2 DEF Evaluating, Telling
      <3>2. Expected' = Expected /\ Shown' = Shown /\ NoRows' = NoRows /\ OneRow' = OneRow /\ Violations = Expected
        BY <1>2, <2>2 DEF Expected, Violations, Shown, NoRows, OneRow
      <3>6. FreshRight'
        BY <1>1, <1>2, <1>4, <2>2, <3>1, <3>2 DEF EvalInv, FreshRight
      <3>7. ShownRight'
        <4>1. /\ (\E b \in Actors : Telling(b)') => \E b \in Actors : Telling(b)
              /\ (\E b \in Actors : Telling(b)' /\ act'[b].pc = "count") => \E b \in Actors : Telling(b) /\ act[b].pc = "count"
              /\ (\A b \in Actors : act'[b].pc # "file") => \A b \in Actors : act[b].pc # "file"
          BY <1>2, <1>4, <2>2, <3>1
        <4> QED
          BY <1>1, <1>2, <2>2, <3>2, <4>1 DEF EvalInv, ShownRight
      <3>8. AloneRight'
        <4>1. single' \/ act'[a].alone => \A b \in Actors : Evaluating(b)' => a = b
          BY <1>2, <1>4, <2>2, <3>1 DEF others, alone, Replacing
        <4>2. ASSUME NEW b \in Actors, Evaluating(b)', single' \/ act'[b].alone
              PROVE  b = a
          BY <1>2, <1>4, <2>2, <3>1, <4>1, <4>2
        <4>3. single' => OneRow'
          BY <1>1, <1>2, <2>2, <3>2 DEF EvalInv, AloneRight
        <4>4. \A b \in Actors : act'[b].pc = "erase" => ~act'[b].alone
          BY <1>4, <2>2
        <4> QED
          BY <1>4, <2>2, <4>1, <4>2, <4>3, <4>4 DEF AloneRight
      <3> QED
        BY <3>6, <3>7, <3>8 DEF EvalInv
    <2> QED
      BY <2>1, <2>2
  <1> QED
    BY <1>6, <1>7, <1>8 DEF AdviceInv

\* Who evaluates goes on with what he has read; if that is outdated, nobody else
\* tells the facts from here.
WrittenRight(a, pc) ==
    /\ act' \in [Actors -> ActRow]
    /\ \A b \in Actors :
          /\ act'[b].rec = act[b].rec /\ act'[b].want = act[b].want
          /\ act'[b].late = act[b].late /\ act'[b].alone = act[b].alone
          /\ act'[b].pc = IF b = a THEN pc ELSE act[b].pc
          /\ ~act[a].late => act'[b].spoilt = act[b].spoilt
          /\ act[a].late /\ b # a /\ act[b].pc \in {"file", "count"} => act'[b].spoilt
          /\ Evaluating(b)' <=> Evaluating(b)
    /\ stale' \in BOOLEAN /\ stale' = (stale \/ act[a].late)

LEMMA WrittenWhat ==
    ASSUME AdviceTyped, NEW a \in Actors, Evaluating(a), NEW pc \in {"file", "count"},
           Written(a, [act EXCEPT ![a].pc = pc])
    PROVE  WrittenRight(a, pc)
  <1> DEFINE next == [act EXCEPT ![a].pc = pc]
  <1>1. act \in [Actors -> ActRow] /\ stale \in BOOLEAN /\ act[a].late \in BOOLEAN
    BY DEF AdviceTyped, ActRow
  <1>2. /\ next \in [Actors -> ActRow]
        /\ \A b \in Actors : b # a => next[b] = act[b]
        /\ next[a].pc = pc /\ next[a].rec = act[a].rec /\ next[a].want = act[a].want
        /\ next[a].late = act[a].late /\ next[a].spoilt = act[a].spoilt /\ next[a].alone = act[a].alone
    BY <1>1 DEF ActRow
  <1>3. /\ act[a].late => act' = Spoils(a, next)
        /\ ~act[a].late => act' = next
        /\ stale' = (stale \/ act[a].late)
    BY DEF Written
  <1> HIDE DEF next
  <1>4. ASSUME NEW b \in Actors, act[a].late
        PROVE  /\ act'[b] \in ActRow
               /\ act'[b].rec = next[b].rec /\ act'[b].want = next[b].want /\ act'[b].pc = next[b].pc
               /\ act'[b].late = next[b].late /\ act'[b].alone = next[b].alone
               /\ b # a /\ act[b].pc \in {"file", "count"} => act'[b].spoilt
    <2>1. act'[b] = IF b # a /\ act[b].pc \in {"file", "count"} THEN [next[b] EXCEPT !.spoilt = TRUE] ELSE next[b]
      BY <1>3, <1>4 DEF Spoils
    <2>2. PICK e \in ActRow : e = next[b]
      BY <1>2
    <2>3. PICK d : d = [e EXCEPT !.spoilt = TRUE]
      OBVIOUS
    <2>4. /\ d \in ActRow /\ d.rec = e.rec /\ d.want = e.want /\ d.pc = e.pc /\ d.late = e.late
          /\ d.alone = e.alone /\ d.spoilt = TRUE
      BY <2>2, <2>3 DEF ActRow
    <2>5. CASE b # a /\ act[b].pc \in {"file", "count"}
      BY <2>1, <2>2, <2>3, <2>4, <2>5
    <2>6. CASE ~(b # a /\ act[b].pc \in {"file", "count"})
      BY <2>1, <2>2, <2>6
    <2> QED
      BY <2>5, <2>6
  <1>5. act' \in [Actors -> ActRow]
    <2>1. CASE act[a].late
      BY <1>3, <1>4, <2>1 DEF Spoils
    <2>2. CASE ~act[a].late
      BY <1>2, <1>3, <2>2
    <2> QED
      BY <2>1, <2>2
  <1>6. ASSUME NEW b \in Actors
        PROVE  /\ act'[b].rec = act[b].rec /\ act'[b].want = act[b].want
               /\ act'[b].late = act[b].late /\ act'[b].alone = act[b].alone
               /\ act'[b].pc = IF b = a THEN pc ELSE act[b].pc
               /\ ~act[a].late => act'[b].spoilt = act[b].spoilt
               /\ act[a].late /\ b # a /\ act[b].pc \in {"file", "count"} => act'[b].spoilt
    <2>1. CASE act[a].late
      BY <1>2, <1>4, <2>1
    <2>2. CASE ~act[a].late
      BY <1>2, <1>3, <2>2
    <2> QED
      BY <2>1, <2>2
  <1>7. \A b \in Actors : Evaluating(b)' <=> Evaluating(b)
    BY <1>6 DEF Evaluating
  <1>8. stale' \in BOOLEAN
    BY <1>1, <1>3
  <1> QED
    BY <1>3, <1>5, <1>6, <1>7, <1>8 DEF WrittenRight

\* What an evaluation of former facts writes is not said to be right.
LEMMA LateWrites ==
    ASSUME NEW a \in Actors, NEW pc, WrittenRight(a, pc), act[a].late
    PROVE  ShownRight'
  <1>1. stale' /\ act'[a].late
    BY DEF WrittenRight
  <1>2. \A b \in Actors : ~Telling(b)'
    <2>1. ASSUME NEW b \in Actors, b # a
          PROVE  ~Telling(b)'
      BY <2>1 DEF WrittenRight, Telling
    <2> QED
      BY <1>1, <2>1 DEF Telling
  <1> QED
    BY <1>1, <1>2 DEF ShownRight

LEMMA EvalKeepsRecs ==
    ASSUME RecInv, recs' = recs, crossed' = crossed, gen' = gen, NEW a \in Actors, Evaluating(a), Evaluating(a)',
           \A b \in Actors : act'[b].rec = act[b].rec /\ (b # a => act'[b].pc = act[b].pc)
    PROVE  RecInv'
  <1>1. \A b \in Actors : /\ act[b].pc \in {"idle", "erase"} => act[b].rec = 0
                          /\ act[b].pc \in {"change", "mark", "dismiss"} => act[b].rec # 0
    BY DEF RecInv, ActsRight
  <1>2. act[a].pc \in {"purge", "file", "count"} /\ act'[a].pc \in {"purge", "file", "count"}
    BY DEF Evaluating
  <1>3. \A b \in Actors :
            /\ act'[b].rec = act[b].rec
            /\ act'[b].pc \in {"change", "dismiss"} <=> act[b].pc \in {"change", "dismiss"}
            /\ act'[b].pc \in {"idle", "erase"} => act[b].rec = 0
            /\ act'[b].pc \in {"change", "mark", "dismiss"} => act[b].rec # 0
    <2>1. ASSUME NEW b \in Actors, b = a
          PROVE  /\ act'[b].rec = act[b].rec
                 /\ act'[b].pc \in {"change", "dismiss"} <=> act[b].pc \in {"change", "dismiss"}
                 /\ act'[b].pc \notin {"idle", "erase"} /\ act'[b].pc \notin {"change", "mark", "dismiss"}
      BY <1>2, <2>1
    <2> QED
      BY <1>1, <2>1
  <1> QED
    BY <1>3, RecRests

LEMMA AdvicePurge ==
    ASSUME AdviceInv, NEW a \in Actors, Purge(a)
    PROVE  AdviceInv'
  <1>1. AdviceTyped /\ EvalInv /\ RecInv /\ FreshRight /\ ShownRight /\ AloneRight
    BY DEF AdviceInv, EvalInv
  <1> DEFINE pc == IF act[a].want = {} THEN "count" ELSE "file"
  <1>2. /\ UNCHANGED <<policy, bad, feed, recs, gen, single, crossed>> /\ act[a].pc = "purge"
        /\ breaches' = [r \in Resources |-> 0] /\ Written(a, [act EXCEPT ![a].pc = pc])
    BY DEF Purge
  <1>3. Evaluating(a) /\ pc \in {"file", "count"}
    BY <1>2 DEF Evaluating
  <1>4. WrittenRight(a, pc)
    BY <1>1, <1>2, <1>3, WrittenWhat
  <1>5. AdviceTyped'
    BY <1>1, <1>2, <1>4 DEF AdviceTyped, WrittenRight
  <1>6. RecInv'
    BY <1>1, <1>2, <1>3, <1>4, EvalKeepsRecs DEF WrittenRight
  <1>7. Expected' = Expected /\ Shown' = {} /\ NoRows' /\ OneRow'
    BY <1>2 DEF Expected, Violations, Shown, NoRows, OneRow
  <1>8. FreshRight'
    BY <1>1, <1>2, <1>4, <1>7 DEF FreshRight, WrittenRight
  <1>9. ShownRight'
    <2>1. CASE act[a].late
      BY <1>4, <2>1, LateWrites
    <2>2. CASE ~act[a].late
      <3>1. policy.there /\ act[a].want = Expected /\ stale' = stale
        BY <1>1, <1>3, <1>4, <2>2 DEF FreshRight, WrittenRight, AdviceTyped
      <3>2. (\A b \in Actors : act'[b].pc # "file") => Expected = {}
        BY <1>4, <3>1 DEF WrittenRight
      <3> QED
        BY <1>1, <1>2, <1>7, <3>1, <3>2 DEF ShownRight
    <2> QED
      BY <2>1, <2>2
  <1>10. AloneRight'
    BY <1>1, <1>2, <1>3, <1>4, <1>7 DEF AloneRight, WrittenRight
  <1> QED
    BY <1>5, <1>6, <1>8, <1>9, <1>10 DEF AdviceInv, EvalInv

LEMMA AdviceFile ==
    ASSUME AdviceInv, NEW a \in Actors, File(a)
    PROVE  AdviceInv'
  <1>1. AdviceTyped /\ EvalInv /\ RecInv /\ FreshRight /\ ShownRight /\ AloneRight
    BY DEF AdviceInv, EvalInv
  <1> DEFINE want == act[a].want
  <1>2. /\ UNCHANGED <<policy, bad, feed, recs, gen, single, crossed>> /\ act[a].pc = "file"
        /\ breaches' = [r \in Resources |-> breaches[r] + IF r \in want THEN 1 ELSE 0]
        /\ Written(a, [act EXCEPT ![a].pc = "count"])
    BY DEF File
  <1>3. Evaluating(a)
    BY <1>2 DEF Evaluating
  <1>4. WrittenRight(a, "count")
    BY <1>1, <1>2, <1>3, WrittenWhat
  <1>5. /\ breaches \in [Resources -> Nat] /\ breaches' \in [Resources -> Nat] /\ want \subseteq Resources
        /\ \A r \in Resources : /\ r \in want => breaches'[r] = breaches[r] + 1
                                /\ r \notin want => breaches'[r] = breaches[r]
    <2>1. breaches \in [Resources -> Nat] /\ act[a] \in ActRow
      BY <1>1 DEF AdviceTyped
    <2>2. want \subseteq Resources
      BY <2>1 DEF ActRow
    <2> HIDE DEF want
    <2>3. \A r \in Resources : breaches'[r] = breaches[r] + (IF r \in want THEN 1 ELSE 0) /\ breaches'[r] \in Nat
      BY <1>2, <2>1
    <2>4. breaches' = [r \in Resources |-> breaches'[r]]
      BY <1>2
    <2>5. breaches' \in [Resources -> Nat]
      BY <2>3, <2>4
    <2> QED
      BY <2>1, <2>2, <2>3, <2>5
  <1> HIDE DEF want
  <1>6. AdviceTyped'
    BY <1>1, <1>2, <1>4, <1>5 DEF AdviceTyped, WrittenRight
  <1>7. RecInv'
    BY <1>1, <1>2, <1>3, <1>4, EvalKeepsRecs DEF WrittenRight
  <1>8. /\ Expected' = Expected /\ Shown' = Shown \cup want
        /\ NoRows => OneRow'
    BY <1>2, <1>5 DEF Expected, Violations, Shown, NoRows, OneRow
  <1>9. FreshRight'
    BY <1>1, <1>2, <1>4, <1>8 DEF FreshRight, WrittenRight
  <1>10. ShownRight'
    <2>1. CASE act[a].late
      BY <1>4, <2>1, LateWrites
    <2>2. CASE ~act[a].late
      <3>1. policy.there /\ want = Expected /\ stale' = stale
        BY <1>1, <1>3, <1>4, <2>2 DEF FreshRight, WrittenRight, AdviceTyped, want
      <3>2. (\E b \in Actors : Telling(b)') => \E b \in Actors : Telling(b)
        BY <1>2, <1>4, <2>2 DEF Telling, WrittenRight
      <3>3. ~stale' \/ (\E b \in Actors : Telling(b)') => Shown' = Expected'
        BY <1>1, <1>8, <3>1, <3>2 DEF ShownRight
      <3> QED
        BY <1>1, <1>2, <1>8, <3>1, <3>3 DEF ShownRight
    <2> QED
      BY <2>1, <2>2
  <1>11. AloneRight'
    <2>1. ASSUME NEW b \in Actors, Evaluating(b)', single' \/ act'[b].alone
          PROVE  /\ \A c \in Actors : Evaluating(c)' => b = c
                 /\ b = a /\ NoRows
      <3>1. Evaluating(b) /\ (single \/ act[b].alone)
        BY <1>2, <1>4, <2>1 DEF WrittenRight
      <3>2. b = a /\ \A c \in Actors : Evaluating(c) => b = c
        BY <1>1, <1>3, <3>1 DEF AloneRight
      <3> QED
        BY <1>1, <1>2, <1>3, <1>4, <3>1, <3>2 DEF AloneRight, WrittenRight
    <2>2. ~\E b \in Actors : act'[b].pc = "erase" /\ act'[b].alone
      BY <1>1, <1>2, <1>3, <1>4 DEF AloneRight, WrittenRight
    <2>3. single' => OneRow'
      BY <1>1, <1>2, <1>3, <1>8 DEF AloneRight
    <2> QED
      BY <1>3, <1>4, <1>8, <2>1, <2>2, <2>3 DEF AloneRight, WrittenRight
  <1> QED
    BY <1>6, <1>7, <1>9, <1>10, <1>11 DEF AdviceInv, EvalInv

LEMMA AdviceCount ==
    ASSUME AdviceInv, NEW a \in Actors, Count(a)
    PROVE  AdviceInv'
  <1> USE AdviceAssumption
  <1>1. AdviceTyped /\ EvalInv /\ RecInv /\ FreshRight /\ ShownRight /\ AloneRight
    BY DEF AdviceInv, EvalInv
  <1>2. /\ UNCHANGED <<bad, breaches, feed, recs, gen>> /\ act[a].pc = "count"
        /\ policy.there => /\ policy' = [policy EXCEPT !.count = Cardinality(act[a].want)]
                           /\ act' = [act EXCEPT ![a] = Ended(a)]
                           /\ stale' = (act[a].late \/ (stale /\ act[a].spoilt)) /\ crossed' = crossed
        /\ ~policy.there => /\ act' = [act EXCEPT ![a] = NoAct]
                            /\ crossed' = crossed \cup ({act[a].rec} \ {0})
                            /\ UNCHANGED <<policy, stale>>
        /\ single' = (single \/ act[a].alone)
    BY DEF Count
  <1>3. /\ Evaluating(a) /\ act \in [Actors -> ActRow] /\ act[a] \in ActRow
        /\ NoAct \in ActRow /\ NoAct.pc = "idle" /\ NoAct.rec = 0 /\ policy.there \in BOOLEAN
        /\ stale \in BOOLEAN /\ single \in BOOLEAN
    BY <1>1, <1>2, AdviceTypes DEF Evaluating, AdviceTyped, NoAct
  <1>4. act[a].alone \in BOOLEAN /\ act[a].late \in BOOLEAN /\ act[a].spoilt \in BOOLEAN /\ act[a].want \in SUBSET Resources
    BY <1>3 DEF ActRow
  <1>5. EndsRow(a)
    BY <1>3, EndsWhat
  <1>6. /\ act' \in [Actors -> ActRow]
        /\ \A b \in Actors : b # a => act'[b] = act[b]
        /\ policy.there => act'[a] = Ended(a)
        /\ ~policy.there => act'[a] = NoAct
    BY <1>2, <1>3, <1>5 DEF EndsRow
  <1>7. act'[a].pc \in {"idle", "mark"}
    BY <1>3, <1>5, <1>6 DEF EndsRow
  <1>8. /\ policy' \in [there : BOOLEAN, enabled : BOOLEAN, effect : {"audit", "alert"}, count : Nat]
        /\ policy'.there = policy.there /\ policy'.enabled = policy.enabled
        /\ policy.there => policy'.count = Cardinality(act[a].want)
        /\ ~policy.there => policy' = policy
    <2>1. Cardinality(act[a].want) \in Nat
      BY <1>4, FS_Subset, FS_CardinalityType DEF AdviceAssumption
    <2>2. policy \in [there : BOOLEAN, enabled : BOOLEAN, effect : {"audit", "alert"}, count : Nat]
      BY <1>1 DEF AdviceTyped
    <2> QED
      BY <1>2, <2>1, <2>2
  <1>9. AdviceTyped'
    <2>1. stale' \in BOOLEAN /\ single' \in BOOLEAN
      BY <1>2, <1>3, <1>4
    <2> QED
      BY <1>1, <1>2, <1>6, <1>8, <2>1 DEF AdviceTyped
  <1>10. RecInv'
    <2>1. CASE policy.there
      <3>1. act'[a].rec = act[a].rec /\ act'[a].pc = IF act[a].rec = 0 THEN "idle" ELSE "mark"
        BY <1>5, <1>6, <2>1 DEF EndsRow
      <3>2. \A b \in Actors : /\ act[b].pc \in {"idle", "erase"} => act[b].rec = 0
                              /\ act[b].pc \in {"change", "mark", "dismiss"} => act[b].rec # 0
        BY <1>1 DEF RecInv, ActsRight
      <3>3. \A b \in Actors : 
               /\ act'[b].rec = act[b].rec
               /\ act'[b].pc \in {"change", "dismiss"} <=> act[b].pc \in {"change", "dismiss"}
               /\ act'[b].pc \in {"idle", "erase"} => act[b].rec = 0
               /\ act'[b].pc \in {"change", "mark", "dismiss"} => act[b].rec # 0
        BY <1>2, <1>6, <3>1, <3>2
      <3> QED
        BY <1>1, <1>2, <2>1, <3>3, RecRests
    <2>2. CASE ~policy.there
      <3>1. crossed \subseteq crossed' /\ (act[a].rec = 0 \/ act[a].rec \in crossed')
        BY <1>2, <2>2
      <3>2. \A b \in Actors : \/ act'[b].rec = act[b].rec /\ act'[b].pc = act[b].pc
                              \/ act'[b] = NoAct /\ (act[b].rec = 0 \/ act[b].rec \in crossed')
        BY <1>6, <2>2, <3>1
      <3> QED
        BY <1>1, <1>2, <3>1, <3>2, RecBreaksOff
    <2> QED
      BY <1>3, <2>1, <2>2
  <1>11. /\ Expected' = Expected /\ Shown' = Shown /\ NoRows' = NoRows /\ OneRow' = OneRow
         /\ ~Evaluating(a)' /\ ~Telling(a)'
         /\ \A b \in Actors : b # a => (Evaluating(b)' <=> Evaluating(b)) /\ (Telling(b)' <=> Telling(b))
    BY <1>2, <1>6, <1>7, <1>8 DEF Expected, Violations, Shown, NoRows, OneRow, Evaluating, Telling
  <1>13. FreshRight'
    BY <1>1, <1>6, <1>8, <1>11 DEF FreshRight
  <1>14. ShownRight'
    <2>1. /\ (\E b \in Actors : Telling(b)') => \E b \in Actors : Telling(b)
          /\ (\E b \in Actors : Telling(b)' /\ act'[b].pc = "count") => \E b \in Actors : Telling(b) /\ act[b].pc = "count"
          /\ (\A b \in Actors : act'[b].pc # "file") => \A b \in Actors : act[b].pc # "file"
      BY <1>2, <1>6, <1>11
    <2>2. CASE act[a].late \/ ~policy.there
      <3>1. ~stale' => ~stale /\ ~policy.there
        BY <1>2, <2>2
      <3>2. ~stale'  => FALSE
        BY <1>1, <1>3, <3>1 DEF ShownRight
      <3> QED
        BY <1>1, <1>11, <2>1, <3>2 DEF ShownRight
    <2>3. CASE ~act[a].late /\ policy.there
      <3>1. act[a].want = Expected
        BY <1>1, <1>3, <2>3 DEF FreshRight
      <3>2. ~stale' => ~stale \/ (Telling(a) /\ act[a].pc = "count")
        BY <1>2, <1>4, <2>3 DEF Telling
      <3>3. ~stale' \/ (\E b \in Actors : Telling(b)') => Shown' \subseteq Expected'
        BY <1>1, <1>11, <2>1, <3>2 DEF ShownRight
      <3>4. (~stale' \/ \E b \in Actors : Telling(b)' /\ act'[b].pc = "count") /\ (\A b \in Actors : act'[b].pc # "file")
               => Shown' = Expected'
        BY <1>1, <1>11, <2>1, <3>2 DEF ShownRight
      <3>5. policy'.count = Cardinality(Expected') /\ policy'.there
        BY <1>8, <1>11, <2>3, <3>1
      <3> QED
        BY <3>3, <3>4, <3>5 DEF ShownRight
    <2> QED
      BY <1>3, <2>2, <2>3
  <1>15. AloneRight'
    <2>1. ASSUME NEW b \in Actors, Evaluating(b)', single' \/ act'[b].alone
          PROVE  FALSE
      <3>1. b # a /\ Evaluating(b) /\ act'[b] = act[b]
        BY <1>6, <1>11, <2>1
      <3>2. single \/ act[a].alone \/ act[b].alone
        BY <1>2, <2>1, <3>1
      <3> QED
        BY <1>1, <1>3, <3>1, <3>2 DEF AloneRight
    <2>2. ~\E b \in Actors : act'[b].pc = "erase" /\ act'[b].alone
      BY <1>1, <1>3, <1>6, <1>7 DEF AloneRight
    <2>3. single' => OneRow'
      BY <1>1, <1>2, <1>3, <1>11 DEF AloneRight
    <2> QED
      BY <2>1, <2>2, <2>3 DEF AloneRight
  <1> QED
    BY <1>9, <1>10, <1>13, <1>14, <1>15 DEF AdviceInv, EvalInv

(***************************************************************************)
(* The facts change: whoever has read them is outdated.                    *)
(***************************************************************************)
LEMMA OutdatedWhat ==
    ASSUME NEW b \in [Actors -> ActRow]
    PROVE  /\ Outdated(b) \in [Actors -> ActRow]
           /\ \A c \in Actors : /\ Outdated(b)[c].pc = b[c].pc /\ Outdated(b)[c].rec = b[c].rec
                                /\ Outdated(b)[c].alone = b[c].alone
                                /\ Evaluating(c) => Outdated(b)[c].late
                                /\ ~Evaluating(c) => Outdated(b)[c] = b[c]
  <1> DEFINE o(c) == IF Evaluating(c) THEN [b[c] EXCEPT !.late = TRUE] ELSE b[c]
  <1>1. ASSUME NEW c \in Actors
        PROVE  /\ o(c) \in ActRow /\ o(c).pc = b[c].pc /\ o(c).rec = b[c].rec /\ o(c).alone = b[c].alone
               /\ Evaluating(c) => o(c).late
    <2>1. b[c] \in ActRow
      OBVIOUS
    <2>2. CASE Evaluating(c)
      <3>1. PICK d : d = [b[c] EXCEPT !.late = TRUE]
        OBVIOUS
      <3>2. d \in ActRow /\ d.pc = b[c].pc /\ d.rec = b[c].rec /\ d.alone = b[c].alone /\ d.late = TRUE
        BY <2>1, <3>1 DEF ActRow
      <3> QED
        BY <2>2, <3>1, <3>2
    <2>3. CASE ~Evaluating(c)
      BY <2>1, <2>3
    <2> QED
      BY <2>2, <2>3
  <1>2. Outdated(b) = [c \in Actors |-> o(c)]
    BY DEF Outdated
  <1>3. \A c \in Actors : ~Evaluating(c) => o(c) = b[c]
    OBVIOUS
  <1> HIDE DEF o
  <1> QED
    BY <1>1, <1>2, <1>3

LEMMA EvalShifts ==
    ASSUME EvalInv, single' = single, breaches' = breaches \/ NoRows',
           \A c \in Actors : Evaluating(c)' => act'[c].late /\ act'[c].pc = act[c].pc /\ act'[c].alone = act[c].alone,
           \A c \in Actors : act'[c].pc = "erase" /\ act'[c].alone => NoRows' /\ \A d \in Actors : ~Evaluating(d)',
           stale' \/ (NoRows' /\ (\A d \in Actors : ~Evaluating(d)') /\ ~policy'.there)
    PROVE  EvalInv'
  <1>1. \A c \in Actors : /\ ~Telling(c)' /\ (Evaluating(c)' => Evaluating(c))
                          /\ act'[c].pc \in {"file", "count"} => Evaluating(c)'
    BY DEF Telling, Evaluating
  <1>2. FreshRight'
    BY DEF FreshRight
  <1>3. ShownRight'
    <2>1. NoRows' /\ ~policy'.there => Shown' = {} /\ Expected' = {}
      BY DEF NoRows, Shown, Expected
    <2> QED
      BY <1>1, <2>1 DEF ShownRight
  <1>4. AloneRight'
    <2>1. breaches' = breaches => (NoRows' <=> NoRows) /\ (OneRow' <=> OneRow)
      BY DEF NoRows, OneRow
    <2>2. NoRows' => OneRow'
      BY DEF NoRows, OneRow
    <2>3. AloneRight
      BY DEF EvalInv
    <2>4. ASSUME NEW a \in Actors, Evaluating(a)', single' \/ act'[a].alone
          PROVE  /\ \A b \in Actors : Evaluating(b)' => a = b
                 /\ act'[a].pc = "file" => NoRows'
                 /\ act'[a].pc = "count" => OneRow'
      <3>1. Evaluating(a) /\ (single \/ act[a].alone) /\ act'[a].pc = act[a].pc
        BY <1>1, <2>4
      <3> QED
        BY <1>1, <2>1, <2>2, <2>3, <3>1 DEF AloneRight
    <2>5. single' => OneRow'
      BY <2>1, <2>2, <2>3 DEF AloneRight
    <2> QED
      BY <2>4, <2>5 DEF AloneRight
  <1> QED
    BY <1>2, <1>3, <1>4 DEF EvalInv

LEMMA AdviceEditPolicy ==
    ASSUME AdviceInv, NEW a \in Admins, NEW does \in {"audit", "alert"}, NEW enabled \in BOOLEAN,
           EditPolicy(a, does, enabled)
    PROVE  AdviceInv'
  <1>1. AdviceTyped /\ EvalInv /\ RecInv
    BY DEF AdviceInv
  <1> DEFINE next == [act EXCEPT ![a].pc = "read"]
             shifts == enabled # policy.enabled
  <1>2. /\ UNCHANGED <<bad, breaches, feed, recs, gen, single, crossed>> /\ act[a] = NoAct
        /\ policy' = [policy EXCEPT !.effect = does, !.enabled = enabled]
        /\ act' = (IF shifts THEN Outdated(next) ELSE next) /\ stale' = (stale \/ shifts)
    BY DEF EditPolicy
  <1>3. act \in [Actors -> ActRow] /\ a \in Actors /\ NoAct.pc = "idle" /\ NoAct.rec = 0 /\ stale \in BOOLEAN
        /\ policy \in [there : BOOLEAN, enabled : BOOLEAN, effect : {"audit", "alert"}, count : Nat]
    BY <1>1 DEF AdviceTyped, NoAct, Actors
  <1>4. /\ next \in [Actors -> ActRow]
        /\ \A b \in Actors : b # a => next[b] = act[b]
        /\ next[a].pc = "read" /\ next[a].rec = 0
    BY <1>2, <1>3 DEF ActRow
  <1> HIDE DEF next
  <1>5. /\ act' \in [Actors -> ActRow]
        /\ \A b \in Actors : /\ act'[b].pc = next[b].pc /\ act'[b].rec = next[b].rec /\ act'[b].alone = next[b].alone
                             /\ shifts /\ Evaluating(b) => act'[b].late
                             /\ ~shifts => act'[b] = next[b]
    BY <1>2, <1>4, OutdatedWhat
  <1>6. /\ policy' \in [there : BOOLEAN, enabled : BOOLEAN, effect : {"audit", "alert"}, count : Nat]
        /\ policy'.there = policy.there /\ policy'.enabled = enabled /\ policy'.count = policy.count
    BY <1>2, <1>3
  <1>7. AdviceTyped'
    BY <1>1, <1>2, <1>3, <1>5, <1>6 DEF AdviceTyped
  <1>8. RecInv'
    <2>1. \A b \in Actors : /\ act[b].pc \in {"idle", "erase"} => act[b].rec = 0
                            /\ act[b].pc \in {"change", "mark", "dismiss"} => act[b].rec # 0
      BY <1>1 DEF RecInv, ActsRight
    <2>2. \A b \in Actors :
               /\ act'[b].rec = act[b].rec
               /\ act'[b].pc \in {"change", "dismiss"} <=> act[b].pc \in {"change", "dismiss"}
               /\ act'[b].pc \in {"idle", "erase"} => act[b].rec = 0
               /\ act'[b].pc \in {"change", "mark", "dismiss"} => act[b].rec # 0
      BY <1>2, <1>3, <1>4, <1>5, <2>1
    <2> QED
      BY <1>1, <1>2, <2>2, RecRests
  <1>9. EvalInv'
    <2>1. CASE ~shifts
      <3>1. \A b \in Actors : \/ /\ act'[b].pc = act[b].pc /\ act'[b].want = act[b].want
                                 /\ act'[b].late = act[b].late /\ act'[b].spoilt = act[b].spoilt
                                 /\ act'[b].alone = act[b].alone
                              \/ Aside(act[b].pc) /\ Aside(act'[b].pc)
        BY <1>2, <1>3, <1>4, <1>5, <2>1 DEF Aside
      <3>2. policy'.enabled = policy.enabled /\ stale' = stale
        BY <1>2, <1>3, <1>6, <2>1
      <3> QED
        BY <1>1, <1>2, <1>6, <3>1, <3>2, EvalRests
    <2>2. CASE shifts
      <3>1. \A b \in Actors : Evaluating(b)' => act'[b].late /\ act'[b].pc = act[b].pc /\ act'[b].alone = act[b].alone
        BY <1>4, <1>5, <2>2 DEF Evaluating
      <3>2. ASSUME NEW c \in Actors, act'[c].pc = "erase", act'[c].alone
            PROVE  NoRows' /\ \A d \in Actors : ~Evaluating(d)'
        <4>1. act[c].pc = "erase" /\ act[c].alone
          BY <1>4, <1>5, <3>2
        <4>2. NoRows /\ \A d \in Actors : ~Evaluating(d)
          BY <1>1, <4>1 DEF EvalInv, AloneRight
        <4>3. \A d \in Actors : Evaluating(d)' => Evaluating(d)
          BY <3>1 DEF Evaluating
        <4> QED
          BY <1>2, <4>2, <4>3 DEF NoRows
      <3>3. stale'
        BY <1>2, <2>2
      <3> QED
        BY <1>1, <1>2, <3>1, <3>2, <3>3, EvalShifts
    <2> QED
      BY <2>1, <2>2
  <1> QED
    BY <1>7, <1>8, <1>9 DEF AdviceInv

LEMMA AdviceDrift ==
    ASSUME AdviceInv, NEW set \in SUBSET Resources, Drift(set)
    PROVE  AdviceInv'
  <1>1. AdviceTyped /\ EvalInv /\ RecInv
    BY DEF AdviceInv
  <1>2. /\ UNCHANGED <<policy, breaches, feed, recs, gen, single, crossed>>
        /\ bad' = set /\ stale' = TRUE /\ act' = Outdated(act)
    BY DEF Drift
  <1>3. /\ act' \in [Actors -> ActRow]
        /\ \A b \in Actors : /\ act'[b].pc = act[b].pc /\ act'[b].rec = act[b].rec /\ act'[b].alone = act[b].alone
                             /\ Evaluating(b) => act'[b].late
    BY <1>1, <1>2, OutdatedWhat DEF AdviceTyped
  <1>4. AdviceTyped'
    BY <1>1, <1>2, <1>3 DEF AdviceTyped
  <1>5. RecInv'
    <2>1. \A b \in Actors : /\ act[b].pc \in {"idle", "erase"} => act[b].rec = 0
                            /\ act[b].pc \in {"change", "mark", "dismiss"} => act[b].rec # 0
      BY <1>1 DEF RecInv, ActsRight
    <2> QED
      BY <1>1, <1>2, <1>3, <2>1, RecRests
  <1>6. EvalInv'
    <2>1. \A b \in Actors : (Evaluating(b)' <=> Evaluating(b)) /\ (act'[b].pc = "erase" <=> act[b].pc = "erase")
      BY <1>3 DEF Evaluating
    <2>2. \A b \in Actors : Evaluating(b)' => act'[b].late /\ act'[b].pc = act[b].pc /\ act'[b].alone = act[b].alone
      BY <1>3, <2>1
    <2>3. \A c \in Actors : act'[c].pc = "erase" /\ act'[c].alone => NoRows' /\ \A d \in Actors : ~Evaluating(d)'
      BY <1>1, <1>2, <1>3, <2>1 DEF EvalInv, AloneRight, NoRows
    <2> QED
      BY <1>1, <1>2, <2>2, <2>3, EvalShifts
  <1> QED
    BY <1>4, <1>5, <1>6 DEF AdviceInv

LEMMA AdviceRemovePolicy ==
    ASSUME AdviceInv, NEW a \in Admins, RemovePolicy(a)
    PROVE  AdviceInv'
  <1>1. AdviceTyped /\ EvalInv /\ RecInv
    BY DEF AdviceInv
  <1> DEFINE alone == ~\E b \in Actors : Evaluating(b)
  <1>2. /\ UNCHANGED <<policy, bad, feed, recs, gen, single, crossed>> /\ act[a] = NoAct
        /\ breaches' = [r \in Resources |-> 0] /\ stale' = TRUE
        /\ act' = [Outdated(act) EXCEPT ![a].pc = "erase", ![a].alone = alone]
    BY DEF RemovePolicy
  <1>3. act \in [Actors -> ActRow] /\ a \in Actors /\ NoAct.pc = "idle" /\ NoAct.rec = 0 /\ alone \in BOOLEAN
    BY <1>1 DEF AdviceTyped, NoAct, Actors
  <1>4. ~Evaluating(a)
    BY <1>2, <1>3 DEF Evaluating
  <1> DEFINE o == Outdated(act)
  <1>5. /\ o \in [Actors -> ActRow] /\ o[a] = NoAct
        /\ \A b \in Actors : /\ o[b].pc = act[b].pc /\ o[b].rec = act[b].rec /\ o[b].alone = act[b].alone
                             /\ Evaluating(b) => o[b].late
    BY <1>2, <1>3, <1>4, OutdatedWhat
  <1> HIDE DEF o, alone
  <1>6. /\ act' \in [Actors -> ActRow] /\ \A b \in Actors : b # a => act'[b] = o[b]
        /\ act'[a].pc = "erase" /\ act'[a].rec = 0 /\ act'[a].alone = alone
    <2>1. /\ \A b \in Actors : b # a => act'[b] = o[b]
          /\ act'[a] = [[NoAct EXCEPT !.pc = "erase"] EXCEPT !.alone = alone]
          /\ act' = [b \in Actors |-> act'[b]]
      BY <1>2, <1>3, <1>5 DEF o, alone
    <2>2. act'[a] \in ActRow /\ act'[a].pc = "erase" /\ act'[a].rec = 0 /\ act'[a].alone = alone
      <3>1. PICK e \in ActRow : e = NoAct /\ e.rec = 0
        BY <1>3, <1>5
      <3>2. PICK n \in BOOLEAN : n = alone
        BY <1>3
      <3>3. act'[a] = [[e EXCEPT !.pc = "erase"] EXCEPT !.alone = n]
        BY <2>1, <3>1, <3>2
      <3> QED
        BY <3>1, <3>2, <3>3 DEF ActRow
    <2> QED
      BY <1>5, <2>1, <2>2
  <1>7. AdviceTyped'
    BY <1>1, <1>2, <1>6 DEF AdviceTyped
  <1>8. RecInv'
    <2>1. \A b \in Actors : /\ act[b].pc \in {"idle", "erase"} => act[b].rec = 0
                            /\ act[b].pc \in {"change", "mark", "dismiss"} => act[b].rec # 0
      BY <1>1 DEF RecInv, ActsRight
    <2>2. \A b \in Actors :
               /\ act'[b].rec = act[b].rec
               /\ act'[b].pc \in {"change", "dismiss"} <=> act[b].pc \in {"change", "dismiss"}
               /\ act'[b].pc \in {"idle", "erase"} => act[b].rec = 0
               /\ act'[b].pc \in {"change", "mark", "dismiss"} => act[b].rec # 0
      BY <1>2, <1>3, <1>5, <1>6, <2>1
    <2> QED
      BY <1>1, <1>2, <2>2, RecRests
  <1>9. EvalInv'
    <2>1. NoRows'
      BY <1>2 DEF NoRows
    <2>2. \A b \in Actors : Evaluating(b)' => Evaluating(b) /\ b # a
      BY <1>4, <1>5, <1>6 DEF Evaluating
    <2>3. \A b \in Actors : Evaluating(b)' => act'[b].late /\ act'[b].pc = act[b].pc /\ act'[b].alone = act[b].alone
      BY <1>5, <1>6, <2>2
    <2>4. ASSUME NEW c \in Actors, act'[c].pc = "erase", act'[c].alone, NEW d \in Actors
          PROVE  ~Evaluating(d)
      <3>1. CASE c = a
        BY <1>6, <2>4, <3>1 DEF alone
      <3>2. CASE c # a
        <4>1. act[c].pc = "erase" /\ act[c].alone
          BY <1>5, <1>6, <2>4, <3>2
        <4> QED
          BY <1>1, <4>1 DEF EvalInv, AloneRight
      <3> QED
        BY <3>1, <3>2
    <2>5. \A c \in Actors : act'[c].pc = "erase" /\ act'[c].alone => NoRows' /\ \A d \in Actors : ~Evaluating(d)'
      BY <2>1, <2>2, <2>4
    <2>6. stale'
      BY <1>2
    <2> QED
      BY <1>1, <1>2, <2>1, <2>3, <2>5, <2>6, EvalShifts
  <1> QED
    BY <1>7, <1>8, <1>9 DEF AdviceInv

LEMMA AdviceErasePolicy ==
    ASSUME AdviceInv, NEW a \in Admins, ErasePolicy(a)
    PROVE  AdviceInv'
  <1>1. AdviceTyped /\ EvalInv /\ RecInv /\ ShownRight /\ AloneRight
    BY DEF AdviceInv, EvalInv
  <1>2. /\ UNCHANGED <<bad, breaches, feed, recs, gen, single, crossed>> /\ act[a].pc = "erase"
        /\ policy' = [policy EXCEPT !.there = FALSE] /\ act' = [Outdated(act) EXCEPT ![a] = NoAct]
        /\ stale' = IF policy.there THEN ~act[a].alone ELSE stale
    BY DEF ErasePolicy
  <1>3. /\ act \in [Actors -> ActRow] /\ a \in Actors /\ NoAct.pc = "idle" /\ NoAct.rec = 0 /\ NoAct \in ActRow
        /\ act[a].alone \in BOOLEAN /\ stale \in BOOLEAN /\ policy.there \in BOOLEAN
        /\ policy \in [there : BOOLEAN, enabled : BOOLEAN, effect : {"audit", "alert"}, count : Nat]
    BY <1>1, AdviceTypes DEF AdviceTyped, NoAct, Actors, ActRow
  <1> DEFINE o == Outdated(act)
  <1>4. /\ o \in [Actors -> ActRow]
        /\ \A b \in Actors : /\ o[b].pc = act[b].pc /\ o[b].rec = act[b].rec /\ o[b].alone = act[b].alone
                             /\ Evaluating(b) => o[b].late
    BY <1>3, OutdatedWhat
  <1>5. /\ act' \in [Actors -> ActRow] /\ \A b \in Actors : b # a => act'[b] = o[b]
        /\ act'[a] = NoAct
    BY <1>2, <1>3, <1>4
  <1> HIDE DEF o
  <1>6. /\ policy' \in [there : BOOLEAN, enabled : BOOLEAN, effect : {"audit", "alert"}, count : Nat]
        /\ ~policy'.there /\ stale' \in BOOLEAN
    BY <1>2, <1>3
  <1>7. AdviceTyped'
    BY <1>1, <1>2, <1>5, <1>6 DEF AdviceTyped
  <1>8. RecInv'
    <2>1. \A b \in Actors : /\ act[b].pc \in {"idle", "erase"} => act[b].rec = 0
                            /\ act[b].pc \in {"change", "mark", "dismiss"} => act[b].rec # 0
      BY <1>1 DEF RecInv, ActsRight
    <2>2. \A b \in Actors :
               /\ act'[b].rec = act[b].rec
               /\ act'[b].pc \in {"change", "dismiss"} <=> act[b].pc \in {"change", "dismiss"}
               /\ act'[b].pc \in {"idle", "erase"} => act[b].rec = 0
               /\ act'[b].pc \in {"change", "mark", "dismiss"} => act[b].rec # 0
      BY <1>2, <1>3, <1>4, <1>5, <2>1
    <2> QED
      BY <1>1, <1>2, <2>2, RecRests
  <1>9. EvalInv'
    <2>1. \A b \in Actors : Evaluating(b)' => Evaluating(b) /\ b # a
      BY <1>3, <1>4, <1>5 DEF Evaluating
    <2>2. \A b \in Actors : Evaluating(b)' => act'[b].late /\ act'[b].pc = act[b].pc /\ act'[b].alone = act[b].alone
      BY <1>4, <1>5, <2>1
    <2>3. NoRows => NoRows'
      BY <1>2 DEF NoRows
    <2>4. ASSUME NEW c \in Actors, act'[c].pc = "erase", act'[c].alone
          PROVE  NoRows' /\ \A d \in Actors : ~Evaluating(d)'
      <3>1. act[c].pc = "erase" /\ act[c].alone
        BY <1>3, <1>4, <1>5, <2>4
      <3>2. NoRows /\ \A d \in Actors : ~Evaluating(d)
        BY <1>1, <3>1 DEF AloneRight
      <3> QED
        BY <2>1, <2>3, <3>2
    <2>5. stale' \/ (NoRows' /\ (\A d \in Actors : ~Evaluating(d)') /\ ~policy'.there)
      <3>1. CASE policy.there /\ act[a].alone
        <4>1. NoRows /\ \A d \in Actors : ~Evaluating(d)
          BY <1>1, <1>2, <1>3, <3>1 DEF AloneRight
        <4> QED
          BY <1>6, <2>1, <2>3, <4>1
      <3>2. CASE policy.there /\ ~act[a].alone
        BY <1>2, <3>2
      <3>3. CASE ~policy.there /\ ~stale
        BY <1>1, <1>6, <2>1, <2>3, <3>3 DEF ShownRight
      <3>4. CASE ~policy.there /\ stale
        BY <1>2, <3>4
      <3> QED
        BY <1>3, <3>1, <3>2, <3>3, <3>4
    <2> QED
      BY <1>1, <1>2, <2>2, <2>4, <2>5, EvalShifts
  <1> QED
    BY <1>7, <1>8, <1>9 DEF AdviceInv

LEMMA AdviceApiRestarts ==
    ASSUME AdviceInv, ApiRestarts
    PROVE  AdviceInv'
  <1>1. AdviceTyped /\ EvalInv /\ RecInv /\ ShownRight /\ AloneRight
    BY DEF AdviceInv, EvalInv
  <1> DEFINE evaluates == \E a \in Actors : Evaluating(a)
  <1>2. /\ UNCHANGED <<policy, bad, breaches, feed, recs, single>>
        /\ act' = [a \in Actors |-> NoAct] /\ gen' = NoGen /\ stale' = (stale \/ evaluates)
        /\ crossed' = crossed \cup {act[a].rec : a \in {b \in Actors : act[b].rec # 0}}
    BY DEF ApiRestarts
  <1>3. /\ NoAct \in ActRow /\ NoAct.pc = "idle" /\ NoAct.rec = 0 /\ NoGen.pc = "idle" /\ stale \in BOOLEAN
        /\ NoGen \in [pc : {"idle", "screen", "publish"}, found : SUBSET ({"tighten", "rule"} \cup Resources)]
    BY <1>1, AdviceTypes DEF AdviceTyped, NoAct, NoGen
  <1>4. act' \in [Actors -> ActRow] /\ (\A a \in Actors : act'[a] = NoAct) /\ stale' \in BOOLEAN
    BY <1>2, <1>3
  <1>5. AdviceTyped'
    BY <1>1, <1>2, <1>3, <1>4 DEF AdviceTyped
  <1>6. RecInv'
    BY <1>1, <1>2, <1>3, <1>4, RecBreaksOff
  <1>7. EvalInv'
    <2>1. \A a \in Actors : ~Evaluating(a)' /\ ~Telling(a)' /\ act'[a].pc = "idle"
      BY <1>3, <1>4 DEF Evaluating, Telling
    <2>2. Expected' = Expected /\ Shown' = Shown /\ NoRows' = NoRows /\ OneRow' = OneRow
      BY <1>2 DEF Expected, Violations, Shown, NoRows, OneRow
    <2>3. ~stale' => ~stale /\ \A a \in Actors : act[a].pc # "file"
      BY <1>2 DEF Evaluating
    <2>4. FreshRight' /\ AloneRight'
      BY <1>1, <1>2, <2>1, <2>2 DEF FreshRight, AloneRight
    <2>5. ShownRight'
      BY <1>1, <1>2, <2>1, <2>2, <2>3 DEF ShownRight
    <2> QED
      BY <2>4, <2>5 DEF EvalInv
  <1> QED
    BY <1>5, <1>6, <1>7 DEF AdviceInv

(***************************************************************************)
(* Proposals are handled.                                                  *)
(***************************************************************************)
LEMMA AdviceOpens ==
    ASSUME AdviceInv, NEW a \in Admins, NEW i \in 1 .. Len(recs), NEW pc \in {"change", "dismiss"}, Answering(a, i, pc)
    PROVE  AdviceInv'
  <1>1. AdviceTyped /\ EvalInv /\ RecInv /\ ActsRight /\ MadeOnce /\ OneWaits
    BY DEF AdviceInv, RecInv
  <1>2. /\ UNCHANGED <<policy, bad, breaches, feed, recs, gen, stale, single>>
        /\ act[a] = NoAct /\ recs[i].status = "pending" /\ act' = [act EXCEPT ![a].pc = pc, ![a].rec = i]
        /\ crossed' = IF Busy(i) THEN crossed \cup {i} ELSE crossed
    BY DEF Answering, Crossing
  <1>3. act \in [Actors -> ActRow] /\ a \in Actors /\ NoAct.pc = "idle" /\ NoAct.rec = 0 /\ i \in Nat /\ i # 0
        /\ Len(recs) \in Nat /\ i <= Len(recs)
    BY <1>1, AdviceTypes DEF AdviceTyped, NoAct, Actors
  <1>4. /\ act' \in [Actors -> ActRow] /\ \A b \in Actors : b # a => act'[b] = act[b]
        /\ act'[a].pc = pc /\ act'[a].rec = i
    BY <1>2, <1>3 DEF ActRow
  <1>5. AdviceTyped'
    BY <1>1, <1>2, <1>4 DEF AdviceTyped
  <1>6. EvalInv'
    <2>1. \A b \in Actors : b = a => Aside(act[b].pc) /\ Aside(act'[b].pc)
      BY <1>2, <1>3, <1>4 DEF Aside
    <2> QED
      BY <1>1, <1>2, <1>4, <2>1, EvalRests
  <1>7. crossed \subseteq crossed' /\ (i \notin crossed' => ~Busy(i) /\ i \notin crossed)
    BY <1>2
  <1>8. ActsRight'
    <2>1. ASSUME NEW b \in Actors, act'[b].rec # 0, act'[b].rec \notin crossed'
          PROVE  Handles(b, act[b].rec)' \/ b = a
      <3>1. CASE b # a
        <4>1. Handles(b, act[b].rec) /\ act'[b] = act[b]
          BY <1>1, <1>4, <1>7, <2>1, <3>1 DEF ActsRight
        <4> QED
          BY <1>2, <4>1 DEF Handles
      <3> QED
        BY <3>1
    <2>2. i \notin crossed' => recs[i].made = 0 /\ recs[i].status = "pending"
      BY <1>1, <1>2, <1>7 DEF MadeOnce
    <2>3. \A b \in Actors : act'[b].rec # 0 /\ act'[b].rec \notin crossed' => Handles(b, act[b].rec)' \/ b = a
      BY <2>1
    <2>4. i \notin crossed' => recs'[act'[a].rec].status = "pending" /\ recs'[act'[a].rec].made = 0
      BY <1>2, <1>4, <2>2
    <2>5. \A b, c \in Actors : act'[b].rec = act'[c].rec /\ act'[b].rec # 0 /\ act'[b].rec \notin crossed' => b = c
      <3>1. ASSUME NEW c \in Actors, c # a, act'[c].rec = i, i \notin crossed'
            PROVE  FALSE
        BY <1>4, <1>7, <3>1 DEF Busy
      <3> QED
        BY <1>1, <1>4, <1>7, <3>1 DEF ActsRight
    <2>6. \A b \in Actors : /\ act'[b].rec <= Len(recs')
                            /\ act'[b].pc \in {"idle", "erase"} => act'[b].rec = 0
                            /\ act'[b].pc \in {"change", "mark", "dismiss"} => act'[b].rec # 0
      BY <1>1, <1>2, <1>3, <1>4 DEF ActsRight
    <2> QED
      BY <1>4, <2>3, <2>4, <2>5, <2>6 DEF ActsRight, Handles
  <1>9. MadeOnce'
    <2>1. \A j \in 1 .. Len(recs) : Busy(j) => Busy(j)'
      BY <1>2, <1>3, <1>4 DEF Busy
    <2> QED
      BY <1>1, <1>2, <1>7, <2>1 DEF MadeOnce
  <1>10. OneWaits'
    BY <1>1, <1>2, <1>7 DEF OneWaits, Waits, Cools
  <1> QED
    BY <1>5, <1>6, <1>8, <1>9, <1>10 DEF AdviceInv, RecInv

LEMMA AdviceChange ==
    ASSUME AdviceInv, NEW a \in Admins, Change(a)
    PROVE  AdviceInv'
  <1>1. AdviceTyped /\ EvalInv /\ RecInv /\ ActsRight /\ MadeOnce /\ OneWaits
    BY DEF AdviceInv, RecInv
  <1> DEFINE i == act[a].rec
             k == recs[i].key
             fails == k = "tighten" /\ ~policy.there
  <1>2. /\ act[a].pc = "change" /\ UNCHANGED <<bad, breaches, feed, gen, stale, single, crossed>>
        /\ policy' = IF k = "tighten" /\ ~fails THEN [policy EXCEPT !.effect = "alert"] ELSE policy
        /\ recs' = IF fails THEN recs ELSE [recs EXCEPT ![i].made = @ + 1]
        /\ act' = IF fails THEN [act EXCEPT ![a] = NoAct]
                  ELSE [act EXCEPT ![a].pc = IF k = "tighten" THEN "read" ELSE "mark"]
    BY DEF Change
  <1> HIDE DEF fails
  <1>3. /\ act \in [Actors -> ActRow] /\ a \in Actors /\ NoAct.pc = "idle" /\ NoAct.rec = 0 /\ NoAct \in ActRow
        /\ policy \in [there : BOOLEAN, enabled : BOOLEAN, effect : {"audit", "alert"}, count : Nat]
        /\ Len(recs) \in Nat /\ recs \in Seq(ProposalRow)
    BY <1>1, AdviceTypes DEF AdviceTyped, NoAct, Actors
  <1>4. i \in 1 .. Len(recs) /\ i # 0
    <2>1. i \in Nat /\ i <= Len(recs) /\ i # 0
      BY <1>1, <1>2, <1>3 DEF ActsRight, ActRow
    <2> QED
      BY <1>3, <2>1
  <1>5. recs[i] \in ProposalRow
    BY <1>3, <1>4
  <1>6. i \notin crossed => /\ recs[i].status = "pending" /\ recs[i].made = 0
                            /\ \A b \in Actors : act[b].rec = i => b = a
    BY <1>1, <1>2, <1>3, <1>4 DEF ActsRight, Handles
  <1>7. /\ act' \in [Actors -> ActRow] /\ \A b \in Actors : b # a => act'[b] = act[b]
        /\ fails => act'[a] = NoAct
        /\ ~fails => act'[a].pc \in {"read", "mark"} /\ act'[a].rec = i
    <2>1. CASE fails
      BY <1>2, <1>3, <2>1
    <2>2. CASE ~fails
      <3>1. PICK p \in {"read", "mark"} : p = IF k = "tighten" THEN "read" ELSE "mark"
        OBVIOUS
      <3>2. act' = [act EXCEPT ![a].pc = p]
        BY <1>2, <2>2, <3>1
      <3> QED
        BY <1>3, <2>2, <3>2 DEF ActRow
    <2> QED
      BY <2>1, <2>2
  <1>8. /\ recs' \in Seq(ProposalRow) /\ Len(recs') = Len(recs)
        /\ \A j \in 1 .. Len(recs) : /\ j # i => recs'[j] = recs[j]
                                     /\ recs'[j].key = recs[j].key /\ recs'[j].status = recs[j].status
                                     /\ recs'[j].cooling = recs[j].cooling
        /\ recs'[i].made = IF fails THEN recs[i].made ELSE recs[i].made + 1
    <2>1. CASE fails
      BY <1>2, <1>3, <2>1
    <2>2. CASE ~fails
      <3>1. PICK e : e = [recs[i] EXCEPT !.made = recs[i].made + 1]
        OBVIOUS
      <3>2. e \in ProposalRow /\ e.key = k /\ e.status = recs[i].status /\ e.cooling = recs[i].cooling
            /\ e.made = recs[i].made + 1
        BY <1>5, <3>1 DEF ProposalRow
      <3>3. recs' = [recs EXCEPT ![i] = e]
        BY <1>2, <2>2, <3>1
      <3> HIDE DEF i, k
      <3>4. /\ recs' \in Seq(ProposalRow) /\ Len(recs') = Len(recs) /\ recs'[i] = e
            /\ \A j \in 1 .. Len(recs) : j # i => recs'[j] = recs[j]
        BY <1>3, <1>4, <3>2, <3>3, OneReplaced
      <3>5. \A j \in 1 .. Len(recs) : /\ recs'[j].key = recs[j].key /\ recs'[j].status = recs[j].status
                                      /\ recs'[j].cooling = recs[j].cooling
        BY <3>2, <3>4 DEF k
      <3> QED
        BY <2>2, <3>2, <3>4, <3>5
    <2> QED
      BY <2>1, <2>2
  <1>9. /\ policy' \in [there : BOOLEAN, enabled : BOOLEAN, effect : {"audit", "alert"}, count : Nat]
        /\ policy'.there = policy.there /\ policy'.enabled = policy.enabled /\ policy'.count = policy.count
    BY <1>2, <1>3
  <1>10. AdviceTyped'
    BY <1>1, <1>2, <1>7, <1>8, <1>9 DEF AdviceTyped
  <1>11. EvalInv'
    <2>1. \A b \in Actors : b = a => Aside(act[b].pc) /\ Aside(act'[b].pc)
      BY <1>2, <1>3, <1>7 DEF Aside
    <2> QED
      BY <1>1, <1>2, <1>7, <1>9, <2>1, EvalRests
  <1>12. PICK n \in 1 .. Len(recs) : n = i
    BY <1>4
  <1> HIDE DEF i, k
  <1>13. \A b \in Actors : act'[b].rec # 0 => act'[b].rec = act[b].rec
    BY <1>3, <1>7, <1>12 DEF i
  <1>14. ActsRight'
    <2>1. ASSUME NEW b \in Actors, act'[b].rec # 0, act'[b].rec \notin crossed'
          PROVE  /\ recs'[act'[b].rec].status = "pending"
                 /\ recs'[act'[b].rec].made = IF act'[b].pc \in {"change", "dismiss"} THEN 0 ELSE 1
      <3>1. act'[b].rec = act[b].rec /\ act[b].rec \notin crossed
        BY <1>2, <1>13, <2>1
      <3>2. CASE b = a
        <4>1. ~fails
          BY <1>3, <1>7, <2>1, <3>2
        <4>2. recs[i].status = "pending" /\ recs[i].made = 0 /\ act[b].rec = i
          BY <1>6, <3>1, <3>2 DEF i
        <4>3. recs'[i].status = "pending" /\ recs'[i].made = 1
          BY <1>4, <1>8, <4>1, <4>2
        <4> QED
          BY <1>7, <3>1, <3>2, <4>1, <4>2, <4>3
      <3>3. CASE b # a
        <4>1. Handles(b, act[b].rec) /\ act'[b] = act[b]
          BY <1>1, <1>7, <2>1, <3>1, <3>3 DEF ActsRight
        <4>2. act[b].rec # i /\ act[b].rec \in 1 .. Len(recs)
          <5>1. act[b].rec # i
            BY <1>6, <3>1, <3>3
          <5>2. act[b].rec \in Nat /\ act[b].rec <= Len(recs) /\ act[b].rec # 0
            BY <1>1, <1>3, <2>1, <3>1 DEF ActsRight, ActRow
          <5> QED
            BY <1>3, <5>1, <5>2
        <4>3. recs'[act[b].rec] = recs[act[b].rec]
          BY <1>8, <4>2
        <4> QED
          BY <4>1, <4>3 DEF Handles
      <3> QED
        BY <3>2, <3>3
    <2>2. \A b, c \in Actors : act'[b].rec = act'[c].rec /\ act'[b].rec # 0 /\ act'[b].rec \notin crossed' => b = c
      BY <1>1, <1>2, <1>13 DEF ActsRight
    <2>3. \A b \in Actors : /\ act'[b].rec <= Len(recs')
                            /\ act'[b].pc \in {"idle", "erase"} => act'[b].rec = 0
                            /\ act'[b].pc \in {"change", "mark", "dismiss"} => act'[b].rec # 0
      <3>1. ASSUME NEW b \in Actors, b # a
            PROVE  /\ act'[b].rec <= Len(recs')
                   /\ act'[b].pc \in {"idle", "erase"} => act'[b].rec = 0
                   /\ act'[b].pc \in {"change", "mark", "dismiss"} => act'[b].rec # 0
        BY <1>1, <1>7, <1>8, <3>1 DEF ActsRight
      <3>2. CASE fails
        BY <1>3, <1>7, <1>8, <3>1, <3>2
      <3>3. CASE ~fails
        BY <1>3, <1>4, <1>7, <1>8, <3>1, <3>3
      <3> QED
        BY <3>2, <3>3
    <2> QED
      BY <2>1, <2>2, <2>3 DEF ActsRight, Handles
  <1>15. MadeOnce'
    <2>1. ASSUME NEW j \in 1 .. Len(recs), ~Busy(j)', j \notin crossed
          PROVE  recs'[j].made = IF recs'[j].status = "applied" THEN 1 ELSE 0
      <3>1. CASE j = i
        <4>1. fails
          BY <1>3, <1>7, <2>1, <3>1 DEF Busy
        <4> QED
          BY <1>4, <1>6, <1>8, <2>1, <3>1, <4>1
      <3>2. CASE j # i
        <4>1. ~Busy(j)
          BY <1>7, <2>1, <3>2 DEF Busy, i
        <4> QED
          BY <1>1, <1>8, <2>1, <3>2, <4>1 DEF MadeOnce
      <3> QED
        BY <3>1, <3>2
    <2> QED
      BY <1>2, <1>8, <2>1 DEF MadeOnce
  <1>16. OneWaits'
    <2>1. \A j \in 1 .. Len(recs) : (Waits(j)' <=> Waits(j)) /\ (Cools(j)' <=> Cools(j)) /\ recs'[j].key = recs[j].key
      BY <1>2, <1>8 DEF Waits, Cools
    <2> QED
      BY <1>1, <1>2, <1>8, <2>1 DEF OneWaits
  <1> QED
    BY <1>10, <1>11, <1>14, <1>15, <1>16 DEF AdviceInv, RecInv

\* The answer is given: the proposal waits no longer.
LEMMA HandlingEnds ==
    ASSUME AdviceInv, NEW a \in Actors, act[a].pc \in {"mark", "dismiss"}, NEW e \in ProposalRow,
           e.key = recs[act[a].rec].key, e.made = recs[act[a].rec].made,
           e.status = IF act[a].pc = "mark" THEN "applied" ELSE "dismissed",
           e.cooling => recs[act[a].rec].cooling \/ act[a].pc = "dismiss",
           recs' = [recs EXCEPT ![act[a].rec] = e],
           act' = [act EXCEPT ![a] = NoAct],
           UNCHANGED <<policy, bad, breaches, feed, gen, stale, single, crossed>>
    PROVE  AdviceInv'
  <1>1. AdviceTyped /\ EvalInv /\ RecInv /\ ActsRight /\ MadeOnce /\ OneWaits
    BY DEF AdviceInv, RecInv
  <1> DEFINE i == act[a].rec
  <1>2. /\ act \in [Actors -> ActRow] /\ NoAct.pc = "idle" /\ NoAct.rec = 0 /\ NoAct \in ActRow
        /\ Len(recs) \in Nat /\ recs \in Seq(ProposalRow)
    BY <1>1, AdviceTypes DEF AdviceTyped, NoAct
  <1>3. i \in 1 .. Len(recs) /\ i # 0
    <2>1. i \in Nat /\ i <= Len(recs) /\ i # 0
      BY <1>1, <1>2 DEF ActsRight, ActRow
    <2> QED
      BY <1>2, <2>1
  <1>4. recs[i] \in ProposalRow
    BY <1>2, <1>3
  <1>5. i \notin crossed => /\ recs[i].status = "pending"
                            /\ recs[i].made = IF act[a].pc = "dismiss" THEN 0 ELSE 1
                            /\ \A b \in Actors : act[b].rec = i => b = a
    BY <1>1, <1>3 DEF ActsRight, Handles
  <1>6. /\ e \in ProposalRow /\ e.key = recs[i].key /\ e.made = recs[i].made
        /\ e.status = IF act[a].pc = "mark" THEN "applied" ELSE "dismissed"
        /\ e.cooling => recs[i].cooling \/ act[a].pc = "dismiss"
    OBVIOUS
  <1>7. act' \in [Actors -> ActRow] /\ (\A b \in Actors : b # a => act'[b] = act[b]) /\ act'[a] = NoAct
    BY <1>2
  <1>8. recs' = [recs EXCEPT ![i] = e]
    OBVIOUS
  <1>9. PICK n \in 1 .. Len(recs) : n = i
    BY <1>3
  <1> HIDE DEF i
  <1>10. /\ recs' \in Seq(ProposalRow) /\ Len(recs') = Len(recs) /\ recs'[i] = e
         /\ \A j \in 1 .. Len(recs) : j # i => recs'[j] = recs[j]
    <2>1. LET q == [recs EXCEPT ![i] = e] IN
          /\ q \in Seq(ProposalRow) /\ Len(q) = Len(recs) /\ q[i] = e
          /\ \A j \in 1 .. Len(recs) : j # i => q[j] = recs[j]
      BY <1>2, <1>3, OneReplaced
    <2> QED
      BY <1>8, <2>1
  <1>11. AdviceTyped'
    BY <1>1, <1>7, <1>10 DEF AdviceTyped
  <1>12. EvalInv'
    <2>1. \A b \in Actors : b = a => Aside(act[b].pc) /\ Aside(act'[b].pc)
      BY <1>2, <1>7 DEF Aside
    <2> QED
      BY <1>1, <1>7, <2>1, EvalRests
  <1>13. \A b \in Actors : act'[b].rec # 0 => b # a /\ act'[b] = act[b]
    BY <1>2, <1>7
  <1>14. ActsRight'
    <2>1. ASSUME NEW b \in Actors, act'[b].rec # 0, act'[b].rec \notin crossed
          PROVE  Handles(b, act[b].rec)'
      <3>1. b # a /\ act'[b] = act[b]
        BY <1>13, <2>1
      <3>2. Handles(b, act[b].rec)
        BY <1>1, <2>1, <3>1 DEF ActsRight
      <3>3. act[b].rec # i
        BY <1>5, <2>1, <3>1
      <3>4. act[b].rec \in Nat /\ act[b].rec <= Len(recs) /\ act[b].rec # 0
        BY <1>1, <1>2, <2>1, <3>1 DEF ActsRight, ActRow
      <3>5. recs'[act[b].rec] = recs[act[b].rec]
        BY <1>2, <1>10, <3>3, <3>4
      <3> QED
        BY <3>1, <3>2, <3>5 DEF Handles
    <2>2. \A b \in Actors : act'[b].rec # 0 /\ act'[b].rec \notin crossed' => Handles(b, act[b].rec)'
      BY <2>1
    <2>3. \A b, c \in Actors : act'[b].rec = act'[c].rec /\ act'[b].rec # 0 /\ act'[b].rec \notin crossed' => b = c
      BY <1>1, <1>13 DEF ActsRight
    <2>4. \A b \in Actors : /\ act'[b].rec <= Len(recs')
                            /\ act'[b].pc \in {"idle", "erase"} => act'[b].rec = 0
                            /\ act'[b].pc \in {"change", "mark", "dismiss"} => act'[b].rec # 0
      <3>1. ASSUME NEW b \in Actors, b # a
            PROVE  /\ act'[b].rec <= Len(recs')
                   /\ act'[b].pc \in {"idle", "erase"} => act'[b].rec = 0
                   /\ act'[b].pc \in {"change", "mark", "dismiss"} => act'[b].rec # 0
        BY <1>1, <1>7, <1>10, <3>1 DEF ActsRight
      <3> QED
        BY <1>2, <1>7, <1>10, <3>1
    <2> QED
      BY <2>2, <2>3, <2>4 DEF ActsRight, Handles
  <1>15. MadeOnce'
    <2>1. ASSUME NEW j \in 1 .. Len(recs), ~Busy(j)', j \notin crossed
          PROVE  recs'[j].made = IF recs'[j].status = "applied" THEN 1 ELSE 0
      <3>1. CASE j = i
        <4>1. recs'[j].made = recs[i].made /\ recs'[j].status = e.status
          BY <1>6, <1>10, <3>1
        <4>2. CASE act[a].pc = "mark"
          BY <1>5, <1>6, <2>1, <3>1, <4>1, <4>2
        <4>3. CASE act[a].pc = "dismiss"
          BY <1>5, <1>6, <2>1, <3>1, <4>1, <4>3
        <4> QED
          BY <4>2, <4>3
      <3>2. CASE j # i
        <4>1. ~Busy(j)
          BY <1>7, <2>1, <3>2 DEF Busy, i
        <4> QED
          BY <1>1, <1>10, <2>1, <3>2, <4>1 DEF MadeOnce
      <3> QED
        BY <3>1, <3>2
    <2> QED
      BY <1>10, <2>1 DEF MadeOnce
  <1>16. OneWaits'
    <2>1. \A j \in 1 .. Len(recs) : /\ Waits(j)' => Waits(j) /\ j # i
                                    /\ Cools(j)' => Cools(j) \/ (j = i /\ Waits(i))
                                    /\ recs'[j].key = recs[j].key
      <3>1. ASSUME NEW j \in 1 .. Len(recs)
            PROVE  /\ Waits(j)' => Waits(j) /\ j # i
                   /\ Cools(j)' => Cools(j) \/ (j = i /\ Waits(i))
                   /\ recs'[j].key = recs[j].key
        <4>1. CASE j = i
          <5>1. ~Waits(j)' /\ recs'[j].key = recs[j].key
            <6>1. e.status # "pending" /\ recs'[j] = e
              BY <1>6, <1>10, <4>1
            <6> QED
              BY <1>6, <4>1, <6>1 DEF Waits
          <5>2. Cools(j)' => Cools(j) \/ Waits(i)
            BY <1>5, <1>6, <1>10, <4>1 DEF Waits, Cools
          <5> QED
            BY <4>1, <5>1, <5>2
        <4>2. CASE j # i
          BY <1>10, <4>2 DEF Waits, Cools
        <4> QED
          BY <4>1, <4>2
      <3> QED
        BY <3>1
    <2>2. \A j, k \in 1 .. Len(recs) : Waits(j)' /\ Waits(k)' /\ recs'[j].key = recs'[k].key => j = k
      BY <1>1, <2>1 DEF OneWaits
    <2>3. \A j, k \in 1 .. Len(recs) : Waits(j)' /\ Cools(k)' => recs'[j].key # recs'[k].key
      BY <1>1, <1>3, <2>1 DEF OneWaits
    <2>4. gen.pc = "publish" => \A j \in 1 .. Len(recs) : Waits(j)' \/ Cools(j)' => recs'[j].key \notin gen.found
      BY <1>1, <1>3, <2>1 DEF OneWaits
    <2> QED
      BY <1>10, <2>2, <2>3, <2>4 DEF OneWaits
  <1> QED
    BY <1>11, <1>12, <1>14, <1>15, <1>16 DEF AdviceInv, RecInv

LEMMA AdviceAnswers ==
    ASSUME AdviceInv, NEW a \in Admins, MarkApplied(a) \/ PutAway(a)
    PROVE  AdviceInv'
  <1>1. AdviceTyped /\ ActsRight /\ a \in Actors
    BY DEF AdviceInv, RecInv, Actors
  <1>2. act[a].rec \in 1 .. Len(recs)
    <2>1. act[a].pc \in {"mark", "dismiss"}
      BY DEF MarkApplied, PutAway
    <2>2. act[a] \in ActRow /\ Len(recs) \in Nat
      BY <1>1, AdviceTypes
    <2>3. act[a].rec \in Nat /\ act[a].rec <= Len(recs) /\ act[a].rec # 0
      BY <1>1, <2>1, <2>2 DEF ActsRight, ActRow
    <2> QED
      BY <2>2, <2>3
  <1>3. recs \in Seq(ProposalRow)
    BY <1>1 DEF AdviceTyped
  <1>6. recs[act[a].rec] \in ProposalRow
    BY <1>2, <1>3
  <1>4. CASE MarkApplied(a)
    <2>1. PICK e : e = [recs[act[a].rec] EXCEPT !.status = "applied"]
      OBVIOUS
    <2>2. recs' = [recs EXCEPT ![act[a].rec] = e] /\ act[a].pc = "mark" /\ act' = [act EXCEPT ![a] = NoAct]
          /\ UNCHANGED <<policy, bad, breaches, feed, gen, stale, single, crossed>>
      BY <1>4, <2>1 DEF MarkApplied
    <2>3. /\ e \in ProposalRow /\ e.key = recs[act[a].rec].key /\ e.made = recs[act[a].rec].made
          /\ e.status = "applied" /\ e.cooling = recs[act[a].rec].cooling
      BY <1>6, <2>1 DEF ProposalRow
    <2> QED
      BY <1>1, <2>2, <2>3, HandlingEnds
  <1>5. CASE PutAway(a)
    <2>1. PICK e : e = [[recs[act[a].rec] EXCEPT !.status = "dismissed"] EXCEPT !.cooling = TRUE]
      OBVIOUS
    <2>2. act[a].pc = "dismiss" /\ act' = [act EXCEPT ![a] = NoAct]
          /\ UNCHANGED <<policy, bad, breaches, feed, gen, stale, single, crossed>>
      BY <1>5 DEF PutAway
    <2>3. recs' = [recs EXCEPT ![act[a].rec] = e]
      BY <1>2, <1>3, <1>5, <2>1 DEF PutAway
    <2>4. /\ e \in ProposalRow /\ e.key = recs[act[a].rec].key /\ e.made = recs[act[a].rec].made
          /\ e.status = "dismissed"
      BY <1>6, <2>1 DEF ProposalRow
    <2> QED
      BY <1>1, <2>2, <2>3, <2>4, HandlingEnds
  <1> QED
    BY <1>4, <1>5

LEMMA AdviceCooldownEnds ==
    ASSUME AdviceInv, NEW i \in 1 .. Len(recs), CooldownEnds(i)
    PROVE  AdviceInv'
  <1>1. AdviceTyped /\ EvalInv /\ RecInv /\ ActsRight /\ MadeOnce /\ OneWaits
    BY DEF AdviceInv, RecInv
  <1>2. /\ UNCHANGED <<policy, bad, breaches, feed, gen, act, stale, single, crossed>>
        /\ recs' = [recs EXCEPT ![i].cooling = FALSE]
    BY DEF CooldownEnds
  <1>3. /\ act \in [Actors -> ActRow] /\ Len(recs) \in Nat /\ recs \in Seq(ProposalRow) /\ recs[i] \in ProposalRow
    BY <1>1, AdviceTypes DEF AdviceTyped
  <1>4. PICK e : e = [recs[i] EXCEPT !.cooling = FALSE]
    OBVIOUS
  <1>5. e \in ProposalRow /\ e.key = recs[i].key /\ e.made = recs[i].made /\ e.status = recs[i].status /\ ~e.cooling
    BY <1>3, <1>4 DEF ProposalRow
  <1>6. recs' = [recs EXCEPT ![i] = e]
    BY <1>2, <1>4
  <1>7. /\ recs' \in Seq(ProposalRow) /\ Len(recs') = Len(recs) /\ recs'[i] = e
        /\ \A j \in 1 .. Len(recs) : j # i => recs'[j] = recs[j]
    BY <1>3, <1>5, <1>6, OneReplaced
  <1>8. \A j \in 1 .. Len(recs) : /\ recs'[j].key = recs[j].key /\ recs'[j].made = recs[j].made
                                  /\ recs'[j].status = recs[j].status /\ (recs'[j].cooling => recs[j].cooling)
    BY <1>5, <1>7
  <1>9. AdviceTyped'
    BY <1>1, <1>2, <1>7 DEF AdviceTyped
  <1>10. EvalInv'
    BY <1>1, <1>2, EvalRests
  <1>11. ActsRight'
    <2>1. \A a \in Actors : act[a].rec # 0 => act[a].rec \in 1 .. Len(recs)
      <3>1. \A a \in Actors : act[a].rec \in Nat /\ act[a].rec <= Len(recs)
        BY <1>1, <1>3 DEF ActsRight, ActRow
      <3> QED
        BY <1>3, <3>1
    <2>2. ASSUME NEW a \in Actors, act[a].rec # 0, act[a].rec \notin crossed
          PROVE  Handles(a, act[a].rec)'
      <3>1. Handles(a, act[a].rec)
        BY <1>1, <2>2 DEF ActsRight
      <3> QED
        BY <1>2, <1>8, <2>1, <2>2, <3>1 DEF Handles
    <2> QED
      BY <1>1, <1>2, <1>7, <2>2 DEF ActsRight
  <1>12. MadeOnce'
    BY <1>1, <1>2, <1>7, <1>8 DEF MadeOnce, Busy
  <1>13. OneWaits'
    <2>1. \A j \in 1 .. Len(recs) : (Waits(j)' <=> Waits(j)) /\ (Cools(j)' => Cools(j)) /\ recs'[j].key = recs[j].key
      BY <1>2, <1>8 DEF Waits, Cools
    <2> QED
      BY <1>1, <1>2, <1>7, <2>1 DEF OneWaits
  <1> QED
    BY <1>9, <1>10, <1>11, <1>12, <1>13 DEF AdviceInv, RecInv

\* Every step of the feedback loop keeps AdviceInv: what the evaluators, the rules
\* and the admins who answer proposals know of one another.
THEOREM AdviceStep == AdviceInv /\ [AdviceNext]_adviceVars => AdviceInv'
  <1> SUFFICES ASSUME AdviceInv, [AdviceNext]_adviceVars PROVE AdviceInv'
    OBVIOUS
  <1>1. CASE Gather \/ Screen \/ Publish \/ Evaluate
    BY <1>1, AdviceGather, AdviceScreen, AdvicePublish, AdviceEvaluate
  <1>2. CASE \E a \in Actors : Read(a) \/ Purge(a) \/ File(a) \/ Count(a)
    BY <1>2, AdviceRead, AdvicePurge, AdviceFile, AdviceCount
  <1>3. CASE \E a \in Admins, does \in {"audit", "alert"}, enabled \in BOOLEAN : EditPolicy(a, does, enabled)
    BY <1>3, AdviceEditPolicy
  <1>4. CASE \E a \in Admins : RemovePolicy(a) \/ ErasePolicy(a)
    BY <1>4, AdviceRemovePolicy, AdviceErasePolicy
  <1>5. CASE \E a \in Admins : Change(a) \/ MarkApplied(a) \/ PutAway(a)
    BY <1>5, AdviceChange, AdviceAnswers
  <1>6. CASE \E a \in Admins, i \in 1 .. Len(recs) : ApplyProposal(a, i) \/ Decline(a, i)
    BY <1>6, AdviceOpens DEF ApplyProposal, Decline
  <1>7. CASE \E set \in SUBSET Resources : Drift(set)
    BY <1>7, AdviceDrift
  <1>8. CASE (\E levels \in Feeds : FeedMoves(levels)) \/ RuleGoes \/ UNCHANGED adviceVars
    BY <1>8, AdviceAround
  <1>9. CASE ApiRestarts
    BY <1>9, AdviceApiRestarts
  <1>10. CASE \E i \in 1 .. Len(recs) : CooldownEnds(i)
    BY <1>10, AdviceCooldownEnds
  <1> QED
    BY <1>1, <1>2, <1>3, <1>4, <1>5, <1>6, <1>7, <1>8, <1>9, <1>10 DEF AdviceNext

\* Min finds the least of some natural numbers.
LEMMA LeastOf ==
    ASSUME NEW S \in SUBSET Nat, S # {}
    PROVE  Min(S) \in S
  <1>1. \E x \in S : \A y \in S : x <= y
    <2>1. PICK x \in S : \A y \in S \ {x} : ~(<<y, x>> \in OpToRel(<, Nat))
      BY NatLessThanWellFounded, WFMin
    <2>2. \A y \in S \ {x} : ~(y < x)
      BY <2>1 DEF OpToRel
    <2> QED
      BY <2>2
  <1> QED
    BY <1>1 DEF Min

LEMMA ViolationsAreTold ==
    ASSUME AdviceInv
    PROVE  ViolationsTold
  <1>1. AdviceTyped /\ ShownRight /\ AloneRight
    BY DEF AdviceInv, EvalInv
  <1>2. ~stale => Shown \subseteq Expected
    BY <1>1 DEF ShownRight
  <1>3. ~stale /\ Still => \A a \in Actors : act[a].pc # "file"
    BY DEF Still, Replacing, Evaluating
  <1>4. ~stale /\ Still => Shown = Expected /\ (policy.there => policy.count = Cardinality(Expected))
    BY <1>1, <1>3 DEF ShownRight
  <1>5. single => \A r \in Resources : breaches[r] <= 1
    BY <1>1 DEF AloneRight, OneRow
  <1> QED
    BY <1>2, <1>4, <1>5 DEF ViolationsTold

LEMMA CandidatesAreRight ==
    ASSUME AdviceInv
    PROVE  CandidatesRight
  <1> USE AdviceAssumption
  <1>1. AdviceTyped /\ ViolationsTold
    BY ViolationsAreTold DEF AdviceInv
  <1>2. /\ ~stale => Shown \subseteq Expected
        /\ ~stale /\ Still => Shown = Expected
    BY <1>1 DEF ViolationsTold
  <1>3. Shown \in SUBSET Resources /\ Expected \in SUBSET Resources /\ IsFiniteSet(Resources)
    BY <1>1 DEF Expected, Violations, AdviceTyped, AdviceAssumption, Shown
  <1>4. ASSUME NEW newer \in OtherRows, NEW listed \in Listable(newer)
        PROVE  /\ listed \subseteq Shown /\ IsFiniteSet(listed) /\ IsFiniteSet(Expected)
               /\ RowCount(Resources) + newer <= ListLimit => listed = Shown
    <2>1. listed \subseteq Shown /\ (RowCount(Resources) + newer <= ListLimit => listed = Shown)
      BY <1>4 DEF Listable
    <2> QED
      BY <1>3, <2>1, FS_Subset
  <1>5. ASSUME NEW newer \in OtherRows, NEW listed \in Listable(newer), ~stale, Tightens(listed)
        PROVE  Cardinality(Expected) >= ViolationMin
    <2>1. listed \subseteq Expected /\ IsFiniteSet(Expected) /\ IsFiniteSet(listed)
      BY <1>2, <1>4, <1>5
    <2>2. /\ Cardinality(listed) <= Cardinality(Expected) /\ Cardinality(listed) \in Nat
          /\ Cardinality(Expected) \in Nat /\ ViolationMin \in Nat
      BY <2>1, FS_Subset, FS_CardinalityType DEF AdviceAssumption
    <2>3. Cardinality(listed) >= ViolationMin
      BY <1>5 DEF Tightens
    <2> QED
      BY <2>2, <2>3
  <1>6. ASSUME NEW newer \in OtherRows, NEW listed \in Listable(newer), ~stale, Still,
               policy.there, policy.effect = "audit", RowCount(Resources) + newer <= ListLimit,
               Cardinality(Expected) >= ViolationMin
        PROVE  Tightens(listed)
    <2>1. listed = Expected
      BY <1>2, <1>4, <1>6
    <2> QED
      BY <1>6, <2>1 DEF Tightens
  <1>8. ASSUME NEW level \in RuleLevels
        PROVE  level > IdleMax \/ \E r \in Spiking : Lowest(feed[r]) = level
    <2>1. CASE Spiking # {}
      BY <1>8, <2>1 DEF RuleLevels
    <2>2. CASE Spiking = {}
      <3> DEFINE levels == {feed[g[1]][g[2]] : g \in Gaps}
      <3>1. Cardinality(Gaps) >= GapMin /\ level = Min(levels)
        BY <1>8, <2>2 DEF RuleLevels
      <3>2. Gaps # {}
        <4>1. Cardinality({}) = 0 /\ GapMin \in Nat /\ GapMin # 0
          BY FS_EmptySet DEF AdviceAssumption
        <4>2. Gaps = {} => Cardinality(Gaps) = 0
          BY <4>1
        <4> QED
          BY <3>1, <4>1, <4>2
      <3>3. \A g \in Gaps : feed[g[1]][g[2]] \in Nat /\ feed[g[1]][g[2]] > IdleMax
        <4>1. feed \in [Resources -> Seq(Nat)]
          BY <1>1 DEF AdviceTyped, AdviceAssumption
        <4>2. ASSUME NEW g \in Gaps
              PROVE  feed[g[1]][g[2]] \in Nat /\ feed[g[1]][g[2]] > IdleMax
          <5>1. PICK r \in Resources : g \in {<<r, i>> : i \in {j \in 1 .. Len(feed[r]) : feed[r][j] > IdleMax}}
            BY DEF Gaps
          <5>2. PICK j \in 1 .. Len(feed[r]) : g = <<r, j>> /\ feed[r][j] > IdleMax
            BY <5>1
          <5>3. feed[r] \in Seq(Nat)
            BY <4>1
          <5>4. feed[r][j] \in Nat
            BY <5>2, <5>3
          <5>5. g[1] = r /\ g[2] = j
            BY <5>2
          <5> QED
            BY <5>2, <5>4, <5>5
        <4> QED
          BY <4>2
      <3>4. levels \in SUBSET Nat /\ levels # {}
        BY <3>2, <3>3
      <3>5. level \in levels
        BY <3>1, <3>4, LeastOf
      <3> QED
        BY <3>3, <3>5
    <2> QED
      BY <2>1, <2>2
  <1> QED
    BY <1>5, <1>6, <1>8 DEF CandidatesRight

LEMMA ProposalsAreKept ==
    ASSUME AdviceInv
    PROVE  ProposalsKept
  <1>1. MadeOnce /\ OneWaits
    BY DEF AdviceInv, RecInv
  <1>2. ASSUME NEW i \in 1 .. Len(recs), NEW j \in 1 .. Len(recs),
               recs[i].status = "pending", recs[j].key = recs[i].key
        PROVE  /\ recs[j].status = "pending" => i = j
               /\ OnHold(j) => j \in crossed
    BY <1>1, <1>2 DEF OneWaits, Waits, Cools, OnHold
  <1> QED
    BY <1>1, <1>2 DEF ProposalsKept, MadeOnce

\* The loop proposes what is, once, however many admins answer proposals and
\* whenever policies are edited or removed: until an evaluation of former facts
\* writes over one of the present facts, what breaks the policy is shown; no key
\* waits twice or returns while its dismissal holds, and what is applied was
\* changed once.
THEOREM AdviceIsHonest == AdviceSpec => []AdviceHonest
  <1>1. AdviceInit => AdviceInv
    BY AdviceInitHolds
  <1>2. AdviceInv => AdviceHonest
    BY ViolationsAreTold, CandidatesAreRight, ProposalsAreKept DEF AdviceHonest
  <1> QED
    BY <1>1, <1>2, AdviceStep, PTL DEF AdviceSpec

=============================================================================
