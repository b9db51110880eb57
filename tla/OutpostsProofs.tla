--------------------------- MODULE OutpostsProofs ---------------------------
(***************************************************************************)
(* What holds of the platform's outposts whatever their constants: of the   *)
(* agent's commands (AgentChannel), of connections that are removed         *)
(* (Inventory), of what a fabric has billed (Fabric), of an agent's console *)
(* (Tunnel), of the log store (LogStore), and of all five together.         *)
(***************************************************************************)
EXTENDS MCOutposts, FiniteSetTheorems, SequenceTheorems, WellFoundedInduction, TLAPS

(***************************************************************************)
(* The agent's commands.                                                   *)
(*                                                                         *)
(* That a machine runs a command at most once does not follow from the      *)
(* history: two polls that overlap may both have found it, and both mark    *)
(* it.  It follows from what the agent does: it takes the answer of one     *)
(* poll only, and dials when it has nothing left to run.  So a command in   *)
(* that poll, or in the agent's hands, has not been run.                    *)
(***************************************************************************)
(* What the history says of a command, against what the machine did. *)
Told(c) ==
    /\ ran[c] <= 1
    /\ cmd[c].status \in {"none", "queued"} => ran[c] = 0
    /\ cmd[c].status = "done" => ran[c] > 0
    /\ c \in saved => ran[c] > 0
    /\ (c \in saved /\ ~hung) => cmd[c].status \in {"done", "gone"}

(* What the agent holds was marked and has not been run; what it reports was. *)
Held ==
    /\ \A c \in agent.batch : ran[c] = 0 /\ cmd[c].status \notin {"none", "queued"}
    /\ post.of # None => ran[post.of] > 0
    /\ post.pc # "idle" => post.of # None

(* What a poll has found was queued, and is marked when it answers. *)
Found == \A p \in Polls : \A c \in poll[p].batch :
    /\ cmd[c].status # "none"
    /\ poll[p].pc # "mark" => cmd[c].status # "queued"

(* The poll that the agent waits for. *)
Waited ==
    agent.poll # 0 =>
        /\ agent.on /\ agent.batch = {}
        /\ \A c \in poll[agent.poll].batch : ran[c] = 0

(* Only an agent that gave up on a poll leaves one behind. *)
Alone == ~hung => \A p \in Polls : poll[p].pc # "idle" => agent.poll = p

Honest == (\A c \in Commands : Told(c)) /\ Held /\ Found /\ Waited /\ Alone
CommandsInv == TypeOK /\ Honest

(***************************************************************************)
(* Types.                                                                  *)
(***************************************************************************)
LEMMA RowNumbers ==
    /\ 0 \in 0 .. MaxRows /\ 0 \in 0 .. MaxReports /\ 0 \in 0 .. MaxPolls
    /\ Rows \subseteq 0 .. MaxRows /\ Reports \subseteq 0 .. MaxReports /\ Polls \subseteq 0 .. MaxPolls
    /\ 0 \notin Rows /\ 0 \notin Reports /\ 0 \notin Polls
BY ChannelAssumption DEF ChannelAssumption, Rows, Reports, Polls

\* What rests has its type: an empty row, a poll that is not there, and so on.
LEMMA RestsTyped ==
    /\ NoRow \in RowType /\ NoCommand \in CommandType /\ NoReport \in ReportType
    /\ NoPoll \in PollType /\ NoPost \in PostType /\ NoCall \in CallType
    /\ \A named \in BOOLEAN : Started(named) \in AgentType
<1>1. NoRow \in RowType /\ NoCommand \in CommandType
    BY RowNumbers DEF NoRow, NoCommand, RowType, CommandType
<1>2. NoReport \in ReportType /\ NoPoll \in PollType
    BY RowNumbers DEF NoReport, NoPoll, ReportType, PollType
<1>3. NoPost \in PostType /\ NoCall \in CallType
    BY RowNumbers DEF NoPost, NoCall, PostType, CallType
<1>4. \A named \in BOOLEAN : Started(named) \in AgentType
    BY RowNumbers DEF Started, AgentType
<1> QED BY <1>1, <1>2, <1>3, <1>4

\* A process of the agent has its type.
LEMMA ProcessTyped ==
    ASSUME agent \in AgentType, NEW on \in BOOLEAN, NEW id \in 0 .. MaxRows, NEW w \in 0 .. MaxReports,
           NEW p \in 0 .. MaxPolls, NEW batch \in SUBSET Commands
    PROVE  Process(on, id, w, p, batch) \in AgentType
BY DEF Process, AgentType

(* A record with one field replaced keeps its type. *)
LEMMA FieldsTyped ==
    /\ \A a \in AgentType, w \in 0 .. MaxReports : [a EXCEPT !.report = w] \in AgentType
    /\ \A a \in AgentType, p \in 0 .. MaxPolls : [a EXCEPT !.poll = p] \in AgentType
    /\ \A k \in ReportType : [k EXCEPT !.pc = "look"] \in ReportType
    /\ \A k \in PollType : [k EXCEPT !.pc = "answer"] \in PollType
    /\ \A r \in RowType : [r EXCEPT !.active = FALSE] \in RowType
    /\ \A r \in RowType, b \in BOOLEAN : [r EXCEPT !.named = b] \in RowType
    /\ \A c \in CommandType, s \in {"delivered", "done"} : [c EXCEPT !.status = s] \in CommandType
<1>1. \A a \in AgentType, w \in 0 .. MaxReports : [a EXCEPT !.report = w] \in AgentType
    BY DEF AgentType
<1>2. \A a \in AgentType, p \in 0 .. MaxPolls : [a EXCEPT !.poll = p] \in AgentType
    BY DEF AgentType
<1>3. \A k \in ReportType : [k EXCEPT !.pc = "look"] \in ReportType
    BY DEF ReportType
<1>4. \A k \in PollType : [k EXCEPT !.pc = "answer"] \in PollType
    BY DEF PollType
<1>5. \A r \in RowType : [r EXCEPT !.active = FALSE] \in RowType
    BY DEF RowType
<1>6. \A r \in RowType, b \in BOOLEAN : [r EXCEPT !.named = b] \in RowType
    BY DEF RowType
<1>7. \A c \in CommandType, s \in {"delivered", "done"} : [c EXCEPT !.status = s] \in CommandType
    BY DEF CommandType
<1> QED BY <1>1, <1>2, <1>3, <1>4, <1>5, <1>6, <1>7

(* Rows are deleted, and the commands of theirs are gone: nothing else. *)
LEMMA DeleteTells ==
    ASSUME row \in [Rows -> RowType], cmd \in [Commands -> CommandType], NEW rs, Delete(rs)
    PROVE  /\ row' \in [Rows -> RowType] /\ cmd' \in [Commands -> CommandType]
           /\ \A c \in Commands : \/ cmd'[c] = cmd[c]
                                  \/ cmd[c].status # "none" /\ cmd'[c].status = "gone"
<1>1. \A c \in Commands : [status |-> "gone", at |-> 0, kind |-> cmd[c].kind] \in CommandType
    BY RowNumbers DEF CommandType
<1>2. row' \in [Rows -> RowType]
    BY RestsTyped DEF Delete
<1>3. cmd' = [c \in Commands |->
                IF cmd[c].at \in rs /\ cmd[c].status # "none"
                THEN [status |-> "gone", at |-> 0, kind |-> cmd[c].kind] ELSE cmd[c]]
    BY DEF Delete
<1>4. cmd' \in [Commands -> CommandType]
    BY <1>1, <1>3
<1>5. ASSUME NEW c \in Commands
      PROVE  cmd'[c] = cmd[c] \/ (cmd[c].status # "none" /\ cmd'[c].status = "gone")
    BY <1>3
<1> QED BY <1>2, <1>4, <1>5

\* An event that is counted stays within the bound.
LEMMA HappensCounts ==
    ASSUME events \in 0 .. MaxEvents, Happens
    PROVE  events' \in 0 .. MaxEvents
BY ChannelAssumption DEF ChannelAssumption, Happens

\* A report keeps the types (handleReport of agent.service.ts).
LEMMA ReportTyped ==
    ASSUME TypeOK, NEW w \in Reports, Find(w) \/ Write(w) \/ Look(w) \/ Clean(w)
    PROVE  TypeOK'
<1> USE DEF TypeOK
<1>1. CASE Find(w)
    <2>1. PICK r \in IF There = {} THEN {0} ELSE Existing(agent.named) :
            report' = [report EXCEPT ![w] = [pc |-> "write", at |-> r, stale |-> {}, named |-> agent.named]]
        BY <1>1 DEF Find
    <2>2. r \in 0 .. MaxRows
        BY RowNumbers DEF Existing, There
    <2>3. [pc |-> "write", at |-> r, stale |-> {}, named |-> agent.named] \in ReportType
        BY <2>2 DEF ReportType, AgentType
    <2>4. agent' \in AgentType
        BY <1>1, RowNumbers, FieldsTyped DEF Find
    <2> QED BY <1>1, <2>1, <2>3, <2>4 DEF Find
<1>2. CASE Write(w)
    <2> DEFINE r == report[w].at
    <2>1. CASE r \in There /\ row' = [row EXCEPT ![r].named = @ \/ report[w].named]
                /\ report' = [report EXCEPT ![w].pc = "look"] /\ UNCHANGED agent
        <3>1. row' \in [Rows -> RowType]
            <4>1. r \in Rows /\ (row[r].named \/ report[w].named) \in BOOLEAN
                BY <2>1 DEF There
            <4> QED BY <2>1, <4>1, FieldsTyped
        <3>2. report' \in [Reports -> ReportType]
            BY <2>1, FieldsTyped
        <3> QED BY <1>2, <2>1, <3>1, <3>2 DEF Write
    <2>2. CASE /\ report' = [report EXCEPT ![w] = NoReport] /\ UNCHANGED row
               /\ agent' = IF agent.report = w THEN [agent EXCEPT !.report = 0] ELSE agent
        <3>1. agent' \in AgentType
            BY <2>2, RowNumbers, FieldsTyped
        <3> QED BY <1>2, <2>2, <3>1, RestsTyped DEF Write
    <2>3. ASSUME NEW n \in Rows, UNCHANGED agent,
                 row' = [row EXCEPT ![n] = [there |-> TRUE, active |-> TRUE, named |-> report[w].named]],
                 report' = [report EXCEPT ![w] = [pc |-> "look", at |-> n, stale |-> @.stale, named |-> @.named]]
          PROVE  TypeOK'
        <3>1. report[w] \in ReportType
            OBVIOUS
        <3>2. [there |-> TRUE, active |-> TRUE, named |-> report[w].named] \in RowType
            BY <3>1 DEF ReportType, RowType
        <3>3. [pc |-> "look", at |-> n, stale |-> report[w].stale, named |-> report[w].named] \in ReportType
            BY <3>1, RowNumbers DEF ReportType
        <3>4. row' \in [Rows -> RowType] /\ report' \in [Reports -> ReportType]
            BY <2>3, <3>2, <3>3
        <3> QED BY <1>2, <2>3, <3>4 DEF Write
    <2> QED BY <1>2, <2>1, <2>2, <2>3 DEF Write
<1>3. CASE Look(w)
    <2>1. Twins(w) \in SUBSET Rows
        BY DEF Twins, There
    <2>2. [pc |-> "clean", at |-> report[w].at, stale |-> Twins(w), named |-> report[w].named] \in ReportType
        BY <2>1 DEF ReportType
    <2> QED BY <1>3, <2>2 DEF Look
<1>4. CASE Clean(w)
    <2>1. row' \in [Rows -> RowType] /\ cmd' \in [Commands -> CommandType]
        BY <1>4, DeleteTells DEF Clean
    <2>2. agent' \in AgentType
        <3>1. agent.on \in BOOLEAN /\ report[w].at \in 0 .. MaxRows /\ agent.poll \in 0 .. MaxPolls
              /\ agent.batch \in SUBSET Commands
            BY DEF AgentType, ReportType
        <3> QED BY <1>4, <3>1, ProcessTyped, RowNumbers DEF Clean
    <2> QED BY <1>4, <2>1, <2>2, RestsTyped DEF Clean
<1> QED BY <1>1, <1>2, <1>3, <1>4

\* A poll keeps the types (longPollCommands).
LEMMA PollTyped ==
    ASSUME TypeOK, NEW p \in Polls, Dial(p) \/ FindQueued(p) \/ Mark(p) \/ Answer(p)
    PROVE  TypeOK'
<1> USE DEF TypeOK
<1>1. CASE Dial(p)
    <2> DEFINE new == [pc |-> IF agent.id \in There THEN "find" ELSE "answer",
                       at |-> IF agent.id \in There THEN agent.id ELSE 0, batch |-> {},
                       stop |-> agent.id \in There /\ ~row[agent.id].active]
    <2>1. agent.id \in 0 .. MaxRows
        BY DEF AgentType
    <2>2. new \in PollType
        <3>1. (agent.id \in There /\ ~row[agent.id].active) \in BOOLEAN
            OBVIOUS
        <3>2. (IF agent.id \in There THEN agent.id ELSE 0) \in 0 .. MaxRows
            BY <2>1, RowNumbers
        <3> QED BY <3>1, <3>2 DEF PollType
    <2>3. agent' \in AgentType
        BY <1>1, RowNumbers, FieldsTyped DEF Dial
    <2> QED BY <1>1, <2>2, <2>3 DEF Dial
<1>2. CASE FindQueued(p)
    <2> DEFINE found == Queued(poll[p].at)
               new == [pc |-> IF found # {} THEN "mark" ELSE "answer", at |-> 0, batch |-> found,
                       stop |-> poll[p].stop /\ found = {}]
    <2>1. found \in SUBSET Commands
        BY DEF Queued
    <2>2. new \in PollType
        <3>1. (poll[p].stop /\ found = {}) \in BOOLEAN
            OBVIOUS
        <3> HIDE DEF found
        <3> QED BY <2>1, <3>1, RowNumbers DEF PollType
    <2>3. poll' = [poll EXCEPT ![p] = new]
        BY <1>2 DEF FindQueued
    <2> HIDE DEF new
    <2> QED BY <1>2, <2>2, <2>3 DEF FindQueued
<1>3. CASE Mark(p)
    <2>1. cmd' \in [Commands -> CommandType]
        BY <1>3, FieldsTyped DEF Mark
    <2>2. poll' \in [Polls -> PollType]
        BY <1>3, FieldsTyped DEF Mark
    <2> QED BY <1>3, <2>1, <2>2 DEF Mark
<1>4. CASE Answer(p)
    <2>1. agent.on \in BOOLEAN /\ agent.id \in 0 .. MaxRows /\ agent.report \in 0 .. MaxReports
          /\ poll[p].batch \in SUBSET Commands
        BY DEF AgentType, PollType
    <2>2. Exited \in AgentType /\ Process(agent.on, agent.id, agent.report, 0, poll[p].batch) \in AgentType
        BY <2>1, ProcessTyped, RowNumbers DEF Exited
    <2>3. agent' \in AgentType
        BY <1>4, <2>2 DEF Answer
    <2> QED BY <1>4, <2>3, RestsTyped DEF Answer
<1> QED BY <1>1, <1>2, <1>3, <1>4

\* A step of the agent's process keeps the types.
LEMMA ProcessStepTyped ==
    ASSUME TypeOK, post.pc # "idle" => post.of # None,
           Result \/ Uninstalled \/ Leave \/ Start \/ Upgrade \/ GiveUp \/ \E c \in Commands : Run(c)
    PROVE  TypeOK'
<1> USE DEF TypeOK
<1>0. Exited \in AgentType
    BY ProcessTyped, RowNumbers DEF Exited
<1>1. CASE Result
    <2>1. [post EXCEPT !.pc = "saved"] \in PostType
        BY DEF PostType
    <2>2. cmd' \in [Commands -> CommandType]
        <3>1. cmd' = cmd \/ cmd' = [cmd EXCEPT ![post.of].status = "done"]
            BY <1>1 DEF Result
        <3>2. \A c \in Commands : [cmd[c] EXCEPT !.status = "done"] \in CommandType
            BY FieldsTyped
        <3> QED BY <3>1, <3>2
    <2>3. post.of \in Commands
        BY <1>1 DEF PostType, Result
    <2>4. saved' \subseteq Commands
        BY <1>1, <2>3 DEF Result
    <2>5. post' \in PostType
        BY <1>1, <2>1, RestsTyped DEF Result
    <2> QED BY <1>1, <2>2, <2>4, <2>5 DEF Result
<1>2. CASE Uninstalled
    <2>1. row' \in [Rows -> RowType] /\ cmd' \in [Commands -> CommandType]
        BY <1>2, DeleteTells DEF Uninstalled
    <2> QED BY <1>2, <2>1, RestsTyped DEF Uninstalled
<1>3. CASE Leave
    <2>1. hung' \in BOOLEAN
        BY <1>3 DEF Leave
    <2> QED BY <1>0, <1>3, <2>1 DEF Leave
<1>4. CASE Start
    BY <1>4, RestsTyped DEF Start, AgentType
<1>5. CASE Upgrade
    <2>1. hung' \in BOOLEAN
        BY <1>5 DEF Upgrade
    <2>2. events' \in 0 .. MaxEvents
        BY <1>5, HappensCounts DEF Upgrade
    <2> QED BY <1>5, <2>1, <2>2, RestsTyped DEF Upgrade
<1>6. CASE GiveUp
    <2>1. events' \in 0 .. MaxEvents
        BY <1>6, HappensCounts DEF GiveUp
    <2>2. agent' \in AgentType
        <3>1. [agent EXCEPT !.report = 0] \in AgentType /\ [agent EXCEPT !.poll = 0] \in AgentType
            BY RowNumbers, FieldsTyped
        <3> QED BY <1>6, <3>1 DEF GiveUp
    <2>3. hung' \in BOOLEAN
        BY <1>6 DEF GiveUp
    <2> QED BY <1>6, <2>1, <2>2, <2>3 DEF GiveUp
<1>7. ASSUME NEW c \in Commands, Run(c) PROVE TypeOK'
    <2>1. ran' \in [Commands -> Nat]
        BY <1>7 DEF Run
    <2>2. agent' \in AgentType
        BY <1>7 DEF Run, AgentType
    <2>3. [of |-> c, pc |-> "sent"] \in PostType
        BY DEF PostType
    <2>4. post' \in PostType
        BY <1>7, <2>3, RestsTyped DEF Run
    <2>5. events' \in 0 .. MaxEvents
        BY <1>7, HappensCounts DEF Run
    <2> QED BY <1>7, <2>1, <2>2, <2>4, <2>5 DEF Run
<1> QED BY <1>1, <1>2, <1>3, <1>4, <1>5, <1>6, <1>7

\* What is done at the desk, and the timers of the platform, keep the types.
LEMMA DeskTyped ==
    ASSUME TypeOK, \/ \E c \in Commands : Enqueue(c)
                   \/ \E r \in Rows : Deactivate(r)
                   \/ RemoveRow \/ Prune \/ Restart
    PROVE  TypeOK'
<1> USE DEF TypeOK
<1>1. ASSUME NEW c \in Commands, Enqueue(c) PROVE TypeOK'
    <2>1. PICK r \in There, kind \in {"run", "uninstall"} :
            /\ cmd' = [cmd EXCEPT ![c] = [status |-> "queued", at |-> r, kind |-> kind]]
            /\ desk' \in {NoCall} \cup {[todo |-> "deactivate", at |-> r] : k \in {kind} \cap {"uninstall"}}
        BY <1>1 DEF Enqueue
    <2>2. r \in 0 .. MaxRows
        BY RowNumbers DEF There
    <2>3. cmd' \in [Commands -> CommandType]
        BY <2>1, <2>2 DEF CommandType
    <2>4. desk' \in CallType
        <3>1. [todo |-> "deactivate", at |-> r] \in CallType
            BY <2>2 DEF CallType
        <3> QED BY <2>1, <3>1, RestsTyped
    <2>5. events' \in 0 .. MaxEvents
        BY <1>1, HappensCounts DEF Enqueue
    <2> QED BY <1>1, <2>3, <2>4, <2>5 DEF Enqueue
<1>2. ASSUME NEW r \in Rows, Deactivate(r) PROVE TypeOK'
    <2>1. row' \in [Rows -> RowType]
        BY <1>2, FieldsTyped DEF Deactivate
    <2>2. [todo |-> "delete", at |-> r] \in CallType
        BY RowNumbers DEF CallType
    <2>3. desk' \in CallType
        BY <1>2, <2>2, RestsTyped DEF Deactivate
    <2>4. events' \in 0 .. MaxEvents
        BY <1>2, HappensCounts DEF Deactivate
    <2> QED BY <1>2, <2>1, <2>3, <2>4 DEF Deactivate
<1>3. CASE RemoveRow
    <2>1. row' \in [Rows -> RowType] /\ cmd' \in [Commands -> CommandType]
        BY <1>3, DeleteTells DEF RemoveRow
    <2> QED BY <1>3, <2>1, RestsTyped DEF RemoveRow
<1>4. CASE Prune
    <2>1. row' \in [Rows -> RowType] /\ cmd' \in [Commands -> CommandType]
        BY <1>4, DeleteTells DEF Prune
    <2> QED BY <1>4, <2>1 DEF Prune
<1>5. CASE Restart
    <2>1. agent.on \in BOOLEAN /\ agent.id \in 0 .. MaxRows /\ agent.batch \in SUBSET Commands
        BY DEF AgentType
    <2>2. agent' \in AgentType
        BY <1>5, <2>1, ProcessTyped, RowNumbers DEF Restart
    <2>3. events' \in 0 .. MaxEvents
        BY <1>5, HappensCounts DEF Restart
    <2> QED BY <1>5, <2>2, <2>3, RestsTyped DEF Restart
<1> QED BY <1>1, <1>2, <1>3, <1>4, <1>5

\* Every step keeps the types.
LEMMA TypeKept ==
    ASSUME CommandsInv, [Next]_vars
    PROVE  TypeOK'
<1>1. CASE UNCHANGED vars
    BY <1>1 DEF CommandsInv, TypeOK, vars
<1> QED BY <1>1, ReportTyped, PollTyped, ProcessStepTyped, DeskTyped DEF Next, CommandsInv, Honest, Held

(***************************************************************************)
(* Steps that leave the polls and what the machine ran alone: the reports, *)
(* the operators that remove rows, retention.                              *)
(***************************************************************************)
LEMMA BatchesTyped ==
    ASSUME TypeOK
    PROVE  /\ agent.batch \subseteq Commands
           /\ \A p \in Polls : poll[p].batch \subseteq Commands
           /\ agent.poll \in Polls \cup {0}
           /\ post.of \in Commands \cup {None}
           /\ DOMAIN poll = Polls /\ DOMAIN cmd = Commands /\ DOMAIN ran = Commands
<1>1. agent.poll \in Polls \cup {0}
    BY ChannelAssumption DEF ChannelAssumption, TypeOK, AgentType, Polls
<1> QED BY <1>1 DEF TypeOK, AgentType, PollType, PostType

\* What touches neither polls nor what the machine did, and removes commands at
\* most from the history, keeps what the history says true.
LEMMA FleetKeeps ==
    ASSUME CommandsInv, UNCHANGED <<poll, ran, saved, hung>>, post' = post \/ post' = NoPost,
           agent'.poll = agent.poll, agent'.batch = agent.batch, agent'.on = agent.on,
           \A c \in Commands : \/ cmd'[c] = cmd[c]
                               \/ cmd[c].status # "none" /\ cmd'[c].status = "gone"
    PROVE  Honest'
<1>0. /\ agent.batch \subseteq Commands
      /\ \A p \in Polls : poll[p].batch \subseteq Commands
    BY BatchesTyped DEF CommandsInv
<1>1. ASSUME NEW c \in Commands PROVE Told(c)'
    <2>1. Told(c)
        BY DEF CommandsInv, Honest
    <2>2. CASE cmd'[c] = cmd[c]
        BY <2>1, <2>2 DEF Told
    <2>3. CASE cmd[c].status # "none" /\ cmd'[c].status = "gone"
        BY <2>1, <2>3 DEF Told
    <2> QED BY <2>2, <2>3
<1>2. Held'
    <2>1. \A c \in agent.batch : ran[c] = 0 /\ cmd'[c].status \notin {"none", "queued"}
        BY <1>0 DEF CommandsInv, Honest, Held
    <2>2. /\ post'.of # None => ran[post'.of] > 0
          /\ post'.pc # "idle" => post'.of # None
        BY DEF CommandsInv, Honest, Held, NoPost
    <2> QED BY <2>1, <2>2 DEF Held
<1>3. Found'
    <2>1. \A p \in Polls : \A c \in poll[p].batch : c \in Commands
        BY <1>0
    <2> QED BY <2>1 DEF CommandsInv, Honest, Found
<1>4. Waited' /\ Alone'
    BY DEF CommandsInv, Honest, Waited, Alone
<1> QED BY <1>1, <1>2, <1>3, <1>4 DEF Honest

\* A report says nothing of commands but that one is gone with its row.
LEMMA ReportHonest ==
    ASSUME CommandsInv, NEW w \in Reports, Find(w) \/ Write(w) \/ Look(w) \/ Clean(w)
    PROVE  Honest'
<1>0. /\ row \in [Rows -> RowType] /\ cmd \in [Commands -> CommandType] /\ agent \in AgentType
    BY DEF CommandsInv, TypeOK
<1>1. ASSUME NEW k PROVE /\ [agent EXCEPT !.report = k].poll = agent.poll
                         /\ [agent EXCEPT !.report = k].batch = agent.batch
                         /\ [agent EXCEPT !.report = k].on = agent.on
    BY <1>0 DEF AgentType
<1>2. CASE Find(w) \/ Write(w) \/ Look(w)
    <2>1. UNCHANGED <<poll, ran, saved, hung, post, cmd>>
        BY <1>2 DEF Find, Write, Look
    <2>2. agent' = agent \/ \E k : agent' = [agent EXCEPT !.report = k]
        BY <1>2 DEF Find, Write, Look
    <2>3. agent'.poll = agent.poll /\ agent'.batch = agent.batch /\ agent'.on = agent.on
        BY <1>1, <2>2
    <2> QED BY <2>1, <2>3, FleetKeeps
<1>3. CASE Clean(w)
    <2>1. UNCHANGED <<poll, ran, saved, hung, post>> /\ Delete(report[w].stale)
        BY <1>3 DEF Clean
    <2>2. agent'.poll = agent.poll /\ agent'.batch = agent.batch /\ agent'.on = agent.on
        BY <1>3 DEF Clean, Process
    <2> QED BY <1>0, <2>1, <2>2, DeleteTells, FleetKeeps
<1> QED BY <1>2, <1>3

\* A row that is removed takes its commands with it.
LEMMA RemovalHonest ==
    ASSUME CommandsInv, Uninstalled \/ RemoveRow \/ Prune \/ \E r \in Rows : Deactivate(r)
    PROVE  Honest'
<1>0. /\ row \in [Rows -> RowType] /\ cmd \in [Commands -> CommandType]
    BY DEF CommandsInv, TypeOK
<1>1. UNCHANGED <<poll, ran, saved, hung, agent>> /\ (post' = post \/ post' = NoPost)
    BY DEF Uninstalled, RemoveRow, Prune, Deactivate
<1>2. UNCHANGED cmd \/ \E rs : Delete(rs)
    BY DEF Uninstalled, RemoveRow, Prune, Deactivate
<1>3. \A c \in Commands : \/ cmd'[c] = cmd[c]
                          \/ cmd[c].status # "none" /\ cmd'[c].status = "gone"
    BY <1>0, <1>2, DeleteTells
<1> QED BY <1>1, <1>3, FleetKeeps

(***************************************************************************)
(* The operator queues a command: nobody has heard of it.                  *)
(***************************************************************************)
LEMMA EnqueueHonest ==
    ASSUME CommandsInv, NEW c \in Commands, Enqueue(c)
    PROVE  Honest'
<1>0. TypeOK /\ Honest
    BY DEF CommandsInv
<1>1. PICK r \in There, kind \in {"run", "uninstall"} :
        cmd' = [cmd EXCEPT ![c] = [status |-> "queued", at |-> r, kind |-> kind]]
    BY DEF Enqueue
<1>2. cmd'[c].status = "queued" /\ \A d \in Commands \ {c} : cmd'[d] = cmd[d]
    BY <1>0, <1>1, BatchesTyped
<1>3. UNCHANGED <<poll, ran, saved, hung, agent, post>> /\ cmd[c].status = "none"
    BY DEF Enqueue
<1>4. ran[c] = 0 /\ c \notin saved
    BY <1>0, <1>3 DEF Honest, Told
<1>5. c \notin agent.batch /\ \A p \in Polls : c \notin poll[p].batch
    BY <1>0, <1>3 DEF Honest, Held, Found
<1>6. ASSUME NEW d \in Commands PROVE Told(d)'
    <2>1. Told(d)
        BY <1>0 DEF Honest
    <2>2. CASE d = c
        BY <1>2, <1>3, <1>4, <2>2 DEF Told
    <2>3. CASE d # c
        BY <1>2, <1>3, <2>1, <2>3 DEF Told
    <2> QED BY <2>2, <2>3
<1>7. Held'
    <2>1. \A d \in agent.batch : d \in Commands \ {c}
        BY <1>0, <1>5, BatchesTyped
    <2> QED BY <1>0, <1>2, <1>3, <2>1 DEF Honest, Held
<1>8. Found'
    <2>1. \A p \in Polls : \A d \in poll[p].batch : d \in Commands \ {c}
        BY <1>0, <1>5, BatchesTyped
    <2> QED BY <1>0, <1>2, <1>3, <2>1 DEF Honest, Found
<1>9. Waited' /\ Alone'
    BY <1>0, <1>3 DEF Honest, Waited, Alone
<1> QED BY <1>6, <1>7, <1>8, <1>9 DEF Honest

(***************************************************************************)
(* A poll.                                                                 *)
(***************************************************************************)
(* The agent waits for a new poll: it has nothing to run, and no other poll is *)
(* under way unless it gave up on one.                                        *)
LEMMA DialHonest ==
    ASSUME CommandsInv, NEW p \in Polls, Dial(p)
    PROVE  Honest'
<1>0. TypeOK /\ Honest
    BY DEF CommandsInv
<1> DEFINE new == [pc |-> IF agent.id \in There THEN "find" ELSE "answer",
                   at |-> IF agent.id \in There THEN agent.id ELSE 0, batch |-> {},
                   stop |-> agent.id \in There /\ ~row[agent.id].active]
<1>1. poll' = [poll EXCEPT ![p] = new] /\ new.batch = {}
    BY DEF Dial
<1> HIDE DEF new
<1>2. poll'[p].batch = {} /\ \A q \in Polls \ {p} : poll'[q] = poll[q]
    BY <1>0, <1>1, BatchesTyped
<1>3. /\ UNCHANGED <<cmd, ran, saved, hung, post>>
      /\ agent' = [agent EXCEPT !.poll = p] /\ agent.on /\ agent.poll = 0 /\ agent.batch = {}
    BY DEF Dial
<1>4. agent'.poll = p /\ agent'.batch = {} /\ agent'.on
    BY <1>0, <1>3 DEF TypeOK, AgentType
<1>5. \A c \in Commands : Told(c)'
    BY <1>0, <1>3 DEF Honest, Told
<1>6. Held'
    BY <1>0, <1>3, <1>4 DEF Honest, Held
<1>7. Found'
    <2>1. ASSUME NEW q \in Polls, NEW c \in poll'[q].batch
          PROVE  cmd[c].status # "none" /\ (poll'[q].pc # "mark" => cmd[c].status # "queued")
        <3>1. q # p
            BY <1>2, <2>1
        <3> QED BY <1>0, <1>2, <2>1, <3>1 DEF Honest, Found
    <2> QED BY <1>3, <2>1 DEF Found
<1>8. Waited'
    BY <1>2, <1>4 DEF Waited
<1>9. Alone'
    <2>1. ~hung => \A q \in Polls : poll[q].pc = "idle"
        BY <1>0, <1>3, RowNumbers DEF Honest, Alone
    <2> QED BY <1>2, <1>3, <1>4, <2>1 DEF Alone
<1> QED BY <1>5, <1>6, <1>7, <1>8, <1>9 DEF Honest

(* What a poll finds is queued, so the machine has not run it. *)
LEMMA FindQueuedHonest ==
    ASSUME CommandsInv, NEW p \in Polls, FindQueued(p)
    PROVE  Honest'
<1>0. TypeOK /\ Honest
    BY DEF CommandsInv
<1> DEFINE found == Queued(poll[p].at)
           new == [pc |-> IF found # {} THEN "mark" ELSE "answer", at |-> 0, batch |-> found,
                   stop |-> poll[p].stop /\ found = {}]
<1>1. /\ poll' = [poll EXCEPT ![p] = new] /\ new.batch = found
      /\ found # {} => new.pc = "mark"
    BY DEF FindQueued
<1> HIDE DEF new
<1>2. /\ poll'[p].batch = found /\ (found # {} => poll'[p].pc = "mark")
      /\ \A q \in Polls \ {p} : poll'[q] = poll[q]
    BY <1>0, <1>1, BatchesTyped
<1>3. UNCHANGED <<cmd, ran, saved, hung, post, agent>> /\ poll[p].pc = "find"
    BY DEF FindQueued
<1>4. \A c \in found : c \in Commands /\ cmd[c].status = "queued"
    BY DEF Queued
<1>5. \A c \in found : ran[c] = 0
    BY <1>0, <1>4 DEF Honest, Told
<1> HIDE DEF found
<1>6. \A c \in Commands : Told(c)'
    BY <1>0, <1>3 DEF Honest, Told
<1>7. Held'
    BY <1>0, <1>3 DEF Honest, Held
<1>8. Found'
    <2>1. ASSUME NEW q \in Polls, NEW c \in poll'[q].batch
          PROVE  cmd[c].status # "none" /\ (poll'[q].pc # "mark" => cmd[c].status # "queued")
        <3>1. CASE q = p
            BY <1>2, <1>4, <2>1, <3>1
        <3>2. CASE q # p
            BY <1>0, <1>2, <2>1, <3>2 DEF Honest, Found
        <3> QED BY <3>1, <3>2
    <2> QED BY <1>3, <2>1 DEF Found
<1>9. Waited'
    <2>1. ASSUME agent.poll # 0 PROVE \A c \in poll'[agent.poll].batch : ran[c] = 0
        <3>1. agent.poll \in Polls
            BY <1>0, <2>1, BatchesTyped
        <3>2. CASE agent.poll = p
            BY <1>2, <1>5, <3>2
        <3>3. CASE agent.poll # p
            BY <1>0, <1>2, <2>1, <3>1, <3>3 DEF Honest, Waited
        <3> QED BY <3>2, <3>3
    <2> QED BY <1>0, <1>3, <2>1 DEF Honest, Waited
<1>10. Alone'
    <2>1. \A q \in Polls : poll'[q].pc # "idle" => poll[q].pc # "idle"
        BY <1>2, <1>3
    <2> QED BY <1>0, <1>3, <2>1 DEF Honest, Alone
<1> QED BY <1>6, <1>7, <1>8, <1>9, <1>10 DEF Honest

(* It marks what it found.  Nothing of it was saved, unless the agent left it. *)
LEMMA MarkHonest ==
    ASSUME CommandsInv, NEW p \in Polls, Mark(p)
    PROVE  Honest'
<1>0. TypeOK /\ Honest
    BY DEF CommandsInv
<1>1. /\ poll[p].pc = "mark" /\ poll' = [poll EXCEPT ![p].pc = "answer"]
      /\ UNCHANGED <<ran, saved, hung, post, agent>>
    BY DEF Mark
<1>2. ASSUME NEW c \in Commands
      PROVE  \/ c \notin poll[p].batch /\ cmd'[c] = cmd[c]
             \/ c \in poll[p].batch /\ cmd[c].status = "gone" /\ cmd'[c] = cmd[c]
             \/ c \in poll[p].batch /\ cmd[c].status # "none" /\ cmd'[c].status = "delivered"
    <2>1. cmd'[c] = IF c \in poll[p].batch /\ cmd[c].status # "gone"
                    THEN [cmd[c] EXCEPT !.status = "delivered"] ELSE cmd[c]
        BY DEF Mark
    <2>2. cmd[c] \in CommandType
        BY <1>0 DEF TypeOK
    <2>3. [cmd[c] EXCEPT !.status = "delivered"].status = "delivered"
        BY <2>2 DEF CommandType
    <2>4. c \in poll[p].batch => cmd[c].status # "none"
        BY <1>0 DEF Honest, Found
    <2> QED BY <2>1, <2>3, <2>4
<1>3. /\ poll'[p].batch = poll[p].batch /\ poll'[p].pc = "answer"
      /\ \A q \in Polls \ {p} : poll'[q] = poll[q]
    BY <1>0, <1>1 DEF TypeOK, PollType
<1>4. \A q \in Polls : poll'[q].batch = poll[q].batch
    BY <1>3
<1>5. ASSUME NEW c \in Commands PROVE Told(c)'
    <2>1. Told(c)
        BY <1>0 DEF Honest
    <2>2. CASE cmd'[c] = cmd[c]
        BY <1>1, <2>1, <2>2 DEF Told
    <2>3. CASE c \in poll[p].batch /\ cmd'[c].status = "delivered"
        <3>1. c \in saved => hung
            <4> SUFFICES ASSUME ~hung PROVE c \notin saved
                OBVIOUS
            <4>1. agent.poll = p
                BY <1>0, <1>1 DEF Honest, Alone
            <4>2. ran[c] = 0
                BY <1>0, <2>3, <4>1, RowNumbers DEF Honest, Waited
            <4> QED BY <2>1, <4>2 DEF Told
        <3> QED BY <1>1, <2>1, <2>3, <3>1 DEF Told
    <2> QED BY <1>2, <2>2, <2>3
<1>6. Held'
    <2>1. \A c \in agent.batch : cmd'[c].status \notin {"none", "queued"}
        BY <1>0, <1>2, BatchesTyped DEF Honest, Held
    <2> QED BY <1>0, <1>1, <2>1 DEF Honest, Held
<1>7. Found'
    <2>1. ASSUME NEW q \in Polls, NEW c \in poll[q].batch
          PROVE  cmd'[c].status # "none" /\ (poll'[q].pc # "mark" => cmd'[c].status # "queued")
        <3>1. c \in Commands
            BY <1>0, BatchesTyped
        <3>2. cmd[c].status # "none" /\ (poll[q].pc # "mark" => cmd[c].status # "queued")
            BY <1>0 DEF Honest, Found
        <3>3. CASE q = p
            <4>1. cmd'[c].status \in {"gone", "delivered"}
                BY <1>2, <2>1, <3>1, <3>3
            <4> QED BY <4>1
        <3>4. CASE q # p
            BY <1>2, <1>3, <3>1, <3>2, <3>4
        <3> QED BY <3>3, <3>4
    <2> QED BY <1>4, <2>1 DEF Found
<1>8. Waited'
    BY <1>0, <1>1, <1>4, BatchesTyped DEF Honest, Waited
<1>9. Alone'
    <2>1. \A q \in Polls : poll'[q].pc # "idle" => poll[q].pc # "idle"
        BY <1>1, <1>3
    <2> QED BY <1>0, <1>1, <2>1 DEF Honest, Alone
<1> QED BY <1>5, <1>6, <1>7, <1>8, <1>9 DEF Honest

(* The agent takes the answer of the poll it waits for, and of no other. *)
LEMMA AnswerHonest ==
    ASSUME CommandsInv, NEW p \in Polls, Answer(p)
    PROVE  Honest'
<1>0. TypeOK /\ Honest
    BY DEF CommandsInv
<1>1. /\ poll[p].pc = "answer" /\ poll' = [poll EXCEPT ![p] = NoPoll]
      /\ UNCHANGED <<cmd, ran, saved, hung, post>>
    BY DEF Answer
<1>2. /\ poll'[p].batch = {} /\ poll'[p].pc = "idle"
      /\ \A q \in Polls \ {p} : poll'[q] = poll[q]
    BY <1>0, <1>1, BatchesTyped DEF NoPoll
<1>3. \/ agent.poll # p /\ agent' = agent
      \/ agent.poll = p /\ agent'.poll = 0 /\ agent'.batch = {}
      \/ agent.poll = p /\ agent'.poll = 0 /\ agent'.batch = poll[p].batch
    BY DEF Answer, Exited, Process
<1>4. p # 0
    BY RowNumbers
<1>5. agent.poll = p => \A c \in poll[p].batch : ran[c] = 0
    BY <1>0, <1>4 DEF Honest, Waited
<1>6. \A c \in poll[p].batch : cmd[c].status \notin {"none", "queued"}
    BY <1>0, <1>1 DEF Honest, Found
<1>7. \A c \in Commands : Told(c)'
    BY <1>0, <1>1 DEF Honest, Told
<1>8. Held'
    <2>1. /\ post.of # None => ran[post.of] > 0
          /\ post.pc # "idle" => post.of # None
        BY <1>0 DEF Honest, Held
    <2>2. \A c \in agent'.batch : ran[c] = 0 /\ cmd[c].status \notin {"none", "queued"}
        BY <1>0, <1>3, <1>5, <1>6 DEF Honest, Held
    <2> QED BY <1>1, <2>1, <2>2 DEF Held
<1>9. Found'
    <2>1. ASSUME NEW q \in Polls, NEW c \in poll'[q].batch
          PROVE  cmd[c].status # "none" /\ (poll'[q].pc # "mark" => cmd[c].status # "queued")
        <3>1. q # p
            BY <1>2, <2>1
        <3> QED BY <1>0, <1>2, <2>1, <3>1 DEF Honest, Found
    <2> QED BY <1>1, <2>1 DEF Found
<1>10. Waited'
    <2>1. ASSUME agent'.poll # 0
          PROVE  /\ agent'.on /\ agent'.batch = {}
                 /\ \A c \in poll'[agent'.poll].batch : ran[c] = 0
        <3>1. agent' = agent /\ agent.poll # p /\ agent.poll # 0
            BY <1>3, <2>1
        <3>2. poll'[agent.poll] = poll[agent.poll]
            BY <1>0, <1>2, <3>1, BatchesTyped
        <3> QED BY <1>0, <3>1, <3>2 DEF Honest, Waited
    <2> QED BY <1>1, <2>1 DEF Waited
<1>11. Alone'
    <2>1. ASSUME ~hung, NEW q \in Polls, poll'[q].pc # "idle" PROVE FALSE
        <3>1. q # p
            BY <1>2, <2>1
        <3>2. agent.poll = q /\ agent.poll = p
            BY <1>0, <1>1, <1>2, <2>1, <3>1 DEF Honest, Alone
        <3> QED BY <3>1, <3>2
    <2> QED BY <1>1, <2>1 DEF Alone
<1> QED BY <1>7, <1>8, <1>9, <1>10, <1>11 DEF Honest

(***************************************************************************)
(* The result of a command, and the machine that runs it.                  *)
(***************************************************************************)
(* What is saved was run. *)
LEMMA ResultHonest ==
    ASSUME CommandsInv, Result
    PROVE  Honest'
<1>0. TypeOK /\ Honest
    BY DEF CommandsInv
<1> DEFINE c == post.of
<1>1. post.pc = "sent" /\ UNCHANGED <<poll, agent, ran, hung>>
    BY DEF Result
<1>2. c \in Commands /\ ran[c] > 0
    BY <1>0, <1>1, BatchesTyped DEF Honest, Held
<1>3. \/ post' = NoPost /\ UNCHANGED <<cmd, saved>>
      \/ /\ cmd' = [cmd EXCEPT ![c].status = "done"] /\ saved' = saved \cup {c}
         /\ post' = [post EXCEPT !.pc = "saved"] \/ post' = NoPost
    BY DEF Result
<1>4. /\ post'.of # None => post'.of = c
      /\ post'.pc # "idle" => post'.of # None
    <2>1. post \in PostType
        BY <1>0 DEF TypeOK
    <2>2. [post EXCEPT !.pc = "saved"].of = c
        BY <2>1 DEF PostType
    <2>3. c # None
        BY <1>2, ChannelAssumption DEF ChannelAssumption
    <2>4. CASE post' = [post EXCEPT !.pc = "saved"]
        BY <2>2, <2>3, <2>4
    <2>5. CASE post' = NoPost
        BY <2>5 DEF NoPost
    <2> QED BY <1>3, <2>4, <2>5
<1>5. ASSUME NEW d \in Commands
      PROVE  \/ cmd'[d] = cmd[d] /\ (d \in saved' => d \in saved)
             \/ d = c /\ cmd'[d].status = "done"
    <2>1. cmd[d] \in CommandType /\ DOMAIN cmd = Commands
        BY <1>0 DEF TypeOK
    <2>2. CASE d = c
        <3>1. [cmd[d] EXCEPT !.status = "done"].status = "done"
            BY <2>1 DEF CommandType
        <3> QED BY <1>3, <2>1, <2>2, <3>1
    <2>3. CASE d # c
        BY <1>3, <2>1, <2>3
    <2> QED BY <2>2, <2>3
<1>6. ASSUME NEW d \in Commands PROVE Told(d)'
    <2>1. Told(d)
        BY <1>0 DEF Honest
    <2>2. CASE cmd'[d] = cmd[d] /\ (d \in saved' => d \in saved)
        BY <1>1, <2>1, <2>2 DEF Told
    <2>3. CASE d = c /\ cmd'[d].status = "done"
        BY <1>1, <1>2, <2>1, <2>3 DEF Told
    <2> QED BY <1>5, <2>2, <2>3
<1>7. Held'
    <2>1. ASSUME NEW d \in agent.batch PROVE ran[d] = 0 /\ cmd'[d].status \notin {"none", "queued"}
        <3>1. d \in Commands
            BY <1>0, BatchesTyped
        <3>2. ran[d] = 0 /\ cmd[d].status \notin {"none", "queued"}
            BY <1>0 DEF Honest, Held
        <3> QED BY <1>5, <3>1, <3>2
    <2> QED BY <1>1, <1>2, <1>4, <2>1 DEF Held
<1>8. Found'
    <2>1. ASSUME NEW q \in Polls, NEW d \in poll[q].batch
          PROVE  cmd'[d].status # "none" /\ (poll[q].pc # "mark" => cmd'[d].status # "queued")
        <3>1. d \in Commands
            BY <1>0, BatchesTyped
        <3>2. cmd[d].status # "none" /\ (poll[q].pc # "mark" => cmd[d].status # "queued")
            BY <1>0 DEF Honest, Found
        <3> QED BY <1>5, <3>1, <3>2
    <2> QED BY <1>1, <2>1 DEF Found
<1>9. Waited' /\ Alone'
    BY <1>0, <1>1 DEF Honest, Waited, Alone
<1> QED BY <1>6, <1>7, <1>8, <1>9 DEF Honest

(* The machine runs what it holds, while the agent waits for no poll. *)
LEMMA RunHonest ==
    ASSUME CommandsInv, NEW c \in Commands, Run(c)
    PROVE  Honest'
<1>0. TypeOK /\ Honest
    BY DEF CommandsInv
<1>1. /\ c \in agent.batch /\ ran' = [ran EXCEPT ![c] = @ + 1]
      /\ UNCHANGED <<cmd, poll, saved, hung>>
    BY DEF Run
<1>2. ran[c] = 0 /\ cmd[c].status \notin {"none", "queued"} /\ agent.poll = 0
    BY <1>0, <1>1 DEF Honest, Held, Waited
<1>3. ran'[c] = 1 /\ \A d \in Commands \ {c} : ran'[d] = ran[d]
    BY <1>0, <1>1, <1>2, BatchesTyped
<1>4. agent'.poll = agent.poll /\ agent'.batch = agent.batch \ {c}
    BY DEF Run
<1>5. post' = [of |-> c, pc |-> "sent"] \/ post' = NoPost
    BY DEF Run
<1>6. ASSUME NEW d \in Commands PROVE Told(d)'
    <2>1. Told(d)
        BY <1>0 DEF Honest
    <2>2. CASE d = c
        BY <1>1, <1>2, <1>3, <2>1, <2>2 DEF Told
    <2>3. CASE d # c
        BY <1>1, <1>3, <2>1, <2>3 DEF Told
    <2> QED BY <2>2, <2>3
<1>7. Held'
    <2>1. \A d \in agent'.batch : d \in Commands \ {c} /\ d \in agent.batch
        BY <1>0, <1>4, BatchesTyped
    <2>2. \A d \in agent'.batch : ran'[d] = 0 /\ cmd'[d].status \notin {"none", "queued"}
        BY <1>0, <1>1, <1>3, <2>1 DEF Honest, Held
    <2>3. /\ post'.of # None => ran'[post'.of] > 0
          /\ post'.pc # "idle" => post'.of # None
        <3>1. CASE post' = [of |-> c, pc |-> "sent"]
            <4>1. post'.of = c /\ c # None
                BY <3>1, ChannelAssumption DEF ChannelAssumption
            <4> QED BY <1>3, <4>1
        <3>2. CASE post' = NoPost
            BY <3>2 DEF NoPost
        <3> QED BY <1>5, <3>1, <3>2
    <2> QED BY <2>2, <2>3 DEF Held
<1>8. Found'
    BY <1>0, <1>1 DEF Honest, Found
<1>9. Waited'
    BY <1>2, <1>4 DEF Waited
<1>10. Alone'
    BY <1>0, <1>1, <1>4 DEF Honest, Alone
<1> QED BY <1>6, <1>7, <1>8, <1>9, <1>10 DEF Honest

(***************************************************************************)
(* The process of the agent comes and goes.                                *)
(***************************************************************************)
(* It keeps what it waits for, or leaves it, and that is remembered. *)
LEMMA ProcessKeeps ==
    ASSUME CommandsInv, UNCHANGED <<cmd, poll, post, ran, saved>>, hung => hung',
           agent'.batch \subseteq agent.batch,
           \/ agent'.poll = agent.poll /\ agent'.on = agent.on
           \/ agent'.poll = 0 /\ (agent.poll # 0 => hung')
    PROVE  Honest'
<1>0. Honest
    BY DEF CommandsInv
<1>1. \A c \in Commands : Told(c)'
    BY <1>0 DEF Honest, Told
<1>2. Held' /\ Found'
    BY <1>0 DEF Honest, Held, Found
<1>3. Waited'
    BY <1>0 DEF Honest, Waited
<1>4. Alone'
    <2>1. ~hung' => agent'.poll = agent.poll
        OBVIOUS
    <2> QED BY <1>0, <2>1 DEF Honest, Alone
<1> QED BY <1>1, <1>2, <1>3, <1>4 DEF Honest

\* A process that leaves, starts or gives up holds nothing it would run again.
LEMMA ProcessHonest ==
    ASSUME CommandsInv, Leave \/ Start \/ Upgrade \/ GiveUp
    PROVE  Honest'
<1>0. TypeOK /\ Honest /\ agent \in AgentType /\ hung \in BOOLEAN
    BY DEF CommandsInv, TypeOK
<1>1. UNCHANGED <<cmd, poll, post, ran, saved>>
    BY DEF Leave, Start, Upgrade, GiveUp
<1>2. CASE Leave
    <2>1. agent'.poll = 0 /\ agent'.batch = {} /\ hung' = (hung \/ agent.poll # 0)
        BY <1>2 DEF Leave, Exited, Process
    <2> QED BY <1>1, <2>1, ProcessKeeps
<1>3. CASE Start
    <2>1. agent'.poll = 0 /\ agent'.batch = {} /\ hung' = hung /\ ~agent.on
        BY <1>3 DEF Start, Started
    <2>2. agent.poll = 0
        BY <1>0, <2>1 DEF Honest, Waited
    <2> QED BY <1>1, <2>1, <2>2, ProcessKeeps
<1>4. CASE Upgrade
    <2>1. agent'.poll = 0 /\ agent'.batch = {} /\ hung' = (hung \/ agent.poll # 0)
        BY <1>4 DEF Upgrade, Started
    <2> QED BY <1>1, <2>1, ProcessKeeps
<1>5. CASE GiveUp
    <2>1. CASE agent' = [agent EXCEPT !.report = 0] /\ hung' = hung
        <3>1. agent'.poll = agent.poll /\ agent'.on = agent.on /\ agent'.batch = agent.batch
            BY <1>0, <2>1 DEF AgentType
        <3> QED BY <1>1, <2>1, <3>1, ProcessKeeps
    <2>2. CASE agent' = [agent EXCEPT !.poll = 0] /\ hung' = TRUE
        <3>1. agent'.poll = 0 /\ agent'.batch = agent.batch
            BY <1>0, <2>2 DEF AgentType
        <3> QED BY <1>1, <2>2, <3>1, ProcessKeeps
    <2> QED BY <1>5, <2>1, <2>2 DEF GiveUp
<1> QED BY <1>2, <1>3, <1>4, <1>5

(* The API restarts: no poll is left, and none is waited for. *)
LEMMA RestartHonest ==
    ASSUME CommandsInv, Restart
    PROVE  Honest'
<1>0. Honest
    BY DEF CommandsInv
<1>1. UNCHANGED <<cmd, ran, saved, hung>> /\ post' = NoPost /\ poll' = [p \in Polls |-> NoPoll]
    BY DEF Restart
<1>2. agent'.poll = 0 /\ agent'.batch = agent.batch
    BY DEF Restart, Process
<1>3. \A p \in Polls : poll'[p].batch = {} /\ poll'[p].pc = "idle"
    BY <1>1 DEF NoPoll
<1>4. \A c \in Commands : Told(c)'
    BY <1>0, <1>1 DEF Honest, Told
<1>5. Held'
    BY <1>0, <1>1, <1>2 DEF Honest, Held, NoPost
<1>6. Found' /\ Waited' /\ Alone'
    BY <1>2, <1>3 DEF Found, Waited, Alone
<1> QED BY <1>4, <1>5, <1>6 DEF Honest

(***************************************************************************)
(* The invariant.                                                          *)
(***************************************************************************)
LEMMA CommandsInit ==
    ASSUME Init
    PROVE  CommandsInv
<1> USE DEF Init
<1>1. TypeOK
    <2>1. agent \in AgentType
        BY RestsTyped
    <2>2. 0 \in 0 .. MaxEvents
        BY ChannelAssumption DEF ChannelAssumption
    <2>3. row \in [Rows -> RowType] /\ cmd \in [Commands -> CommandType]
        BY RestsTyped
    <2>4. report \in [Reports -> ReportType] /\ poll \in [Polls -> PollType]
        BY RestsTyped
    <2>5. post \in PostType /\ desk \in CallType
        BY RestsTyped
    <2> QED BY <2>1, <2>2, <2>3, <2>4, <2>5 DEF TypeOK
<1>2. agent.poll = 0 /\ agent.batch = {}
    BY DEF Started
<1>3. \A c \in Commands : Told(c)
    BY DEF Told, NoCommand
<1>4. Held
    BY <1>2 DEF Held, NoPost
<1>5. Found /\ Waited /\ Alone
    BY <1>2 DEF Found, Waited, Alone, NoPoll
<1> QED BY <1>1, <1>3, <1>4, <1>5 DEF CommandsInv, Honest

\* It is kept by every step.
LEMMA CommandsKept ==
    ASSUME CommandsInv, [Next]_vars
    PROVE  CommandsInv'
<1>1. TypeOK'
    BY TypeKept
<1>2. CASE UNCHANGED vars
    <2>1. UNCHANGED <<cmd, poll, post, ran, saved, hung, agent>>
        BY <1>2 DEF vars
    <2>2. Honest'
        BY <2>1, ProcessKeeps
    <2> QED BY <1>1, <2>2 DEF CommandsInv
<1>3. CASE Next
    <2>1. Honest'
        BY <1>3, ReportHonest, RemovalHonest, EnqueueHonest, DialHonest, FindQueuedHonest, MarkHonest,
           AnswerHonest, ResultHonest, RunHonest, ProcessHonest, RestartHonest DEF Next
    <2> QED BY <1>1, <2>1 DEF CommandsInv
<1> QED BY <1>2, <1>3

(* What the agent holds and waits for has not been run, in every reachable  *)
(* state, however calls and failures overlap.                              *)
THEOREM CommandsInvariant == Spec => []CommandsInv
<1>1. Init => CommandsInv
    BY CommandsInit
<1>2. CommandsInv /\ [Next]_vars => CommandsInv'
    BY CommandsKept
<1> QED BY <1>1, <1>2, PTL DEF Spec

\* It implies what the run checks.
LEMMA CommandsShow == CommandsInv => CommandsHonest
  <1>1. CommandsInv => TypeOK
      BY DEF CommandsInv
  <1>2. CommandsInv => RunsOnce /\ HistoryIsTrue
      BY DEF CommandsInv, Honest, Told, RunsOnce, HistoryIsTrue
  <1> QED BY <1>1, <1>2 DEF CommandsHonest

(* For any number of commands, of polls and reports that overlap, and of     *)
(* failures, the machine runs a command at most once and the history tells   *)
(* of it what happened (longPollCommands, commandResult, run_command).       *)
THEOREM CommandsRunOnce == Spec => []CommandsHonest
  <1>1. CommandsInv => CommandsHonest
    BY CommandsShow
<1> QED BY <1>1, CommandsInvariant, PTL

(***************************************************************************)
(* Removals of connections.                                                *)
(*                                                                         *)
(* That a removed connection leaves nothing behind does not follow from     *)
(* what has been deleted: a synchronisation of it could write its account   *)
(* and rows again.  What is deleted stays deleted while nobody synchronises *)
(* the connection that leaves, and nobody can begin to without a clash.     *)
(***************************************************************************)
\* A connection that is being removed, or is gone.
Leaving(l) == removal.of = l \/ link[l].status = "gone"

\* No row is under an account that is not there.
RowsHang == \A l \in Links : account[l] = "none" => \A x \in Assets : stock[x] # l

\* A connection that leaves undisturbed is not synchronised, and what was
\* deleted of it stays so.
LeavesAlone(l) ==
    /\ Leaving(l) => \A c \in Callers : sync[c].of # l
    /\ removal.of = l /\ removal.pc = "account" => \A x \in Assets : stock[x] # l
    /\ removal.of = l /\ removal.pc = "link" => account[l] = "none"
    /\ link[l].status = "gone" => account[l] = "none"

NoOrphans == clashed = {} => \A x \in Assets : stock[x] # Orphan

\* A removal and a synchronisation under way have a connection.
RemovalOf == removal.pc # "idle" => removal.of \in Links
SyncOf == \A c \in Callers : sync[c].pc # "idle" => sync[c].of \in Links

InventoryInv ==
    /\ InvTypes /\ RemovalOf /\ SyncOf /\ RowsHang /\ NoOrphans
    /\ \A l \in Links \ clashed : LeavesAlone(l)

LinkRow == [status : {"new", "pending", "connected", "error", "gone"}, works : BOOLEAN]
SyncCall == [pc : {"idle", "test", "discover", "account", "rows", "held", "done"},
             of : Links \cup {Orphan}, works : BOOLEAN,
             found : SUBSET Assets, todo : SUBSET Assets]

\* A status written to a connection leaves the others alone.
LEMMA StatusWritten ==
    ASSUME InvTypes, NEW l \in Links, NEW s \in {"connected", "error", "gone"},
           Status(l, s)
    PROVE  /\ link' \in [Links -> LinkRow]
           /\ link'[l].status = s
           /\ \A m \in Links \ {l} : link'[m] = link[m]
  BY DEF Status, InvTypes, LinkRow

\* A call ends, or goes on with its connection.
GoesOn(c) ==
    \/ sync'[c].of = Orphan /\ sync'[c].pc = "idle"
    \/ sync'[c].of = sync[c].of /\ (sync[c].pc = "idle" => sync'[c].pc = "idle")

\* A call that ends, and the others go on as they were.
LEMMA Ended ==
    ASSUME InvTypes, NEW c \in Callers, Ends(c)
    PROVE  /\ sync' \in [Callers -> SyncCall]
           /\ \A d \in Callers : GoesOn(d)
  BY DEF Ends, InvTypes, SyncCall, NoSync, GoesOn

\* A call that goes on to its next part keeps its connection.
LEMMA MovedOn ==
    ASSUME InvTypes, NEW c \in Callers, NEW pc \in {"rows", "held", "done"},
           sync' = [sync EXCEPT ![c].pc = pc], sync[c].pc # "idle"
    PROVE  /\ sync' \in [Callers -> SyncCall]
           /\ \A d \in Callers : GoesOn(d)
  <1>1. sync[c] \in SyncCall
    BY DEF InvTypes, SyncCall
  <1>2. [sync[c] EXCEPT !.pc = pc] \in SyncCall
    BY <1>1 DEF SyncCall
  <1> QED
    BY <1>1, <1>2 DEF InvTypes, SyncCall, GoesOn

\* The initial states have the types.
LEMMA InitTypes == InvInit => InvTypes
  <1>1. (CHOOSE x \in Assets : TRUE) \in Assets
    BY InventoryAssumption DEF InventoryAssumption
  <1>2. MaxCloudEvents \in Nat
    BY InventoryAssumption DEF InventoryAssumption
  <1>3. ASSUME InvInit
        PROVE  link \in [Links -> LinkRow]
    <2>1. {[status |-> "new", works |-> FALSE], [status |-> "pending", works |-> TRUE]}
              \subseteq LinkRow
      BY DEF LinkRow
    <2> QED
      BY <1>3, <2>1 DEF InvInit
  <1>4. ASSUME InvInit
        PROVE  sync \in [Callers -> SyncCall]
    BY <1>4 DEF InvInit, SyncCall, NoSync
  <1> QED
    BY <1>1, <1>2, <1>3, <1>4
       DEF InvInit, InvTypes, Nowhere, NoPass, NoRemoval, LinkRow, SyncCall

\* The test of a connection keeps the types.
LEMMA TestTypes == ASSUME InvTypes, NEW c \in Callers, Test(c) PROVE InvTypes'
  <1>1. sync' \in [Callers -> SyncCall]
    BY Ended DEF Test
  <1>2. link' \in [Links -> LinkRow]
    BY DEF Test, Status, InvTypes, LinkRow
  <1> QED
    BY <1>1, <1>2 DEF Test, InvTypes, SyncCall, LinkRow

\* A discovery keeps the types.
LEMMA DiscoverTypes == ASSUME InvTypes, NEW c \in Callers, Discover(c) PROVE InvTypes'
  <1>1. sync[c] \in SyncCall
    BY DEF InvTypes, SyncCall
  <1>2. sync' \in [Callers -> SyncCall]
    <2>1. CASE Ends(c)
      BY <2>1, Ended
    <2>2. ASSUME NEW found \in SUBSET Shown(sync[c].of),
                 sync' = [sync EXCEPT ![c] = [pc |-> "account", of |-> sync[c].of,
                              works |-> TRUE, found |-> found, todo |-> found]]
          PROVE  sync' \in [Callers -> SyncCall]
      <3>1. found \subseteq Assets
        BY DEF Shown, InvTypes
      <3> QED
        BY <1>1, <2>2, <3>1 DEF InvTypes, SyncCall
    <2> QED
      BY <2>1, <2>2 DEF Discover
  <1>3. link' \in [Links -> LinkRow]
    BY DEF Discover, Status, InvTypes, LinkRow
  <1>4. cloudEvents' \in 0 .. MaxCloudEvents
    BY InventoryAssumption DEF Discover, CloudEvent, InvTypes, InventoryAssumption
  <1> QED
    BY <1>2, <1>3, <1>4 DEF Discover, InvTypes, SyncCall, LinkRow

\* The account of a connection is written: the types are kept.
LEMMA AccountTypes == ASSUME InvTypes, NEW c \in Callers, EnsureAccount(c) PROVE InvTypes'
  <1>1. sync' \in [Callers -> SyncCall]
    BY Ended, MovedOn DEF EnsureAccount
  <1>2. account' \in [Links -> {"none", "linked", "left"}]
    BY DEF EnsureAccount, InvTypes
  <1> QED
    BY <1>1, <1>2 DEF EnsureAccount, InvTypes, SyncCall

\* A row of the inventory is written: the types are kept.
LEMMA RowTypes ==
    ASSUME InvTypes, NEW c \in Callers, NEW x \in Assets, WriteRow(c, x)
    PROVE  InvTypes'
  <1>1. sync' \in [Callers -> SyncCall]
    BY Ended DEF WriteRow, InvTypes, SyncCall
  <1>2. stock' \in [Assets -> Links \cup {Nowhere, Orphan}]
    BY DEF WriteRow, InvTypes
  <1> QED
    BY <1>1, <1>2 DEF WriteRow, InvTypes, SyncCall

\* Rows are pruned, a held call is dropped, a call concludes: the types are kept.
LEMMA LaterTypes ==
    ASSUME InvTypes, NEW c \in Callers,
           PruneRows(c) \/ DropHeld(c) \/ Concludes(c)
    PROVE  InvTypes'
  <1>1. CASE PruneRows(c)
    <2>1. sync' \in [Callers -> SyncCall]
      BY <1>1, MovedOn DEF PruneRows
    <2> QED
      BY <1>1, <2>1 DEF PruneRows, InvTypes, SyncCall
  <1>2. CASE DropHeld(c)
    <2>1. sync' \in [Callers -> SyncCall]
      BY <1>2, MovedOn DEF DropHeld
    <2> QED
      BY <1>2, <2>1 DEF DropHeld, InvTypes, SyncCall
  <1>3. CASE Concludes(c)
    <2>1. sync' \in [Callers -> SyncCall]
      BY <1>3, Ended DEF Concludes
    <2>2. link' \in [Links -> LinkRow]
      BY <1>3 DEF Concludes, Status, InvTypes, LinkRow
    <2> QED
      BY <1>3, <2>1, <2>2 DEF Concludes, InvTypes, SyncCall, LinkRow
  <1> QED
    BY <1>1, <1>2, <1>3

\* A call that begins.
LEMMA BegunTypes ==
    ASSUME InvTypes, NEW c \in Callers, NEW l \in Links,
           NEW pc \in {"discover", "test"}, Begins(c, l, pc)
    PROVE  sync' \in [Callers -> SyncCall] /\ clashed' \subseteq Links
  BY DEF Begins, InvTypes, SyncCall

\* An event that is counted stays within the bound.
LEMMA EventCounted ==
    ASSUME InvTypes, CloudEvent
    PROVE  cloudEvents' \in 0 .. MaxCloudEvents
  BY InventoryAssumption DEF InventoryAssumption, CloudEvent, InvTypes

\* The pass of the timer keeps the types.
LEMMA PassTypes == ASSUME InvTypes, Pass PROVE InvTypes'
  <1>1. CASE PassBegins
    BY <1>1 DEF PassBegins, InvTypes
  <1>2. ASSUME NEW l \in Links, PassSyncs(l)
        PROVE  InvTypes'
    <2>1. sync' \in [Callers -> SyncCall] /\ clashed' \subseteq Links
      BY <1>2, BegunTypes DEF PassSyncs, InvTypes, SyncCall, Callers
    <2> QED
      BY <1>2, <2>1 DEF PassSyncs, InvTypes, SyncCall
  <1>3. CASE DropGhosts
    BY <1>3 DEF DropGhosts, InvTypes
  <1>4. CASE ReadAccounts
    BY <1>4 DEF ReadAccounts, InvTypes, NoPass
  <1>5. CASE DropOrphans
    BY <1>5 DEF DropOrphans, InvTypes, NoPass
  <1> QED
    BY <1>1, <1>2, <1>3, <1>4, <1>5 DEF Pass

\* A removal keeps the types, and has a connection while it is under way.
LEMMA RemovalTypes ==
    ASSUME InvTypes, RemovalOf,
           RemoveRows \/ RemoveAccount \/ RemoveLink \/ \E l \in Links : RemoveBegins(l)
    PROVE  InvTypes' /\ RemovalOf'
  <1>1. CASE RemoveRows
    BY <1>1 DEF RemoveRows, RowsDeleted, InvTypes, RemovalOf
  <1>2. CASE RemoveAccount
    BY <1>2 DEF RemoveAccount, InvTypes, RemovalOf
  <1>3. CASE RemoveLink
    <2>1. link' \in [Links -> LinkRow]
      BY <1>3, StatusWritten DEF RemoveLink, RemovalOf
    <2>2. account' \in [Links -> {"none", "linked", "left"}]
      BY <1>3 DEF RemoveLink, InvTypes
    <2> QED
      BY <1>3, <2>1, <2>2 DEF RemoveLink, InvTypes, LinkRow, RemovalOf, NoRemoval
  <1>4. ASSUME NEW l \in Links, RemoveBegins(l)
        PROVE  InvTypes' /\ RemovalOf'
    BY <1>4, EventCounted DEF RemoveBegins, InvTypes, RemovalOf
  <1> QED
    BY <1>1, <1>2, <1>3, <1>4

\* What people, the clouds and a restart do keeps the types.
LEMMA OutsideTypes ==
    ASSUME InvTypes,
           \/ InvRestart
           \/ \E l \in Links, works \in BOOLEAN : Create(l, works) \/ Update(l, works)
           \/ \E l \in Links, pc \in {"discover", "test"} : Press(l, pc)
           \/ \E x \in Assets : CloudChanges(x) \/ Provisioned(x) \/ Age(x)
    PROVE  InvTypes'
  <1>1. CASE InvRestart
    <2>1. sync' \in [Callers -> SyncCall]
      BY <1>1 DEF InvRestart, NoSync, SyncCall
    <2> QED
      BY <1>1, <2>1, EventCounted DEF InvRestart, InvTypes, NoPass, NoRemoval, SyncCall
  <1>2. ASSUME NEW l \in Links, NEW works \in BOOLEAN, Enter(l, works)
        PROVE  InvTypes'
    BY <1>2, EventCounted DEF Enter, InvTypes
  <1>3. ASSUME NEW l \in Links, NEW pc \in {"discover", "test"}, Press(l, pc)
        PROVE  InvTypes'
    <2>1. sync' \in [Callers -> SyncCall] /\ clashed' \subseteq Links
      BY <1>3, BegunTypes DEF Press, Callers
    <2> QED
      BY <1>3, <2>1, EventCounted DEF Press, InvTypes, SyncCall
  <1>4. ASSUME NEW x \in Assets, CloudChanges(x) \/ Provisioned(x) \/ Age(x)
        PROVE  InvTypes'
    BY <1>4, EventCounted DEF CloudChanges, Provisioned, Age, InvTypes
  <1> QED
    BY <1>1, <1>2, <1>3, <1>4 DEF Create, Update

\* What a removal leaves behind, in a step that removes nothing itself.
Complete == /\ SyncOf /\ RowsHang /\ NoOrphans
            /\ \A l \in Links \ clashed : LeavesAlone(l)

\* A step that touches neither connections, accounts nor rows, and begins
\* nothing with one that leaves.
LEMMA Untouched ==
    ASSUME InvTypes, Complete, UNCHANGED <<account, stock, removal, clashed>>,
           \A l \in Links : link'[l].status = "gone" => link[l].status = "gone",
           \A c \in Callers : GoesOn(c)
    PROVE  Complete'
  <1>1. SyncOf' /\ RowsHang' /\ NoOrphans'
    BY DEF Complete, SyncOf, RowsHang, NoOrphans, GoesOn
  <1>2. ASSUME NEW l \in Links \ clashed'
        PROVE  LeavesAlone(l)'
    <2>1. LeavesAlone(l) /\ (Leaving(l)' => Leaving(l))
      BY DEF Complete, Leaving
    <2>2. l # Orphan
      BY InventoryAssumption DEF InventoryAssumption
    <2> QED
      BY <2>1, <2>2 DEF LeavesAlone, GoesOn
  <1> QED
    BY <1>1, <1>2 DEF Complete

\* Rows that only become fewer.
LEMMA RowsFewer ==
    ASSUME InvTypes, Complete, UNCHANGED <<link, account, removal, clashed>>,
           \A x \in Assets : stock'[x] = stock[x] \/ stock'[x] = Nowhere,
           \A c \in Callers : GoesOn(c)
    PROVE  Complete'
  <1>1. Nowhere \notin Links \cup {Orphan}
    BY InventoryAssumption DEF InventoryAssumption, Nowhere
  <1>2. SyncOf' /\ RowsHang' /\ NoOrphans'
    BY <1>1 DEF Complete, SyncOf, RowsHang, NoOrphans, GoesOn
  <1>3. ASSUME NEW l \in Links \ clashed'
        PROVE  LeavesAlone(l)'
    <2>1. LeavesAlone(l) /\ Leaving(l)' = Leaving(l)
      BY DEF Complete, Leaving
    <2>2. l # Orphan
      BY InventoryAssumption DEF InventoryAssumption
    <2> QED
      BY <1>1, <2>1, <2>2 DEF LeavesAlone, GoesOn
  <1> QED
    BY <1>2, <1>3 DEF Complete

\* A synchronisation disturbs no removal.
LEMMA SyncCompletes ==
    ASSUME InvTypes, Complete, NEW c \in Callers, SyncStep(c)
    PROVE  Complete'
  <1> DEFINE l == sync[c].of
  <1>1. CASE Test(c)
    <2>1. \A d \in Callers : GoesOn(d)
      BY <1>1, Ended DEF Test
    <2>2. ASSUME NEW m \in Links
          PROVE  link'[m].status = "gone" => link[m].status = "gone"
      BY <1>1 DEF Test, Status, InvTypes
    <2> QED
      BY <1>1, <2>1, <2>2, Untouched DEF Test
  <1>2. CASE Discover(c)
    <2>1. \A d \in Callers : GoesOn(d)
      BY <1>2, Ended DEF Discover, InvTypes, GoesOn
    <2>2. ASSUME NEW m \in Links
          PROVE  link'[m].status = "gone" => link[m].status = "gone"
      BY <1>2 DEF Discover, Status, InvTypes
    <2> QED
      BY <1>2, <2>1, <2>2, Untouched DEF Discover
  <1>3. CASE EnsureAccount(c)
    <2>1. \A d \in Callers : GoesOn(d)
      BY <1>3, Ended, MovedOn DEF EnsureAccount
    <2>2. CASE ~Present(l)
      BY <1>3, <2>1, <2>2, Untouched DEF EnsureAccount
    <2>3. CASE Present(l)
      <3>1. /\ account' = [account EXCEPT ![l] = "linked"]
            /\ UNCHANGED <<link, stock, removal, clashed>>
        BY <1>3, <2>3 DEF EnsureAccount
      <3>2. SyncOf' /\ RowsHang' /\ NoOrphans'
        BY <2>1, <3>1 DEF Complete, SyncOf, RowsHang, NoOrphans, InvTypes, GoesOn
      <3>3. ASSUME NEW m \in Links \ clashed'
            PROVE  LeavesAlone(m)'
        <4>1. LeavesAlone(m) /\ Leaving(m)' = Leaving(m) /\ m # Orphan
          BY <3>1, InventoryAssumption DEF Complete, Leaving, InventoryAssumption
        <4>2. Leaving(m) => m # l
          BY <4>1 DEF LeavesAlone
        <4>3. m # l => account'[m] = account[m]
          BY <3>1 DEF InvTypes
        <4> QED
          BY <2>1, <3>1, <4>1, <4>2, <4>3 DEF LeavesAlone, Leaving, GoesOn
      <3> QED
        BY <3>2, <3>3 DEF Complete
    <2> QED
      BY <2>2, <2>3
  <1>4. CASE PruneRows(c)
    <2>1. \A d \in Callers : GoesOn(d)
      BY <1>4, MovedOn DEF PruneRows
    <2> QED
      BY <1>4, <2>1, RowsFewer DEF PruneRows
  <1>5. CASE DropHeld(c)
    <2>1. \A d \in Callers : GoesOn(d)
      BY <1>5, MovedOn DEF DropHeld
    <2> QED
      BY <1>5, <2>1, Untouched DEF DropHeld
  <1>6. CASE Concludes(c)
    <2>1. \A d \in Callers : GoesOn(d)
      BY <1>6, Ended DEF Concludes
    <2>2. ASSUME NEW m \in Links
          PROVE  link'[m].status = "gone" => link[m].status = "gone"
      BY <1>6 DEF Concludes, Status, InvTypes
    <2> QED
      BY <1>6, <2>1, <2>2, Untouched DEF Concludes
  <1>7. ASSUME NEW x \in Assets, WriteRow(c, x)
        PROVE  Complete'
    <2>1. \A d \in Callers : GoesOn(d)
      BY <1>7, Ended DEF WriteRow, InvTypes, GoesOn
    <2>2. CASE account[l] = "none"
      BY <1>7, <2>1, <2>2, Untouched DEF WriteRow
    <2>3. CASE account[l] # "none"
      <3>1. /\ stock' = [stock EXCEPT ![x] = l]
            /\ UNCHANGED <<link, account, removal, clashed>>
        BY <1>7, <2>3 DEF WriteRow
      <3>2. l \in Links /\ l # Orphan
        BY <1>7, InventoryAssumption DEF WriteRow, Complete, SyncOf, InventoryAssumption
      <3>3. SyncOf' /\ RowsHang' /\ NoOrphans'
        BY <2>1, <2>3, <3>1, <3>2 DEF Complete, SyncOf, RowsHang, NoOrphans, InvTypes, GoesOn
      <3>4. ASSUME NEW m \in Links \ clashed'
            PROVE  LeavesAlone(m)'
        <4>1. LeavesAlone(m) /\ Leaving(m)' = Leaving(m) /\ m # Orphan
          BY <3>1, InventoryAssumption DEF Complete, Leaving, InventoryAssumption
        <4>2. Leaving(m) => m # l
          BY <4>1 DEF LeavesAlone
        <4>3. Leaving(m) => \A y \in Assets : stock'[y] = m => stock[y] = m
          BY <3>1, <4>2 DEF InvTypes
        <4> QED
          BY <2>1, <3>1, <4>1, <4>3 DEF LeavesAlone, Leaving, GoesOn
      <3> QED
        BY <3>3, <3>4 DEF Complete
    <2> QED
      BY <2>2, <2>3
  <1> QED
    BY <1>1, <1>2, <1>3, <1>4, <1>5, <1>6, <1>7 DEF SyncStep

\* A call that begins with a connection: it is there, and if it is being
\* removed the two clash.
LEMMA BegunCompletes ==
    ASSUME InvTypes, Complete, NEW c \in Callers, NEW l \in Links,
           NEW pc \in {"discover", "test"}, Begins(c, l, pc),
           UNCHANGED <<link, account, stock, removal>>
    PROVE  Complete'
  <1>1. /\ sync'[c].of = l /\ \A d \in Callers \ {c} : sync'[d] = sync[d]
        /\ clashed \subseteq clashed'
    BY DEF Begins, InvTypes
  <1>2. SyncOf' /\ RowsHang' /\ NoOrphans'
    BY <1>1 DEF Complete, SyncOf, RowsHang, NoOrphans, InvTypes
  <1>3. ASSUME NEW m \in Links \ clashed'
        PROVE  LeavesAlone(m)'
    <2>1. LeavesAlone(m) /\ Leaving(m)' = Leaving(m)
      BY <1>1 DEF Complete, Leaving
    <2>2. Leaving(m) => m # l
      BY DEF Leaving, Begins, Present
    <2> QED
      BY <1>1, <2>1, <2>2 DEF LeavesAlone
  <1> QED
    BY <1>2, <1>3 DEF Complete

\* The pass of the timer disturbs no removal.
LEMMA PassCompletes == ASSUME InvTypes, Complete, Pass PROVE Complete'
  <1> USE DEF GoesOn
  <1>1. CASE PassBegins
    BY <1>1, Untouched DEF PassBegins
  <1>2. ASSUME NEW l \in Links, PassSyncs(l)
        PROVE  Complete'
    <2>1. CASE Begins("timer", l, "discover")
      BY <1>2, <2>1, BegunCompletes DEF PassSyncs, Callers
    <2>2. CASE UNCHANGED <<sync, clashed>>
      BY <1>2, <2>2, Untouched DEF PassSyncs
    <2> QED
      BY <1>2, <2>1, <2>2 DEF PassSyncs
  <1>3. CASE DropGhosts
    BY <1>3, Untouched DEF DropGhosts
  <1>4. CASE ReadAccounts
    BY <1>4, Untouched DEF ReadAccounts
  <1>5. CASE DropOrphans
    BY <1>5, RowsFewer DEF DropOrphans
  <1> QED
    BY <1>1, <1>2, <1>3, <1>4, <1>5 DEF Pass

\* The parts of a removal, in their order, leave nothing behind.
LEMMA RemovalCompletes ==
    ASSUME InvTypes, RemovalOf, Complete,
           RemoveRows \/ RemoveAccount \/ RemoveLink \/ \E l \in Links : RemoveBegins(l)
    PROVE  Complete'
  <1>1. Nowhere \notin Links \cup {Orphan} /\ Orphan \notin Links
    BY InventoryAssumption DEF InventoryAssumption, Nowhere
  <1>2. CASE RemoveRows
    <2>1. SyncOf' /\ RowsHang' /\ NoOrphans'
      BY <1>1, <1>2 DEF RemoveRows, RowsDeleted, Complete, SyncOf, RowsHang, NoOrphans
    <2>2. ASSUME NEW m \in Links \ clashed'
          PROVE  LeavesAlone(m)'
      BY <1>1, <1>2 DEF RemoveRows, RowsDeleted, Complete, LeavesAlone, Leaving, InvTypes
    <2> QED
      BY <2>1, <2>2 DEF Complete
  <1>3. CASE RemoveAccount
    <2>1. removal.of \in Links
      BY <1>3 DEF RemoveAccount, RemovalOf
    <2>2. SyncOf' /\ RowsHang'
      BY <1>1, <1>3, <2>1 DEF RemoveAccount, Complete, SyncOf, RowsHang, InvTypes
    <2>3. NoOrphans'
      BY <1>3, <2>1 DEF RemoveAccount, Complete, NoOrphans, LeavesAlone
    <2>4. ASSUME NEW m \in Links \ clashed'
          PROVE  LeavesAlone(m)'
      BY <1>1, <1>3 DEF RemoveAccount, Complete, LeavesAlone, Leaving, InvTypes
    <2> QED
      BY <2>2, <2>3, <2>4 DEF Complete
  <1>4. CASE RemoveLink
    <2>1. removal.of \in Links
      BY <1>4 DEF RemoveLink, RemovalOf
    <2>2. /\ \A m \in Links \ {removal.of} : link'[m] = link[m]
          /\ link'[removal.of].status = "gone"
      BY <1>4, <2>1, StatusWritten DEF RemoveLink
    <2>3. \A m \in Links : account'[m] = "none" <=> account[m] = "none"
      BY <1>4, <2>1 DEF RemoveLink, InvTypes
    <2>4. SyncOf' /\ RowsHang' /\ NoOrphans'
      BY <1>4, <2>3 DEF RemoveLink, Complete, SyncOf, RowsHang, NoOrphans
    <2>5. ASSUME NEW m \in Links \ clashed'
          PROVE  LeavesAlone(m)'
      BY <1>1, <1>4, <2>1, <2>2, <2>3
         DEF RemoveLink, Complete, LeavesAlone, Leaving, NoRemoval
    <2> QED
      BY <2>4, <2>5 DEF Complete
  <1>5. ASSUME NEW l \in Links, RemoveBegins(l)
        PROVE  Complete'
    <2>1. removal' = [pc |-> IF account[l] = "none" THEN "link" ELSE "rows", of |-> l]
      BY <1>5 DEF RemoveBegins
    <2>2. clashed \subseteq clashed' /\ (l \notin clashed' => \A c \in Callers : sync[c].of # l)
      BY <1>5 DEF RemoveBegins
    <2>3. SyncOf' /\ RowsHang' /\ NoOrphans'
      BY <1>5, <2>2 DEF RemoveBegins, Complete, SyncOf, RowsHang, NoOrphans, InvTypes
    <2>4. ASSUME NEW m \in Links \ clashed'
          PROVE  LeavesAlone(m)'
      BY <1>5, <2>1, <2>2
         DEF RemoveBegins, Complete, LeavesAlone, Leaving
    <2> QED
      BY <2>3, <2>4 DEF Complete
  <1> QED
    BY <1>2, <1>3, <1>4, <1>5

\* What people, the clouds and a restart do disturbs no removal.
LEMMA OutsideCompletes ==
    ASSUME InvTypes, Complete,
           \/ InvRestart
           \/ \E l \in Links, works \in BOOLEAN : Create(l, works) \/ Update(l, works)
           \/ \E l \in Links, pc \in {"discover", "test"} : Press(l, pc)
           \/ \E x \in Assets : CloudChanges(x) \/ Provisioned(x) \/ Age(x)
    PROVE  Complete'
  <1>1. CASE InvRestart
    <2>1. \A c \in Callers : sync'[c] = NoSync
      BY <1>1 DEF InvRestart
    <2>2. SyncOf' /\ RowsHang' /\ NoOrphans'
      BY <1>1, <2>1 DEF InvRestart, NoSync, Complete, SyncOf, RowsHang, NoOrphans
    <2>3. ASSUME NEW m \in Links \ clashed'
          PROVE  LeavesAlone(m)'
      <3>1. m # Orphan
        BY InventoryAssumption DEF InventoryAssumption
      <3> QED
        BY <1>1, <2>1, <3>1
           DEF InvRestart, NoSync, NoRemoval, Complete, LeavesAlone, Leaving
    <2> QED
      BY <2>2, <2>3 DEF Complete
  <1>2. ASSUME NEW l \in Links, NEW works \in BOOLEAN, Enter(l, works)
        PROVE  Complete'
    <2>1. \A m \in Links : link'[m].status = "gone" => link[m].status = "gone"
      BY <1>2 DEF Enter, InvTypes
    <2> QED
      BY <1>2, <2>1, Untouched DEF Enter, GoesOn
  <1>3. ASSUME NEW l \in Links, NEW pc \in {"discover", "test"}, Press(l, pc)
        PROVE  Complete'
    BY <1>3, BegunCompletes DEF Press, Callers
  <1>4. ASSUME NEW x \in Assets, CloudChanges(x) \/ Provisioned(x) \/ Age(x)
        PROVE  Complete'
    BY <1>4, Untouched DEF CloudChanges, Provisioned, Age, GoesOn
  <1> QED
    BY <1>1, <1>2, <1>3, <1>4 DEF Create, Update

\* It holds in the initial states.
LEMMA InventoryInit == InvInit => InventoryInv
  <1> SUFFICES ASSUME InvInit
               PROVE  InventoryInv
    OBVIOUS
  <1>1. Nowhere \notin Links \cup {Orphan} /\ Orphan \notin Links
    BY InventoryAssumption DEF InventoryAssumption, Nowhere
  <1>2. RemovalOf /\ SyncOf /\ RowsHang /\ NoOrphans
    BY <1>1 DEF InvInit, RemovalOf, SyncOf, RowsHang, NoOrphans, NoSync, NoRemoval
  <1>3. \A l \in Links : LeavesAlone(l)
    BY <1>1 DEF InvInit, LeavesAlone, NoSync, NoRemoval
  <1> QED
    BY <1>2, <1>3, InitTypes DEF InventoryInv

\* It is kept by every step.
LEMMA InventoryKept == InventoryInv /\ [InvNext]_invVars => InventoryInv'
  <1> SUFFICES ASSUME InventoryInv, [InvNext]_invVars
               PROVE  InventoryInv'
    OBVIOUS
  <1>1. InvTypes /\ RemovalOf /\ Complete
    BY DEF InventoryInv, Complete
  <1>2. CASE UNCHANGED invVars
    BY <1>1, <1>2 DEF invVars, InventoryInv, InvTypes, RemovalOf, SyncOf,
                      RowsHang, NoOrphans, LeavesAlone, Leaving
  <1>3. CASE \E c \in Callers : SyncStep(c)
    <2>1. InvTypes' /\ Complete'
      BY <1>1, <1>3, SyncCompletes, TestTypes, DiscoverTypes, AccountTypes,
         RowTypes, LaterTypes DEF SyncStep
    <2>2. UNCHANGED removal
      BY <1>3 DEF SyncStep, Test, Discover, EnsureAccount, PruneRows, DropHeld,
                  Concludes, WriteRow
    <2> QED
      BY <1>1, <2>1, <2>2 DEF InventoryInv, Complete, RemovalOf
  <1>4. CASE Pass
    <2>1. UNCHANGED removal
      BY <1>4 DEF Pass, PassBegins, PassSyncs, DropGhosts, ReadAccounts, DropOrphans
    <2> QED
      BY <1>1, <1>4, <2>1, PassTypes, PassCompletes DEF InventoryInv, Complete, RemovalOf
  <1>5. CASE RemoveRows \/ RemoveAccount \/ RemoveLink \/ \E l \in Links : RemoveBegins(l)
    BY <1>1, <1>5, RemovalTypes, RemovalCompletes DEF InventoryInv, Complete
  <1>6. CASE \/ InvRestart
             \/ \E l \in Links, works \in BOOLEAN : Create(l, works) \/ Update(l, works)
             \/ \E l \in Links, pc \in {"discover", "test"} : Press(l, pc)
             \/ \E x \in Assets : CloudChanges(x) \/ Provisioned(x) \/ Age(x)
    <2>1. removal' \in {removal, NoRemoval}
      BY <1>6 DEF InvRestart, Create, Update, Enter, Press, CloudChanges, Provisioned, Age
    <2> QED
      BY <1>1, <1>6, <2>1, OutsideTypes, OutsideCompletes
         DEF InventoryInv, Complete, RemovalOf, NoRemoval
  <1> QED
    BY <1>2, <1>3, <1>4, <1>5, <1>6 DEF InvNext

\* What a removal of a connection nobody synchronised has deleted stays so.
THEOREM InventoryInvariant == InvSpec => []InventoryInv
  <1>1. InvInit => InventoryInv
    BY InventoryInit
  <1>2. InventoryInv /\ [InvNext]_invVars => InventoryInv'
    BY InventoryKept
  <1> QED
    BY <1>1, <1>2, PTL DEF InvSpec

\* It implies what the run checks.
LEMMA InventoryShows == InventoryInv => InventoryHonest
  BY DEF InventoryInv, InventoryHonest, RemovalIsComplete, LeavesAlone, RowsHang, NoOrphans

\* A connection that was removed leaves no account and no row, and no row is
\* without an account, unless it was removed while it was synchronised.
THEOREM RemovalsComplete == InvSpec => []InventoryHonest
  <1>1. InventoryInv => InventoryHonest
    BY InventoryShows
  <1> QED
    BY <1>1, InventoryInvariant, PTL

(***************************************************************************)
(* What a fabric has billed.                                               *)
(*                                                                         *)
(* The row has the ids, and the stage tells which of them it has.  What is  *)
(* billed is what they stand for, and the one thing made and not yet        *)
(* written.  This holds until one of the causes has happened, and no longer *)
(* than that: it needs that a stage works on the row as it is, and that a   *)
(* tear-down runs by itself and reaches all that is left of what it read.   *)
(***************************************************************************)
FabStatus == {"draft", "provisioning", "connecting", "up", "error"}
FabStage == {"net_a", "net_b", "gw_a", "gw_b", "conn", "handoff", "done"}
FabRow == [there : BOOLEAN, armed : BOOLEAN, status : FabStatus, stage : FabStage,
           name : Nat \ {0}, gw : [Sides -> Nat], ip : [Sides -> BOOLEAN],
           con : [Sides -> Nat]]

\* The row, the work and the tear-down have their columns, whatever ids are in them.
HasColumns ==
    /\ fabric = [there |-> fabric.there, armed |-> fabric.armed, status |-> fabric.status,
                 stage |-> fabric.stage, name |-> fabric.name, gw |-> fabric.gw,
                 ip |-> fabric.ip, con |-> fabric.con]
    /\ fabric.stage \in FabStage
    /\ work = [pc |-> work.pc, f |-> work.f, made |-> work.made]
    /\ teardown = [on |-> teardown.on, f |-> teardown.f, left |-> teardown.left]

\* What the ids of a row stand for.
Gateways(f)    == {Thing("gw", s, f.gw[s]) : s \in {r \in Sides : f.gw[r] # 0}}
Connections(f) == {Wired(s, f.con[s], f.gw[s], f.gw[Other(s)]) : s \in {r \in Sides : f.con[r] # 0}}

\* Each stage leaves its id on the row.
StageTells(f) ==
    /\ f.gw[Anew] = 0 <=> f.stage \in {"net_a", "net_b", "gw_a"}
    /\ f.gw[Named] = 0 <=> f.stage \in {"net_a", "net_b", "gw_a", "gw_b"}
    /\ f.stage \in {"net_a", "net_b", "gw_a", "gw_b"} => f.con = Blank
    /\ f.stage \in {"handoff", "done"} => f.con[Anew] # 0 /\ f.con[Named] # 0
    /\ f.con[Named] \in {0, f.name}
    /\ f.status = "up" => f.stage = "done"

\* What has been created and not yet written.
Makes(t) ==
    /\ t.side \in Sides /\ t.id \in Nat \ {0}
    /\ \/ /\ fabric.stage \in {"gw_a", "gw_b"} /\ t.side = SideOf(fabric.stage)
          /\ t = Thing("gw", t.side, t.id)
       \/ /\ fabric.stage = "conn" /\ fabric.con[t.side] = 0
          /\ t = Wired(t.side, t.id, fabric.gw[t.side], fabric.gw[Other(t.side)])
          /\ t.side = Named => t.id = fabric.name

WorkTells ==
    /\ work.pc # "save" => work.made = Nothing
    /\ work.pc # "idle" =>
         /\ work.f = fabric /\ fabric.there /\ fabric.armed
         /\ fabric.status \notin {"error", "up"} /\ ~teardown.on
    /\ work.pc = "save" => Makes(work.made)
    /\ work.pc = "joined" =>
         fabric.stage = "conn" /\ fabric.con[Anew] # 0 /\ fabric.con[Named] # 0
    /\ work.pc \notin {"idle", "save", "joined"} => work.pc = fabric.stage

\* What is billed is what the row says and what is about to be written; a
\* tear-down reaches what is left of it.
BillTells ==
    /\ things # {} => fabric.armed
    /\ ~fabric.there => StageTells(fabric) /\ fabric.gw = Blank /\ fabric.con = Blank
    /\ ~teardown.on =>
         /\ StageTells(fabric)
         /\ things = Gateways(fabric) \cup Connections(fabric)
                     \cup (IF work.pc = "save" THEN {work.made} ELSE {})
    /\ teardown.on =>
         /\ things \subseteq Gateways(fabric) \cup Connections(fabric)
         /\ \A t \in things : t.side \in teardown.left /\ t \in Reached(teardown.f, t.side)

FabricInv ==
    /\ FabTypes /\ HasColumns
    /\ causes = {} => fabric \in FabRow /\ WorkTells /\ BillTells

\* The two sides are each other's other side.
LEMMA TwoSides ==
    /\ Anew # Named /\ Other(Anew) = Named /\ Other(Named) = Anew
    /\ SideOf("gw_a") = Anew /\ SideOf("gw_b") = Named
  <1>1. Anew # Named
    BY FabricAssumption DEF FabricAssumption
  <1>2. (CHOOSE o \in Sides : o # Anew) = Named
    BY <1>1 DEF Sides
  <1>3. (CHOOSE o \in Sides : o # Named) = Anew
    BY <1>1 DEF Sides
  <1> QED
    BY <1>1, <1>2, <1>3 DEF Other, SideOf

\* The order of the first stages.
LEMMA NetworksFollow == After("net_a") = "net_b" /\ After("net_b") = "gw_a"
  <1>1. (CHOOSE n \in 1 .. 6 : Stages[n] = "net_a") = 1
    BY DEF Stages
  <1>2. (CHOOSE n \in 1 .. 6 : Stages[n] = "net_b") = 2
    BY DEF Stages
  <1> QED
    BY <1>1, <1>2 DEF After, Stages

\* One column written leaves the others.
LEMMA StatusSet ==
    ASSUME HasColumns, NEW s, NEW f, f = [fabric EXCEPT !.status = s]
    PROVE  f = [there |-> fabric.there, armed |-> fabric.armed, status |-> s,
                stage |-> fabric.stage, name |-> fabric.name, gw |-> fabric.gw,
                ip |-> fabric.ip, con |-> fabric.con]
  BY DEF HasColumns

\* A row with another stage, column by column.
LEMMA StageSet ==
    ASSUME HasColumns, NEW s, NEW f, f = [fabric EXCEPT !.stage = s]
    PROVE  f = [there |-> fabric.there, armed |-> fabric.armed, status |-> fabric.status,
                stage |-> s, name |-> fabric.name, gw |-> fabric.gw,
                ip |-> fabric.ip, con |-> fabric.con]
  BY DEF HasColumns

\* The row of a fabric that comes up, column by column.
LEMMA UpSet ==
    ASSUME HasColumns, fabric' = [fabric EXCEPT !.stage = "done", !.status = "up"]
    PROVE  fabric' = [there |-> fabric.there, armed |-> fabric.armed, status |-> "up",
                      stage |-> "done", name |-> fabric.name, gw |-> fabric.gw,
                      ip |-> fabric.ip, con |-> fabric.con]
  BY DEF HasColumns

\* The row of a fabric that is armed, column by column.
LEMMA ArmedSet ==
    ASSUME HasColumns, Arm
    PROVE  fabric' = [there |-> fabric.there, armed |-> TRUE, status |-> "provisioning",
                      stage |-> "net_a", name |-> fabric.name, gw |-> fabric.gw,
                      ip |-> fabric.ip, con |-> fabric.con]
  BY DEF HasColumns, Arm

\* A row into which a gateway has been written, column by column.
LEMMA SavedGw ==
    ASSUME HasColumns, NEW t, t.kind = "gw"
    PROVE  Saved(fabric, t) =
               [there |-> fabric.there, armed |-> fabric.armed,
                status |-> IF t.side = Anew THEN fabric.status ELSE "connecting",
                stage |-> IF t.side = Anew THEN "gw_b" ELSE "conn",
                name |-> fabric.name, gw |-> [fabric.gw EXCEPT ![t.side] = t.id],
                ip |-> [fabric.ip EXCEPT ![t.side] = t.side = Named], con |-> fabric.con]
  BY DEF HasColumns, Saved

\* A row into which a connection has been written, column by column.
LEMMA SavedCon ==
    ASSUME HasColumns, NEW t, t.kind # "gw"
    PROVE  Saved(fabric, t) =
               [there |-> fabric.there, armed |-> fabric.armed,
                status |-> fabric.status, stage |-> fabric.stage,
                name |-> fabric.name, gw |-> fabric.gw, ip |-> fabric.ip,
                con |-> [fabric.con EXCEPT ![t.side] = t.id]]
  BY DEF HasColumns, Saved

\* A row into which the addresses have been written, column by column.
LEMMA AddressSet ==
    ASSUME HasColumns
    PROVE  Addressed(fabric) =
               [there |-> fabric.there, armed |-> fabric.armed,
                status |-> fabric.status, stage |-> fabric.stage,
                name |-> fabric.name, gw |-> fabric.gw,
                ip |-> [fabric.ip EXCEPT ![Anew] = @ \/ Thing("con", Anew, fabric.con[Anew]) \in ready],
                con |-> fabric.con]
  BY DEF HasColumns, Addressed

\* A row that has been edited, column by column.
LEMMA EditSet ==
    ASSUME HasColumns, NEW f,
           f = [fabric EXCEPT !.name = @ + 1, !.armed = @ /\ fabric.status # "error",
                              !.status = IF @ = "error" THEN "draft" ELSE @]
    PROVE  f = [there |-> fabric.there,
                armed |-> fabric.armed /\ fabric.status # "error",
                status |-> IF fabric.status = "error" THEN "draft" ELSE fabric.status,
                stage |-> fabric.stage, name |-> fabric.name + 1, gw |-> fabric.gw,
                ip |-> fabric.ip, con |-> fabric.con]
  BY DEF HasColumns

\* The row of a fabric that has been removed, column by column.
LEMMA RemovedSet ==
    ASSUME RemoveFabric
    PROVE  fabric' = [there |-> FALSE, armed |-> FALSE, status |-> "draft", stage |-> "net_a",
                      name |-> 1, gw |-> Blank, ip |-> Unaddressed, con |-> Blank]
  BY DEF Draft, RemoveFabric

\* The row of a fabric that has been torn down, column by column.
LEMMA ResetSet ==
    ASSUME NEW n, NEW f, f = [Draft EXCEPT !.name = n]
    PROVE  f = [there |-> TRUE, armed |-> FALSE, status |-> "draft", stage |-> "net_a",
                name |-> n, gw |-> Blank, ip |-> Unaddressed, con |-> Blank]
  BY DEF Draft

\* An event that is counted stays within the bound.
LEMMA EventSpent ==
    ASSUME FabTypes, FabricEvent \/ UNCHANGED fabricEvents
    PROVE  fabricEvents' \in 0 .. MaxFabricEvents
  <1>1. fabricEvents \in 0 .. MaxFabricEvents /\ MaxFabricEvents \in Nat
    BY FabricAssumption DEF FabricAssumption, FabTypes
  <1> QED
    BY <1>1 DEF FabricEvent

\* A tear-down keeps its columns.
LEMMA TearDownColumns ==
    ASSUME HasColumns, [FabNext]_fabVars
    PROVE  teardown' = [on |-> teardown'.on, f |-> teardown'.f, left |-> teardown'.left]
  <1>1. \/ UNCHANGED teardown
        \/ teardown' = NoTeardown
        \/ \E left : teardown' = [teardown EXCEPT !.left = left]
        \/ Deprovision
    BY DEF FabNext, fabVars, Advance, Begin, StageFails, EasyStage, MakeGateway,
           PollAddress, Connect, Save, Arm, Edit, Retry, RemoveFabric,
           TearDownSide, Reset, FabRestart, Matures
  <1>2. ASSUME NEW left, teardown' = [teardown EXCEPT !.left = left]
        PROVE  teardown' = [on |-> teardown'.on, f |-> teardown'.f, left |-> teardown'.left]
    BY <1>2 DEF HasColumns
  <1> QED
    BY <1>1, <1>2 DEF HasColumns, NoTeardown, Deprovision

\* The row and the work keep their columns, and what is checked of them its type.
LEMMA FabTypesKept ==
    ASSUME FabTypes, HasColumns, [FabNext]_fabVars
    PROVE  FabTypes' /\ HasColumns'
  <1> DEFINE Columns == /\ fabric' = [there |-> fabric'.there, armed |-> fabric'.armed,
                              status |-> fabric'.status, stage |-> fabric'.stage,
                              name |-> fabric'.name, gw |-> fabric'.gw,
                              ip |-> fabric'.ip, con |-> fabric'.con]
                        /\ fabric'.stage \in FabStage /\ fabric'.status \in FabStatus
             WorkColumns == /\ work' = [pc |-> work'.pc, f |-> work'.f, made |-> work'.made]
                            /\ work'.pc \in {"idle", "net_a", "net_b", "gw_a", "gw_b", "conn",
                                             "joined", "handoff", "save"}
             Causes == causes' \subseteq {"overlap", "half done", "armed over", "edited over",
                                          "removed", "refused", "crash"}
  <1>a. fabric.status \in FabStatus /\ fabric.stage \in FabStage
    BY DEF FabTypes, HasColumns, FabStatus
  <1>b. \A why :
            Because(why, "overlap") \/ Because(why, "half done") \/ Because(why, "armed over")
            \/ Because(why, "edited over") \/ Because(why, "removed") \/ Because(why, "crash")
                => Causes
    BY DEF Because, FabTypes
  <1>c. UNCHANGED causes => Causes
    BY DEF FabTypes
  <1>d. UNCHANGED fabric => Columns
    BY <1>a DEF HasColumns
  <1>e. UNCHANGED work => WorkColumns
    BY DEF HasColumns, FabTypes
  <1>f. work' = NoWork => WorkColumns
    BY DEF NoWork
  <1>g. FabricEvent \/ UNCHANGED fabricEvents => fabricEvents' \in 0 .. MaxFabricEvents
    BY EventSpent
  <1>h. Errs => Columns
    BY <1>d, StatusSet DEF Errs, FabStatus, HasColumns
  <1>j. teardown' = [on |-> teardown'.on, f |-> teardown'.f, left |-> teardown'.left]
    BY TearDownColumns DEF HasColumns
  <1>i. Columns /\ WorkColumns /\ Causes /\ fabricEvents' \in 0 .. MaxFabricEvents
            => FabTypes' /\ HasColumns'
    BY <1>j DEF FabTypes, HasColumns, FabStatus
  <1>1. CASE UNCHANGED fabVars
    BY <1>1, <1>c, <1>d, <1>e, <1>g, <1>i DEF fabVars
  <1>2. CASE Begin
    <2>1. WorkColumns
      BY <1>2, <1>a DEF Begin, FabStage
    <2> QED
      BY <1>2, <2>1, <1>b, <1>d, <1>g, <1>i DEF Begin
  <1>3. CASE StageFails
    <2>1. Causes
      BY <1>3, <1>c DEF StageFails, FabTypes
    <2> QED
      BY <1>3, <2>1, <1>f, <1>g, <1>h, <1>i DEF StageFails
  <1>4. CASE EasyStage
    <2>1. Columns
      <3>1. CASE ~fabric.there
        BY <1>4, <3>1, <1>d DEF EasyStage
      <3>2. CASE fabric.there /\ work.pc = "joined"
        BY <1>4, <3>2, <1>a, StageSet DEF EasyStage, FabStage
      <3>3. CASE fabric.there /\ work.pc = "handoff"
        <4>1. fabric' = [fabric EXCEPT !.stage = "done", !.status = "up"]
          BY <1>4, <3>3 DEF EasyStage
        <4> QED
          BY <4>1, UpSet DEF FabStage, FabStatus
      <3>4. CASE fabric.there /\ work.pc = "net_a"
        BY <1>4, <3>4, <1>a, StageSet, NetworksFollow DEF EasyStage, FabStage
      <3>5. CASE fabric.there /\ work.pc = "net_b"
        BY <1>4, <3>5, <1>a, StageSet, NetworksFollow DEF EasyStage, FabStage
      <3> QED
        BY <1>4, <3>1, <3>2, <3>3, <3>4, <3>5 DEF EasyStage
    <2> QED
      BY <1>4, <2>1, <1>c, <1>f, <1>g, <1>i DEF EasyStage
  <1>5. CASE MakeGateway
    <2>1. WorkColumns
      BY <1>5 DEF MakeGateway, HasColumns
    <2> QED
      BY <1>5, <2>1, <1>c, <1>d, <1>g, <1>i DEF MakeGateway
  <1>6. CASE PollAddress
    <2>1. WorkColumns
      BY <1>6 DEF PollAddress, HasColumns
    <2>2. Columns
      BY <1>6, <1>a, AddressSet DEF PollAddress
    <2> QED
      BY <1>6, <2>1, <2>2, <1>c, <1>g, <1>i DEF PollAddress
  <1>7. CASE Connect
    <2>1. /\ \/ work' = [work EXCEPT !.pc = "joined"] /\ UNCHANGED fabric
             \/ work' = NoWork /\ (UNCHANGED fabric \/ fabric' = [fabric EXCEPT !.status = "connecting"])
             \/ (\E t : work' = [work EXCEPT !.pc = "save", !.made = t]) /\ UNCHANGED fabric
          /\ UNCHANGED <<causes, fabricEvents>>
      BY <1>7 DEF Connect
    <2>2. WorkColumns
      BY <2>1, <1>f DEF HasColumns
    <2>3. Columns
      <3>1. CASE UNCHANGED fabric
        BY <3>1, <1>d
      <3>2. CASE fabric' = [fabric EXCEPT !.status = "connecting"]
        BY <3>2, <1>a, StatusSet DEF FabStatus
      <3> QED
        BY <2>1, <3>1, <3>2
    <2> QED
      BY <2>1, <2>2, <2>3, <1>c, <1>g, <1>i
  <1>8. CASE Save
    <2>1. Columns
      BY <1>8, <1>a, <1>d, SavedGw, SavedCon DEF Save, FabStatus, FabStage
    <2>2. WorkColumns
      BY <1>8, <1>f DEF Save
    <2> QED
      BY <1>8, <2>1, <2>2, <1>c, <1>g, <1>i DEF Save
  <1>9. CASE Arm
    <2>1. Columns
      BY <1>9, ArmedSet DEF FabStatus, FabStage
    <2> QED
      BY <1>9, <2>1, <1>b, <1>e, <1>g, <1>i DEF Arm
  <1>10. CASE Edit
    <2>1. Columns
      <3>1. fabric' = [fabric EXCEPT !.name = @ + 1, !.armed = @ /\ fabric.status # "error",
                                     !.status = IF @ = "error" THEN "draft" ELSE @]
        BY <1>10 DEF Edit
      <3> QED
        BY <3>1, <1>a, EditSet DEF FabStatus
    <2> QED
      BY <1>10, <2>1, <1>b, <1>e, <1>g, <1>i DEF Edit
  <1>11. CASE Retry
    <2>1. Columns
      BY <1>11, <1>a, StatusSet DEF Retry, Resumed, FabStatus
    <2> QED
      BY <1>11, <2>1, <1>c, <1>e, <1>g, <1>i DEF Retry
  <1>12. CASE RemoveFabric
    <2>1. Columns
      BY <1>12, RemovedSet DEF FabStatus, FabStage
    <2> QED
      BY <1>12, <2>1, <1>b, <1>e, <1>g, <1>i DEF RemoveFabric
  <1>13. CASE Deprovision
    BY <1>13, <1>b, <1>d, <1>e, <1>g, <1>i DEF Deprovision
  <1>14. CASE TearDownSide
    <2>1. Causes
      BY <1>14 DEF TearDownSide, FabTypes
    <2>2. fabricEvents' \in 0 .. MaxFabricEvents
      BY <1>14, <1>g DEF TearDownSide
    <2> QED
      BY <1>14, <2>1, <2>2, <1>d, <1>e, <1>i DEF TearDownSide
  <1>15. CASE Reset
    <2>1. Columns
      BY <1>15, <1>d, ResetSet DEF Reset, FabStatus, FabStage
    <2> QED
      BY <1>15, <2>1, <1>c, <1>e, <1>g, <1>i DEF Reset
  <1>16. CASE FabRestart
    BY <1>16, <1>b, <1>d, <1>f, <1>g, <1>i DEF FabRestart
  <1>17. ASSUME NEW t \in things, Matures(t)
         PROVE  FabTypes' /\ HasColumns'
    BY <1>17, <1>c, <1>d, <1>e, <1>g, <1>i DEF Matures
  <1> QED
    BY <1>1, <1>2, <1>3, <1>4, <1>5, <1>6, <1>7, <1>8, <1>9, <1>10, <1>11, <1>12,
       <1>13, <1>14, <1>15, <1>16, <1>17 DEF FabNext, Advance

\* Without the causes: the row has its types, and work and bills tell the same.
InOrder == fabric \in FabRow /\ WorkTells /\ BillTells

\* A cause that has happened stays one.
LEMMA CausesStay ==
    ASSUME [FabNext]_fabVars, causes' = {}
    PROVE  causes = {}
  BY DEF FabNext, fabVars, Advance, Begin, StageFails, EasyStage, MakeGateway,
         PollAddress, Connect, Save, Arm, Edit, Retry, RemoveFabric, Deprovision,
         TearDownSide, Reset, FabRestart, Matures, Because

\* What is a cause has not happened where there is none afterwards.
LEMMA NoCause ==
    ASSUME NEW why, NEW cause, Because(why, cause), causes' = {}
    PROVE  ~why
  BY DEF Because

\* What the row stands for is billed for it.
LEMMA BilledForRow ==
    ASSUME NEW t \in things, t \in Gateways(fabric) \cup Connections(fabric)
    PROVE  t \in Billed(fabric)
  <1>1. CASE t \in Gateways(fabric)
    <2>1. PICK s \in Sides : t = Thing("gw", s, fabric.gw[s])
      BY <1>1 DEF Gateways
    <2>2. Thing("gw", s, fabric.gw[s]) \in Recorded(fabric)
      BY DEF Recorded
    <2> QED
      BY <2>1, <2>2 DEF Billed
  <1>2. CASE t \in Connections(fabric)
    <2>1. PICK s \in Sides : t = Wired(s, fabric.con[s], fabric.gw[s], fabric.gw[Other(s)])
      BY <1>2 DEF Connections
    <2> DEFINE r == Thing("con", s, fabric.con[s])
    <2>2. r \in Recorded(fabric)
      BY DEF Recorded
    <2>3. t.kind = r.kind /\ t.side = r.side /\ t.id = r.id
      BY <2>1 DEF Thing, Wired
    <2> HIDE DEF r
    <2> QED
      BY <2>2, <2>3 DEF Billed
  <1> QED
    BY <1>1, <1>2

\* Nothing billed and nothing in hand: nothing there.
LEMMA NothingThere ==
    ASSUME fabric \in FabRow, BillTells, Billed(fabric) = {}, work.pc # "save"
    PROVE  /\ things = {}
           /\ ~teardown.on => fabric.gw = Blank /\ fabric.con = Blank
  <1>1. things = {}
    BY BilledForRow DEF BillTells
  <1>2. ASSUME ~teardown.on
        PROVE  fabric.gw = Blank /\ fabric.con = Blank
    <2>1. Gateways(fabric) = {} /\ Connections(fabric) = {}
      BY <1>1, <1>2 DEF BillTells
    <2>2. \A s \in Sides : fabric.gw[s] = 0 /\ fabric.con[s] = 0
      BY <2>1 DEF Gateways, Connections
    <2> QED
      BY <2>2 DEF Blank, FabRow
  <1> QED
    BY <1>1, <1>2

\* The id of a thing that is about to be made is a number, and on the named side
\* it is the name.
LEMMA IdsAreNumbers ==
    ASSUME InOrder, work.pc \notin {"idle", "save"}, NEW s \in Sides
    PROVE  /\ NewId(s, fabric) \in Nat \ {0}
           /\ s = Named => NewId(s, fabric) = fabric.name
  <1>1. CASE s = Named
    BY <1>1 DEF NewId, InOrder, FabRow
  <1>2. CASE s # Named
    <2> DEFINE Fresh(n) == /\ \A t \in things : t.side = Anew => t.id # n
                           /\ n \notin {fabric.gw[Anew], fabric.con[Anew],
                                        fabric.gw[Anew], fabric.con[Anew]}
    <2>1. \A t \in things : t.side = Anew => t.id \in {fabric.gw[Anew], fabric.con[Anew]}
      BY DEF InOrder, WorkTells, BillTells, Gateways, Connections, Thing, Wired
    <2>2. \E n \in {1, 2, 3} : Fresh(n)
      BY <2>1
    <2>3. {1, 2, 3} \subseteq 1 .. MaxFabricEvents + 8
      BY FabricAssumption DEF FabricAssumption
    <2>4. NewId(s, fabric) = CHOOSE n \in 1 .. MaxFabricEvents + 8 : Fresh(n)
      BY <1>2 DEF NewId
    <2>5. \E n \in 1 .. MaxFabricEvents + 8 : Fresh(n)
      BY <2>2, <2>3
    <2> HIDE DEF Fresh
    <2>6. NewId(s, fabric) \in 1 .. MaxFabricEvents + 8
      BY <2>4, <2>5
    <2> QED
      BY <1>2, <2>6, FabricAssumption DEF FabricAssumption
  <1> QED
    BY <1>1, <1>2

\* A stage begins: it works on the row as it is.
LEMMA StartInOrder ==
    ASSUME InOrder, Begin, causes' = {}
    PROVE  InOrder'
  <1>1. ~teardown.on
    BY NoCause DEF Begin
  <1>2. work' = [pc |-> fabric.stage, f |-> fabric, made |-> Nothing] /\ UNCHANGED fabric
    BY DEF Begin
  <1>3. WorkTells'
    BY <1>1, <1>2 DEF Begin, WorkTells, InOrder, FabRow, FabStage
  <1>4. BillTells'
    BY <1>1, <1>2 DEF Begin, BillTells, InOrder, FabRow, FabStage, StageTells,
                      Gateways, Connections
  <1> QED
    BY <1>2, <1>3, <1>4 DEF InOrder

\* A stage that fails makes nothing.
LEMMA FailsInOrder ==
    ASSUME HasColumns, InOrder, StageFails, causes' = {}
    PROVE  InOrder'
  <1>1. UNCHANGED <<things, causes, ready, teardown>> /\ work' = NoWork
    BY DEF StageFails
  <1>2. work.pc \notin {"idle", "save"} /\ fabric.there /\ ~teardown.on
    BY DEF StageFails, InOrder, WorkTells
  <1>3. fabric' = [there |-> fabric.there, armed |-> fabric.armed, status |-> "error",
                   stage |-> fabric.stage, name |-> fabric.name, gw |-> fabric.gw,
                   ip |-> fabric.ip, con |-> fabric.con]
    BY <1>2, StatusSet DEF StageFails, Errs
  <1>4. fabric' \in FabRow
    BY <1>3 DEF InOrder, FabRow, FabStatus
  <1>5. WorkTells'
    BY <1>1 DEF WorkTells, NoWork
  <1>6. Gateways(fabric)' = Gateways(fabric) /\ Connections(fabric)' = Connections(fabric)
    BY <1>3 DEF Gateways, Connections
  <1>7. BillTells'
    BY <1>1, <1>2, <1>3, <1>6 DEF BillTells, InOrder, StageTells, NoWork
  <1> QED
    BY <1>4, <1>5, <1>7 DEF InOrder

\* A stage that makes nothing billed goes on to the next.
LEMMA EasyInOrder ==
    ASSUME HasColumns, InOrder, EasyStage, causes' = {}
    PROVE  InOrder'
  <1>1. UNCHANGED <<things, ready, teardown>> /\ work' = NoWork
    BY DEF EasyStage
  <1>2. work.pc \notin {"idle", "save"} /\ fabric.there /\ ~teardown.on /\ fabric.status # "up"
    BY DEF EasyStage, InOrder, WorkTells
  <1>3. PICK stage \in FabStage, status \in FabStatus :
            /\ fabric' = [there |-> fabric.there, armed |-> fabric.armed, status |-> status,
                          stage |-> stage, name |-> fabric.name, gw |-> fabric.gw,
                          ip |-> fabric.ip, con |-> fabric.con]
            /\ \/ fabric.stage = "net_a" /\ stage = "net_b" /\ status # "up"
               \/ fabric.stage = "net_b" /\ stage = "gw_a" /\ status # "up"
               \/ /\ fabric.stage = "conn" /\ stage = "handoff" /\ status # "up"
                  /\ fabric.con[Anew] # 0 /\ fabric.con[Named] # 0
               \/ fabric.stage = "handoff" /\ stage = "done"
    <2>1. CASE work.pc = "joined"
      BY <1>2, <2>1, StageSet DEF EasyStage, InOrder, WorkTells, FabRow, FabStage
    <2>2. CASE work.pc = "handoff"
      <3>1. fabric' = [fabric EXCEPT !.stage = "done", !.status = "up"]
        BY <1>2, <2>2 DEF EasyStage
      <3> QED
        BY <2>2, <3>1, UpSet DEF InOrder, WorkTells, FabStatus, FabStage
    <2>3. CASE work.pc = "net_a"
      BY <1>2, <2>3, StageSet, NetworksFollow DEF EasyStage, InOrder, WorkTells, FabRow, FabStage
    <2>4. CASE work.pc = "net_b"
      BY <1>2, <2>4, StageSet, NetworksFollow DEF EasyStage, InOrder, WorkTells, FabRow, FabStage
    <2> QED
      BY <2>1, <2>2, <2>3, <2>4 DEF EasyStage
  <1>4. fabric' \in FabRow
    BY <1>3 DEF InOrder, FabRow
  <1>5. WorkTells'
    BY <1>1 DEF WorkTells, NoWork
  <1>6. Gateways(fabric)' = Gateways(fabric) /\ Connections(fabric)' = Connections(fabric)
    BY <1>3 DEF Gateways, Connections
  <1>7. StageTells(fabric)'
    BY <1>2, <1>3 DEF BillTells, InOrder, StageTells
  <1>8. BillTells'
    BY <1>1, <1>2, <1>3, <1>6, <1>7 DEF BillTells, InOrder, NoWork
  <1> QED
    BY <1>4, <1>5, <1>8 DEF InOrder

\* A gateway is made: its id is the one thing that is not yet written.
LEMMA GatewayInOrder ==
    ASSUME HasColumns, InOrder, MakeGateway, causes' = {}
    PROVE  InOrder'
  <1> DEFINE s    == SideOf(work.pc)
             made == Thing("gw", s, NewId(s, work.f))
  <1>1. /\ work.pc \in {"gw_a", "gw_b"} /\ work.pc = fabric.stage /\ work.f = fabric
        /\ fabric.there /\ fabric.armed /\ ~teardown.on
        /\ fabric.status \notin {"error", "up"}
    BY DEF MakeGateway, InOrder, WorkTells
  <1>2. s \in Sides
    BY DEF SideOf, Sides
  <1>3. NewId(s, fabric) \in Nat \ {0}
    BY <1>1, <1>2, IdsAreNumbers
  <1>4. /\ made.side = s /\ made.id = NewId(s, fabric)
        /\ made = Thing("gw", made.side, made.id)
    BY <1>1 DEF Thing
  <1>5. work' = [pc |-> "save", f |-> work.f, made |-> made]
    BY DEF MakeGateway, HasColumns
  <1>6. things' = things \cup {made} /\ UNCHANGED <<fabric, teardown>>
    BY DEF MakeGateway
  <1> HIDE DEF made
  <1>7. Makes(made)
    BY <1>1, <1>2, <1>3, <1>4 DEF Makes
  <1>8. Makes(work.made)'
    BY <1>5, <1>6, <1>7 DEF Makes
  <1>9. WorkTells'
    BY <1>1, <1>5, <1>6, <1>8 DEF WorkTells
  <1>10. BillTells'
    BY <1>1, <1>5, <1>6 DEF BillTells, InOrder, StageTells, Gateways, Connections
  <1> QED
    BY <1>6, <1>9, <1>10 DEF InOrder

\* Addresses are asked for, and nothing is made.
LEMMA AddressInOrder ==
    ASSUME HasColumns, InOrder, PollAddress, causes' = {}
    PROVE  InOrder'
  <1>1. /\ work.pc = "conn" /\ fabric.stage = "conn" /\ work.made = Nothing
        /\ fabric.there /\ fabric.armed /\ ~teardown.on
        /\ fabric.status \notin {"error", "up"}
    BY DEF PollAddress, InOrder, WorkTells
  <1>2. fabric' = [there |-> fabric.there, armed |-> fabric.armed,
                status |-> fabric.status, stage |-> fabric.stage,
                name |-> fabric.name, gw |-> fabric.gw,
                ip |-> [fabric.ip EXCEPT ![Anew] = @ \/ Thing("con", Anew, fabric.con[Anew]) \in ready],
                con |-> fabric.con]
    BY AddressSet DEF PollAddress
  <1>3. fabric' \in FabRow
    BY <1>2 DEF InOrder, FabRow
  <1>4. work' = [pc |-> "conn", f |-> fabric', made |-> Nothing] /\ UNCHANGED <<things, teardown>>
    BY <1>1 DEF PollAddress, HasColumns
  <1>5. WorkTells'
    BY <1>1, <1>2, <1>4 DEF WorkTells
  <1>6. Gateways(fabric)' = Gateways(fabric) /\ Connections(fabric)' = Connections(fabric)
    BY <1>2 DEF Gateways, Connections
  <1>7. BillTells'
    BY <1>1, <1>2, <1>4, <1>6 DEF BillTells, InOrder, StageTells
  <1> QED
    BY <1>3, <1>5, <1>7 DEF InOrder

\* A connection is made: its id is the one thing that is not yet written.
LEMMA ConnectInOrder ==
    ASSUME HasColumns, InOrder, Connect, causes' = {}
    PROVE  InOrder'
  <1>1. /\ work.pc = "conn" /\ fabric.stage = "conn" /\ work.made = Nothing
        /\ work.f = fabric /\ fabric.there /\ fabric.armed /\ ~teardown.on
        /\ fabric.status \notin {"error", "up"}
    BY DEF Connect, InOrder, WorkTells
  <1>2. UNCHANGED teardown
    BY DEF Connect
  <1>3. things = Gateways(fabric) \cup Connections(fabric) /\ StageTells(fabric)
    BY <1>1 DEF InOrder, BillTells
  <1>4. CASE NextToConnect(fabric) = {}
    <2>1. fabric.con[Anew] # 0 /\ fabric.con[Named] # 0
      BY <1>4 DEF NextToConnect
    <2>2. work' = [pc |-> "joined", f |-> fabric, made |-> Nothing]
          /\ UNCHANGED <<fabric, things>>
      BY <1>1, <1>4 DEF Connect, HasColumns
    <2>3. WorkTells'
      BY <1>1, <1>2, <2>1, <2>2 DEF WorkTells
    <2>4. BillTells'
      BY <1>1, <1>2, <2>2 DEF BillTells, InOrder, StageTells, Gateways, Connections
    <2> QED
      BY <2>2, <2>3, <2>4 DEF InOrder
  <1>5. ASSUME work' = NoWork, UNCHANGED <<fabric, things>>
        PROVE  InOrder'
    <2>1. WorkTells'
      BY <1>5 DEF WorkTells, NoWork
    <2>2. BillTells'
      BY <1>1, <1>2, <1>5 DEF BillTells, InOrder, StageTells, Gateways, Connections, NoWork
    <2> QED
      BY <1>5, <2>1, <2>2 DEF InOrder
  <1>6. ASSUME work' = NoWork, UNCHANGED things,
               fabric' = [fabric EXCEPT !.status = "connecting"]
        PROVE  InOrder'
    <2>1. fabric' = [there |-> fabric.there, armed |-> fabric.armed, status |-> "connecting",
                     stage |-> fabric.stage, name |-> fabric.name, gw |-> fabric.gw,
                     ip |-> fabric.ip, con |-> fabric.con]
      BY <1>6, StatusSet
    <2>2. fabric' \in FabRow
      BY <2>1 DEF InOrder, FabRow, FabStatus
    <2>3. WorkTells'
      BY <1>6 DEF WorkTells, NoWork
    <2>4. Gateways(fabric)' = Gateways(fabric) /\ Connections(fabric)' = Connections(fabric)
      BY <2>1 DEF Gateways, Connections
    <2>5. BillTells'
      BY <1>1, <1>2, <1>6, <2>1, <2>4 DEF BillTells, InOrder, StageTells, NoWork
    <2> QED
      BY <2>2, <2>3, <2>5 DEF InOrder
  <1>7. ASSUME NEW s \in NextToConnect(fabric), NEW made,
               made = Wired(s, NewId(s, fabric), fabric.gw[s], fabric.gw[Other(s)]),
               things' = {t \in things : t.kind # "con" \/ t.side # s \/ t.id # made.id} \cup {made},
               work' = [work EXCEPT !.pc = "save", !.made = made], UNCHANGED fabric
        PROVE  InOrder'
    <2>1. s \in Sides /\ fabric.con[s] = 0
      BY <1>7 DEF NextToConnect, Sides
    <2>2. NewId(s, fabric) \in Nat \ {0} /\ (s = Named => NewId(s, fabric) = fabric.name)
      BY <1>1, <2>1, IdsAreNumbers
    <2>3. /\ made.side = s /\ made.id = NewId(s, fabric)
          /\ made = Wired(made.side, made.id, fabric.gw[made.side], fabric.gw[Other(made.side)])
      BY <1>7 DEF Wired
    <2>4. work' = [pc |-> "save", f |-> fabric, made |-> made]
      BY <1>1, <1>7 DEF HasColumns
    <2>5. \A t \in things : t.kind # "con" \/ t.side # s
      BY <1>3, <2>1 DEF Gateways, Connections, Thing, Wired
    <2>6. things' = things \cup {made}
      BY <1>7, <2>5
    <2>7. Makes(made)
      BY <1>1, <2>1, <2>2, <2>3 DEF Makes
    <2>8. Makes(work.made)'
      BY <1>7, <2>4, <2>7 DEF Makes
    <2>9. WorkTells'
      BY <1>1, <1>2, <1>7, <2>4, <2>8 DEF WorkTells
    <2>10. BillTells'
      BY <1>1, <1>2, <1>3, <1>7, <2>4, <2>6
         DEF BillTells, InOrder, StageTells, Gateways, Connections
    <2> QED
      BY <1>7, <2>9, <2>10 DEF InOrder
  <1> QED
    BY <1>1, <1>4, <1>5, <1>6, <1>7 DEF Connect

\* What was made is written, and the row has all of it again.
LEMMA SaveInOrder ==
    ASSUME HasColumns, InOrder, Save, causes' = {}
    PROVE  InOrder'
  <1> DEFINE t == work.made
  <1>1. /\ work.pc = "save" /\ Makes(t) /\ work.f = fabric
        /\ fabric.there /\ fabric.armed /\ ~teardown.on
        /\ fabric.status \notin {"error", "up"}
    BY DEF Save, InOrder, WorkTells
  <1>2. UNCHANGED <<things, teardown>> /\ fabric' = Saved(fabric, t)
    BY <1>1 DEF Save
  <1>3. things = Gateways(fabric) \cup Connections(fabric) \cup {t} /\ StageTells(fabric)
    BY <1>1 DEF InOrder, BillTells
  <1>4. CASE /\ fabric.stage \in {"gw_a", "gw_b"} /\ t.side = SideOf(fabric.stage)
             /\ t = Thing("gw", t.side, t.id)
    <2>1. t.kind = "gw" /\ t.side \in Sides /\ t.id \in Nat \ {0}
      BY <1>1, <1>4 DEF Makes, Thing
    <2>2. fabric' =
               [there |-> fabric.there, armed |-> fabric.armed,
                status |-> IF t.side = Anew THEN fabric.status ELSE "connecting",
                stage |-> IF t.side = Anew THEN "gw_b" ELSE "conn",
                name |-> fabric.name, gw |-> [fabric.gw EXCEPT ![t.side] = t.id],
                ip |-> [fabric.ip EXCEPT ![t.side] = t.side = Named], con |-> fabric.con]
      BY <1>2, <2>1, SavedGw
    <2> HIDE DEF t
    <2>3. fabric' \in FabRow
      BY <2>1, <2>2 DEF InOrder, FabRow, FabStatus, FabStage
    <2>4. work' = NoWork
      BY <1>1, <2>1 DEF Save, t
    <2>5. WorkTells'
      BY <2>4 DEF WorkTells, NoWork
    <2>6. fabric.con = Blank /\ fabric.gw[t.side] = 0
      BY <1>3, <1>4, TwoSides DEF StageTells
    <2>7. Connections(fabric) = {} /\ Connections(fabric)' = {}
      BY <2>2, <2>6 DEF Connections, Blank
    <2>8. Gateways(fabric)' = Gateways(fabric) \cup {t}
      <3>1. fabric'.gw[t.side] = t.id
            /\ \A r \in Sides \ {t.side} : fabric'.gw[r] = fabric.gw[r]
        BY <2>1, <2>2 DEF InOrder, FabRow
      <3> QED
        BY <1>4, <2>1, <2>6, <3>1 DEF Gateways
    <2>9. StageTells(fabric)'
      <3>1. fabric'.gw[t.side] = t.id
            /\ \A r \in Sides \ {t.side} : fabric'.gw[r] = fabric.gw[r]
        BY <2>1, <2>2 DEF InOrder, FabRow
      <3>2. CASE fabric.stage = "gw_a"
        <4>1. t.side = Anew /\ fabric'.stage = "gw_b" /\ fabric'.status = fabric.status
          BY <1>4, <2>2, <3>2, TwoSides
        <4>2. fabric'.gw[Anew] # 0 /\ fabric'.gw[Named] = 0 /\ fabric'.con = Blank
          BY <1>3, <2>1, <2>2, <2>6, <3>1, <3>2, <4>1, TwoSides DEF StageTells, Sides
        <4>3. fabric'.con[Named] = 0
          BY <4>2 DEF Blank, Sides
        <4> QED
          BY <1>1, <4>1, <4>2, <4>3 DEF StageTells
      <3>3. CASE fabric.stage = "gw_b"
        <4>1. t.side = Named /\ fabric'.stage = "conn" /\ fabric'.status = "connecting"
          BY <1>4, <2>2, <3>3, TwoSides
        <4>2. fabric'.gw[Anew] # 0 /\ fabric'.gw[Named] # 0 /\ fabric'.con = Blank
          BY <1>3, <2>1, <2>2, <2>6, <3>1, <3>3, <4>1, TwoSides DEF StageTells, Sides
        <4>3. fabric'.con[Named] = 0
          BY <4>2 DEF Blank, Sides
        <4> QED
          BY <4>1, <4>2, <4>3 DEF StageTells
      <3> QED
        BY <1>4, <3>2, <3>3
    <2>10. things' = Gateways(fabric)' \cup Connections(fabric)'
      BY <1>2, <1>3, <2>7, <2>8
    <2>11. fabric'.armed /\ fabric'.there /\ ~teardown'.on /\ work'.pc = "idle"
      BY <1>1, <1>2, <2>2, <2>4 DEF NoWork
    <2>12. BillTells'
      BY <2>9, <2>10, <2>11 DEF BillTells
    <2> QED
      BY <2>3, <2>5, <2>12 DEF InOrder
  <1>5. CASE /\ fabric.stage = "conn" /\ fabric.con[t.side] = 0
             /\ t = Wired(t.side, t.id, fabric.gw[t.side], fabric.gw[Other(t.side)])
             /\ t.side = Named => t.id = fabric.name
    <2>1. t.kind = "con" /\ t.side \in Sides /\ t.id \in Nat \ {0}
      BY <1>1, <1>5 DEF Makes, Wired
    <2>2. fabric' =
               [there |-> fabric.there, armed |-> fabric.armed,
                status |-> fabric.status, stage |-> fabric.stage,
                name |-> fabric.name, gw |-> fabric.gw, ip |-> fabric.ip,
                con |-> [fabric.con EXCEPT ![t.side] = t.id]]
      BY <1>2, <2>1, SavedCon
    <2> HIDE DEF t
    <2>3. fabric' \in FabRow
      BY <2>1, <2>2 DEF InOrder, FabRow, FabStatus, FabStage
    <2>4. work' = [pc |-> "conn", f |-> fabric', made |-> Nothing]
      BY <1>1, <2>1 DEF Save, t
    <2>5. WorkTells'
      BY <1>1, <1>2, <1>5, <2>2, <2>4 DEF WorkTells
    <2>6. /\ fabric'.con[t.side] = t.id
          /\ \A r \in Sides \ {t.side} : fabric'.con[r] = fabric.con[r]
      BY <2>1, <2>2 DEF InOrder, FabRow
    <2>7. Gateways(fabric)' = Gateways(fabric)
      BY <2>2 DEF Gateways
    <2>8. Connections(fabric)' = Connections(fabric) \cup {t}
      BY <1>5, <2>1, <2>2, <2>6 DEF Connections
    <2>9. StageTells(fabric)'
      <3>1. fabric'.con[Named] \in {0, fabric'.name}
        <4>1. CASE t.side = Named
          BY <1>5, <2>2, <2>6, <4>1
        <4>2. CASE t.side # Named
          BY <1>3, <2>2, <2>6, <4>2 DEF StageTells, Sides
        <4> QED
          BY <4>1, <4>2
      <3>2. fabric'.gw = fabric.gw /\ fabric'.stage = "conn" /\ fabric'.status # "up"
        BY <1>1, <1>5, <2>2
      <3>3. fabric.gw[Anew] # 0 /\ fabric.gw[Named] # 0
        BY <1>3, <1>5 DEF StageTells
      <3> QED
        BY <3>1, <3>2, <3>3 DEF StageTells
    <2>10. things' = Gateways(fabric)' \cup Connections(fabric)'
      BY <1>2, <1>3, <2>7, <2>8
    <2>11. fabric'.armed /\ fabric'.there /\ ~teardown'.on /\ work'.pc = "conn"
      BY <1>1, <1>2, <2>2, <2>4
    <2>12. BillTells'
      BY <2>9, <2>10, <2>11 DEF BillTells
    <2> QED
      BY <2>3, <2>5, <2>12 DEF InOrder
  <1> QED
    BY <1>1, <1>4, <1>5 DEF Makes

\* A fabric that is armed has nothing billed.
LEMMA ArmInOrder ==
    ASSUME HasColumns, InOrder, Arm, causes' = {}
    PROVE  InOrder'
  <1>1. Billed(fabric) = {} /\ work.pc = "idle"
    BY NoCause DEF Arm
  <1>2. things = {} /\ (~teardown.on => fabric.gw = Blank /\ fabric.con = Blank)
    BY <1>1, NothingThere DEF InOrder
  <1>3. fabric' = [there |-> fabric.there, armed |-> TRUE, status |-> "provisioning",
                   stage |-> "net_a", name |-> fabric.name, gw |-> fabric.gw,
                   ip |-> fabric.ip, con |-> fabric.con]
    BY ArmedSet
  <1>4. UNCHANGED <<things, work, teardown>> /\ fabric.there
    BY DEF Arm
  <1>5. fabric' \in FabRow
    BY <1>3 DEF InOrder, FabRow, FabStatus, FabStage
  <1>6. WorkTells'
    BY <1>1, <1>4 DEF InOrder, WorkTells
  <1>7. ~teardown.on => Gateways(fabric)' = {} /\ Connections(fabric)' = {} /\ StageTells(fabric)'
    <2> SUFFICES ASSUME ~teardown.on
                 PROVE  Gateways(fabric)' = {} /\ Connections(fabric)' = {} /\ StageTells(fabric)'
      OBVIOUS
    <2>1. fabric'.gw = Blank /\ fabric'.con = Blank /\ fabric'.status # "up" /\ fabric'.stage = "net_a"
      BY <1>2, <1>3
    <2> QED
      BY <2>1 DEF Gateways, Connections, StageTells, Blank, Sides
  <1>8. BillTells'
    BY <1>1, <1>2, <1>3, <1>4, <1>7 DEF BillTells
  <1> QED
    BY <1>5, <1>6, <1>8 DEF InOrder

\* An edit leaves the ids as they are.
LEMMA EditInOrder ==
    ASSUME HasColumns, InOrder, Edit, causes' = {}
    PROVE  InOrder'
  <1>1. Billed(fabric) = {} /\ work.pc = "idle"
    BY NoCause DEF Edit
  <1>2. things = {} /\ (~teardown.on => fabric.gw = Blank /\ fabric.con = Blank)
    BY <1>1, NothingThere DEF InOrder
  <1>3. fabric' = [there |-> fabric.there,
                armed |-> fabric.armed /\ fabric.status # "error",
                status |-> IF fabric.status = "error" THEN "draft" ELSE fabric.status,
                stage |-> fabric.stage, name |-> fabric.name + 1, gw |-> fabric.gw,
                ip |-> fabric.ip, con |-> fabric.con]
    <2>1. fabric' = [fabric EXCEPT !.name = @ + 1, !.armed = @ /\ fabric.status # "error",
                                   !.status = IF @ = "error" THEN "draft" ELSE @]
      BY DEF Edit
    <2> QED
      BY <2>1, EditSet
  <1>4. UNCHANGED <<things, work, teardown>> /\ fabric.there
    BY DEF Edit
  <1>5. fabric' \in FabRow
    BY <1>3 DEF InOrder, FabRow, FabStatus, FabStage
  <1>6. WorkTells'
    BY <1>1, <1>4 DEF InOrder, WorkTells
  <1>7. ~teardown.on => Gateways(fabric)' = {} /\ Connections(fabric)' = {} /\ StageTells(fabric)'
    <2> SUFFICES ASSUME ~teardown.on
                 PROVE  Gateways(fabric)' = {} /\ Connections(fabric)' = {} /\ StageTells(fabric)'
      OBVIOUS
    <2>1. fabric'.gw = Blank /\ fabric'.con = Blank
      BY <1>2, <1>3
    <2>2. StageTells(fabric)
      BY DEF InOrder, BillTells
    <2>3. StageTells(fabric)'
      BY <1>2, <1>3, <2>2 DEF StageTells, Blank, Sides
    <2> QED
      BY <2>1, <2>3 DEF Gateways, Connections, Blank
  <1>8. BillTells'
    BY <1>1, <1>2, <1>3, <1>4, <1>7 DEF BillTells
  <1> QED
    BY <1>5, <1>6, <1>8 DEF InOrder

\* A retry goes on from the stage that failed.
LEMMA RetryInOrder ==
    ASSUME HasColumns, InOrder, Retry, causes' = {}
    PROVE  InOrder'
  <1>1. fabric' = [there |-> fabric.there, armed |-> fabric.armed, status |-> "provisioning",
                   stage |-> fabric.stage, name |-> fabric.name, gw |-> fabric.gw,
                   ip |-> fabric.ip, con |-> fabric.con]
    BY StatusSet DEF Retry, Resumed
  <1>2. UNCHANGED <<things, work, teardown>> /\ fabric.there /\ work.pc = "idle"
    BY DEF Retry, InOrder, WorkTells
  <1>3. fabric' \in FabRow
    BY <1>1 DEF InOrder, FabRow, FabStatus
  <1>4. WorkTells'
    BY <1>2 DEF InOrder, WorkTells
  <1>5. Gateways(fabric)' = Gateways(fabric) /\ Connections(fabric)' = Connections(fabric)
    BY <1>1 DEF Gateways, Connections
  <1>6. StageTells(fabric) => StageTells(fabric)'
    BY <1>1 DEF StageTells
  <1>7. fabric'.armed = fabric.armed /\ fabric'.there
    BY <1>1, <1>2
  <1>8. CASE teardown.on
    <2>1. \A t \in things' : t.side \in teardown'.left /\ t \in Reached(teardown.f, t.side)'
      BY <1>2, <1>8 DEF BillTells, InOrder, Reached
    <2> QED
      BY <1>2, <1>3, <1>4, <1>5, <1>7, <1>8, <2>1 DEF BillTells, InOrder
  <1>9. CASE ~teardown.on
    BY <1>2, <1>3, <1>4, <1>5, <1>6, <1>7, <1>9 DEF BillTells, InOrder
  <1> QED
    BY <1>8, <1>9

\* A fabric that is removed without a cause had nothing billed.
LEMMA RemoveInOrder ==
    ASSUME HasColumns, InOrder, RemoveFabric, causes' = {}
    PROVE  InOrder'
  <1>1. things = {} /\ work.pc = "idle"
    BY NoCause DEF RemoveFabric
  <1>2. fabric' = [there |-> FALSE, armed |-> FALSE, status |-> "draft", stage |-> "net_a",
                   name |-> 1, gw |-> Blank, ip |-> Unaddressed, con |-> Blank]
    BY RemovedSet
  <1>3. UNCHANGED <<things, work, teardown>>
    BY DEF RemoveFabric
  <1>4. fabric' \in FabRow
    BY <1>2 DEF FabRow, FabStatus, FabStage, Blank, Unaddressed
  <1>5. WorkTells'
    BY <1>1, <1>3 DEF InOrder, WorkTells
  <1>6. Gateways(fabric)' = {} /\ Connections(fabric)' = {} /\ StageTells(fabric)'
    BY <1>2 DEF Gateways, Connections, StageTells, Blank, Sides
  <1>7. BillTells'
    BY <1>1, <1>2, <1>3, <1>6 DEF BillTells
  <1> QED
    BY <1>4, <1>5, <1>7 DEF InOrder

\* A tear-down begins: it has read all that is billed.
LEMMA DeprovisionInOrder ==
    ASSUME InOrder, Deprovision, causes' = {}
    PROVE  InOrder'
  <1>1. work.pc = "idle" /\ fabric.there /\ ~teardown.on
    BY NoCause DEF Deprovision
  <1>2. UNCHANGED <<fabric, things, work>>
        /\ teardown' = [on |-> TRUE, f |-> fabric, left |-> Sides]
    BY DEF Deprovision
  <1>3. things = Gateways(fabric) \cup Connections(fabric) /\ StageTells(fabric)
    BY <1>1 DEF InOrder, BillTells
  <1>4. ASSUME NEW t \in things
        PROVE  t.side \in Sides /\ t \in Reached(fabric, t.side)
    <2>1. CASE t \in Gateways(fabric)
      <3>1. PICK s \in Sides : t = Thing("gw", s, fabric.gw[s])
        BY <2>1 DEF Gateways
      <3>2. t.side = s /\ t.kind = "gw" /\ t.id = fabric.gw[s]
        BY <3>1 DEF Thing
      <3> QED
        BY <3>1, <3>2 DEF Reached
    <2>2. CASE t \in Connections(fabric)
      <3>1. PICK s \in Sides : /\ fabric.con[s] # 0
                               /\ t = Wired(s, fabric.con[s], fabric.gw[s], fabric.gw[Other(s)])
        BY <2>2 DEF Connections
      <3>2. t.side = s /\ t.kind = "con" /\ t.id = fabric.con[s]
        BY <3>1 DEF Wired
      <3>3. s = Named => t.id = fabric.name
        BY <1>3, <3>1, <3>2 DEF StageTells
      <3> QED
        BY <3>2, <3>3 DEF Reached
    <2> QED
      BY <1>3, <1>4, <2>1, <2>2
  <1>5. WorkTells'
    BY <1>1, <1>2 DEF InOrder, WorkTells
  <1>6. \A t \in things' : t.side \in teardown'.left /\ t \in Reached(teardown.f, t.side)'
    BY <1>2, <1>4 DEF Reached
  <1>7. BillTells'
    BY <1>1, <1>2, <1>3, <1>6 DEF InOrder, BillTells, Gateways, Connections
  <1> QED
    BY <1>2, <1>5, <1>7 DEF InOrder

\* A tear-down removes what it read, one side after the other.
LEMMA TearDownInOrder ==
    ASSUME HasColumns, InOrder, TearDownSide, causes' = {}
    PROVE  InOrder'
  <1> DEFINE s == IF Anew \in teardown.left THEN Anew ELSE Named
  <1>1. teardown.on /\ UNCHANGED <<fabric, work>>
    BY DEF TearDownSide
  <1>2. teardown' = [teardown EXCEPT !.left = @ \ {s}]
    BY DEF TearDownSide
  <1>3. things' = things \ Reached(teardown.f, s)
    BY DEF TearDownSide
  <1> HIDE DEF s
  <1>4. teardown' = [on |-> teardown.on, f |-> teardown.f, left |-> teardown.left \ {s}]
    <2>1. teardown = [on |-> teardown.on, f |-> teardown.f, left |-> teardown.left]
      BY DEF HasColumns
    <2> QED
      BY <1>2, <2>1
  <1>5. WorkTells'
    BY <1>1, <1>4 DEF InOrder, WorkTells, Makes
  <1>6. /\ things \subseteq Gateways(fabric) \cup Connections(fabric)
        /\ \A t \in things : t.side \in teardown.left /\ t \in Reached(teardown.f, t.side)
    BY <1>1 DEF InOrder, BillTells
  <1>7. \A t \in things' : t.side \in teardown'.left /\ t \in Reached(teardown.f, t.side)'
    <2> TAKE t \in things'
    <2>1. t \in things /\ t \notin Reached(teardown.f, s) /\ t \in Reached(teardown.f, t.side)
      BY <1>3, <1>6
    <2>2. t.side # s
      BY <2>1
    <2> QED
      BY <1>4, <1>6, <2>1, <2>2 DEF Reached
  <1>8. BillTells'
    BY <1>1, <1>3, <1>4, <1>6, <1>7 DEF InOrder, BillTells, StageTells, Gateways, Connections
  <1> QED
    BY <1>1, <1>5, <1>8 DEF InOrder

\* A tear-down that has removed all resets the row.
LEMMA ResetInOrder ==
    ASSUME InOrder, Reset, causes' = {}
    PROVE  InOrder'
  <1>1. teardown.on /\ teardown.left = {} /\ teardown' = NoTeardown /\ UNCHANGED <<things, work>>
    BY DEF Reset
  <1>2. things = {} /\ work.pc = "idle"
    BY <1>1 DEF InOrder, BillTells, WorkTells
  <1>3. WorkTells'
    BY <1>1, <1>2 DEF InOrder, WorkTells
  <1>4. ~teardown'.on
    BY <1>1 DEF NoTeardown
  <1>5. CASE fabric.there
    <2>1. fabric' = [there |-> TRUE, armed |-> FALSE, status |-> "draft", stage |-> "net_a",
                     name |-> fabric.name, gw |-> Blank, ip |-> Unaddressed, con |-> Blank]
      BY <1>5, ResetSet DEF Reset
    <2>2. fabric' \in FabRow
      BY <2>1 DEF InOrder, FabRow, FabStatus, FabStage, Blank, Unaddressed
    <2>3. Gateways(fabric)' = {} /\ Connections(fabric)' = {} /\ StageTells(fabric)'
      BY <2>1 DEF Gateways, Connections, StageTells, Blank, Sides
    <2>4. BillTells'
      BY <1>1, <1>2, <1>4, <2>1, <2>3 DEF BillTells
    <2> QED
      BY <1>3, <2>2, <2>4 DEF InOrder
  <1>6. CASE ~fabric.there
    <2>1. UNCHANGED fabric /\ StageTells(fabric) /\ fabric.gw = Blank /\ fabric.con = Blank
      BY <1>6 DEF Reset, InOrder, BillTells
    <2>2. StageTells(fabric)'
      BY <2>1 DEF StageTells
    <2>3. Gateways(fabric)' = {} /\ Connections(fabric)' = {}
      BY <2>1 DEF Gateways, Connections, Blank
    <2>4. BillTells'
      BY <1>1, <1>2, <1>4, <2>1, <2>2, <2>3 DEF BillTells
    <2> QED
      BY <1>3, <2>1, <2>4 DEF InOrder
  <1> QED
    BY <1>5, <1>6

\* A restart cuts off what is under way, and is a cause if that made something.
LEMMA CutOffInOrder ==
    ASSUME InOrder, FabRestart, causes' = {}
    PROVE  InOrder'
  <1>1. work.made = Nothing /\ ~teardown.on
    BY NoCause DEF FabRestart
  <1>2. /\ work' = NoWork /\ teardown' = NoTeardown /\ UNCHANGED <<fabric, things>>
    BY DEF FabRestart
  <1>3. work.pc # "save"
    BY <1>1 DEF InOrder, WorkTells, Makes, Nothing
  <1>4. WorkTells'
    BY <1>2 DEF WorkTells, NoWork
  <1>5. BillTells'
    BY <1>1, <1>2, <1>3 DEF InOrder, BillTells, StageTells, Gateways, Connections,
                            NoWork, NoTeardown
  <1> QED
    BY <1>2, <1>4, <1>5 DEF InOrder

\* What touches neither row nor things changes nothing of it.
LEMMA StillInOrder ==
    ASSUME InOrder, UNCHANGED <<fabric, things, work, teardown>>
    PROVE  InOrder'
  <1>1. WorkTells'
    BY DEF InOrder, WorkTells, Makes
  <1>2. BillTells'
    BY DEF InOrder, BillTells, StageTells, Gateways, Connections, Reached
  <1> QED
    BY <1>1, <1>2 DEF InOrder

\* It holds in the initial states.
LEMMA FabricInit == FabInit => FabricInv
  <1> SUFFICES ASSUME FabInit PROVE FabricInv
    OBVIOUS
  <1>1. fabric = [there |-> TRUE, armed |-> FALSE, status |-> "draft", stage |-> "net_a",
                  name |-> 1, gw |-> Blank, ip |-> Unaddressed, con |-> Blank]
        /\ things = {} /\ work = NoWork /\ teardown = NoTeardown
    BY DEF FabInit, Draft
  <1>2. FabTypes
    BY FabricAssumption DEF FabricAssumption, FabInit, FabTypes, Draft, NoWork
  <1>3. HasColumns
    BY <1>1 DEF HasColumns, FabStage, NoWork, NoTeardown
  <1>4. fabric \in FabRow
    BY <1>1 DEF FabRow, FabStatus, FabStage, Blank, Unaddressed
  <1>5. WorkTells
    BY <1>1 DEF WorkTells, NoWork
  <1>6. Gateways(fabric) = {} /\ Connections(fabric) = {} /\ StageTells(fabric)
    BY <1>1 DEF Gateways, Connections, StageTells, Blank, Sides
  <1>7. BillTells
    BY <1>1, <1>6 DEF BillTells, NoWork, NoTeardown
  <1> QED
    BY <1>2, <1>3, <1>4, <1>5, <1>7 DEF FabricInv

\* It is kept by every step.
LEMMA FabricKept == FabricInv /\ [FabNext]_fabVars => FabricInv'
  <1> SUFFICES ASSUME FabricInv, [FabNext]_fabVars PROVE FabricInv'
    OBVIOUS
  <1>1. FabTypes' /\ HasColumns'
    BY FabTypesKept DEF FabricInv
  <1>2. ASSUME causes' = {}
        PROVE  InOrder'
    <2>1. InOrder /\ HasColumns
      BY <1>2, CausesStay DEF FabricInv, InOrder
    <2> QED
      BY <1>2, <2>1, StartInOrder, FailsInOrder, EasyInOrder, GatewayInOrder, AddressInOrder,
         ConnectInOrder, SaveInOrder, ArmInOrder, EditInOrder, RetryInOrder, RemoveInOrder,
         DeprovisionInOrder, TearDownInOrder, ResetInOrder, CutOffInOrder, StillInOrder
         DEF FabNext, Advance, Matures, fabVars
  <1> QED
    BY <1>1, <1>2 DEF FabricInv, InOrder

(* The row, the work, the tear-down and what is billed agree until one of    *)
(* the causes has happened: FabricInv is inductive over every step.          *)
THEOREM FabricInvariant == FabSpec => []FabricInv
  <1>1. FabInit => FabricInv
    BY FabricInit
  <1>2. FabricInv /\ [FabNext]_fabVars => FabricInv'
    BY FabricKept
  <1> QED
    BY <1>1, <1>2, PTL DEF FabSpec

\* It implies what the run checks.
LEMMA FabricShows == FabricInv => FabricHonest
  <1> SUFFICES ASSUME FabricInv PROVE FabricHonest
    OBVIOUS
  <1>1. ASSUME causes = {}
        PROVE  BillsAreKnown /\ (fabric.armed \/ things = {}) /\ UpIsWired
    <2>1. fabric \in FabRow /\ WorkTells /\ BillTells
      BY <1>1 DEF FabricInv
    <2>2. ASSUME NEW t \in things
          PROVE  t = work.made \/ t \in Billed(fabric)
      BY <2>1, <2>2, BilledForRow DEF BillTells
    <2>3. ASSUME fabric.status = "up", ~teardown.on
          PROVE  things = UNION {{Thing("gw", s, fabric.gw[s]),
                                  Wired(s, fabric.con[s], fabric.gw[s], fabric.gw[Other(s)])} : s \in Sides}
      <3>1. work.pc # "save"
        BY <2>1, <2>3 DEF WorkTells
      <3>2. things = Gateways(fabric) \cup Connections(fabric)
        BY <2>1, <2>3, <3>1 DEF BillTells
      <3>3. \A s \in Sides : fabric.gw[s] # 0 /\ fabric.con[s] # 0
        BY <2>1, <2>3 DEF BillTells, StageTells, Sides
      <3> QED
        BY <3>2, <3>3 DEF Gateways, Connections
    <2> QED
      BY <2>1, <2>2, <2>3 DEF BillTells, BillsAreKnown, UpIsWired
  <1> QED
    BY <1>1 DEF FabricInv, FabricHonest

(* For any numbers of edits, retries, failures and restarts: until one of    *)
(* the listed causes has happened, what is billed is known to the row or     *)
(* about to be written to it, and a fabric that is up is wired               *)
(* (fabric.service.ts).                                                      *)
THEOREM FabricBilled == FabSpec => []FabricHonest
  <1>1. FabricInv => FabricHonest
    BY FabricShows
  <1> QED
    BY <1>1, FabricInvariant, PTL

(***************************************************************************)
(* The console of an agent.                                                *)
(*                                                                         *)
(* That an end sees the other's pieces whole and in order says nothing of   *)
(* those that are on their way.  What is kept is that the three places of a *)
(* stream, one behind the other, hold the numbers from 1 on: of the agent's *)
(* while its socket is the session's, of the proxy's always.                *)
(***************************************************************************)
\* n pieces, in three places on their way.
Stream(s, t, u, n) ==
    /\ s \in Seq(Nat) /\ t \in Seq(Nat) /\ u \in Seq(Nat)
    /\ \A k \in 1 .. Len(s) : s[k] = k
    /\ \A k \in 1 .. Len(t) : t[k] = Len(s) + k
    /\ \A k \in 1 .. Len(u) : u[k] = Len(s) + Len(t) + k
    /\ Len(s) + Len(t) + Len(u) = n

\* From the agent: while its socket is the session's, what has been sent is shown,
\* held or in the socket; before that, nothing has been.
UpTells ==
    /\ up.shown \in Seq(Nat) /\ Counts(up.shown)
    /\ tunnel.there /\ tunnel.agent => Stream(up.shown, up.held, up.wire, up.sent)
    /\ tunnel.there /\ ~tunnel.agent =>
         /\ outpost # "open" /\ up.sent = 0
         /\ up.shown = <<>> /\ up.held = <<>> /\ up.wire = <<>>
    /\ tunnel.there /\ ~tunnel.joined => up.shown = <<>>
    /\ tunnel.joined => up.held = <<>>

\* To the agent: nothing that was typed is ever dropped by the platform.
DownTells ==
    /\ Stream(down.heard, down.wire, down.paused, down.typed)
    /\ tunnel.there /\ ~tunnel.joined => down.wire = <<>> /\ down.heard = <<>>

\* A session that waits has its timer, one that is joined has both ends, and one
\* that has ended has neither.
SessionTells ==
    /\ tunnel.there /\ ~tunnel.joined => tunnel.timer
    /\ tunnel.joined => tunnel.there /\ tunnel.agent /\ tunnel.relay # 0
    /\ tunnel.there /\ tunnel.agent /\ tunnel.relay # 0 => tunnel.joined
    /\ ~tunnel.there => tunnel = Closed
    /\ tunnel.agent => outpost \in {"open", "closed"}

StreamColumns ==
    /\ up = [sent |-> up.sent, wire |-> up.wire, held |-> up.held, shown |-> up.shown]
    /\ down = [typed |-> down.typed, paused |-> down.paused, wire |-> down.wire, heard |-> down.heard]

RelayInv == TunTypes /\ StreamColumns /\ SessionTells /\ UpTells /\ DownTells
TunnelRow == [there : BOOLEAN, timer : BOOLEAN, relay : 0 .. Proxies, agent : BOOLEAN, joined : BOOLEAN]

\* The first of a sequence put behind another.
LEMMA HeadMoves ==
    ASSUME NEW s \in Seq(Nat), NEW t \in Seq(Nat), t # <<>>
    PROVE  /\ Append(s, Head(t)) \in Seq(Nat) /\ Len(Append(s, Head(t))) = Len(s) + 1
           /\ Append(s, Head(t))[Len(s) + 1] = t[1]
           /\ \A i \in 1 .. Len(s) : Append(s, Head(t))[i] = s[i]
           /\ Tail(t) \in Seq(Nat) /\ Len(Tail(t)) = Len(t) - 1
           /\ \A i \in 1 .. Len(Tail(t)) : Tail(t)[i] = t[i + 1]
           /\ Len(s) \in Nat /\ Len(t) \in Nat \ {0}
  <1>1. /\ Head(t) \in Nat /\ Tail(t) \in Seq(Nat) /\ Len(Tail(t)) = Len(t) - 1
        /\ \A i \in 1 .. Len(Tail(t)) : Tail(t)[i] = t[i + 1]
    BY HeadTailProperties
  <1>2. /\ Append(s, Head(t)) \in Seq(Nat) /\ Len(Append(s, Head(t))) = Len(s) + 1
        /\ Append(s, Head(t))[Len(s) + 1] = Head(t)
        /\ \A i \in 1 .. Len(s) : Append(s, Head(t))[i] = s[i]
    BY <1>1
  <1>3. Len(s) \in Nat /\ Len(t) \in Nat \ {0} /\ Head(t) = t[1]
    OBVIOUS
  <1> QED
    BY <1>1, <1>2, <1>3

\* The stream goes on its way: a piece from the last place to the second, from the
\* second to the first, all of the second to the first.
LEMMA StreamEnters ==
    ASSUME NEW s, NEW t, NEW u, NEW n, Stream(s, t, u, n), u # <<>>
    PROVE  Stream(s, Append(t, Head(u)), Tail(u), n)
  <1> DEFINE a == Append(t, Head(u))
             b == Tail(u)
  <1>1. /\ s \in Seq(Nat) /\ t \in Seq(Nat) /\ u \in Seq(Nat) /\ Len(s) \in Nat
        /\ \A k \in 1 .. Len(s) : s[k] = k
        /\ \A k \in 1 .. Len(t) : t[k] = Len(s) + k
        /\ \A k \in 1 .. Len(u) : u[k] = Len(s) + Len(t) + k
        /\ Len(s) + Len(t) + Len(u) = n
    BY DEF Stream
  <1>2. /\ a \in Seq(Nat) /\ Len(a) = Len(t) + 1 /\ a[Len(t) + 1] = u[1]
        /\ \A i \in 1 .. Len(t) : a[i] = t[i]
        /\ b \in Seq(Nat) /\ Len(b) = Len(u) - 1 /\ \A i \in 1 .. Len(b) : b[i] = u[i + 1]
        /\ Len(t) \in Nat /\ Len(u) \in Nat \ {0}
    BY <1>1, HeadMoves
  <1> HIDE DEF a, b
  <1>3. ASSUME NEW k \in 1 .. Len(a)
        PROVE  a[k] = Len(s) + k
    <2>1. CASE k = Len(t) + 1
      BY <1>1, <1>2, <2>1
    <2>2. CASE k # Len(t) + 1
      <3>1. k \in 1 .. Len(t)
        BY <1>1, <1>2, <2>2
      <3> QED
        BY <1>1, <1>2, <3>1
    <2> QED
      BY <2>1, <2>2
  <1>4. ASSUME NEW k \in 1 .. Len(b)
        PROVE  b[k] = Len(s) + Len(a) + k
    <2>1. k + 1 \in 1 .. Len(u) /\ b[k] = u[k + 1]
      BY <1>2
    <2>2. u[k + 1] = Len(s) + Len(t) + (k + 1)
      BY <1>1, <2>1
    <2> QED
      BY <1>1, <1>2, <2>1, <2>2
  <1>5. Len(s) + Len(a) + Len(b) = n
    BY <1>1, <1>2
  <1> QED
    BY <1>1, <1>2, <1>3, <1>4, <1>5 DEF Stream, a, b

\* The first of the second place goes to the first.
LEMMA StreamLeaves ==
    ASSUME NEW s, NEW t, NEW u, NEW n, Stream(s, t, u, n), t # <<>>
    PROVE  Stream(Append(s, Head(t)), Tail(t), u, n)
  <1> DEFINE a == Append(s, Head(t))
             b == Tail(t)
  <1>1. /\ s \in Seq(Nat) /\ t \in Seq(Nat) /\ u \in Seq(Nat) /\ Len(u) \in Nat
        /\ \A k \in 1 .. Len(s) : s[k] = k
        /\ \A k \in 1 .. Len(t) : t[k] = Len(s) + k
        /\ \A k \in 1 .. Len(u) : u[k] = Len(s) + Len(t) + k
        /\ Len(s) + Len(t) + Len(u) = n
    BY DEF Stream
  <1>2. /\ a \in Seq(Nat) /\ Len(a) = Len(s) + 1 /\ a[Len(s) + 1] = t[1]
        /\ \A i \in 1 .. Len(s) : a[i] = s[i]
        /\ b \in Seq(Nat) /\ Len(b) = Len(t) - 1 /\ \A i \in 1 .. Len(b) : b[i] = t[i + 1]
        /\ Len(s) \in Nat /\ Len(t) \in Nat \ {0}
    BY <1>1, HeadMoves
  <1> HIDE DEF a, b
  <1>3. ASSUME NEW k \in 1 .. Len(a)
        PROVE  a[k] = k
    <2>1. CASE k = Len(s) + 1
      BY <1>1, <1>2, <2>1
    <2>2. CASE k # Len(s) + 1
      <3>1. k \in 1 .. Len(s)
        BY <1>1, <1>2, <2>2
      <3> QED
        BY <1>1, <1>2, <3>1
    <2> QED
      BY <2>1, <2>2
  <1>4. ASSUME NEW k \in 1 .. Len(b)
        PROVE  b[k] = Len(a) + k
    <2>1. k + 1 \in 1 .. Len(t) /\ b[k] = t[k + 1]
      BY <1>2
    <2>2. t[k + 1] = Len(s) + (k + 1)
      BY <1>1, <2>1
    <2> QED
      BY <1>1, <1>2, <2>1, <2>2
  <1>5. Len(a) + Len(b) = Len(s) + Len(t)
    BY <1>2
  <1> QED
    BY <1>1, <1>2, <1>3, <1>4, <1>5 DEF Stream, a, b

\* All of the second place goes to the first, which is empty.
LEMMA StreamFlushes ==
    ASSUME NEW t, NEW u, NEW n, Stream(<<>>, t, u, n)
    PROVE  Stream(<<>> \o t, <<>>, u, n)
  <1>1. /\ t \in Seq(Nat) /\ u \in Seq(Nat) /\ Len(t) \in Nat /\ Len(u) \in Nat
        /\ <<>> \in Seq(Nat) /\ Len(<<>>) = 0
    BY DEF Stream
  <1>2. <<>> \o t = t
    BY <1>1, ConcatEmptySeq
  <1>3. /\ \A k \in 1 .. Len(t) : t[k] = k
        /\ \A k \in 1 .. Len(u) : u[k] = Len(t) + k
        /\ Len(t) + Len(u) = n
    BY <1>1 DEF Stream
  <1>4. Stream(t, <<>>, u, n)
    BY <1>1, <1>3 DEF Stream
  <1> QED
    BY <1>2, <1>4

\* From the last place to the first, when nothing is between.
LEMMA StreamPasses ==
    ASSUME NEW s, NEW u, NEW n, Stream(s, <<>>, u, n), u # <<>>
    PROVE  Stream(Append(s, Head(u)), <<>>, Tail(u), n)
  <1> DEFINE a == Append(s, Head(u))
             b == Tail(u)
  <1>1. /\ s \in Seq(Nat) /\ <<>> \in Seq(Nat) /\ Len(<<>>) = 0 /\ u \in Seq(Nat)
        /\ \A k \in 1 .. Len(s) : s[k] = k
    BY DEF Stream
  <1>2. /\ a \in Seq(Nat) /\ Len(a) = Len(s) + 1 /\ a[Len(s) + 1] = u[1]
        /\ \A i \in 1 .. Len(s) : a[i] = s[i]
        /\ b \in Seq(Nat) /\ Len(b) = Len(u) - 1 /\ \A i \in 1 .. Len(b) : b[i] = u[i + 1]
        /\ Len(s) \in Nat /\ Len(u) \in Nat \ {0}
    BY <1>1, HeadMoves
  <1>3. /\ \A k \in 1 .. Len(u) : u[k] = Len(s) + k
        /\ Len(s) + Len(u) = n
    BY <1>1, <1>2 DEF Stream
  <1> HIDE DEF a, b
  <1>4. ASSUME NEW k \in 1 .. Len(a)
        PROVE  a[k] = k
    <2>1. CASE k = Len(s) + 1
      BY <1>2, <1>3, <2>1
    <2>2. CASE k # Len(s) + 1
      <3>1. k \in 1 .. Len(s)
        BY <1>1, <1>2, <2>2
      <3> QED
        BY <1>1, <1>2, <3>1
    <2> QED
      BY <2>1, <2>2
  <1>5. ASSUME NEW k \in 1 .. Len(b)
        PROVE  b[k] = Len(a) + k
    <2>1. k + 1 \in 1 .. Len(u) /\ b[k] = u[k + 1]
      BY <1>2
    <2>2. u[k + 1] = Len(s) + (k + 1)
      BY <1>3, <2>1
    <2> QED
      BY <1>2, <2>1, <2>2
  <1>6. Len(a) + Len(b) = n
    BY <1>2, <1>3
  <1>7. Len(a) + 0 = Len(a)
    BY <1>2
  <1> QED
    BY <1>1, <1>2, <1>4, <1>5, <1>6, <1>7 DEF Stream, a, b

\* The next piece enters.
LEMMA StreamGrows ==
    ASSUME NEW s, NEW t, NEW u, NEW n \in Nat, Stream(s, t, u, n)
    PROVE  Stream(s, t, Append(u, n + 1), n + 1)
  <1> DEFINE v == Append(u, n + 1)
  <1>1. /\ s \in Seq(Nat) /\ t \in Seq(Nat) /\ u \in Seq(Nat) /\ n + 1 \in Nat
        /\ Len(s) \in Nat /\ Len(t) \in Nat /\ Len(u) \in Nat
        /\ Len(s) + Len(t) + Len(u) = n
        /\ \A k \in 1 .. Len(u) : u[k] = Len(s) + Len(t) + k
    BY DEF Stream
  <1>2. /\ v \in Seq(Nat) /\ Len(v) = Len(u) + 1 /\ v[Len(u) + 1] = n + 1
        /\ \A i \in 1 .. Len(u) : v[i] = u[i]
    BY <1>1
  <1> HIDE DEF v
  <1>a. Len(v) = Len(u) + 1 /\ Len(u) \in Nat /\ Len(s) \in Nat /\ Len(t) \in Nat
        /\ n = Len(s) + Len(t) + Len(u)
    BY <1>1, <1>2
  <1>3. ASSUME NEW k \in 1 .. Len(v)
        PROVE  v[k] = Len(s) + Len(t) + k
    <2>1. CASE k = Len(u) + 1
      <3>1. n + 1 = Len(s) + Len(t) + k
        BY <1>a, <2>1
      <3>2. v[k] = n + 1
        BY <1>2, <2>1
      <3> QED
        BY <3>1, <3>2
    <2>2. CASE k # Len(u) + 1
      <3>1. k \in 1 .. Len(u)
        BY <1>1, <1>2, <2>2
      <3> QED
        BY <1>1, <1>2, <3>1
    <2> QED
      BY <2>1, <2>2
  <1>4. Len(s) + Len(t) + Len(v) = n + 1
    BY <1>a
  <1> QED
    BY <1>1, <1>2, <1>3, <1>4 DEF Stream, v

\* Two runs, one after the other.
LEMMA RunsJoin ==
    ASSUME NEW s \in Seq(Nat), NEW t \in Seq(Nat),
           \A k \in 1 .. Len(s) : s[k] = k, \A k \in 1 .. Len(t) : t[k] = Len(s) + k
    PROVE  /\ s \o t \in Seq(Nat) /\ Len(s \o t) = Len(s) + Len(t)
           /\ \A k \in 1 .. Len(s \o t) : (s \o t)[k] = k
  <1>1. /\ s \o t \in Seq(Nat) /\ Len(s \o t) = Len(s) + Len(t)
        /\ \A i \in 1 .. Len(s) + Len(t) :
             (s \o t)[i] = IF i <= Len(s) THEN s[i] ELSE t[i - Len(s)]
    BY ConcatProperties
  <1>2. Len(s) \in Nat /\ Len(t) \in Nat
    OBVIOUS
  <1>3. ASSUME NEW k \in 1 .. Len(s \o t)
        PROVE  (s \o t)[k] = k
    <2>1. CASE k <= Len(s)
      BY <1>1, <1>2, <2>1
    <2>2. CASE ~(k <= Len(s))
      <3>1. k - Len(s) \in 1 .. Len(t) /\ (s \o t)[k] = t[k - Len(s)]
        BY <1>1, <1>2, <2>2
      <3>2. t[k - Len(s)] = Len(s) + (k - Len(s))
        BY <3>1
      <3> QED
        BY <1>1, <1>2, <3>1, <3>2
    <2> QED
      BY <2>1, <2>2
  <1> QED
    BY <1>1, <1>3

\* The whole is counted, what has arrived is, and the lengths add up.
LEMMA StreamCounts ==
    ASSUME NEW s, NEW t, NEW u, NEW n, Stream(s, t, u, n)
    PROVE  /\ s \in Seq(Nat) /\ Counts(s)
           /\ Counts(s \o t \o u) /\ Len(s \o t \o u) = n
           /\ Len(u \o t \o s) = n
  <1>1. /\ s \in Seq(Nat) /\ t \in Seq(Nat) /\ u \in Seq(Nat)
        /\ Len(s) \in Nat /\ Len(t) \in Nat /\ Len(u) \in Nat
        /\ \A k \in 1 .. Len(s) : s[k] = k
        /\ \A k \in 1 .. Len(t) : t[k] = Len(s) + k
        /\ \A k \in 1 .. Len(u) : u[k] = Len(s) + Len(t) + k
        /\ Len(s) + Len(t) + Len(u) = n
    BY DEF Stream
  <1>2. /\ s \o t \in Seq(Nat) /\ Len(s \o t) = Len(s) + Len(t)
        /\ \A k \in 1 .. Len(s \o t) : (s \o t)[k] = k
    BY <1>1, RunsJoin
  <1>3. \A k \in 1 .. Len(u) : u[k] = Len(s \o t) + k
    BY <1>1, <1>2
  <1>4. /\ Len((s \o t) \o u) = Len(s \o t) + Len(u)
        /\ \A k \in 1 .. Len((s \o t) \o u) : ((s \o t) \o u)[k] = k
    BY <1>1, <1>2, <1>3, RunsJoin
  <1>5. u \o t \in Seq(Nat) /\ Len(u \o t) = Len(u) + Len(t)
    BY <1>1, ConcatProperties
  <1>6. Len((u \o t) \o s) = Len(u \o t) + Len(s)
    BY <1>1, <1>5, ConcatProperties
  <1>7. Len(u \o t \o s) = n /\ Len(s \o t \o u) = n
    BY <1>1, <1>2, <1>4, <1>5, <1>6
  <1> QED
    BY <1>1, <1>4, <1>7 DEF Counts

\* A stream of nothing.
LEMMA StreamEmpty == Stream(<<>>, <<>>, <<>>, 0)
  BY DEF Stream

\* Another end has come to a session that waits: if both are there now, what was
\* held is shown.
LEMMA BridgeTells ==
    ASSUME StreamColumns, DownTells, NEW t \in TunnelRow, t.there, t.timer, ~t.joined,
           up.shown = <<>>,
           t.agent => Stream(<<>>, up.held, up.wire, up.sent),
           ~t.agent => up.held = <<>> /\ up.wire = <<>> /\ up.sent = 0 /\ outpost' # "open",
           t.agent => outpost' \in {"open", "closed"},
           Bridge(t), down' = down, down.wire = <<>>, down.heard = <<>>
    PROVE  /\ tunnel' \in TunnelRow /\ StreamColumns' /\ SessionTells' /\ UpTells' /\ DownTells'
           /\ up'.sent = up.sent
  <1>1. DownTells'
    BY DEF DownTells
  <1>2. CASE Joined(t)
    <2>1. tunnel' = [there |-> TRUE, timer |-> FALSE, relay |-> t.relay, agent |-> TRUE, joined |-> TRUE]
      BY <1>2 DEF Bridge, Joined, TunnelRow
    <2>2. up' = [sent |-> up.sent, wire |-> up.wire, held |-> <<>>, shown |-> <<>> \o up.held]
      BY <1>2 DEF Bridge, StreamColumns
    <2>3. Stream(<<>> \o up.held, <<>>, up.wire, up.sent)
      BY <1>2, StreamFlushes DEF Joined
    <2>4. up'.shown \in Seq(Nat) /\ Counts(up'.shown) /\ up'.held = <<>>
          /\ Stream(up'.shown, up'.held, up'.wire, up'.sent)
      BY <2>2, <2>3, StreamCounts
    <2>5. UpTells'
      BY <2>1, <2>4 DEF UpTells
    <2>6. StreamColumns'
      BY <2>2 DEF StreamColumns
    <2>7. SessionTells' /\ tunnel' \in TunnelRow
      BY <1>2, <2>1 DEF SessionTells, Joined, TunnelRow
    <2> QED
      BY <1>1, <2>2, <2>5, <2>6, <2>7
  <1>3. CASE ~Joined(t)
    <2>1. tunnel' = t /\ up' = up
      BY <1>3 DEF Bridge
    <2>2. <<>> \in Seq(Nat) /\ Counts(<<>>)
      BY DEF Counts
    <2>3. UpTells'
      BY <2>1, <2>2 DEF UpTells
    <2>4. StreamColumns'
      BY <2>1 DEF StreamColumns
    <2>5. SessionTells'
      BY <1>3, <2>1 DEF SessionTells, Joined
    <2> QED
      BY <1>1, <2>1, <2>3, <2>4, <2>5
  <1> QED
    BY <1>2, <1>3

\* The proxy connects: it is the first, and may find the agent there, or a second.
LEMMA ConnectKeeps ==
    ASSUME RelayInv, NEW p \in Lines, Connects(p)
    PROVE  RelayInv'
  <1>1. UNCHANGED <<outpost, down>> /\ proxy' \in [Lines -> {"none", "open", "closed"}]
    BY DEF Connects, RelayInv, TunTypes
  <1>2. CASE tunnel.relay # 0
    <2>1. UNCHANGED <<tunnel, up>>
      BY <1>2 DEF Connects
    <2> QED
      BY <1>1, <2>1 DEF RelayInv, TunTypes, StreamColumns, SessionTells, UpTells, DownTells
  <1>3. CASE tunnel.relay = 0
    <2> DEFINE t == [tunnel EXCEPT !.relay = p]
    <2>1. Bridge(t) /\ tunnel.there
      BY <1>3 DEF Connects
    <2>2. /\ t \in TunnelRow /\ t.there = tunnel.there /\ t.timer = tunnel.timer
          /\ t.agent = tunnel.agent /\ t.joined = tunnel.joined
      BY DEF RelayInv, TunTypes, TunnelRow, Lines
    <2>3. ~tunnel.joined /\ tunnel.timer /\ up.shown = <<>>
      BY <1>3, <2>1 DEF RelayInv, SessionTells, UpTells
    <2>4. /\ t.agent => Stream(<<>>, up.held, up.wire, up.sent)
          /\ ~t.agent => up.held = <<>> /\ up.wire = <<>> /\ up.sent = 0 /\ outpost' # "open"
      BY <1>1, <2>1, <2>2, <2>3 DEF RelayInv, UpTells
    <2>5. down.wire = <<>> /\ down.heard = <<>>
      BY <2>1, <2>3 DEF RelayInv, DownTells
    <2>6. StreamColumns /\ DownTells /\ t.there /\ t.timer /\ ~t.joined /\ down' = down
      BY <1>1, <2>1, <2>2, <2>3 DEF RelayInv
    <2>7. t.agent => outpost' \in {"open", "closed"}
      BY <1>1, <2>2 DEF RelayInv, SessionTells
    <2> HIDE DEF t
    <2>8. /\ tunnel' \in TunnelRow /\ StreamColumns' /\ SessionTells' /\ UpTells' /\ DownTells'
          /\ up'.sent = up.sent
      BY <2>1, <2>2, <2>3, <2>4, <2>5, <2>6, <2>7, BridgeTells
    <2> QED
      BY <1>1, <2>8 DEF RelayInv, TunTypes, TunnelRow
  <1> QED
    BY <1>2, <1>3

\* The agent attaches: to a session that waits, or to none.
LEMMA AttachKeeps ==
    ASSUME RelayInv, Attaches
    PROVE  RelayInv'
  <1>1. UNCHANGED <<proxy, down>> /\ outpost = "dialing" /\ outpost' \in {"open", "closed"}
    BY DEF Attaches
  <1>2. CASE ~tunnel.there
    <2>1. UNCHANGED <<tunnel, up>>
      BY <1>2 DEF Attaches
    <2> QED
      BY <1>1, <1>2, <2>1 DEF RelayInv, TunTypes, StreamColumns, SessionTells, UpTells, DownTells
  <1>3. CASE tunnel.there /\ ~tunnel.agent
    <2> DEFINE t == [tunnel EXCEPT !.agent = TRUE]
    <2>1. Bridge(t)
      BY <1>3 DEF Attaches
    <2>2. /\ t \in TunnelRow /\ t.there = tunnel.there /\ t.timer = tunnel.timer
          /\ t.agent /\ t.joined = tunnel.joined
      BY DEF RelayInv, TunTypes, TunnelRow
    <2>3. ~tunnel.joined /\ tunnel.timer /\ up.shown = <<>>
      BY <1>3 DEF RelayInv, SessionTells, UpTells
    <2>4. Stream(<<>>, up.held, up.wire, up.sent)
      BY <1>3, StreamEmpty DEF RelayInv, UpTells
    <2>5. down.wire = <<>> /\ down.heard = <<>>
      BY <1>3, <2>3 DEF RelayInv, DownTells
    <2>6. StreamColumns /\ DownTells /\ t.there /\ t.timer /\ ~t.joined /\ down' = down
      BY <1>1, <1>3, <2>2, <2>3 DEF RelayInv
    <2>7. t.agent => outpost' \in {"open", "closed"}
      BY <1>1
    <2> HIDE DEF t
    <2>8. /\ tunnel' \in TunnelRow /\ StreamColumns' /\ SessionTells' /\ UpTells' /\ DownTells'
          /\ up'.sent = up.sent
      BY <2>1, <2>2, <2>3, <2>4, <2>5, <2>6, <2>7, BridgeTells
    <2> QED
      BY <1>1, <2>8 DEF RelayInv, TunTypes, TunnelRow
  <1>4. CASE tunnel.there /\ tunnel.agent
    BY <1>1, <1>4 DEF RelayInv, SessionTells
  <1> QED
    BY <1>2, <1>3, <1>4

\* A piece from the agent is shown or held.
LEMMA FromAgentKeeps ==
    ASSUME RelayInv, FromAgent
    PROVE  RelayInv'
  <1>1. UNCHANGED <<tunnel, proxy, outpost, down>> /\ tunnel.there /\ tunnel.agent /\ up.wire # <<>>
    BY DEF FromAgent
  <1>2. Stream(up.shown, up.held, up.wire, up.sent)
    BY <1>1 DEF RelayInv, UpTells
  <1>3. CASE tunnel.joined
    <2>1. up' = [sent |-> up.sent, wire |-> Tail(up.wire), held |-> up.held,
                 shown |-> Append(up.shown, Head(up.wire))] /\ up.held = <<>>
      BY <1>3 DEF FromAgent, RelayInv, StreamColumns, UpTells
    <2>2. Stream(up'.shown, up'.held, up'.wire, up'.sent)
      BY <1>1, <1>2, <2>1, StreamPasses
    <2>3. UpTells'
      BY <1>1, <1>3, <2>1, <2>2, StreamCounts DEF UpTells
    <2> QED
      BY <1>1, <2>1, <2>3 DEF RelayInv, TunTypes, StreamColumns, SessionTells, DownTells
  <1>4. CASE ~tunnel.joined
    <2>1. up' = [sent |-> up.sent, wire |-> Tail(up.wire),
                 held |-> Append(up.held, Head(up.wire)), shown |-> up.shown]
      BY <1>4 DEF FromAgent, RelayInv, StreamColumns
    <2>2. Stream(up'.shown, up'.held, up'.wire, up'.sent)
      BY <1>1, <1>2, <2>1, StreamEnters
    <2>3. UpTells'
      BY <1>1, <1>4, <2>1, <2>2 DEF RelayInv, UpTells
    <2> QED
      BY <1>1, <2>1, <2>3 DEF RelayInv, TunTypes, StreamColumns, SessionTells, DownTells
  <1> QED
    BY <1>3, <1>4

\* The session ends, and what it held with it.
LEMMA UpStopsKeeps ==
    ASSUME RelayInv, HubCloses \/ TunRestart
    PROVE  RelayInv'
  <1>1. /\ UNCHANGED <<proxy, outpost, down>> /\ tunnel' = Closed
        /\ up' = [up EXCEPT !.held = <<>>]
    BY DEF HubCloses, TunRestart
  <1>2. up' = [sent |-> up.sent, wire |-> up.wire, held |-> <<>>, shown |-> up.shown]
    BY <1>1 DEF RelayInv, StreamColumns
  <1>3. tunnel' \in TunnelRow /\ ~tunnel'.there /\ ~tunnel'.joined /\ ~tunnel'.agent
    BY <1>1, TunnelAssumption DEF Closed, TunnelRow, TunnelAssumption
  <1> QED
    BY <1>1, <1>2, <1>3
       DEF RelayInv, TunTypes, TunnelRow, StreamColumns, SessionTells, UpTells, DownTells

\* The agent's end sends its next piece.
LEMMA TalkKeeps ==
    ASSUME RelayInv, Talks
    PROVE  RelayInv'
  <1>1. UNCHANGED <<tunnel, proxy, outpost, down>> /\ outpost = "open" /\ up.sent < MaxBytes
    BY DEF Talks
  <1>2. up' = [sent |-> up.sent + 1, wire |-> Append(up.wire, up.sent + 1), held |-> up.held,
               shown |-> up.shown]
    BY DEF Talks, RelayInv, StreamColumns
  <1>3. up.sent \in Nat /\ up'.sent \in 0 .. MaxBytes
    BY <1>1, <1>2, TunnelAssumption DEF RelayInv, TunTypes, TunnelAssumption
  <1>4. UpTells'
    <2>1. CASE tunnel.there /\ tunnel.agent
      <3>1. Stream(up.shown, up.held, up.wire, up.sent)
        BY <2>1 DEF RelayInv, UpTells
      <3>2. Stream(up'.shown, up'.held, up'.wire, up'.sent)
        BY <1>2, <1>3, <3>1, StreamGrows
      <3> QED
        BY <1>1, <1>2, <2>1, <3>2 DEF RelayInv, UpTells
    <2>2. CASE ~(tunnel.there /\ tunnel.agent)
      BY <1>1, <1>2, <2>2 DEF RelayInv, UpTells
    <2> QED
      BY <2>1, <2>2
  <1> QED
    BY <1>1, <1>2, <1>3, <1>4 DEF RelayInv, TunTypes, StreamColumns, SessionTells, DownTells

\* A piece from the proxy goes on its way.
LEMMA DownKeeps ==
    ASSUME RelayInv, FromProxy \/ Hears \/ \E p \in Lines : Types(p)
    PROVE  RelayInv'
  <1>1. UNCHANGED <<tunnel, proxy, outpost, up>>
    BY DEF FromProxy, Hears, Types
  <1>2. Stream(down.heard, down.wire, down.paused, down.typed)
    BY DEF RelayInv, DownTells
  <1>3. ASSUME DownTells', StreamColumns', down'.typed \in 0 .. MaxBytes
        PROVE  RelayInv'
    BY <1>1, <1>3 DEF RelayInv, TunTypes, SessionTells, UpTells
  <1>4. down.typed \in 0 .. MaxBytes /\ StreamColumns
    BY DEF RelayInv, TunTypes
  <1>5. CASE FromProxy
    <2>1. down' = [typed |-> down.typed, paused |-> Tail(down.paused),
                   wire |-> Append(down.wire, Head(down.paused)), heard |-> down.heard]
          /\ down.paused # <<>> /\ tunnel.joined
      BY <1>4, <1>5 DEF FromProxy, StreamColumns
    <2>2. Stream(down'.heard, down'.wire, down'.paused, down'.typed)
      BY <1>2, <2>1, StreamEnters
    <2>3. DownTells'
      BY <1>1, <2>1, <2>2 DEF DownTells
    <2> QED
      BY <1>1, <1>3, <1>4, <2>1, <2>3 DEF StreamColumns
  <1>6. CASE Hears
    <2>1. down' = [typed |-> down.typed, paused |-> down.paused,
                   wire |-> Tail(down.wire), heard |-> Append(down.heard, Head(down.wire))]
          /\ down.wire # <<>>
      BY <1>4, <1>6 DEF Hears, StreamColumns
    <2>2. Stream(down'.heard, down'.wire, down'.paused, down'.typed)
      BY <1>2, <2>1, StreamLeaves
    <2>3. ~(tunnel.there /\ ~tunnel.joined)
      BY <2>1 DEF RelayInv, DownTells
    <2>4. DownTells'
      BY <1>1, <2>2, <2>3 DEF DownTells
    <2> QED
      BY <1>1, <1>3, <1>4, <2>1, <2>4 DEF StreamColumns
  <1>7. ASSUME NEW p \in Lines, Types(p)
        PROVE  RelayInv'
    <2>1. down' = [typed |-> down.typed + 1, paused |-> Append(down.paused, down.typed + 1),
                   wire |-> down.wire, heard |-> down.heard]
          /\ down.typed < MaxBytes
      BY <1>4, <1>7 DEF Types, StreamColumns
    <2>2. down.typed \in Nat /\ down'.typed \in 0 .. MaxBytes
      BY <1>4, <2>1, TunnelAssumption DEF TunnelAssumption
    <2>3. Stream(down'.heard, down'.wire, down'.paused, down'.typed)
      BY <1>2, <2>1, <2>2, StreamGrows
    <2>4. DownTells'
      BY <1>1, <2>1, <2>3 DEF DownTells, RelayInv
    <2> QED
      BY <1>1, <1>3, <1>4, <2>1, <2>2, <2>4 DEF StreamColumns
  <1> QED
    BY <1>5, <1>6, <1>7

\* An end dials or closes.
LEMMA EndsKeep ==
    ASSUME RelayInv, Dials \/ OutpostCloses \/ \E p \in Lines : ProxyCloses(p)
    PROVE  RelayInv'
  <1>1. /\ UNCHANGED <<tunnel, up, down>>
        /\ outpost' = outpost \/ outpost' = "closed" \/ (outpost = "asked" /\ outpost' = "dialing")
    BY DEF Dials, OutpostCloses, ProxyCloses
  <1>2. proxy' \in [Lines -> {"none", "open", "closed"}]
    BY DEF Dials, OutpostCloses, ProxyCloses, RelayInv, TunTypes
  <1>3. TunTypes' /\ StreamColumns'
    BY <1>1, <1>2 DEF RelayInv, TunTypes, StreamColumns
  <1>4. SessionTells'
    BY <1>1 DEF RelayInv, SessionTells
  <1>5. UpTells' /\ DownTells'
    BY <1>1 DEF RelayInv, UpTells, DownTells
  <1> QED
    BY <1>3, <1>4, <1>5 DEF RelayInv

\* It holds in the initial states.
LEMMA RelayInit == TunInit => RelayInv
  <1> SUFFICES ASSUME TunInit PROVE RelayInv
    OBVIOUS
  <1>1. tunnel = [there |-> TRUE, timer |-> TRUE, relay |-> 0, agent |-> FALSE, joined |-> FALSE]
    BY DEF TunInit, Closed
  <1>2. /\ proxy = [p \in Lines |-> "none"] /\ outpost \in {"asked", "none"}
        /\ up = [sent |-> 0, wire |-> <<>>, held |-> <<>>, shown |-> <<>>]
        /\ down = [typed |-> 0, paused |-> <<>>, wire |-> <<>>, heard |-> <<>>]
    BY DEF TunInit
  <1>3. TunTypes
    <2>1. Proxies \in Nat /\ MaxBytes \in Nat
      BY TunnelAssumption DEF TunnelAssumption
    <2>2. 0 \in 0 .. Proxies /\ 0 \in 0 .. MaxBytes
      BY <2>1
    <2> QED
      BY <1>1, <1>2, <2>2 DEF TunTypes
  <1>4. StreamColumns
    BY <1>2 DEF StreamColumns
  <1>5. SessionTells
    BY <1>1 DEF SessionTells
  <1>6. UpTells /\ DownTells
    <2>1. <<>> \in Seq(Nat) /\ Counts(<<>>)
      BY DEF Counts
    <2> QED
      BY <1>1, <1>2, <2>1, StreamEmpty DEF UpTells, DownTells
  <1> QED
    BY <1>3, <1>4, <1>5, <1>6 DEF RelayInv

\* It is kept by every step.
LEMMA RelayKept == RelayInv /\ [TunNext]_tunVars => RelayInv'
  <1> SUFFICES ASSUME RelayInv, [TunNext]_tunVars PROVE RelayInv'
    OBVIOUS
  <1>1. CASE UNCHANGED tunVars
    BY <1>1 DEF tunVars, RelayInv, TunTypes, StreamColumns, SessionTells, UpTells, DownTells
  <1> QED
    BY <1>1, ConnectKeeps, AttachKeeps, FromAgentKeeps, UpStopsKeeps, TalkKeeps, DownKeeps,
       EndsKeep DEF TunNext

\* Each piece of either stream is in its place.
THEOREM RelayInvariant == TunSpec => []RelayInv
  <1>1. TunInit => RelayInv
    BY RelayInit
  <1>2. RelayInv /\ [TunNext]_tunVars => RelayInv'
    BY RelayKept
  <1> QED
    BY <1>1, <1>2, PTL DEF TunSpec

\* It implies what the run checks.
LEMMA RelayShows == RelayInv => RelayFaithful
  <1> SUFFICES ASSUME RelayInv PROVE RelayFaithful
    OBVIOUS
  <1>0. Stream(down.heard, down.wire, down.paused, down.typed)
    BY DEF RelayInv, DownTells
  <1>1. Counts(up.shown) /\ Counts(down.heard)
        /\ Len(down.paused \o down.wire \o down.heard) = down.typed
    <2>1. Counts(up.shown)
      BY DEF RelayInv, UpTells
    <2>2. Counts(down.heard) /\ Len(down.paused \o down.wire \o down.heard) = down.typed
      BY <1>0, StreamCounts
    <2> QED
      BY <2>1, <2>2
  <1>2. ASSUME tunnel.there, tunnel.agent
        PROVE  /\ Counts(up.shown \o up.held \o up.wire)
               /\ Len(up.shown \o up.held \o up.wire) = up.sent
    <2>1. Stream(up.shown, up.held, up.wire, up.sent)
      BY <1>2 DEF RelayInv, UpTells
    <2> QED
      BY <2>1, StreamCounts
  <1>3. ASSUME tunnel.there, ~tunnel.joined
        PROVE  tunnel.timer /\ up.shown = <<>> /\ down.wire \o down.heard = <<>>
    <2>1. tunnel.timer /\ up.shown = <<>> /\ down.wire = <<>> /\ down.heard = <<>>
      BY <1>3 DEF RelayInv, SessionTells, UpTells, DownTells
    <2> QED
      BY <2>1
  <1> QED
    BY <1>1, <1>2, <1>3 DEF RelayInv, RelayFaithful

\* Whoever comes first, each end sees what the other sent, whole and in order.
THEOREM RelayIsFaithful == TunSpec => []RelayFaithful
  <1>1. RelayInv => RelayFaithful
    BY RelayShows
  <1> QED
    BY <1>1, RelayInvariant, PTL

(***************************************************************************)
(* The log store.                                                          *)
(*                                                                         *)
(* That the store has no gap between passes needs what a pass knows: what   *)
(* is under its watermark is in the store or excused, and its batch has all *)
(* that precedes one of its rows.                                           *)
(***************************************************************************)
\* What a row may precede without being in the store: it is on its way there, it
\* was written late, or the store would not keep it.
Excused(r) == r \in shipped \/ r \in Outlived(LogRows, StoreKeeps)

WrittenTells ==
    /\ \A r \in kept \cup shipped \cup ship.batch : stamp[r] # 0
    /\ \A r, q \in LogRows : q < r /\ stamp[r] # 0 => stamp[q] # 0
    /\ IsFiniteSet(kept) /\ IsFiniteSet(ship.batch)

\* What is under its watermark is excused, and some row has that stamp.
FromTells ==
    ship.pc = "fetch" =>
        /\ ship.from = 0 \/ \E p \in LogRows : stamp[p] = ship.from
        /\ \A r \in kept \ late : stamp[r] < ship.from => Excused(r)

\* A batch has all that precedes one of its rows.
BatchTells ==
    \A r \in kept \ late, q \in ship.batch : Precedes(r, q) => r \in ship.batch \/ Excused(r)

ShipTells == ship.pc # "insert" => ship.batch = {}

LogInv == LogTypes /\ WrittenTells /\ FromTells /\ BatchTells /\ ShipTells /\ NoGap

\* Sets of numbers have a smallest element, and bounded ones a largest.
LEMMA SmallestOf ==
    ASSUME NEW T \in SUBSET Nat, T # {}
    PROVE  \E x \in T : \A y \in T : x <= y
  <1>1. PICK x \in T : \A y \in T : ~ (<<y, x>> \in OpToRel(<,Nat))
    BY NatLessThanWellFounded, WFMin
  <1>2. \A y \in T : ~ (y < x)
    BY <1>1 DEF OpToRel
  <1> QED
    BY <1>2

\* A set of numbers up to n has a largest element.
LEMMA LargestOf ==
    ASSUME NEW n \in Nat, NEW T \in SUBSET (0 .. n), T # {}
    PROVE  \E x \in T : \A y \in T : y <= x
  <1> DEFINE U == {m \in 0 .. n : n - m \in T}
  <1>1. U \in SUBSET Nat /\ U # {}
    <2>1. PICK t \in T : TRUE
      OBVIOUS
    <2>2. n - t \in 0 .. n /\ n - (n - t) = t
      BY <2>1
    <2> QED
      BY <2>1, <2>2
  <1>2. PICK m \in U : \A k \in U : m <= k
    BY <1>1, SmallestOf
  <1>3. ASSUME NEW y \in T
        PROVE  y <= n - m
    <2>1. n - y \in U
      OBVIOUS
    <2> QED
      BY <1>2, <2>1
  <1> QED
    BY <1>2, <1>3

\* The newest stamp of some rows is one of theirs, or 0 if there are none.
LEMMA NewestIs ==
    ASSUME LogTypes, NEW rows \in SUBSET LogRows
    PROVE  /\ Newest(rows) \in 0 .. LastSecond
           /\ \A r \in rows : stamp[r] <= Newest(rows)
           /\ Newest(rows) = 0 \/ \E q \in rows : stamp[q] = Newest(rows)
  <1> DEFINE Is(t) == (\A r \in rows : stamp[r] <= t) /\ (t = 0 \/ \E q \in rows : stamp[q] = t)
  <1>1. LastSecond \in Nat /\ \A r \in rows : stamp[r] \in 0 .. LastSecond
    BY LogStoreAssumption DEF LogStoreAssumption, LogTypes
  <1>2. \E t \in 0 .. LastSecond : Is(t)
    <2>1. CASE rows = {}
      BY <1>1, <2>1
    <2>2. CASE rows # {}
      <3> DEFINE T == {stamp[r] : r \in rows}
      <3>1. T \in SUBSET (0 .. LastSecond) /\ T # {}
        BY <1>1, <2>2
      <3>2. PICK t \in T : \A y \in T : y <= t
        BY <1>1, <3>1, LargestOf
      <3>3. \A r \in rows : stamp[r] \in T
        OBVIOUS
      <3> QED
        BY <3>1, <3>2, <3>3
    <2> QED
      BY <2>1, <2>2
  <1>3. Newest(rows) = CHOOSE t \in 0 .. LastSecond : Is(t)
    BY DEF Newest
  <1> HIDE DEF Is
  <1>4. Newest(rows) \in 0 .. LastSecond /\ Is(Newest(rows))
    BY <1>2, <1>3
  <1> QED
    BY <1>4 DEF Is

\* Written rows are ordered by their stamps, and those of one second by their ids.
LEMMA Ordered ==
    ASSUME LogTypes, NEW r \in LogRows, NEW q \in LogRows, NEW p \in LogRows
    PROVE  /\ ~Precedes(r, r)
           /\ Precedes(r, q) /\ Precedes(q, p) => Precedes(r, p)
           /\ Precedes(r, q) => stamp[r] <= stamp[q]
  <1>1. /\ stamp[r] \in Nat /\ stamp[q] \in Nat /\ stamp[p] \in Nat
        /\ r \in Nat /\ q \in Nat /\ p \in Nat
    BY LogStoreAssumption DEF LogStoreAssumption, LogTypes
  <1> QED
    BY <1>1 DEF Precedes

\* Of the oldest of finitely many rows, what precedes one of them is one too.
LEMMA OldestClosed ==
    ASSUME LogTypes, NEW rows \in SUBSET LogRows, IsFiniteSet(rows), NEW n \in Nat,
           NEW q \in Oldest(rows, n), NEW r \in rows, Precedes(r, q)
    PROVE  r \in Oldest(rows, n)
  <1> DEFINE Q == {p \in rows : Precedes(p, q)}
             R == {p \in rows : Precedes(p, r)}
  <1>1. q \in rows /\ Cardinality(Q) < n
    BY DEF Oldest
  <1>2. R \subseteq Q
    BY <1>1, Ordered
  <1>3. IsFiniteSet(Q) /\ Cardinality(R) <= Cardinality(Q) /\ IsFiniteSet(R)
    <2>1. IsFiniteSet(Q)
      BY FS_Subset
    <2> QED
      BY <1>2, <2>1, FS_Subset
  <1>4. Cardinality(R) \in Nat /\ Cardinality(Q) \in Nat
    BY <1>3, FS_CardinalityType
  <1> QED
    BY <1>1, <1>3, <1>4 DEF Oldest

\* The numbers the arithmetic needs.
LEMMA LogNumbers ==
    ASSUME LogTypes
    PROVE  /\ LastSecond \in Nat /\ StoreKeeps \in Nat /\ Fetch \in Nat /\ Chunk \in Nat
           /\ second \in Nat /\ second >= 1 /\ MaxLogEvents \in Nat /\ logEvents \in Nat
           /\ \A r \in LogRows : r \in Nat /\ stamp[r] \in Nat /\ stamp[r] \in 0 .. LastSecond
           /\ ship.from \in Nat
  <1>1. /\ LastSecond \in Nat /\ StoreKeeps \in Nat /\ Fetch \in Nat /\ Chunk \in Nat
        /\ MaxLogEvents \in Nat /\ LogRows \subseteq Nat
    BY LogStoreAssumption DEF LogStoreAssumption
  <1>2. /\ second \in 1 .. LastSecond /\ logEvents \in 0 .. MaxLogEvents
        /\ ship.from \in 0 .. LastSecond /\ stamp \in [LogRows -> 0 .. LastSecond]
    BY DEF LogTypes
  <1> QED
    BY <1>1, <1>2

\* One more of the events that are counted.
LEMMA LogEventIn ==
    ASSUME LogTypes, LogEvent \/ UNCHANGED logEvents
    PROVE  logEvents' \in 0 .. MaxLogEvents
  <1>1. logEvents \in Nat /\ MaxLogEvents \in Nat
    BY LogNumbers
  <1> QED
    BY <1>1 DEF LogEvent, LogTypes

\* A row is written: after all with a smaller id, under a stamp none of those that
\* are written exceeds unless it is late.
LEMMA LogKeeps ==
    ASSUME LogInv, NEW r \in LogRows, Log(r)
    PROVE  LogInv'
  <1>1. PICK t \in 1 .. second :
             /\ LogEvent \/ UNCHANGED logEvents
             /\ stamp' = [stamp EXCEPT ![r] = t]
             /\ late' = IF \E q \in LogRows : stamp[q] > t THEN late \cup {r} ELSE late
    BY DEF Log
  <1>2. /\ stamp[r] = 0 /\ \A q \in LogRows : q < r => stamp[q] # 0
        /\ kept' = kept \cup {r} /\ UNCHANGED <<second, shipped, ship>>
    BY DEF Log
  <1>3. LogTypes
    BY DEF LogInv
  <1>4. /\ t \in Nat /\ t # 0 /\ t \in 0 .. LastSecond
        /\ \A q \in LogRows : q # r => stamp'[q] = stamp[q]
        /\ stamp'[r] = t
    <2>1. second \in Nat /\ LastSecond \in Nat /\ second <= LastSecond
      BY <1>3, LogNumbers DEF LogTypes
    <2> QED
      BY <1>1, <1>3, <2>1 DEF LogTypes
  <1>5. LogTypes'
    <2>1. stamp' \in [LogRows -> 0 .. LastSecond]
      BY <1>1, <1>3, <1>4 DEF LogTypes
    <2>2. late' \subseteq LogRows /\ kept' \subseteq LogRows
      BY <1>1, <1>2, <1>3 DEF LogTypes
    <2>3. logEvents' \in 0 .. MaxLogEvents
      BY <1>1, <1>3, LogEventIn
    <2> QED
      BY <1>2, <1>3, <2>1, <2>2, <2>3 DEF LogTypes
  <1>6. r \notin shipped /\ r \notin ship.batch /\ shipped \subseteq LogRows /\ ship.batch \subseteq LogRows
        /\ kept \subseteq LogRows
    BY <1>2, <1>3 DEF LogInv, WrittenTells, LogTypes
  <1>7. ASSUME NEW q \in LogRows, q # r, Excused(q)
        PROVE  Excused(q)'
    BY <1>2, <1>4, <1>7 DEF Excused, Outlived
  <1>8. WrittenTells'
    <2>1. \A q \in kept' \cup shipped' \cup (ship.batch)' : stamp'[q] # 0
      BY <1>2, <1>4, <1>6 DEF LogInv, WrittenTells
    <2>2. \A q, p \in LogRows : p < q /\ stamp'[q] # 0 => stamp'[p] # 0
      BY <1>2, <1>4 DEF LogInv, WrittenTells
    <2>3. IsFiniteSet(kept') /\ IsFiniteSet((ship.batch)')
      <3>1. IsFiniteSet(kept) /\ IsFiniteSet(ship.batch)
        BY DEF LogInv, WrittenTells
      <3>2. IsFiniteSet(kept \cup {r})
        BY <3>1, FS_AddElement
      <3> QED
        BY <1>2, <3>1, <3>2
    <2> QED
      BY <2>1, <2>2, <2>3 DEF WrittenTells
  <1>9. ASSUME r \notin late', NEW q \in LogRows, stamp[q] # 0
        PROVE  stamp[q] <= t /\ ~(t < stamp[q]) /\ q < r
    <2>1. ~(stamp[q] > t)
      BY <1>1, <1>9
    <2>2. stamp[q] \in Nat /\ q \in Nat /\ r \in Nat
      BY <1>3, LogNumbers
    <2>3. ~(r < q)
      BY <1>2, <1>9 DEF LogInv, WrittenTells
    <2>4. q # r
      BY <1>2, <1>9
    <2> QED
      BY <1>4, <2>1, <2>2, <2>3, <2>4
  <1>10. ASSUME r \notin late', NEW q \in LogRows, q # r, stamp[q] # 0
         PROVE  ~Precedes(r, q)'
    <2>1. stamp[q] <= t /\ ~(t < stamp[q]) /\ q < r /\ q \in Nat /\ r \in Nat
      BY <1>3, <1>9, <1>10, LogNumbers
    <2> QED
      BY <1>4, <1>10, <2>1 DEF Precedes
  <1>11. ASSUME NEW p \in LogRows, p # r, NEW q \in LogRows, q # r
         PROVE  Precedes(p, q)' = Precedes(p, q)
    BY <1>4, <1>11 DEF Precedes
  <1>12. \A p \in kept' \ late' : p = r \/ p \in kept \ late
    BY <1>1, <1>2
  <1>13. FromTells'
    <2> SUFFICES ASSUME ship.pc = "fetch"
                 PROVE  /\ ship.from = 0 \/ \E p \in LogRows : stamp'[p] = ship.from
                        /\ \A q \in kept' \ late' : stamp'[q] < ship.from => Excused(q)'
      BY <1>2 DEF FromTells
    <2>1. /\ ship.from = 0 \/ \E p \in LogRows : stamp[p] = ship.from
          /\ \A q \in kept \ late : stamp[q] < ship.from => Excused(q)
      BY DEF LogInv, FromTells
    <2>2. ship.from = 0 \/ \E p \in LogRows : p # r /\ stamp[p] = ship.from /\ stamp[p] # 0
      BY <1>2, <2>1
    <2>3. ASSUME NEW q \in kept' \ late', stamp'[q] < ship.from
          PROVE  Excused(q)'
      <3>1. CASE q = r
        <4>1. stamp[r] = 0 /\ t < ship.from /\ ship.from \in Nat
          BY <1>2, <1>3, <1>4, <2>3, <3>1, LogNumbers
        <4>2. ship.from # 0
          BY <1>4, <4>1
        <4>3. PICK p \in LogRows : stamp[p] = ship.from
          BY <2>1, <4>2
        <4> QED
          BY <1>9, <2>3, <3>1, <4>1, <4>2, <4>3
      <3>2. CASE q # r
        <4>1. q \in kept \ late /\ q \in LogRows /\ stamp[q] < ship.from
          BY <1>4, <1>6, <1>12, <2>3, <3>2
        <4> QED
          BY <1>7, <2>1, <3>2, <4>1
      <3> QED
        BY <3>1, <3>2
    <2> QED
      BY <1>4, <2>2, <2>3
  <1>14. BatchTells'
    <2> SUFFICES ASSUME NEW p \in kept' \ late', NEW q \in ship.batch, Precedes(p, q)'
                 PROVE  p \in ship.batch \/ Excused(p)'
      BY <1>2 DEF BatchTells
    <2>1. q \in LogRows /\ q # r /\ stamp[q] # 0
      BY <1>6 DEF LogInv, WrittenTells
    <2>2. p # r /\ p \in kept \ late /\ p \in LogRows
      BY <1>6, <1>10, <1>12, <2>1
    <2>3. Precedes(p, q)
      BY <1>11, <2>1, <2>2
    <2> QED
      BY <1>7, <2>2, <2>3 DEF LogInv, BatchTells
  <1>15. NoGap'
    <2> SUFFICES ASSUME NEW p \in kept' \ late', NEW q \in shipped, Precedes(p, q)'
                 PROVE  Excused(p)'
      BY <1>2 DEF NoGap, Excused
    <2>1. q \in LogRows /\ q # r /\ stamp[q] # 0
      BY <1>6 DEF LogInv, WrittenTells
    <2>2. p # r /\ p \in kept \ late /\ p \in LogRows
      BY <1>6, <1>10, <1>12, <2>1
    <2>3. Precedes(p, q)
      BY <1>11, <2>1, <2>2
    <2> QED
      BY <1>7, <2>2, <2>3 DEF LogInv, NoGap, Excused
  <1> QED
    BY <1>2, <1>5, <1>8, <1>13, <1>14, <1>15 DEF LogInv, ShipTells

\* Time passes, and the rows that have outlived a limit still have.
LEMMA LogTickKeeps ==
    ASSUME LogInv, LogTick
    PROVE  LogInv'
  <1>1. LogTypes /\ UNCHANGED <<stamp, kept, shipped, ship, late, logEvents>>
        /\ second' = second + 1 /\ second < LastSecond
    BY DEF LogTick, LogInv
  <1>2. LogTypes'
    BY <1>1, LogNumbers DEF LogTypes
  <1>3. ASSUME NEW q, Excused(q)
        PROVE  Excused(q)'
    <2>1. CASE q \in shipped
      BY <1>1, <2>1 DEF Excused
    <2>2. CASE q \in LogRows /\ stamp[q] + StoreKeeps < second
      <3>1. stamp[q] \in Nat /\ StoreKeeps \in Nat /\ second \in Nat
        BY <1>1, <2>2, LogNumbers
      <3>2. stamp[q] + StoreKeeps < second + 1
        BY <2>2, <3>1
      <3> QED
        BY <1>1, <2>2, <3>2 DEF Excused, Outlived
    <2> QED
      BY <1>3, <2>1, <2>2 DEF Excused, Outlived
  <1>4. \A p, q : Precedes(p, q)' = Precedes(p, q)
    BY <1>1 DEF Precedes
  <1>5. WrittenTells' /\ ShipTells'
    BY <1>1 DEF LogInv, WrittenTells, ShipTells
  <1>6. FromTells'
    BY <1>1, <1>3 DEF LogInv, FromTells
  <1>7. BatchTells'
    BY <1>1, <1>3, <1>4 DEF LogInv, BatchTells
  <1>8. NoGap'
    BY <1>1, <1>3, <1>4 DEF LogInv, NoGap, Excused
  <1> QED
    BY <1>2, <1>5, <1>6, <1>7, <1>8 DEF LogInv

\* Rows are dropped, from the store those that have outlived its limit.
LEMMA DropsKeep ==
    ASSUME LogInv, Expire \/ PurgeOld
    PROVE  LogInv'
  <1>1. /\ UNCHANGED <<second, stamp, ship, late>> /\ LogTypes
        /\ kept' \subseteq kept /\ shipped' \subseteq shipped
        /\ LogEvent \/ UNCHANGED logEvents
    BY DEF Expire, PurgeOld, LogInv
  <1>2. ASSUME NEW q \in LogRows, Excused(q)
        PROVE  Excused(q)'
    BY <1>1, <1>2 DEF Excused, Outlived, Expire, PurgeOld
  <1>3. LogTypes'
    <2>1. logEvents' \in 0 .. MaxLogEvents
      BY <1>1, LogEventIn
    <2> QED
      BY <1>1, <2>1 DEF LogTypes
  <1>4. \A p, q : Precedes(p, q)' = Precedes(p, q)
    BY <1>1 DEF Precedes
  <1>5. WrittenTells'
    <2>1. IsFiniteSet(kept')
      BY <1>1, FS_Subset DEF LogInv, WrittenTells
    <2> QED
      BY <1>1, <2>1 DEF LogInv, WrittenTells
  <1>6. kept \subseteq LogRows
    BY DEF LogInv, LogTypes
  <1>7. FromTells'
    BY <1>1, <1>2, <1>6 DEF LogInv, FromTells
  <1>8. BatchTells'
    BY <1>1, <1>2, <1>4, <1>6 DEF LogInv, BatchTells
  <1>9. NoGap'
    BY <1>1, <1>2, <1>4, <1>6 DEF LogInv, NoGap, Excused
  <1> QED
    BY <1>1, <1>3, <1>5, <1>7, <1>8, <1>9 DEF LogInv, ShipTells

\* A pass changes nothing but itself and what the store has more.
LEMMA ShippedMore ==
    ASSUME LogInv, UNCHANGED <<second, stamp, kept, late>>, shipped \subseteq shipped',
           shipped' \subseteq LogRows, LogEvent \/ UNCHANGED logEvents,
           ship' \in [pc : {"idle", "fetch", "insert"}, from : 0 .. LastSecond, batch : SUBSET LogRows]
    PROVE  /\ LogTypes'
           /\ \A q : Excused(q) => Excused(q)'
           /\ \A p, q : Precedes(p, q)' = Precedes(p, q)
  <1>1. LogTypes
    BY DEF LogInv
  <1>2. logEvents' \in 0 .. MaxLogEvents
    BY <1>1, LogEventIn
  <1>3. LogTypes'
    BY <1>1, <1>2 DEF LogTypes
  <1> QED
    BY <1>3 DEF Excused, Outlived, Precedes

\* The watermark: what is under it is under a row of the store.
LEMMA ReadWatermarkKeeps ==
    ASSUME LogInv, ReadWatermark
    PROVE  LogInv'
  <1>1. /\ UNCHANGED <<second, stamp, kept, shipped, late>> /\ ship.pc = "idle"
        /\ (LogEvent \/ UNCHANGED logEvents) /\ LogTypes /\ shipped \subseteq LogRows
        /\ ship \in [pc : {"idle", "fetch", "insert"}, from : 0 .. LastSecond, batch : SUBSET LogRows]
    BY DEF ReadWatermark, LogInv, LogTypes
  <1>2. /\ Newest(shipped) \in 0 .. LastSecond
        /\ Newest(shipped) = 0 \/ \E q \in shipped : stamp[q] = Newest(shipped)
    BY <1>1, NewestIs
  <1>3. PICK w \in {0, Newest(shipped)} : ship' = [ship EXCEPT !.pc = "fetch", !.from = w]
    BY DEF ReadWatermark, Watermark
  <1>4. 0 \in 0 .. LastSecond /\ w \in 0 .. LastSecond
    <2>1. LastSecond \in Nat
      BY <1>1, LogNumbers
    <2> QED
      BY <1>2, <2>1
  <1>5. /\ ship' \in [pc : {"idle", "fetch", "insert"}, from : 0 .. LastSecond, batch : SUBSET LogRows]
        /\ ship'.pc = "fetch" /\ ship'.from = w /\ ship'.batch = ship.batch
    BY <1>1, <1>3, <1>4
  <1>6. ship.batch = {}
    BY <1>1 DEF LogInv, ShipTells
  <1>7. /\ LogTypes'
        /\ \A q : Excused(q) => Excused(q)'
        /\ \A p, q : Precedes(p, q)' = Precedes(p, q)
    BY <1>1, <1>5, ShippedMore
  <1>8. WrittenTells' /\ BatchTells' /\ ShipTells'
    BY <1>1, <1>5, <1>6 DEF LogInv, WrittenTells, BatchTells, ShipTells
  <1>9. FromTells'
    <2>1. ASSUME NEW r \in kept \ late, stamp[r] < w
          PROVE  Excused(r)
      <3>1. r \in LogRows /\ stamp[r] \in Nat
        BY <1>1, LogNumbers DEF LogTypes
      <3>2. w # 0
        BY <2>1, <3>1
      <3>3. PICK q \in shipped : stamp[q] = w
        BY <1>2, <3>2
      <3>4. Precedes(r, q)
        BY <2>1, <3>3 DEF Precedes
      <3> QED
        BY <2>1, <3>3, <3>4 DEF LogInv, NoGap, Excused
    <2>2. w = 0 \/ \E q \in LogRows : stamp[q] = w
      BY <1>1, <1>2
    <2> QED
      BY <1>1, <1>5, <1>7, <2>1, <2>2 DEF FromTells
  <1>10. NoGap'
    BY <1>1, <1>7 DEF LogInv, NoGap, Excused
  <1> QED
    BY <1>7, <1>8, <1>9, <1>10 DEF LogInv

\* The fetch: what precedes one of its rows is under the watermark or fetched too.
LEMMA FetchRowsKeeps ==
    ASSUME LogInv, FetchRows
    PROVE  LogInv'
  <1> DEFINE batch == Oldest(Since(ship.from), Fetch)
  <1>1. /\ UNCHANGED <<second, stamp, kept, shipped, late, logEvents>> /\ ship.pc = "fetch"
        /\ LogTypes /\ kept \subseteq LogRows /\ IsFiniteSet(kept) /\ shipped \subseteq LogRows
        /\ ship \in [pc : {"idle", "fetch", "insert"}, from : 0 .. LastSecond, batch : SUBSET LogRows]
        /\ ship.from \in 0 .. LastSecond
        /\ ship' = IF batch = {} THEN NoPassage ELSE [ship EXCEPT !.pc = "insert", !.batch = batch]
    BY DEF FetchRows, LogInv, LogTypes, WrittenTells
  <1>2. Since(ship.from) \subseteq kept /\ batch \subseteq Since(ship.from) /\ IsFiniteSet(Since(ship.from))
    <2>1. Since(ship.from) \subseteq kept
      BY DEF Since
    <2> QED
      BY <1>1, <2>1, FS_Subset DEF Oldest
  <1>3. LastSecond \in Nat /\ Fetch \in Nat /\ ship.from \in Nat
    BY <1>1, LogNumbers
  <1>4. ASSUME NEW r \in kept \ late, NEW q \in batch, Precedes(r, q)
        PROVE  r \in batch \/ Excused(r)
    <2>1. CASE stamp[r] < ship.from
      BY <1>1, <1>4, <2>1 DEF LogInv, FromTells
    <2>2. CASE ~(stamp[r] < ship.from)
      <3>1. stamp[r] \in Nat /\ r \in LogRows
        BY <1>1, LogNumbers
      <3>2. stamp[r] >= ship.from
        BY <1>3, <2>2, <3>1
      <3>3. r \in Since(ship.from)
        BY <3>2 DEF Since
      <3>4. Since(ship.from) \in SUBSET LogRows
        BY <1>1, <1>2
      <3> QED
        BY <1>1, <1>2, <1>3, <1>4, <3>3, <3>4, OldestClosed
    <2> QED
      BY <2>1, <2>2
  <1>5. batch \subseteq kept /\ batch \subseteq LogRows /\ IsFiniteSet(batch) /\ IsFiniteSet({})
    <2>1. batch \subseteq kept
      BY <1>2
    <2>2. IsFiniteSet(batch)
      BY <1>1, <2>1, FS_Subset
    <2> QED
      BY <1>1, <2>1, <2>2, FS_EmptySet
  <1> HIDE DEF batch
  <1>6. /\ ship' \in [pc : {"idle", "fetch", "insert"}, from : 0 .. LastSecond, batch : SUBSET LogRows]
        /\ ship'.pc # "fetch" /\ ship'.batch = batch /\ (ship'.pc # "insert" => batch = {})
    <2>1. CASE batch = {}
      <3>1. 0 \in 0 .. LastSecond
        BY <1>3
      <3> QED
        BY <1>1, <2>1, <3>1 DEF NoPassage
    <2>2. CASE batch # {}
      BY <1>1, <1>5, <2>2
    <2> QED
      BY <2>1, <2>2
  <1>7. /\ LogTypes'
        /\ \A q : Excused(q) => Excused(q)'
        /\ \A p, q : Precedes(p, q)' = Precedes(p, q)
    BY <1>1, <1>6, ShippedMore
  <1>8. WrittenTells' /\ FromTells' /\ ShipTells'
    BY <1>1, <1>5, <1>6 DEF LogInv, WrittenTells, FromTells, ShipTells
  <1>9. BatchTells'
    BY <1>1, <1>4, <1>6, <1>7 DEF BatchTells
  <1>10. NoGap'
    BY <1>1, <1>7 DEF LogInv, NoGap, Excused
  <1> QED
    BY <1>7, <1>8, <1>9, <1>10 DEF LogInv

\* The insert: a chunk has all of the batch that precedes one of its rows.
LEMMA InsertChunkKeeps ==
    ASSUME LogInv, InsertChunk
    PROVE  LogInv'
  <1> DEFINE chunk == Oldest(ship.batch, Chunk)
  <1>1. /\ UNCHANGED <<second, stamp, kept, late>> /\ ship.pc = "insert"
        /\ LogTypes /\ kept \subseteq LogRows /\ IsFiniteSet(ship.batch) /\ shipped \subseteq LogRows
        /\ ship \in [pc : {"idle", "fetch", "insert"}, from : 0 .. LastSecond, batch : SUBSET LogRows]
        /\ ship.batch \in SUBSET LogRows
        /\ LogEvent \/ UNCHANGED logEvents
    BY DEF InsertChunk, LogInv, LogTypes, WrittenTells
  <1>2. chunk \subseteq ship.batch
    BY DEF Oldest
  <1>3. LastSecond \in Nat /\ Chunk \in Nat
    BY <1>1, LogNumbers
  <1>4. ASSUME NEW r \in ship.batch, NEW q \in chunk, Precedes(r, q)
        PROVE  r \in chunk
    BY <1>1, <1>3, <1>4, OldestClosed
  <1>5. /\ (shipped' = shipped \cup chunk) \/ (shipped' = shipped /\ ship' = NoPassage)
        /\ \/ ship' = NoPassage
           \/ ship' = [ship EXCEPT !.batch = ship.batch \ chunk]
    BY DEF InsertChunk
  <1>6. IsFiniteSet(ship.batch \ chunk) /\ IsFiniteSet({})
    BY <1>1, FS_Subset, FS_EmptySet
  <1> HIDE DEF chunk
  <1>7. /\ ship' \in [pc : {"idle", "fetch", "insert"}, from : 0 .. LastSecond, batch : SUBSET LogRows]
        /\ ship'.pc # "fetch" /\ ship'.batch \in {{}, ship.batch \ chunk}
        /\ (ship'.pc # "insert" => ship'.batch = {})
        /\ (ship'.batch # {} => shipped' = shipped \cup chunk)
    <2>1. CASE ship' = NoPassage
      <3>1. 0 \in 0 .. LastSecond
        BY <1>3
      <3> QED
        BY <2>1, <3>1 DEF NoPassage
    <2>2. CASE ship' = [ship EXCEPT !.batch = ship.batch \ chunk]
      <3>1. ship'.pc = "insert" /\ ship'.batch = ship.batch \ chunk
        BY <1>1, <2>2
      <3>2. ship' \in [pc : {"idle", "fetch", "insert"}, from : 0 .. LastSecond, batch : SUBSET LogRows]
        BY <1>1, <2>2
      <3>3. ship' # NoPassage
        BY <3>1 DEF NoPassage
      <3> QED
        BY <1>5, <3>1, <3>2, <3>3
    <2> QED
      BY <1>5, <2>1, <2>2
  <1>8. shipped \subseteq shipped' /\ shipped' \subseteq LogRows
    BY <1>1, <1>2, <1>5
  <1>9. /\ LogTypes'
        /\ \A q : Excused(q) => Excused(q)'
        /\ \A p, q : Precedes(p, q)' = Precedes(p, q)
    BY <1>1, <1>7, <1>8, ShippedMore
  <1>10. WrittenTells'
    <2>1. IsFiniteSet(ship'.batch)
      BY <1>6, <1>7
    <2>2. \A r \in kept' \cup shipped' \cup ship'.batch : stamp'[r] # 0
      BY <1>1, <1>2, <1>5, <1>7 DEF LogInv, WrittenTells
    <2> QED
      BY <1>1, <2>1, <2>2 DEF LogInv, WrittenTells
  <1>11. FromTells' /\ ShipTells'
    BY <1>7 DEF FromTells, ShipTells
  <1>12. BatchTells'
    <2> SUFFICES ASSUME NEW r \in kept \ late, NEW q \in ship'.batch, Precedes(r, q)
                 PROVE  r \in ship'.batch \/ Excused(r)'
      BY <1>1, <1>9 DEF BatchTells
    <2>1. q \in ship.batch /\ ship'.batch = ship.batch \ chunk /\ shipped' = shipped \cup chunk
      BY <1>7
    <2>2. r \in ship.batch \/ Excused(r)
      BY <2>1 DEF LogInv, BatchTells
    <2>3. r \in chunk => Excused(r)'
      BY <2>1 DEF Excused
    <2> QED
      BY <1>9, <2>1, <2>2, <2>3
  <1>13. NoGap'
    <2> SUFFICES ASSUME NEW r \in kept \ late, NEW q \in shipped', Precedes(r, q)
                 PROVE  Excused(r)'
      BY <1>1, <1>9 DEF NoGap, Excused
    <2>1. CASE q \in shipped
      BY <1>9, <2>1 DEF LogInv, NoGap, Excused
    <2>2. CASE q \notin shipped
      <3>1. q \in chunk /\ shipped' = shipped \cup chunk
        BY <1>5, <2>2
      <3>2. r \in ship.batch \/ Excused(r)
        BY <1>2, <3>1 DEF LogInv, BatchTells
      <3>3. r \in chunk => Excused(r)'
        BY <3>1 DEF Excused
      <3> QED
        BY <1>4, <1>9, <3>1, <3>2, <3>3
    <2> QED
      BY <2>1, <2>2
  <1> QED
    BY <1>9, <1>10, <1>11, <1>12, <1>13 DEF LogInv

\* It holds in the initial states.
LEMMA LogStoreInit == LogInit => LogInv
  <1> SUFFICES ASSUME LogInit PROVE LogInv
    OBVIOUS
  <1>1. /\ second = 1 /\ stamp = [r \in LogRows |-> 0] /\ kept = {} /\ shipped = {}
        /\ ship = [pc |-> "idle", from |-> 0, batch |-> {}] /\ late = {} /\ logEvents = 0
    BY DEF LogInit, NoPassage
  <1>2. LastSecond \in Nat \ {0} /\ MaxLogEvents \in Nat
    BY LogStoreAssumption DEF LogStoreAssumption
  <1>3. 1 \in 1 .. LastSecond /\ 0 \in 0 .. LastSecond /\ 0 \in 0 .. MaxLogEvents
    BY <1>2
  <1>4. LogTypes
    BY <1>1, <1>3 DEF LogTypes
  <1>5. WrittenTells
    BY <1>1, FS_EmptySet DEF WrittenTells
  <1> QED
    BY <1>1, <1>4, <1>5 DEF LogInv, FromTells, BatchTells, ShipTells, NoGap

\* It is kept by every step.
LEMMA LogStoreKept == LogInv /\ [LogNext]_logVars => LogInv'
  <1> SUFFICES ASSUME LogInv, [LogNext]_logVars PROVE LogInv'
    OBVIOUS
  <1>1. CASE UNCHANGED logVars
    BY <1>1 DEF logVars, LogInv, LogTypes, WrittenTells, FromTells, BatchTells, ShipTells, NoGap,
                Excused, Outlived, Precedes
  <1> QED
    BY <1>1, LogKeeps, LogTickKeeps, ReadWatermarkKeeps, FetchRowsKeeps, InsertChunkKeeps,
       DropsKeep DEF LogNext

\* The store and what is on its way to it are explained.
THEOREM LogInvariant == LogSpec => []LogInv
  <1>1. LogInit => LogInv
    BY LogStoreInit
  <1>2. LogInv /\ [LogNext]_logVars => LogInv'
    BY LogStoreKept
  <1> QED
    BY <1>1, <1>2, PTL DEF LogSpec

(* NoGap of every behaviour: however passes, failures, expiries and purges   *)
(* come between, a row that the store has is not preceded by one it lacks,   *)
(* but for those written late or past its limit (syncLogs of                 *)
(* database.service.ts).                                                     *)
THEOREM StoreHasNoGap == LogSpec => [](LogTypes /\ NoGap)
  <1>1. LogInv => LogTypes /\ NoGap
    BY DEF LogInv
  <1> QED
    BY <1>1, LogInvariant, PTL

(***************************************************************************)
(* All of them together.                                                   *)
(*                                                                         *)
(* They share no state: a step of one leaves the others as they are, so the *)
(* conjunction of their invariants is one of the composition.               *)
(***************************************************************************)
OutpostsInv == CommandsInv /\ InventoryInv /\ FabricInv /\ RelayInv /\ LogInv

(* Whichever part is the subject, the invariants of all five hold: a step of *)
(* one of the parts keeps its own, and the others rest.                      *)
THEOREM OutpostsInvariant == MCSpec => []OutpostsInv
  <1>1. MCInit => OutpostsInv
    BY CommandsInit, InventoryInit, FabricInit, RelayInit, LogStoreInit DEF MCInit, OutpostsInv
  <1>2. OutpostsInv /\ [MCNext]_mcVars => OutpostsInv'
    <2> SUFFICES ASSUME OutpostsInv, [MCNext]_mcVars
                 PROVE  OutpostsInv'
      OBVIOUS
    <2>1. /\ [Next]_vars /\ [InvNext]_invVars /\ [FabNext]_fabVars
          /\ [TunNext]_tunVars /\ [LogNext]_logVars
      BY DEF MCNext, OthersRest, mcVars
    <2> QED
      BY <2>1, CommandsKept, InventoryKept, FabricKept, RelayKept, LogStoreKept DEF OutpostsInv
  <1> QED
    BY <1>1, <1>2, PTL DEF MCSpec

(* OutpostsHonest of the composition as the run has it, for all values of    *)
(* its constants, and with it what is promised of commands and of removals   *)
(* (agent-tunnel.hub.ts, fabric.service.ts, database.service.ts).            *)
THEOREM OutpostsHold == MCSpec => [](CommandsHonest /\ InventoryHonest /\ OutpostsHonest)
  <1>1. OutpostsInv => CommandsHonest /\ InventoryHonest /\ OutpostsHonest
    <2> SUFFICES ASSUME OutpostsInv
                 PROVE  CommandsHonest /\ InventoryHonest /\ OutpostsHonest
      OBVIOUS
    <2>1. CommandsHonest /\ InventoryHonest /\ FabricHonest /\ RelayFaithful /\ LogTypes /\ NoGap
      BY CommandsShow, InventoryShows, FabricShows, RelayShows DEF OutpostsInv, LogInv
    <2> QED
      BY <2>1 DEF OutpostsHonest
  <1> QED
    BY <1>1, OutpostsInvariant, PTL

=============================================================================
