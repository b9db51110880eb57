---------------------------- MODULE AgentChannel ----------------------------
(***************************************************************************)
(* The outbound agent: its registration by reports (ingest) and its        *)
(* command channel (longPollCommands, commandResult, agent.service.ts),    *)
(* with the agent itself (mcmf-agent-linux.py), which reports and polls in *)
(* two threads under a service manager that restarts it.                   *)
(*                                                                         *)
(* One machine.  A report looks for its row, writes or creates it, and     *)
(* then removes the rows of the same machine under another key, with       *)
(* awaits between.  A poll finds queued commands, marks them and answers.  *)
(* The client of either may have given up, and its next call then overlaps *)
(* the one still running.                                                  *)
(***************************************************************************)
EXTENDS Naturals, FiniteSets

CONSTANTS
    Commands, None,
    MaxReports, MaxPolls, \* bounds: calls under way at once
    MaxRows,              \* bound: ids of rows in use at once
    MaxEvents              \* bound: calls of operators, failures and upgrades together

Rows == 1 .. MaxRows
Reports == 1 .. MaxReports
Polls == 1 .. MaxPolls

ASSUME ChannelAssumption ==
    /\ None \notin Commands
    /\ MaxReports \in Nat \ {0} /\ MaxPolls \in Nat \ {0}
    /\ MaxRows \in Nat \ {0} /\ MaxEvents \in Nat

VARIABLES
    row,     \* [Rows -> the agent's row: there, active, with a machine id]
    cmd,     \* [Commands -> status, the row and the kind of the command]
    report,  \* [Reports -> the ingest() under way]
    poll,    \* [Polls -> the longPollCommands() under way]
    post,    \* the commandResult() under way
    desk,    \* an operator's call of two steps: what is left of it
    agent,   \* the process: what it waits for, knows, and has to run
    \* observation and bounds
    ran,     \* [Commands -> times the machine ran it]
    saved,   \* commands whose result was saved
    hung,    \* the agent left a poll that goes on
    events

vars == <<row, cmd, report, poll, post, desk, agent, ran, saved, hung, events>>

(***************************************************************************)
(* State.                                                                  *)
(***************************************************************************)
There == {r \in Rows : row[r].there}
NoRow == [there |-> FALSE, active |-> FALSE, named |-> FALSE]
NoReport == [pc |-> "idle", at |-> 0, stale |-> {}, named |-> FALSE]
NoPoll == [pc |-> "idle", at |-> 0, batch |-> {}, stop |-> FALSE]
NoCommand == [status |-> "none", at |-> 0, kind |-> "run"]
NoPost == [of |-> None, pc |-> "idle"]
NoCall == [todo |-> "nothing", at |-> 0]
FirstIdle(k, calls) == calls[k].pc = "idle" /\ \A n \in 1 .. k - 1 : calls[n].pc # "idle"
Happens == events < MaxEvents /\ events' = events + 1

\* Ids are not used again; a number no call or process holds stands for a new one.
Unused(r) ==
    /\ ~row[r].there /\ agent.id # r /\ desk.at # r
    /\ \A w \in Reports : report[w].at # r /\ r \notin report[w].stale
    /\ \A p \in Polls : poll[p].at # r

\* A process that has just started, of a build that sends a machine id or not.
Started(named) ==
    [on |-> TRUE, installed |-> TRUE, named |-> named, id |-> 0, report |-> 0, poll |-> 0,
     batch |-> {}, leaving |-> FALSE]
\* The process as it goes on, or has ended, with what it waits for, knows and has to run.
Process(on, id, w, p, batch) ==
    [on |-> on, installed |-> agent.installed, named |-> agent.named, id |-> id, report |-> w, poll |-> p,
     batch |-> batch, leaving |-> agent.leaving]
Exited == Process(FALSE, 0, 0, 0, {})

Init ==
    /\ row = [r \in Rows |-> NoRow]
    /\ cmd = [c \in Commands |-> NoCommand]
    /\ report = [w \in Reports |-> NoReport]
    /\ poll = [p \in Polls |-> NoPoll]
    /\ post = NoPost /\ desk = NoCall
    /\ agent \in {Started(named) : named \in BOOLEAN}
    /\ ran = [c \in Commands |-> 0] /\ saved = {} /\ hung = FALSE
    /\ events = 0

\* Rows are deleted, and their commands with them.
Delete(rs) ==
    /\ row' = [r \in Rows |-> IF r \in rs THEN NoRow ELSE row[r]]
    /\ cmd' = [c \in Commands |->
                  IF cmd[c].at \in rs /\ cmd[c].status # "none"
                  THEN [status |-> "gone", at |-> 0, kind |-> cmd[c].kind] ELSE cmd[c]]

(***************************************************************************)
(* ingest(): find the machine's row, write it, remove its twins.           *)
(***************************************************************************)
\* By machine id first, else a row of that name without one; by name alone, any.
Existing(named) ==
    LET rows == IF named THEN {r \in There : row[r].named} ELSE There IN
    IF rows # {} THEN rows ELSE There

Find(w) ==
    /\ FirstIdle(w, report) /\ agent.on /\ agent.report = 0
    /\ \E r \in IF There = {} THEN {0} ELSE Existing(agent.named) :
         report' = [report EXCEPT ![w] = [pc |-> "write", at |-> r, stale |-> {}, named |-> agent.named]]
    /\ agent' = [agent EXCEPT !.report = w]
    /\ UNCHANGED <<row, cmd, poll, post, desk, ran, saved, hung, events>>

\* The row is updated, its active flag kept, or created; a lost row is an error.
Write(w) ==
    LET r == report[w].at IN
    /\ report[w].pc = "write"
    /\ \/ /\ r \in There
          /\ row' = [row EXCEPT ![r].named = @ \/ report[w].named]
          /\ report' = [report EXCEPT ![w].pc = "look"]
          /\ UNCHANGED agent
       \/ /\ r # 0 /\ r \notin There
          /\ report' = [report EXCEPT ![w] = NoReport]
          /\ agent' = IF agent.report = w THEN [agent EXCEPT !.report = 0] ELSE agent
          /\ UNCHANGED row
       \/ /\ r = 0
          /\ \E n \in Rows :
               /\ Unused(n) /\ \A k \in 1 .. n - 1 : ~Unused(k)
               /\ row' = [row EXCEPT ![n] = [there |-> TRUE, active |-> TRUE, named |-> report[w].named]]
               /\ report' = [report EXCEPT ![w] = [pc |-> "look", at |-> n, stale |-> @.stale, named |-> @.named]]
          /\ UNCHANGED agent
    /\ UNCHANGED <<cmd, poll, post, desk, ran, saved, hung, events>>

\* Mutant: only rows without a machine id are taken for twins.
TwinsUnnamed(w) == {r \in There \ {report[w].at} : ~row[r].named}

\* The same machine id, or the same name without one.
Twins(w) == {r \in There \ {report[w].at} : report[w].named \/ ~row[r].named}

Look(w) ==
    /\ report[w].pc = "look"
    /\ report' = [report EXCEPT ![w] = [pc |-> "clean", at |-> @.at, stale |-> Twins(w), named |-> @.named]]
    /\ UNCHANGED <<row, cmd, poll, post, desk, agent, ran, saved, hung, events>>

\* The answer tells the agent its id, if it still waits for this one.
Clean(w) ==
    /\ report[w].pc = "clean"
    /\ Delete(report[w].stale)
    /\ report' = [report EXCEPT ![w] = NoReport]
    /\ agent' = IF agent.report = w THEN Process(agent.on, report[w].at, 0, agent.poll, agent.batch) ELSE agent
    /\ UNCHANGED <<poll, post, desk, ran, saved, hung, events>>

(***************************************************************************)
(* longPollCommands().                                                     *)
(***************************************************************************)
\* The row, read once, decides whether an empty queue means "exit"; none is an error.
Dial(p) ==
    LET r == agent.id IN
    /\ agent.on /\ r # 0 /\ agent.poll = 0 /\ agent.batch = {} /\ post.of = None
    /\ FirstIdle(p, poll)
    /\ poll' = [poll EXCEPT ![p] = [pc |-> IF r \in There THEN "find" ELSE "answer",
                                    at |-> IF r \in There THEN r ELSE 0, batch |-> {},
                                    stop |-> r \in There /\ ~row[r].active]]
    /\ agent' = [agent EXCEPT !.poll = p]
    /\ UNCHANGED <<row, cmd, report, post, desk, ran, saved, hung, events>>

\* Mutant: what was delivered and not answered yet is offered again.
QueuedOrDelivered(r) == {c \in Commands : cmd[c].at = r /\ cmd[c].status \in {"queued", "delivered"}}

Queued(r) == {c \in Commands : cmd[c].at = r /\ cmd[c].status = "queued"}

\* deliver(): some are found, or none, and then the answer at the deadline is empty.
FindQueued(p) ==
    LET found == Queued(poll[p].at) IN
    /\ poll[p].pc = "find"
    /\ poll' = [poll EXCEPT ![p] = [pc |-> IF found # {} THEN "mark" ELSE "answer", at |-> 0, batch |-> found,
                                    stop |-> @.stop /\ found = {}]]
    /\ UNCHANGED <<row, cmd, report, post, desk, agent, ran, saved, hung, events>>

\* updateMany by id, whatever became of the commands since.
Mark(p) ==
    /\ poll[p].pc = "mark"
    /\ cmd' = [c \in Commands |-> IF c \in poll[p].batch /\ cmd[c].status # "gone"
                                  THEN [cmd[c] EXCEPT !.status = "delivered"] ELSE cmd[c]]
    /\ poll' = [poll EXCEPT ![p].pc = "answer"]
    /\ UNCHANGED <<row, report, post, desk, agent, ran, saved, hung, events>>

\* The answer reaches the agent if it still listens; "active: false" ends it.
Answer(p) ==
    /\ poll[p].pc = "answer"
    /\ poll' = [poll EXCEPT ![p] = NoPoll]
    /\ agent' = IF agent.poll # p THEN agent
                ELSE IF poll[p].stop THEN Exited
                ELSE Process(agent.on, agent.id, agent.report, 0, poll[p].batch)
    /\ UNCHANGED <<row, cmd, report, post, desk, ran, saved, hung, events>>

(***************************************************************************)
(* commandResult().                                                        *)
(***************************************************************************)
\* A command that is gone is an error; one that was uninstalled takes its row along.
Result ==
    LET c == post.of IN
    /\ post.pc = "sent"
    /\ \/ /\ cmd[c].status = "gone"
          /\ post' = NoPost /\ UNCHANGED <<cmd, saved>>
       \/ /\ cmd[c].status # "gone"
          /\ cmd' = [cmd EXCEPT ![c].status = "done"]
          /\ saved' = saved \cup {c}
          /\ post' = IF cmd[c].kind = "uninstall" THEN [post EXCEPT !.pc = "saved"] ELSE NoPost
    /\ UNCHANGED <<row, report, poll, desk, agent, ran, hung, events>>

Uninstalled ==
    /\ post.pc = "saved"
    /\ Delete({cmd[post.of].at})
    /\ post' = NoPost
    /\ UNCHANGED <<report, poll, desk, agent, ran, saved, hung, events>>

(***************************************************************************)
(* The agent's process.                                                    *)
(***************************************************************************)
\* run_command(): one command and one result at a time; the result may be lost.
Run(c) ==
    /\ agent.on /\ c \in agent.batch /\ post.of = None
    /\ ran' = [ran EXCEPT ![c] = @ + 1]
    /\ agent' = [on |-> agent.on, installed |-> agent.installed /\ cmd[c].kind # "uninstall", named |-> agent.named,
                 id |-> agent.id, report |-> agent.report, poll |-> agent.poll, batch |-> agent.batch \ {c},
                 leaving |-> agent.leaving \/ cmd[c].kind = "uninstall"]
    /\ \/ post' = [of |-> c, pc |-> "sent"] /\ UNCHANGED events
       \/ post' = NoPost /\ Happens
    /\ UNCHANGED <<row, cmd, report, poll, desk, saved, hung>>

\* Five seconds after an uninstall the process exits, whatever it is doing.
Leave ==
    /\ agent.leaving /\ agent.on
    /\ agent' = Exited /\ hung' = (hung \/ agent.poll # 0)
    /\ UNCHANGED <<row, cmd, report, poll, post, desk, ran, saved, events>>

\* The service manager starts it again while it is installed (Restart=always).
Start ==
    /\ ~agent.on /\ agent.installed
    /\ agent' = Started(agent.named)
    /\ UNCHANGED <<row, cmd, report, poll, post, desk, ran, saved, hung, events>>

\* self_update(): the process is replaced by one that sends a machine id.
Upgrade ==
    /\ agent.on /\ agent.installed /\ ~agent.named /\ Happens
    /\ agent' = Started(TRUE) /\ hung' = (hung \/ agent.poll # 0)
    /\ UNCHANGED <<row, cmd, report, poll, post, desk, ran, saved>>

\* A call times out at the agent; at the server it goes on.
GiveUp ==
    /\ Happens
    /\ \/ agent.report # 0 /\ agent' = [agent EXCEPT !.report = 0] /\ UNCHANGED hung
       \/ agent.poll # 0 /\ agent' = [agent EXCEPT !.poll = 0] /\ hung' = TRUE
    /\ UNCHANGED <<row, cmd, report, poll, post, desk, ran, saved>>

(***************************************************************************)
(* Operators, the retention of agents that stopped reporting, and restarts *)
(* of the API.                                                             *)
(***************************************************************************)
\* enqueueCommand(); shutdownAgent() queues an uninstall and then deactivates.
Enqueue(c) ==
    /\ cmd[c].status = "none" /\ desk = NoCall /\ Happens
    /\ \E r \in There, kind \in {"run", "uninstall"} :
         /\ cmd' = [cmd EXCEPT ![c] = [status |-> "queued", at |-> r, kind |-> kind]]
         /\ desk' \in {NoCall} \cup {[todo |-> "deactivate", at |-> r] : k \in {kind} \cap {"uninstall"}}
    /\ UNCHANGED <<row, report, poll, post, agent, ran, saved, hung>>

\* Decommission, or the second step of a shut-down; remove() deactivates and then deletes.
Deactivate(r) ==
    /\ \/ desk = [todo |-> "deactivate", at |-> r] /\ desk' = NoCall /\ UNCHANGED events
       \/ desk = NoCall /\ r \in There /\ Happens /\ desk' \in {NoCall, [todo |-> "delete", at |-> r]}
    /\ row' = [row EXCEPT ![r].active = FALSE]
    /\ UNCHANGED <<cmd, report, poll, post, agent, ran, saved, hung>>

RemoveRow ==
    /\ desk.todo = "delete"
    /\ Delete({desk.at})
    /\ desk' = NoCall
    /\ UNCHANGED <<report, poll, post, agent, ran, saved, hung, events>>

\* pruneStaleGuests(): nothing was heard for days.
Prune ==
    /\ ~agent.on /\ ~agent.installed /\ There # {} /\ \A w \in Reports : report[w].pc = "idle"
    /\ Delete(There)
    /\ UNCHANGED <<report, poll, post, desk, agent, ran, saved, hung, events>>

\* The API restarts: its calls are cut off, and those of the agent fail.
Restart ==
    /\ Happens
    /\ report' = [w \in Reports |-> NoReport]
    /\ poll' = [p \in Polls |-> NoPoll]
    /\ post' = NoPost /\ desk' = NoCall
    /\ agent' = Process(agent.on, agent.id, 0, 0, agent.batch)
    /\ UNCHANGED <<row, cmd, ran, saved, hung>>

Next ==
    \/ \E w \in Reports : Find(w) \/ Write(w) \/ Look(w) \/ Clean(w)
    \/ \E p \in Polls : Dial(p) \/ FindQueued(p) \/ Mark(p) \/ Answer(p)
    \/ \E c \in Commands : Enqueue(c) \/ Run(c)
    \/ \E r \in Rows : Deactivate(r)
    \/ Result \/ Uninstalled \/ RemoveRow \/ Prune
    \/ Leave \/ Start \/ Upgrade \/ GiveUp \/ Restart

Spec == Init /\ [][Next]_vars

(* The agent's threads and the service manager go on, awaits come back, and  *)
(* what stopped reporting is pruned; no operator has to click, nothing fails *)
(* by necessity.                                                             *)
Duties == 5 + MaxReports + MaxPolls
Duty(k) ==
    \/ k = 1 /\ \E w \in Reports : Find(w)
    \/ k = 2 /\ \E p \in Polls : Dial(p)
    \/ k = 3 /\ \E c \in Commands : Run(c)
    \/ k = 4 /\ (Result \/ Uninstalled)
    \/ k = 5 /\ (Leave \/ Start \/ Prune)   \* never two of them at once
    \/ \E w \in Reports : k = 5 + w /\ (Write(w) \/ Look(w) \/ Clean(w))
    \/ \E p \in Polls : k = 5 + MaxReports + p /\ (FindQueued(p) \/ Mark(p) \/ Answer(p))
FairSpec == Spec /\ \A k \in 1 .. Duties : WF_vars(Duty(k))

(***************************************************************************)
(* Properties.                                                             *)
(***************************************************************************)
RowType == [there : BOOLEAN, active : BOOLEAN, named : BOOLEAN]
CommandType == [status : {"none", "queued", "delivered", "done", "gone"}, at : 0 .. MaxRows,
                kind : {"run", "uninstall"}]
ReportType == [pc : {"idle", "write", "look", "clean"}, at : 0 .. MaxRows, stale : SUBSET Rows, named : BOOLEAN]
PollType == [pc : {"idle", "find", "mark", "answer"}, at : 0 .. MaxRows, batch : SUBSET Commands, stop : BOOLEAN]
PostType == [of : Commands \cup {None}, pc : {"idle", "sent", "saved"}]
CallType == [todo : {"nothing", "deactivate", "delete"}, at : 0 .. MaxRows]
AgentType == [on : BOOLEAN, installed : BOOLEAN, named : BOOLEAN, id : 0 .. MaxRows, report : 0 .. MaxReports,
              poll : 0 .. MaxPolls, batch : SUBSET Commands, leaving : BOOLEAN]

(* The variables keep their types. *)
TypeOK ==
    /\ row \in [Rows -> RowType] /\ cmd \in [Commands -> CommandType]
    /\ report \in [Reports -> ReportType] /\ poll \in [Polls -> PollType]
    /\ post \in PostType /\ desk \in CallType /\ agent \in AgentType
    /\ ran \in [Commands -> Nat] /\ saved \subseteq Commands /\ hung \in BOOLEAN
    /\ events \in 0 .. MaxEvents

(* Polls that overlap, reports that delete each other's rows, lost answers   *)
(* and restarts never make the machine run a command twice.                  *)
RunsOnce == \A c \in Commands : ran[c] <= 1

(* The history tells what happened: what is queued has not been run and what *)
(* is done has; a saved result is not marked "delivered" again, unless the   *)
(* agent gave up on a poll that was about to mark.                           *)
HistoryIsTrue ==
    \A c \in Commands :
        /\ cmd[c].status = "queued" => ran[c] = 0
        /\ cmd[c].status = "done" => ran[c] > 0
        /\ (c \in saved /\ ~hung) => cmd[c].status \in {"done", "gone"}

CommandsHonest == TypeOK /\ RunsOnce /\ HistoryIsTrue

(* Again and again, whatever overlapped, failed or was removed: an installed *)
(* agent has one row, which it knows and where no command waits, and the     *)
(* fleet keeps no row of one that is not.  (The row may be decommissioned:   *)
(* the service manager starts the process again each time it is told to      *)
(* stop.)  "A re-install or an upgrade never leaves a second agent behind."  *)
FleetSettled == IF agent.installed THEN There = {agent.id} /\ Queued(agent.id) = {} ELSE There = {}
FleetSettles == []<>FleetSettled

=============================================================================
