# Verification of MCMF

TLA+ modules, model-checking configurations and machine-checked proofs for the
API of MCMF (`src/api`), a NestJS service over PostgreSQL that watches, operates
and supports fleets of hosts, and for the parts of the console and the agents it
works with.  Paths below are relative to the repository; where a module of the
API is meant, `src/api/src/modules/` is left out.

Contents: [the system](#1-the-system), [what is modelled](#2-the-models),
[what is checked](#3-the-runs), [what is proved](#4-the-proofs),
[where the code disagrees with its documents](#5-where-the-code-and-its-documents-disagree),
[what is not modelled](#6-not-modelled), [the plan](#7-the-plan),
[how to run it](#8-running-it).

## 1. The system

The API is one Node process: one event loop, so code between two `await`s is
atomic and everything else interleaves.  Its lasting state is the database
(`src/api/prisma/schema.prisma`); beside it every service keeps maps, flags and
timers in memory, which a restart loses.  Its partners (browsers, agents on the
targets, hosts reached over SSH, ffmpeg processes, Terraform, cloud APIs) answer
late, twice or never.

Almost every difficulty has one shape: *read a row, await something, write the
row by id on the strength of what was read*.  A second difficulty is that memory
and database disagree after a restart, and a third that a command on a remote
host outlives the promise that waits for it.

### Components that carry the logic

| component | state | operations | hard behaviour | what makes it correct |
|---|---|---|---|---|
| **remote: consent** (`remote/consent.ts`) | status, consent, reason, user, stamps | `reduce` on agent-ack, accept, decline, tick, end, agent-lost | timeouts against stamps that may be null; order of the checks | nobody is recorded as having agreed but by a way the policy allows; every session closes |
| **remote: service** (`remote/remote.service.ts`) | session rows; maps of frames, capture claims, input queues; event log | `request`, `agentPoll`, ack, answer, tick, end, frame, input, recording, audio, quality | any two calls suspended at any `await`; the 5-second timer against late answers; restart between the row and its consequences | nothing in memory outlives the session that allowed it; the recording flag is true; one audit line per fact |
| **remote: capture arbiter, input queue** (`capture-arbiter.ts`, `input.ts`) | claim with age; queue with a cap | `arbitrate`, `enqueue` | decision on a claim read before an `await` | a claim ends with its session |
| **remote: recorder, retention** (`recorder.ts`, `retention.ts`) | map of recordings, ffmpeg processes, roll timers, part files, `recordingPath`/`recordingParts` | start, write, roll, pause, resume, stop; three deletions | three background closes that resume out of step with the clock, the end and retention; row updates that land late or fail unnoticed | no footage overwritten; a row that leads to a deleted file is about to be cleared; one clock per recording; what is on disk is advertised |
| **remote: media hub** (`media.hub.ts`) and the window that dials it | slots with agent and viewer sockets, a sweep, a grace timer | attach, drop, last viewer gone | a slot looked up before an `await` and dropped by the sweep; a socket that closes during its handshake | one shared session per host within the limit; a session nobody watches ends, one that is watched does not |
| **remote: file transfer** (`RemoteSupportModal.tsx`, `mcmf-tray-agent.ps1`) | the windows' maps of waiters, the agent's one upload stream, files | upload, upload by dialog, offer, download | request ids per window, answers broadcast to all, chunks that go to whatever is open | what is shown as verified is whole |
| **replication** (`replication/direction.ts`, `replication.service.ts`) | the set's row, the lock `running`, jobs of the agent, the data on three hosts | schedule, run now, agent check-in and report, promote, drill, update, stop | copies last minutes and land under another state; commands outlive timeouts; a pipe hides exit codes | one run at a time; no copy onto the serving node; a fail-back brings the work home; replicas catch up |
| **agent** (`agent/agent.service.ts`, `mcmf-agent-linux.py`) | agent rows, command rows, the agent's own process | ingest, long poll, result, deactivate, remove, upgrade | find-then-create; lost and overlapping polls; late results | one row per machine in the end; a command never runs twice and its history is true |
| **approvals, catalog** (`approvals/*.ts`, `catalog/catalog.service.ts`, `src/tf-runner`) | requests, jobs | approve, retry, reject, expire; plan, apply, destroy | the action runs between the check and the write; a restart or time-out in the middle; what fails may be done in part; the setting may not be readable | maker and checker differ; the row tells what happened; nothing stays half way |
| **alerting** (`alerting/*.ts`) | rules, alerts, deliveries with attempts | evaluate, escalate, acknowledge, resolve; send, sweep, retry | passes and sweeps that overlap; a tier that fails half way | one alert, one message and one run of a tier per cause; the log is true |
| **monitors** (`monitors/monitors.service.ts`) | monitor rows, alerts | loop, check now, poll now, edit, remove | checks that overlap on a stale status | the open alerts match the status |
| **uptime** (`uptime/uptime.ts`, `uptime.service.ts`) | transitions, day rows, last states in memory | pass, report, roll-up | edges of windows, days and hours; rounding; lost writes; priming after a restart | the parts of a window add up to it but for rounding, and say what the passes found |
| **aiops** (`aiops/*`) | findings, their alerts, suppression windows and a copy of them | scan, confirm, dismiss, declare | reviews during a scan; a stale copy; the engine and operators touch the same alerts | a verdict is kept, and the gate tells what was confirmed and nothing else |
| **policies, optimization** | violations, proposals | evaluate, generate, apply, dismiss | evaluations that overlap, on former facts too; a list cut short; a change made and not yet marked | violations are those that are until a stale evaluation writes; a change is made once |
| **console tunnel** (`agent/agent-tunnel.hub.ts`) | sessions with a listener, two sockets, what is held back, a timer | open, connect, attach, relay, close | either end first, late or never | both streams whole and in order; no session without an end |
| **connections** (`connections/connections.service.ts`) | connections, accounts, rows of what was discovered, placeholders | create, update, test, sync, remove; the timer and its reconciliation | the timer, the button and a removal write one statement at a time; discovery answers in part | the inventory comes to be what the clouds hold; a removal is complete |
| **fabric** (`fabric/fabric.service.ts`, the adapters) | the row with its stage and ids, a set of busy ids | arm, advance, edit, retry, remove, tear down | ids are written after the thing exists; one cloud makes everything anew | what is billed is known; an armed fabric comes up or fails |
| **database** (`database/database.service.ts`) | log watermark, backups, clusters | ship logs, back up, deploy | watermark against late rows, crowded seconds, failed inserts | every log row is shipped |

The remaining directories (most of the connectors, inventory, finops, compliance, network,
users, vault, most of the web console and so on) are reads, create/update/delete,
or pure I/O; `PROJECT.json` lists each with the reason it is left out.

### How they interact

- The media hub ends sessions through the session service; the session service
  starts, pauses and stops the recorder and lets retention delete what it wrote.
- The consent reducer decides every status change of the session service; the
  5-second timer is one more caller of it.
- The session service wakes a target by queueing a command in the agent's
  command table; the agent then polls, captures and posts frames.
- Files travel over the hub's sockets: the console's window and the agent's
  helper agree on a transfer by messages the hub passes on to everybody.
- Replication copies over SSH with `sshRun` of `database/ssh-deploy.ts`, or by
  handing a command to the replication agent at its check-in.
- Approvals call inventory, connections, network, database and the Terraform
  runner to execute what was approved.
- Alerts come from three sides: the engine's rules, the monitors, and the
  findings of aiops; the engine's channels carry what is told outside.
- Policy violations and the anomaly feed are the input of the proposals of
  `optimization`, which change policies, rules and workflows when applied.

## 2. The models

| module | models | lines |
|---|---|---|
| `Consent` | the reducer of `consent.ts` and its timeouts, as operators on records | pure |
| `RemoteSession` | `RemoteService` over `Consent`: calls suspended at awaits, maps, rows, event log, restarts | state machine |
| `SessionContract` | what the gate promises, without calls, rows or timers | abstract specification |
| `Recorder` | the recorder of one session with its encoders, part files and deletions | state machine |
| `RemoteHub` | `request()`, the hub's slots and sockets, the window that dials it | state machine |
| `FileTransfer` | files over the hub's sockets between windows and agent | state machine |
| `Replication` | one replication set with operators, timers, agent, hosts and DNS | state machine |
| `AgentChannel` | one machine's registration and command channel, with the agent itself | state machine |
| `Tunnel` | one console session between the proxy and an agent that dials in | state machine |
| `Inventory` | connections with their synchronisation, reconciliation and removal | state machine |
| `Fabric` | one network fabric between two clouds | state machine |
| `LogStore` | the shipping of one table's log rows | state machine |
| `ChangeControl` | requests for approval and Terraform jobs | state machine |
| `Alerting` | the engine's passes over rules, events and escalation tiers | state machine |
| `Delivery` | the delivery log, its sweep and the retry button | state machine |
| `Monitors` | the checks of one monitored device | state machine |
| `Uptime` | passes, transitions, reports and day rows of one device | state machine and functions |
| `Detectors` | detectors, suppression, correlation, failover verdict | functions, asked one question |
| `Findings` | the scan, the feed and its reviews | state machine |
| `Advice` | policy evaluation, the proposal rules and the proposals | state machine |
| `RemoteSessionProofs`, `RecorderProofs`, `ReplicationProofs` | theorems about the module each is named after | proofs |
| `RemoteHubProofs` | theorems about `RemoteHub` and `FileTransfer` | proofs |
| `AlertingProofs` | theorems about `Alerting` and `Delivery` | proofs |
| `ChangeControlProofs` | theorems about `ChangeControl` and `Advice`: what people approve | proofs |
| `MonitorsProofs` | theorems about `Monitors`, `Uptime`, `Detectors` and `Findings`: what watches | proofs |
| `OutpostsProofs` | theorems about `AgentChannel`, `Inventory`, `Fabric`, `Tunnel`, `LogStore` and their composition in `MCOutposts` | proofs |
| `MC...` | instances for the runs; `MCInsights` joins `Uptime`, `Detectors`, `Findings`, `Advice`; `MCOutposts` joins `AgentChannel`, `Tunnel`, `Inventory`, `Fabric`, `LogStore` | model checking |

`PROJECT.json` maps every definition to the lines it stands for.  Modules that are
proved about together keep their names apart (`TransferSpec`, `DeliverySpec`,
`FindSpec`, `AdviceSpec`).

Everywhere, a handler becomes one action per stretch between two awaits; a call
under way is a record of what it remembers; a restart clears memory and calls
and leaves the rows.  Where time matters it is counted as ages that stop at the
longest limit, since the code only compares differences.  Failing calls,
restarts, clicks and changes of the world draw on budgets, each a constant.

### `Consent`, `RemoteSession`, `SessionContract`

`rows[s]` is the row of a session: `gate` (status, consent, reason, user, the
auto-accept flag), `times` (age of each stamp, `Never` for null), `policy` (fixed
when the session is requested), and the switches.  `frames`, `capture`, `inputQ`,
`rec` and `stopping` are the maps in memory; `audit` is the event log.

`apply()` is `ApplyRead` (`findUnique` and the settings), `ApplyWrite` (`update`
by id, the audit lines) and `ApplySettle` (start or stop the recorder, drop the
media).  A frame is `FrameRead`, `FrameClaims` or `FrameRejected`, `FrameStored`
or `FrameEmpty`, `FrameReplied`; the switches for input, recording and audio and
the quality have a read and one or two later steps.  `Tick` is one session of
the 5-second timer.

Any calls of a session may overlap; `crossed[s]` remembers which kinds of calls
of `s` were in flight at once: two `apply()` (`verdicts`), one and another call
(`verdict`), two that are neither `apply()` nor a frame (`switches`).  A property
that the code keeps only without one of them says so by name
(`VerdictsInOrder`, `VerdictsAlone`, `NoneCrossed`); frames may overlap everything
but an `apply()` in all of them.  The constant `Explored` bounds which overlaps a
run explores, so that two runs share the work; the proofs have no such bound.  A
frame, an input event and a video are members or counters; the wording of audit
lines is a fact and the name in it.

`SessionContract` keeps, beside the statuses, the set of sessions it still binds
(`bound`): once two `apply()` of a session were in flight at once it promises
nothing more of that session.

### `Recorder`

`rec` is the `Rec` object (`held`: it is in the map), `encoder[p]` the ffmpeg
process of part `p`, `file[p]` what is on disk under that part's name, `waiting`
the continuations of `closeProc()` in order, `clocks` the roll timers, `row` the
columns that lead to the video.  `RollDone`, `RollFails`, `PauseDone`, `StopDone`
are the code after an `await this.closeProc`; `Retire`, `ClearStorage` and
`ClearSession` are the deletions.  Each changes the files at once and then sends a
statement about the row (`inflight`), which takes effect later, in any order with
the others, or fails unnoticed (`unwritten`), as the code swallows it.  Which file the retention plan picks is left
open, so any file may go at any time; padding of still stretches is left out.

### `RemoteHub`

`asking[o]` is an operator's `request()` (look for a live session, count, create);
`slot[s]` the hub's slot with its viewers, agent socket and grace timer; `viewer`
and `agent` the sockets, which may close while their handshake is checked.
`Connect`/`Wire`/`Rejected` are `attachViewer()`, `Sweep` drops a slot without
sockets, `GraceEnds` and `EndLands` are the timer and the `end()` it calls.  A
slot that was dropped while a handshake held it is kept apart (`stale`), as the
object nobody reads any more.  Consent is `RemoteSession`'s: here a session
becomes active by itself.

### `FileTransfer`

`xfer[t]` is a transfer as its window keeps it, `toAgent` and `toViewer[o]` the
messages under way in order, `tray` the receive loop's one upload stream and
its Save dialog, `disk` the files.  A digest is modelled as the bytes it is taken
of, so two digests agree exactly when the contents do.  Transfers overlap
(`Busy`) not only while one is under way in a window: a download that another
replaced is told at once, while its `get` may still wait at the agent, behind a
Save dialog even, and what the agent then sends mixes with the next transfer.

### `Replication`

`row` keeps the serving role (the column `state` and the role are one to one by
`activeRole`), the switches and the driver.  `running` is the lock of `runNow()`;
`calls[c]` the request or tick in progress, with the direction, the state it
read, and what a fail-back owes; `job` the agent's job; `strays` the copies whose
caller has gone (time-outs, restarts); `data[r]` the writes on each host;
`serving` the host DNS names, which is outside the program.  A copy is `rsync
--delete`: the target becomes what the source is when it lands.  The interval of
the schedule is left open; stamps, run history, trial records and DRBD sets are
left out.

### `AgentChannel`

`row` are the agent rows there are for the machine, `cmd` the commands, `report`,
`poll`, `post` and `desk` the calls under way, `agent` the process on the machine
with its two threads and the service manager that restarts it.  `Find`, `Write`,
`Look`, `Clean` are `ingest()`; `FindQueued`, `Mark`, `Answer` are
`longPollCommands()`; `Result` is `commandResult()`.  The agent may give up on a
call that goes on in the API.

### `Tunnel`, `Inventory`, `Fabric`, `LogStore`

`Tunnel`: `tunnel` is the hub's session, `proxy` and `outpost` the two ends, `up`
and `down` the pieces of each stream where they are; a handler of the hub is one
action, since none awaits.

`Inventory`: `link` are the connections, `account` and `stock` the rows that hang
on them by foreign keys (set to null when their parent goes), `held` the
placeholders of what was provisioned.  `sync[c]` is the timer's or the button's
`sync()`, `pass` what is left of `autoSyncAll()`, `removal` of `remove()`; every
row is a step of its own.  Discovery may miss things, which is an event.  Every
placeholder is of a kind that discovery lists.

`Fabric`: `fabric` is the row, `things` what exists in the clouds, `ready` what has
come up, `work` the `advance()` with the row it read and what it has made but not
saved, `teardown` the `deprovision()`.  One side makes a new id at each call and
learns its address late (AWS), on the other the name is the id (Azure, GCP).
Networks and the link that is handed to the monitor are left out.

`LogStore`: `stamp` says when a row claims to be written, `kept` what Postgres
holds, `shipped` what the store holds, `ship` the pass with its watermark and the
rows it has still to insert.

### `ChangeControl`

`change[c]` is the row of a request or job, `call[k]` a call with what it read;
`Check`, `Mark`, `Executed`, `Save` are its stretches; `effect` and `starters`
say what was really done and on whose account, `halfway` of which changes a failed
execution did, or undid, a part.  A check that cannot read the setting takes it for
off (`unread`).  A Terraform run the API stopped listening to goes on (`unheard`).

### `Alerting`, `Delivery`, `Monitors`

`pass[p]` is an evaluation (`tick`, which skips a turn while one runs, or `now`,
which does not), `alerts` the rows in order of creation, `prev` what the last
pass saw.  `Delivery`: `log[m]` is a row of the log, `worker[w]` a sweep or the
button with its list, time is counted in sweeps.  `Monitors`: `check[c]` is the
loop's, a forced or an edit's check with the row it read; one interface stands
for all.

### `Uptime`, `Detectors`, `Findings`, `Advice`

`Uptime` stores transitions as passes find them and computes every report from
them with the operators of `uptime.ts`.  A tick is a part of a second (`SecLen`
ticks are one), and every piece of time is rounded to seconds before it is added,
where the code does it.  `pass` are the passes under way, `roll` the roll-up with
the rows it has still to write, `api` the memory of the process; `primeState()`
may read too few rows to find the device (`missed`).  `Detectors` answers one
question put at the start; medians are kept in halves and quarters.  `Findings`
has the rows of the feed, the alerts raised for them, the scan, the reviews under
way, the declared windows and the scan's copy of them; the engine may escalate an
open alert and an operator resolve it (`Escalate`, `OperatorResolves`).  `Advice`
has one policy, one metric, the violations, the feed, the proposals, `generate()`,
which sees as many violations as are listed, and the calls of admins; an
evaluation is `late` when the facts changed after it read them.

## 3. The runs

All runs explore the whole state space of their instance without an error.

| run | instance | shows |
|---|---|---|
| `RemoteSwitches` | one session, two calls and one timer, every operation with frames in flight beside it, a restart anywhere; 2.1 M states | the row says truly whether it is recorded, and video exists only of granted sessions and is found from the row (`RecordingHonest`); keystrokes wait only under control (`ControlHonest`) |
| `RemoteOverlap` | one call and one timer suspended at every await, verdicts beside verdicts and frames, a restart; 0.7 M; fair | consent columns stay honest, timeouts have their stamps and no verdict jumps, however calls overlap (`GateSound`); every session closes for good (`EverySessionCloses`); one line per fact (`AuditOnce`), nothing in memory outlives the session (`NothingOutlivesSession`) and the service implements `SessionContract` (`KeepsContract`), each as long as its condition holds |
| `RecorderSession` | three parts, one restart, one failing encoder, statements that land late, out of order or not at all; fair | a row that leads to a deleted file is about to be cleared, unless the statement failed (`RowNeverDangles`), one clock while no encoder failed (`OneClock`), no finished part is overwritten while the API is up (`FootageKeptWhileUp`), footage comes to be advertised unless that update failed (`FootageAdvertised`) |
| `RemoteHub` | two operators, one asking for a second host; two sessions, limit 1, three dials, one fault; fair | one shared session per host within the limit unless requests overlap (`SharedWithinLimit`); frames reach who watches, and who is left is timed (`WatchedOrTimed`); abandoned sessions end (`AbandonedEnds`) |
| `FileTransfer` | two transfers of two chunks, one or two operators and paths, every way for the first, a dropped socket; 0.6 M; fair | what is reported of a file is true, and mixtures are never passed off as verified (`VerifiedIsIntact`); transfers settle (`TransfersSettle`) |
| `Replication` | two operators, the timers and the agent; two requests, two writes, a fault, a restart; 0.7 M; fair | one run at a time (`OneRunAtATime`), no copy admitted under the present state takes from the serving host (`LiveDataKept`), a fail-back brings the work home (`FailbackKeepsWork`), the schedule carries every write (`ReplicaCatchesUp`) |
| `Outposts` | five parts one at a time: the agent channel (one machine, two reports and two polls at once, two commands, two calls, failures, upgrades or restarts), the tunnel (two callers, two pieces each way), the inventory (two connections, two assets, two events), the fabric (three events and an edit), the log store (four rows, four seconds, two events); 0.4 M; fair | a command runs at most once and its history is true (`CommandsHonest`); a removal is complete (`InventoryHonest`); `OutpostsHonest`, `OutpostsSettle` |
| `ChangeControl` | a request or a job (`MaxAsked` is 1), two users, five calls of which two overlap, a restart or time-out, one change of the setting, reads of it that fail, failures half way; 1.4 M; fair | two people (`FourEyes`), true rows (`OutcomeTold`), nothing half way (`ChangesSettle`) |
| `Alerting` | one machine, a threshold and an event rule, one tier of two steps, three alerts, two changes, a click, a fault; fair | one alert, announcement and tier run per cause, and every raised alert is told (`OncePerCause`), the loop makes up for what went wrong (`LoopCatchesUp`) |
| `Delivery` | one failing delivery, two sweeps, the button, a fault; fair | only overlaps and faults send twice, and count, status and schedule are true (`LogIsTrue`), failures settle (`Settles`) |
| `Monitors` | one device, one interface, three checks, two changes, a click, a fault; 0.6 M; fair | open alerts match the status (`AlertsMatch`), which follows the device (`StatusSettles`) |
| `Insights` | the four parts one at a time; 2.4 M up to exchanging admins | `UptimeSound`, `PassesTold`, `AnswersSound`, `DeclaredHours`, `FindingsHonest`, `AdviceHonest` |

`Insights` chooses in the initial state which part it is about (`subject`), and
the others rest: they share no state, so nothing is lost by not interleaving
them.  `UptimeSound` and `AnswersSound` are conditional on it; the others are
checked as they are proved, for a part that rests stays in an initial state,
where they hold.  `Outposts` does the same;
its liveness asks of whichever part is the subject.  In words:

- `UptimeSound`: for every window, the intervals tile it and say what the
  transitions say; summary, days, hours and outages account for the same time, to
  within half a second for each piece they rounded; the strip of a day and its row
  agree exactly; a finished day's row is that day's account after a roll-up, while
  passes and roll-ups overlap.
- `PassesTold`: what the process remembers of a device is its newest transition
  (or nothing, when the rows read at the start did not reach it), and reports show
  what the last pass found, unless a write was lost or two passes wrote against
  each other.
- `AnswersSound`: each detector's answer against a reference written from its
  definition, over all short series of small values; clusters of alerts and the
  verdict on a failover for every set of stamps.
- `DeclaredHours`: windows of declared load, over midnight and week ends, for
  every hour.
- `FindingsHonest`: no finding waits twice; its alert is closed if it was dismissed
  last, and told by the gate exactly if it was confirmed; a declared load is not
  reported.  It says nothing of the engine, which escalates unconfirmed alerts too.
- `AdviceHonest`: violations are the resources that break the policy, until an
  evaluation of former facts writes; a proposal rests on enough of them, as far as
  they are listed; no key waits twice or returns while dismissed; a
  change is made once.

- `OutpostsHonest`: of the tunnel, both streams come whole, in order and once, and
  nothing passes before both ends are there; of the fabric, what is billed is on
  the row or about to be, nothing is billed unless it was armed, and one that is
  up joins its own two gateways, as long as none of the causes it names has
  happened; of the log store, what it holds has no gap.
- `OutpostsSettle`: again and again an installed agent has one row and no command
  that waits; a console is joined or gone at both ends; statuses and rows of the
  inventory are those of the clouds; an armed fabric is up or has failed; every
  row that is kept is in the store.

The type invariant of `RemoteSession` is a property of its run (`TypeOK`); those of
`Recorder` and `Replication` are theorems and no longer asked of TLC; in the
others it is the first conjunct of a property, or of the invariant that proves it.

### Bounds, and why they are enough

- **One session, one set, one machine, one device, one delivery**: rows of two
  share nothing in the operations modelled.  Where they do share something there
  are two: `RemoteHub` (the limit), `FileTransfer` (the stream, the path),
  `Findings` and `Advice` (keys, resources).  `ChangeControl` has a request and a
  job of which one is asked for (`MaxAsked`): two changes share the setting only,
  and what matters of it is when it was off.  The theorems hold for any number of
  sessions, changes, messages and commands.
- **Two calls at once** is what a lost update needs; every module with overlap
  has two of each kind that can overlap, and a third actor (a timer, an
  operator) beside them.
- **Timeouts of 1, session limit of 2 clock units**: every order of the limits a
  row can meet occurs; the session limit is the longer one, as in the defaults.
- **`MaxQueue` 1, `MaxConcurrent` 1, `TakeMax` 1**: empty, at the cap and over it.
- **Three parts**: one before, at and after a roll or pause; a second incident
  needs a third.
- **Two chunks**: a chunk may be the first, the last, and be separated from the
  other by those of another file.
- **Two connections that share an asset** (`Inventory`): the row may pass from one
  account to the other, and one may go while the other stays.
- **A query of three rows in chunks of two, four rows in four seconds**
  (`LogStore`): a batch ends between chunks, at the limit and below it, and rows
  outlive both limits.
- **Three events of a fabric**: a failure, an edit and another arming; a tear-down,
  a refusal and what follows.
- **One tier of two steps**: what is repeated is the first step when the second
  fails.
- **Two days of two hours of one second of two ticks** (`LastTick` is 3, and the
  zone half a day off): a window may begin and end inside, at and between hours and
  days, and a piece may be half a second, which is rounded up.
- **One fault, one restart**: either may strike at every point, in every
  combination with the other; the proofs cover any number.

`CHECK_DEADLOCK FALSE` is set throughout: sessions close, requests run out, and
the bounded system then really stops.

### Fairness, and why the code justifies it

Only weak fairness is used, and only for what the process does by itself: timers
fire (`setInterval`, `setTimeout`), a suspended call resumes (Prisma, `fetch` and
`sshRun` resolve, reject or time out), messages on an open socket are handled.

- `RemoteSession`: the clock, calls in flight, a sweep of each session.
- `Recorder`: encoders exit or are killed (the 15-second timer of `closeProc`).
- `RemoteHub`: handshakes come back, the grace timer and the `end()` it calls;
  the window of an ended session closes its socket.
- `FileTransfer`: queues are handled, windows stream and time out, digests are
  taken.  Nobody has to answer a Save dialog.
- `Replication`: the timers, and calls in flight.  DNS, the agent and stray
  copies have none.
- `AgentChannel`: the agent's two loops, which its service manager starts again;
  the calls in flight; the prune timer.
- `Tunnel`: sockets are read and their ends noticed, the timer fires.
- `Inventory`, `Fabric`, `LogStore`: the timers, calls in flight, and the clouds
  finish what they began.
- `ChangeControl`: calls in flight.  Nobody has to approve anything.
- `Alerting`, `Delivery`, `Monitors`: the loop's turns, the steps of passes,
  sweeps and checks, and time.

No agent, user or operator is ever forced to act.

### Conditions some properties carry

They name what is *not* promised, and each was found by a counterexample:

- `restarts = 0` in `RecordingHonest` and `AuditOnce`: a restart loses the
  recorder and cuts `apply()` short between the row and the line or the path.
- `VerdictsInOrder` in `AuditOnce` and `KeepsContract`: no two `apply()` of the
  session were in flight at once.  `VerdictsAlone` in `NothingOutlivesSession` and
  the second part of `RecordingHonest`: nor one beside any other call.
  `NoneCrossed` in `ControlHonest` and the recording flag: nor two switches.
  `GateSound` and `EverySessionCloses` have none.
- `unwritten` and `crossed` in `RowNeverDangles`, `unwritten` in
  `FootageAdvertised`: the statement that was to clear or lead the row failed, or a
  file went while `stop()` was leading the row to it.  `faults = 0` in `OneClock`:
  an encoder's error leaves its clock running.
- `unread` in `FourEyes`: a change checked while the setting could not be read.
  `halfway` in `OutcomeTold` may be hidden by some statuses, which it lists.
- `OneRunAtATime` holds until `stop()` clears the lock under a run or the
  database fails between `running.add` and `try` (`replication.service.ts:240`,
  `:402-404`).
- `LiveDataKept` asks that the copies on their way were admitted under the state
  the set has (`InStep`).
- `FailbackKeepsWork` holds until the first loss of another kind (`seen.lossy`):
  a copy that landed under another state, an `rsync` whose failure was hidden by
  `| tail`, or a promotion away from the secondary that left writes behind.
- `crossed` in `SharedWithinLimit` and `LogIsTrue`, `overlapped` in `OncePerCause`
  and `AlertsMatch`, `troubled` in `OutcomeTold`, `mingled`/`hurt` in
  `VerifiedIsIntact`: two calls on one thing were under way at once.  Where the
  system recovers, the liveness property of the same run has no such condition
  (`LoopCatchesUp`, `Settles`, `StatusSettles`, `OutpostsSettle`).
- `clashed` in `Inventory`: a connection was removed while it was synchronised.
  `causes` in `Fabric`: a tear-down beside a stage or refused, a stage that failed
  half done, a restart before a save, an arming or edit over what exists, a
  removal.  `late` and `Crowded` in `LogStore`: rows with an old stamp, and a
  second with as many rows as a query takes.
- `excused` in the hub: a slot dropped under a handshake or with its timer, a
  socket that closed before it was added, a failed `end()`.
- `muddled` and `missed` in `Uptime`: a lost write or two passes that wrote against
  each other; a device beyond the 5000 rows that prime the memory.
- `tangled` in `Findings`: two had the finding in hand at once, a restart cut one
  off, or telling or resolving it failed.  `unjust` counts a declared load only from
  scans whose copy of the windows no declaration overtook and no query failed to fill.
- `stale` in `Advice`: no evaluation of the present facts has finished, or one of
  former facts has written since; `single`: two evaluations overlapped, so rows may
  be doubled; `ListLimit`: rows beyond those `violations()` lists; `crossed`: two
  admins met at one proposal, or its `apply()` broke off.

## 4. The proofs

TLAPS checks every theorem for all values of the constants that meet the named
assumptions of the module: `TimeoutsAssumption` and `NoUserAssumption`
(`Consent`), `CallsAssumption` and `BoundsAssumption` (`RemoteSession`),
`BoundsAssumption` (`Recorder`, `Replication`), `SchedulerAssumption`,
`HubAssumption`, `ChangeAssumption`, `AlertingAssumption`, `DeliveryAssumption`,
`MonitorsAssumption`, `TransferAssumption`, `FindingsAssumption`,
`AdviceAssumption`, `UptimeAssumption`, `DetectorsAssumption`, and for the outposts `ChannelAssumption`,
`InventoryAssumption`, `FabricAssumption`, `TunnelAssumption`,
`LogStoreAssumption`.  They say that bounds are numbers, that a limit is not
zero where the code's is not, that names of different things differ, and that
there is an asset, of which `Inventory` begins with one; `AdviceAssumption` also
that there are finitely many resources, for the policy keeps their count, and
that an idle figure is below a spike.  TLC
evaluates them in the runs.  Each inductive invariant was checked by TLC before
it was proved.

| theorem | property | from |
|---|---|---|
| `RemoteSessionProofs!TypeCorrect`, `ConsentCorrect` | `TypeOK`, `GateSound` | `GateInv` |
| `MemoryReleased`, `ControlTrue`, `RecordingTrue`, `LogToldOnce`, `ContractKept` | `NothingOutlivesSession`, `ControlHonest`, `RecordingHonest`, `AuditOnce`, `KeepsContract` | `SessionInv` |
| `RecorderProofs!RecorderTypeCorrect`, `RowCorrect`, `ClockCorrect`, `FootageIsKept` | its types, `RowNeverDangles`, `OneClock`, `FootageKeptWhileUp` | `QueueInv`, `RowInv`, `PartsInv` |
| `RemoteHubProofs!ViewersWatched`, `LimitKept` | `WatchedOrTimed`, `SharedWithinLimit` | `WatchedInv`, `SharedInv` |
| `RemoteHubProofs!FilesAreIntact` | `VerifiedIsIntact` | `TransferInv` |
| `ReplicationProofs!TypeCorrect`, `OneRunAtATimeHolds`, `LiveDataKeptHolds`, `FailbackKeepsWorkHolds` | its types, `OneRunAtATime`, `LiveDataKept`, `FailbackKeepsWork` | `CallsInv`, `KeptInv` |
| `OutpostsProofs!CommandsRunOnce` | `CommandsHonest` | `CommandsInv` |
| `OutpostsProofs!RemovalsComplete` | `InventoryHonest` | `InventoryInv` |
| `OutpostsProofs!FabricBilled`, `RelayIsFaithful`, `StoreHasNoGap` | `FabricHonest`, `RelayFaithful`, `NoGap` | `FabricInv`, `RelayInv`, `LogInv` |
| `OutpostsProofs!OutpostsHold` | the two above and `OutpostsHonest`, of `MCSpec` | `OutpostsInv`, the conjunction |
| `ChangeControlProofs!FourEyesSafe`, `OutcomeTrue` | `FourEyes`, `OutcomeTold` | `FourEyesInv`, `OutcomeInv` |
| `AlertingProofs!AlertsOncePerCause` | `OncePerCause` | `AlertingInv` |
| `AlertingProofs!LogTrue` | `LogIsTrue` | `DeliveryInv` |
| `MonitorsProofs!AlertsAgree` | `AlertsMatch` | `MonitorsInv` |
| `MonitorsProofs!FeedIsHonest` | `FindingsHonest` | `FindInv` |
| `MonitorsProofs!PassesAreTold` | `PassesTold` | `UptimeInv` |
| `MonitorsProofs!HoursAreDeclared` | `DeclaredHours` | `AskedInv`, and the arithmetic of `WithinADay` |
| `ChangeControlProofs!AdviceIsHonest` | `AdviceHonest` | `AdviceInv` |

**`RemoteSessionProofs`.**  `TypeCorrect`; `ConsentCorrect`: `GateSound`, for any
number of sessions and overlapping calls; `ReduceHonest`: the reducer keeps a
gate honest and moves only forward.  `ConsentIsHonest` alone is not inductive,
for `ApplyWrite` stores a verdict that was computed earlier: one must know that
verdicts in flight are honest too (`VerdictsInFlightHonest`), and to time out a
prompt one must know its stamp (`TimersArmed`).  The inductive invariant is
`TypeOK /\ GateInv`, `GateInv` being the three.  The argument is that the policy
of a row never changes and a write replaces the verdict as a whole, so that a
stale write is still an honest one: it may be the wrong verdict, never an
invented one.

The second half of the module is about what the calls of a session leave behind,
with any calls overlapping.  `SessionInv` has a part for each condition, which holds
for a session as long as the condition does.
- *While no two `apply()` met* (`OrderAt`): one call decides at a time, the row is
  what it read or what it wrote (`Decided`), its verdict follows from that
  (`Follows`), and the log tells the verdicts settled so far (`LoggedAt`).
- *While none met another call* (`AloneAt`): a call in flight is of a session that
  streams, and what memory holds (`HeldAt`) and what was filmed (`FilmedAt`) are
  those of the settled verdict.
- *While no two switches met either* (`SwitchesAt`): what a switch read is still
  true (`Knows`), the flag is the recorder's state (`FlagAt`), and input waits only
  under control (`InputHeld`).

The properties speak of sessions at rest, so they are not inductive: between the
write of a row and what it entails the memory still belongs to the verdict before.
`SettledAt` names that verdict: the row's own, or while a call is between the two,
the one it replaces.  One lemma per kind of step keeps `SessionInv` (`Starts`,
`WorkKeeps`, `AsideKeeps`, `SwitchKeeps`, `WriteKeeps`, `SettleKeeps`,
`PassingKeeps`, `RestartKeeps`), all through `OneSession`: a call disturbs no
session but its own.  `ReduceFollows` compares the reducer with the contract step
by step, and `ContractKept` is the refinement: as long as the contract binds, the
write of `apply()` is one of its steps, and every other step a stutter or the
lapse of its promises.  The conditions are needed: without them each of these is
false (section 5).

**`RecorderProofs`.**  `RecorderTypeCorrect`, `RowCorrect`
(`RowNeverDangles`), `ClockCorrect` (`OneClock`), `FootageIsKept`
(`FootageKeptWhileUp`).  The
key is `QueueInv`: at most two continuations wait, and only in the orders roll,
pause, stop, roll-pause and roll-stop; with it one knows what `RollDone` finds.
`RowInv` adds that the path is written only once the session is over (`Unled`
before), so that nothing reopens the file it names, and `LeadInv` that a statement
still to lead the row names a file that is there, unless one went meanwhile.  For footage, `PartsInv` says that the parts
the recording has not reached are untouched.

**`ReplicationProofs`.**  `TypeCorrect`; `OneRunAtATimeHolds`;
`LiveDataKeptHolds`; `FailbackKeepsWorkHolds`.  `CallsInv` records that a call
which copies was admitted by the guard under the state it read; with `InStep`
this gives `LiveDataKept`.  For fail-backs, `KeptInv`: until a loss of another
kind, what a call owes is on the secondary, and on the primary as well once the
secondary no longer serves or the call's own copy has succeeded.  Every admitted
copy keeps it (forward copies run only when the primary serves, where both hosts
have the work; the reverse copy brings it home), and so does every promotion of
others, which is why a fail-back may be overtaken and still be right.

**`RemoteHubProofs`.**  `WatchedOrTimed` needs to know that the viewers of a slot
are exactly the sockets that are on at it (`SlotTells`), that a timer runs only
over an empty slot, and that a handshake still holds the slot it looked up or one
that is excused (`Handshakes`).  `SharedWithinLimit` needs what a request that
creates has found (`RequestKnows`): no session of its host, and fewer than the
limit.  Neither asks that there are finitely many operators or sessions; that
the live ones are finite is part of `SharedInv`.

*Files.*  `VerifiedIsIntact` says two things, and `TransferInv` has a part for each.
- *Whatever crosses*: every message tells the truth about the file it names.  An
  answer that an upload arrived carries what the path holds, or held before it was
  written again, and a download that is told to be verified was compared with the
  bytes of one of the files (`MixInv`).
- *What nothing crossed* (`Clean`): such a transfer under way is `Alone`, so that
  queues and disk say how far it has come.  An upload waits for its destination
  (`Requested`, `Pulled`), then what lies on the disk and what is in the queue are
  together its first chunks, each once and in order (`Streams`, `Ends`); of a
  download the same holds of what the window collected and what is still to come
  (`Fetched`, `Arriving`).  Once it is told, nothing that is still on its way can
  change that (`Silent`, `Settled`).

That a told transfer leaves nothing behind is what failed first: a replaced
download does (`Busy`, section 2).

**`OutpostsProofs`.**  One part per module, and the five together.

*Commands.*  That a command runs once does not follow from the history, for two
polls may both mark it.  It follows from the agent (`Waited`, `Held`): it takes
the answer of one poll only, and dials when it has nothing left to run, so no
command in that poll or in its hands has been run.  `Told` relates the row to the
runs, and `Alone` says that only an agent that gave up leaves a poll behind.

*Removals.*  A synchronisation could write again what a removal has deleted.  A
connection that leaves undisturbed is synchronised by nobody, and what was
deleted of it stays so (`LeavesAlone`); a row without its account would be one
that `RowsHang` excludes.

*Fabrics.*  `StageTells` says which ids a row has at which stage, `BillTells` that
what is billed is what the ids stand for and the one thing made and not yet
written, `WorkTells` that a stage works on the row as it is.  This is kept until
one of the listed causes happens; those are the steps that may break it.  The ids
a cloud gives differ from those in use, which `NewId` promises as the cloud does.

*Consoles.*  What an end has seen is a prefix of what was sent only if the pieces
on their way follow it.  `Stream` puts the three places of a direction one behind
the other: they hold the numbers from 1 on.  Of the agent's direction this needs
that its socket is the session's (`UpTells`), for with the session what was held
is lost; of the proxy's it holds always, since a paused socket keeps what it has
(`DownTells`).  The proofs are of elements, not of concatenations, which the
provers handle badly.

*The log store.*  `NoGap` needs what a pass knows between its calls: that what is
under its watermark is in the store or excused (`FromTells`), and that its batch
has all that precedes one of its rows (`BatchTells`), which a query and a chunk
of the oldest keep (`OldestClosed`).  A row written under a stamp that exists is
late, and so needs no excuse (`LogKeeps`).  That the newest stamp exists
(`NewestIs`) is shown with the well-foundedness of the numbers.

*Together.*  The parts share no state, so the conjunction of the invariants is
inductive in `MCSpec`, whose behaviours the run `Outposts` checks.

**`ChangeControlProofs`.**  `FourEyes` is about what was executed; `SomebodyStarted`
adds what is being executed or may be retried, `NothingUnasked` that a change
nobody asked for has no calls, and `NobodyHisOwn` that while the setting was never
off it is on and no requester is among the starters of a change whose checks could
read it.  For `OutcomeTold`, the one
call of an untroubled change knows what the row says until it executes, and what
it will write is true (`CallTells`).

*The feedback loop.*  `AdviceHonest` holds however evaluations overlap, which needs
- `FreshRight`: an evaluation wants exactly what the facts say, until they change;
- `ShownRight`: once such an evaluation has purged, nothing else is shown, and once
  it has filed its rows, or finished, all that breaks the policy is, unless another
  is between purging and filing; both until one of former facts writes (`Telling`);
- `AloneRight`: one that evaluates alone leaves each violation once;
- `ActsRight` and `MadeOnce`: who handles a proposal alone knows its status, and
  whether its change was made;
- `OneWaits`: what `generate()` let pass when it screened the keys waits for no
  answer when it publishes, nor is it dismissed.

**`AlertingProofs`.**  A pass decides in one step and acts in a later one, so none of
the promises in `OncePerCause` is inductive; `AlertingInv` says of each what is
known in between.
- *The pass* (`PassesTell`): what it has in hand fits where it is (`Placed`), and
  while nothing overlapped there is one pass (`OnePass`).
- *One open alert* (`OpenInv`): what a pass on its way to create a row found
  absent still is (`StillAbsent`).  A change of the world could come in between
  only for a monitor, and a monitor that is up has no open alert (`MonitorsQuiet`).
- *Told once* (`ToldInv`): the row a pass is to tell is untold and no other pass's;
  the event branch never tells the row of a threshold rule (`TellsOne`).
- *Once per transition* (`EventInv`): a thing is up when it changed an even number
  of times, so its changes tell how often it came to be as it was before the
  event of a rule (`Came`) and how often it left that (`Left`).  While the last
  pass remembers it as before the event, the rule has fired less often than the
  thing came; while the pass under way may fire it, less often than it left
  (`Counted`).
- *Each tier once* (`TierInv`): a tier that ran is marked on the row, or the pass
  that climbs the row has it among those it will mark (`RunsTell`); what it read of
  the rows still in its queue is what they hold (`ClimbTells`).

*The log of deliveries.*  An attempt is written from what was read before the send, so
nothing about the row follows from the row.  Of a message nobody interferes with,
one worker at most has it on its list; since then the channel has not taken it,
the row still says that it failed, and the attempts read are the row's (`Waits`,
`Sends`, `Writes`).

**`MonitorsProofs`.**  While no fault was spent and no checks overlapped there is
one check (`OneCheck`), its copy of the row is current, and the alerts are those
of the status except in the two places where a change of it has been written and
not yet told (`CheckKnows`, `Knows`).

*The feed.*  `FindingsHonest` speaks of findings nobody handles, so `FindInv` says
what a handler knows in between.
- *Declared load* (`JustInv`): a scan that began after the last declaration, and
  reads its windows, reads all of them; so it does from the copy of an earlier
  scan, unless a declaration overtook the query that filled that copy.
- *One alert, one finding* (`AlertsApart`): an alert is known by its number on
  behalf of one finding only, by its row, by the scan or by a review.
- *One handler* (`Minded`): a finding that was never handled by two at once, nor
  dropped half way, has one handler, which knows what its row and its alert say;
  one that nobody handles is as its verdict says.  Escalations and operators touch alerts that
  others have in hand; they neither tell one nor open it again.
- *No alert without a finding* (`NoneLost`), until something was dropped.

*Uptime.*  A pass writes a row in one step and remembers it in the next, so what is
remembered is the newest row only when no pass is between the two (or nothing is,
of a device the priming missed).  `UptimeInv`
says what one between them knows: its verdict is the newest row's, unless two
passes wrote against each other (`muddled`), which the code allows.  A restart
ends all of them, and the next pass reads the newest row first.

*Declared load.*  `inWindow` decides by cases, on this hour of today and of
yesterday; the property is that a span opens on each declared day and lasts to the
next closing hour.  `WithinADay` says when less than a day has passed since an
hour of a day of the week, for any number of hours and days; from it the cases
are the spans (`WindowsHold`).  `OnlyWhatLasts` is about the behaviour detector:
the run of deviations the code counts from the end of a series is long enough
exactly when each of the last samples deviates.

**Model-checked only.**  All liveness, which this prover does not treat; and
`UptimeSound` and `AnswersSound`: the reports of `Uptime` and the other answers of
`Detectors` are sums, folds, medians of sorted and filters of given sequences, and
what those return needs induction over data, which is out of this prover's reach.

## 5. Where the code and its documents disagree

Each was met as a counterexample, or while translating, and the properties above
carry the condition that excludes it.

Remote support:

- "terminal is forever" (`remote/consent.ts:145`): of two overlapping `apply()`
  calls the one that read first writes last (`remote.service.ts:119`); a declined
  or ended session may become active again.
- "Let exactly one in" (`remote.service.ts:377-378`): two first frames both find
  no claim; the tray then overwrites that of the console (`:390`).
- `apply()` drops the picture, the claim and the input of a session that ends
  (`remote.service.ts:127`), but a frame or an event that was let in before an
  await is stored after it (`:369-393`, `:519-529`) and stays in memory.
- Two `setRecording()` that overlap (`remote.service.ts:477-498`) leave the flag
  other than the recorder: each waits for the encoder between look and write.
- "Resuming opens a new part" (`remote.service.ts:474-475`): after a restart, off
  and on starts over at part 1 and overwrites it (`:483`).
- "finalise the last part" (`recorder.ts:256`): a roll in flight at `stop()`
  spawns an encoder nobody closes (`:201`).
- An encoder's error deletes the recording's entry and leaves its timer running
  (`recorder.ts:99`): recording the session again then has two clocks.
- Retention deletes a file first and clears the row in a statement whose failure is
  swallowed (`remote.service.ts:204-205`, `:645-654`), and `stop()` writes the path
  likewise (`:131-132`): a row may lead to nothing for a while, or for good when the
  statement fails or a file goes while the path is being written; and footage whose
  path could not be written is not found from any row.
- "One SHARED session per host" (`remote.service.ts:258-280`): two requests that
  overlap both find none and both create one, and pass the limit the same way.
- "a genuinely abandoned session stops capturing" (`media.hub.ts:217-220`): if no
  agent is connected, the sweep drops the slot (`:71-75`), and with it the timer
  that was to end the session (`:86`); if that happens within the 45 seconds, only
  the session limit of the 5-second timer ends it.

Replication:

- "Never copy ONTO the node that is currently serving"
  (`replication.service.ts:394`): a promotion between the guard (`:399`) and the
  end of the copy makes the target the serving node.
- A copy that timed out, or whose caller a restart ended, goes on at the host
  (`database/ssh-deploy.ts:47`) and may land after a promotion.
- The exit code of `rsync` is lost behind a pipe (`replication.service.ts:494`): a
  copy that failed half way counts as a success.
- "so the drill cannot mutate the primary" (`replication.service.ts:975`): the
  promotion that ends a drill is a real one and reconciles over a primary that
  served all along (`:980`).
- "Every other promotion ... has no accumulated divergence"
  (`direction.ts:155-157`): no direction leads away from the tertiary; what was
  written there stays behind.

Approvals and catalog:

- "a DIFFERENT administrator must approve it" (`approvals.service.ts:104-105`): if
  the setting cannot be read the check is skipped (`:106`, `catalog.service.ts:87`),
  and a requester may approve his own change.
- Two approvals that overlap execute the request twice, and a rejection beside one
  is overwritten (`approvals.service.ts:110-114`).
- A destroy that failed half way puts back "applied" (`catalog.service.ts:108`),
  and a request that failed may have had its effect (`approvals.service.ts:143-152`),
  which a retry then repeats.
- A restart or a time-out while Terraform runs leaves the job "applying"
  (`catalog.service.ts:93`), and `destroy()` is all that leads out of it.

Agent, alerting, monitors, aiops:

- A decommissioned agent is told to stop, but its service has `Restart=always`:
  it starts again, polls, and is told to stop again, for ever.
- Acknowledging an alert that is resolved opens it again
  (`alerting.service.ts:215` sets the status whatever it was), beside one that
  was raised since.
- Two sweeps, or a sweep and the retry button, may send one delivery twice
  (`alerting.engine.ts:468`); two checks of a monitor may raise or resolve an alert
  on a status that has changed (`monitors.service.ts:138`).
- "external channels fire when - and only when - an operator confirms the
  detection" (`aiops.service.ts:7-9`, and `alerting.engine.ts:398-399`): the
  engine's escalations take any open alert, those of unconfirmed findings
  included, and may mail it or post it (`alerting.engine.ts:727-741`, `:762-772`).
- A failed `notifyExternal()` is logged and nothing tells the confirmation again
  (`aiops.service.ts:497`).
- Confirming a finding that was dismissed tells it outside, while its alert stays
  resolved.

Connections, fabric, log store:

- "resources whose owning cloud account was removed (orphans)"
  (`connections.service.ts:128`): the foreign key sets `cloudAccountId` to null when
  the account goes, and `notIn` (`:141`) never matches null, so such rows stay.
  What the statement can delete are the rows of an account that was created
  between its two statements.
- A removal that overlaps a synchronisation may leave an account without a
  connection, with its rows, which nothing takes away.
- "we insert a record here for ALL clouds/kinds" because discovery does not list
  them (`network.service.ts:539-540`): what discovery does not list is dropped as
  never confirmed after fifteen minutes (`connections.service.ts:132-136`).
- "never mid-provision or once up (those hold live cloud state)"
  (`fabric.service.ts:108`): an errored fabric may hold gateways too; after an
  edit and another arming it makes them anew on AWS, and the old ones are on no
  row (`:101`, `:128`).
- A tear-down does not look at `busy`, and clears the ids whatever the clouds
  refused (`fabric.service.ts:155-177`).
- "Pull new rows from each Postgres log table" (`database.service.ts:124`): the
  watermark has seconds, so once one second holds 20000 rows no later row is
  fetched; a SIEM event carries the time of its machine (`agent.service.ts:764`)
  and is never fetched when that is behind the watermark.

Uptime:

- "a gap shows up as unobserved time" (`uptime.service.ts:30-33`):
  `buildIntervals` carries the last state through the time the API was down, so
  the gap counts as that state.
- The row of today is computed to the end of today (`uptime.service.ts:175`), so
  the hours that have not passed count as the present state until the day is over.
- `slaMet` compares a percentage that was rounded first; and each piece of time is
  rounded to seconds before it is added (`uptime.ts:138`, `:186`, `:232`, `:242`,
  `:268`), so days, hours and outages need not sum to the summary.
- "so a restart does not re-write every device as "changed"" (`uptime.service.ts:138`):
  only the 5000 newest rows of all devices are read (`:140`), so a device whose last
  transition is older is written as changed.
- A transition that could not be stored is remembered as stored (`:155-156`), and
  two passes may store against each other.

Policies and proposals:

- "the lowest level the spike was actually observed at"
  (`optimization/rules.ts:178`): the threshold is the lowest row of the resource
  (`:171`), and a resource that averages high may have an idle row; the proposed
  rule then fires above an idle level.
- A policy removed during its evaluation leaves violations of no policy;
  evaluations that overlap double rows until the next one, and one that read former
  facts may write last (`policies.service.ts:151-190`): the rows of a policy that was
  disabled meanwhile come back, until the next evaluation.
- Proposals are derived from the 500 newest violations of all policies
  (`policies.service.ts:113-119`): a policy beyond them is not tightened.
- `apply()` reads a proposal as pending, makes the change and marks it: two
  clicks make two rules, and a restart in between leaves a change that is
  proposed again.  `generate()` beside an `apply()` raises the proposal again.
- Two resources of one name share the filter that drops a proposal for a workflow
  that exists.

## 6. Not modelled

- **Remote**: `agentPoll()`; byte formats of input and frames; quality tables,
  motion detection; chat and clipboard (passed on as they come).  Audit lines for
  switches are left out; those of the gate are in.
- **Recorder**: whether a part is empty.  `stop()` counts the parts that hold
  bytes, and the console numbers parts from 1 to that count, so an empty first
  part hides the last one (`remote.service.ts:545`); stating it needs file sizes.
- **Replication**: stamps (`lastOkAt` is stamped when a copy ends and by `p2t`
  and `s2t` as well, so the RPO computed from it may look too good), status and
  run history, DRBD (`block`) sets, enrolment and deletion, VPN profiles.  Writes
  that reach the secondary after the fail-back copy and before DNS is repointed
  are lost by design and not counted in `owed`.
- **Agent**: the ssh pull loop (I/O over the same rows), the pruning of stale
  guests, key rotation, the contents of reports.
- **Connections, fabric**: the CPU figures a synchronisation adds, the account's
  totals; networks, region checks and the link handed to the monitor.
- **Alerting, monitors**: the editing of rules, channels and workflows; channel
  protocols; probe protocols and traffic counters.
- **Uptime**: business hours, the live view of one day (`deviceDays`), roll-ups
  that overlap one another (they recompute the same rows; passes overlap them).
- **aiops**: the ranking of causes and precision figures, which are real-valued
  weights; the fixed-threshold detector; the queries that fill the series.
- **Database clusters, backups**: sequences of remote shell
  commands over an inventory row.  What goes wrong happens in PostgreSQL or in
  the shell on the host, neither of which the code reads back.
- **auth, access, integration**: one decision per request, and cryptography.
- **Connectors, inventory, finops, compliance, network, security, reports,
  dashboards, most of the console**: translations of vendor answers, read-only
  roll-ups, forms and layout.  They are most of the repository's lines and keep
  no state whose steps depend on each other, which is why the map covers a small
  share of all lines though it covers the parts that do.

## 7. The plan

Done: remote sessions with recorder, hub and file transfer; replication; agent
channel, tunnel, inventory, fabric and log store; approvals and catalog; alerting with delivery; monitors; uptime; the
detectors, the feed and the feedback loop of aiops, policies and optimization.

Proved: every safety property and action property of the runs but two, for all
values of the constants: remote sessions (which implement their contract until
two verdicts on one session meet), recorder, hub and file transfer,
replication, the five outposts, approvals, alerting with its delivery log,
monitors, what uptime remembers, declared load, the feed of findings, and policies
with their proposals.

Left to TLC: liveness, and the two properties that need induction over data
(section 4).

## 8. Running it

```
tlc -config RemoteSwitches.cfg MCRemoteSession
tlc -config Insights.cfg MCInsights
tlc -config Replication.cfg Replication
tlapm RemoteSessionProofs.tla
```

The module of each configuration is in `PROJECT.json` under `runs`.  Each run
takes between a few seconds and three minutes on two cores.
