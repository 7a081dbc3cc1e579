# NOBA Command Center in TLA+

NOBA is a monitoring and automation server (`src/share/noba-web/server`,
FastAPI, some thirty-five thousand lines of Python), an agent that runs on
every managed host (`src/share/noba-agent`), a Vue frontend and a set of shell
helpers. The server decides by itself to restart services, run jobs and send
commands to agents, from many threads at once. This directory specifies that
decision-making core and the services around it, model-checks them with TLC
and proves theorems about them with TLAPS. Paths below are relative to
`src/share/noba-web/server` unless they start with `src/`.

## The system

| Component | State | Talks to | What makes it hard | What makes it correct |
|---|---|---|---|---|
| Heal pipeline `healing/__init__.py`, `planner.py`, `executor.py`, `correlation.py`, `governor.py` | correlation windows, active escalations, alerts and heals, a semaphore, trust states, ledger | alerts, agent reports, scheduler; remediation, database | event threads and heal threads meet in four tables with a lock each; a heal starts its successor from its own thread; any database call may raise | one owner per escalation, steps within the chain, permits returned, tables cleaned up |
| Job runner `runner.py`, `db/automations.py` | slots, `job_runs` rows, threads, processes, timers | scheduler, workflows, alerts, remediation, routers | timer, cancel, end of process and shutdown race without a lock; crash and restart | processes bounded, outcomes true and final, slots returned |
| Approval queue `db/automations.py`, `routers/automations.py`, `scheduler.py` | rows with status, deadline, result and workflow context | pipeline, workflows, remediation | two deciders and a deadline; a crash between execution and result | executed as decided, decided once |
| Workflow engine `workflow_engine.py` | callbacks of jobs, visited sets, saved contexts | job runner, approval queue | a full pool, joins, cycles, gates saved in two writes | gates are passed by decision only; workflows end |
| Agent command channel `agent_store.py`, `routers/agents.py`, `src/share/noba-agent/__main__.py` | pending and delivered commands, results, history, connections | routers, agents | two ways to an agent; lost, late and repeated reports; stale connections | executed at most once, results real, issued is executed |
| Agent heal runtime `src/share/noba-agent/healing.py` | policy, cooldowns, reports | agent's main loop, ledger | lost and late reports | a heal is in the ledger once |
| File transfers, log streams, remote desktop `routers/agent_deploy.py`, `agent_commands.py`, `agent_rdp.py`, `src/share/noba-agent/commands.py`, `rdp.py` | chunks, buffers and cursors, viewers and capture threads | agents, browsers | retries after lost answers, caps and flushes, both ends with their own idea of the connection | whole files, lines in order, viewers served and the capture stopped |
| Maintenance windows `healing/maintenance.py` | rows and a cache of 30 s | pipeline | refreshes race one another, nothing invalidates | answers are no older than the cache's time |
| Scheduler and triggers `scheduler.py` | ticks, feeds, watched paths, endpoint monitors | job runner, approvals, alerts | slow ticks, scans that fail, checks by hand | each minute once, new items start, alerts follow checks |
| Alerts `alerts.py` | cooldowns, windows | notifications, pipeline | several collectors at once | alerts a cooldown apart |
| Metrics `db/metrics.py` | raw rows and rollups | collector | gaps, restarts, pruning | history is whole |
| Dependency graph `healing/dependency_graph.py` | nodes | pipeline | targets without nodes, cycles | the root explains the failures |
| Plugins `plugins.py` | objects, threads, an event | collector | reload while threads are busy | enabled plugins are collected |
| Authentication `auth.py`, `db/tokens.py` | two dictionaries, a table, failed logins | every router | threads race logouts, cleanups, restarts | good tokens are not refused, lockouts deserved |
| Backup `src/libexec/backup-to-nas.sh` | a lock, snapshots | cron | signals and overlapping starts | backups alone, the newest kept |
| Governor's promotions, second factors, terminals, settings, collector, integrations, other routers, frontend | see "Not modelled" | | | |

`PROJECT.json` lists the components with their files, and under "hazards" the
lines where they can go wrong in a way a test would hardly reach.

**How they interact.** A heal event reaches the pipeline from alert rules,
endpoint monitors or an agent's report; it is suppressed by a maintenance
window or a failing root, executed by a heal thread, or queued as an approval.
Approvals are decided by operators or, past a deadline, by the scheduler. A
workflow's gate is an approval whose row holds what comes next; its steps are
jobs of the runner. Commands to agents go through the command channel, which
also carries the reports that bring streams, results and heals back.

## Modules

| Module | Models | Proofs |
|---|---|---|
| `EscalationLease` | what the pipeline promises of one correlation key | |
| `JobContract` | what the runner promises whoever submits a job | |
| `ApprovalContract` | what the queue promises of a row | |
| `CommandDelivery` | what the channel promises whoever gives an agent a command | |
| `HealPipeline` | the pipeline; implements `EscalationLease` | `HealPipelineProofs` |
| `JobRunner` | the runner and the `job_runs` rows; implements `JobContract` | `JobRunnerProofs` |
| `Approvals` | the approval queue, its deciders and executions; implements `ApprovalContract` | `WorkflowProofs` |
| `Workflow` | extends `Approvals`: graphs, chains and fans over the queue | `WorkflowProofs` |
| `AgentChannel` | commands to one agent, by report and by WebSocket; implements `CommandDelivery` | `AgentChannelProofs` |
| `AgentHeal` | policy, heals and reports of an agent, and their ingestion | `AgentServicesProofs` |
| `Transfers` | upload of a file in chunks | `AgentServicesProofs` |
| `LogStreams` | journal, agent's buffer, server's list, browser's cursor | `AgentServicesProofs` |
| `RemoteDesktop` | viewers, connections, capture threads | `AgentServicesProofs` |
| `Maintenance` | windows, their cache, threads that ask | `WatchersProofs` |
| `Ticks` | minutes of the scheduler, cron fields against their meaning | `WatchersProofs` |
| `Feeds` | feeds and watched paths | `WatchersProofs` |
| `Endpoints` | endpoint monitors, their alerts, downtime | `WatchersProofs` |
| `Alerts` | evaluation of rules by several collectors | `WatchersProofs` |
| `Rollups` | samples, rows of one width, catching up, pruning | `ServicesProofs` |
| `RootCause` | walks of the dependency graph against its transitive closure | `ServicesProofs` |
| `Plugins` | objects, collecting threads, reload | `ServicesProofs` |
| `Sessions` | tokens; failed logins | `ServicesProofs` |
| `Backup` | lock, trap, snapshots | `ServicesProofs` |
| `Services` | composes the fourteen modules above, from `AgentHeal` on | `ServicesProofs` |
| `Extremes` | least and greatest elements of sets of numbers | lemmas for the others |
| `MCHealPipeline`, `MCJobRunner`, `MCAgent`, `MCFlow`, `MCServices` | instances for TLC | |

In every module an action is the code between two points where somebody else
can act: a lock that is released, an `await`, a call of the database, a message
that is sent, a sleep. A handler on the event loop without an `await` is one
action. The four abstract specifications know
no threads, messages or tables: the `INSTANCE` at the end of the module that
implements one says what of its state they see. Each variable's comment names the field it stands for, and the "map"
of `PROJECT.json` the lines of each definition. A definition that is named like
another and precedes it, and that no action uses (`LeftAfterDraining` before
`LeftInReports`, `KeepThreads` before `ForgetThreads`), is a plausible mistake
in that code; the "mutants" of `PROJECT.json` put it in the other's place, and
the property it is listed with must then fail.

**HealPipeline.** `Receive`, `Select`, `PickNothing`, `Defer`, `DeferRaises`,
`Execute` are the event thread; `Acquire`, `Drop`, `RunAndRecord`,
`CompletionRaises`, `Resolve`, `PickNext`, `PickNone`, `Untrack` and
`ReleasePermit` are the heal thread and its `on_complete`; `WindowElapses`,
`AlertExpires`, `FailureAges`, `SetTrust` and `Restart` are time, operators and
the process. Time is abstracted to the entry a later step removes; success
rates that make a step ineffective to a choice; maintenance, dependencies and
preflight to the early return. An exception in `on_complete`, above all the one
of a heal dropped for want of a permit (its outcome reads
`plan.request.target`, which `HealRequest` has not), leaves the planner's entry
behind: `stuck` records it, and the entry rejects its key until a restart.

**JobRunner.** `job[r].pc` is the place of `submit` or of `_run` in the run's
thread, `kind`, `proc` and `held` what `run_fn` returned, its process, and
whether a descendant keeps the output open that the thread reads; `flagging` and `killing` are the
local state of `cancel`, `cancel_group` and `shutdown`. A kill ends a process
of the server's user, has no effect on one started through sudo, and ends a
group only as far as SIGTERM does. `JobRaises` is the `except Exception` of
`_run` for what is raised after `run_fn` has returned a process (no thread for
the timer, an output that cannot be read, a process that is not gone after
SIGKILL): the run is recorded as failed and its slot given back, while the
process runs on with nobody to look after it. `raised` marks such a run, its
work is "dropped" in `JobContract`, and it is exempt from the bound and from
the promise that no process outlives its record. A new server starts with
`mark_stale_jobs`, which may fail.

**Approvals and Workflow.** A row is read by `DecideReads` and written by
`DecideWrites`, with the guard of the update between two deciders; the thread
that executes an approved action and the scheduler's pass execute first and
store the result after, with a crash, exception or failed write at each step.
A thread of a graph is a stack of nodes still to run, each with the set it
was reached with; a gate inserts its row (`RunGate`) before it saves what comes
next in it (`SaveContext`), and a decision resumes what was saved. What a job
does is `JobRunner`; here it is refused or it ends, which `JobEnds` justifies.

**AgentChannel.** The queue, what was delivered, results and history of one
host; the handlers of reports and sockets, one step between two awaits; the
agent's loop and its socket thread. Hosts do not share keys, so one is enough.

**The services** are described in the head of each module. Some paths that are
easily left out are actions of their own. In `Ticks`, a tick that finds a
maintenance window matches nothing (`quieted`), and one that raises may leave
schedules unmatched (`cut`). In `Feeds`, items are seen before they trigger, and
a trigger may start nothing (`missed`: the automation is gone, has no builder,
or the runner is full) or end its watcher's thread (`watchers`). In `AgentHeal`,
a heal is executed (`HealRuleNow`), looked at with fresh metrics, and only then
a report (`ReportHeal`); the look may raise (`VerifyRaises`), and the heal is
never reported. In `RemoteDesktop`, a viewer is registered before its
parameters are read and its browser is told, and a failure of either leaves it
registered (`ComeFails`, `ghosts`). What the services have in common: the
environment's faults (lost or late requests, restarts, failed writes) are steps
of their own, counted against a bound (`TransferFaults`, `StreamFaults`,
`HealFaults`, `SessionFaults`, ...), and what the code gives up on is recorded in
a history variable (`upset`, `dropped`, `late`, `forgotten`, `missed`, `ghosts`,
`gone`, `popped`), so that a property can say exactly when it holds.

## Runs

| Run | Shows |
|---|---|
| `heal_rules` | the safety properties of the pipeline, and that it implements `EscalationLease`: two rules on one target |
| `heal_duplicate` (violated) | two heals of one target run at once, against the comment on `_active_heals` |
| `heal_demoted` (violated) | a demoted rule goes on to its next step, against the guide |
| `job_rules` | the pool bounds the processes, `job_runs` tells what happened, and the runner implements `JobContract` |
| `job_cancel` (violated) | cancelling a finished HTTP request signals the server's own group |
| `job_timeout` (violated) | a sudo process outlives its timeout |
| `agent` | no command executed twice but by a WebSocket that dropped, none forgotten without a loss, and the channel implements `CommandDelivery` |
| `agent_requeue` (violated) | a command that was delivered, not confirmed and timed out is dropped, where the comments promise to queue it again |
| `flow` | the queue implements `ApprovalContract`; actions executed as decided, gates passed by decision only, approvals get results; workflows, jobs and escalations end |
| `services` | each service's properties, one service at a time |
| `services_rollup` (violated) | rows of the history that average a part of their interval |
| `services_backup` (violated) | two backups at once |

**Parts.** `Services` and `MCFlow` put several modules into one instance. The
services share no variable, so a behaviour of all of them interleaves
behaviours of each, and an invariant of one depends on its own steps only: it
is enough that in each behaviour one part, fixed at the start, steps while the
others stay. That such a behaviour is one of each part is a theorem,
`ServicesAreTheirParts`. The same holds of `JobRunner`, `Workflow` and
`HealPipeline` in `MCFlow`, as far as they are modelled: a workflow meets a job
only in that it is refused or ends, and the pipeline meets the queue in a row.
What really composes is composed: `Workflow` extends `Approvals`, and the
pipeline's rows are in the same queue.

**Bounds.**

- `heal_rules`: one target, two rules of three steps, a depth limit of two (so
  that the limit cuts the chain), two event threads, three heal threads, one
  permit. An event arrives at any point of an escalation, a successor waits
  for its predecessor's permit, a third heal is dropped, the breaker trips in
  between. Threads are reused when they have ended.
- `job_rules`: two runs, a pool of one, one API thread beside the shutdown: a
  slot is reused while the timer or a cancel of its last holder is still on
  its way; a family can do whatever a child can. A run id is used once, as in
  the database.
- `flow`: a graph with every type of node, a fan-out into a gate, and a cycle
  of an action, a delay and a condition, which the check of what was visited
  cuts (no path of this graph reaches the depth limit, and the mutant of
  `WorkflowEnds`, which relies on that limit, goes round for ever); a chain
  and a fan of three steps of which one has no automation, with one retry; a
  gate's row and one of the pipeline, one decider besides the scheduler, one
  fault; a single job of every kind; one rule of the pipeline with its full chain
  and one permit. Two deciders matter for one row only,
  since rows share nothing but the pass.
- `agent`: two commands, so that one can overtake or evict the other; one result
  kept and one command taken per answer, so that both limits are met; two
  connections, so that an old one ends after a new one opened; one fault of
  any kind. `agent_requeue` has one command and two faults, since the loss of
  an answer is one and ten minutes are another.
- `services`: each bound is the smallest at which the hazard can happen and,
  where it is cheap, one more: three chunks with three attempts and three
  faults; buffers of two lines for three printed; two viewers and two
  connections; a cache time of two within a clock of five, with two threads;
  four minutes of three seconds, seen every half second; cron fields of up to two
  items; intervals of three
  seconds over a clock that goes past retention; two heals of two
  rules; two processes of the backup in three starts, one snapshot kept; graphs of
  four targets with any dependencies of later on earlier ones and one back, so
  with and without cycles, registered in any order; three reloads; one token with two
  requests, which share it; failures over two windows. Monitors are one,
  because names of their own keep them apart; two of one name share alerts,
  which `Alone` in `Endpoints` excludes.

**Deadlock** is checked in the runs of the pipeline and the runner, where it
says little, since a restart is always possible, and in `agent`, whose loops go
round for ever; `flow` and `services` may really stop, when work or bounds are
used up.

**Fairness.** `HealPipeline!FairSpec`: threads that were started are scheduled,
remediation calls return (each has a timeout), and a waiting `acquire` with a
permit available succeeds or times out (`executor.py:86`).
`JobRunner!Fairness`: the job's thread and its timer are scheduled, and
`run_fn` returns; nothing is assumed of the process, which may never end, write
or close its output. `QueueFairness`: threads that have work do it, the
scheduler ticks again and again, maintenance windows close; strong fairness
for a pass because a window may open between its ticks. `WorkflowFairness`
adds that threads run, jobs end (`JobEnds`) and sleeps pass.
`ChannelFairness`: the agent's two threads and the server's handlers run.
`DesktopFairness`: the agent receives, notices a connection that is down, and
its capture threads look at their flag. Nothing is assumed of operators,
events, faults or restarts anywhere.

## Disagreements with the repository's own words

The seven runs that expect a violation; `PROJECT.json` quotes the lines.
`services_rollup` and `services_backup` are the two found in the services: a
server whose first rollup does not fall on a boundary gives every later row a
part of a bucket, and the trap of an instance that was refused the lock removes
the file of the lock that another one holds. `agent_requeue` is the one of the
channel: nothing is tracked "for retry". What confirms a delivery, besides, is
looked for in `cmd_results` (`routers/agents.py:325`), which an agent's report
does not have, so that each delivered command times out.

Others have no run of their own; the models follow the code, and the comments
of the properties say what they leave out:

- `scheduler.py:27` gives Sunday as "0=Sun or 7=Sun". The weekday is
  `isoweekday() % 7` and never 7: an item `7` matches no day, and of `1-7` Sunday
  is missing. `FieldsMatchTheirMeaning` speaks of values within the field's
  limits, in which 7 is not.
- `runner.py:165` promises that the timer kills a process that exceeds its time.
  An exception after the process was started (`runner.py:173-182`, caught at
  227) cancels the timer, or finds none, and frees the slot with the process
  running.
- `routers/agent_rdp.py:94-95`: "If the agent is not connected via WS yet, the
  rdp_start will arrive as soon as it connects (commands are queued)". Nothing
  queues it: without a connection line 101 sends nothing, and no later
  connection starts the capture. `ViewersAreServed` speaks of viewers announced
  on the connection the agent has.
- `routers/agent_rdp.py:162`: "Stop agent capture when the last viewer
  disconnects". A viewer whose start failed (lines 96-105, outside the
  `try`) stays among the subscribers, so that the last one that leaves is never
  the last. `CaptureStops` speaks of no registered viewer.
- `healing/maintenance.py:131` asks whoever creates, deletes or updates a window
  to call `invalidate_cache`. The endpoints write the rows
  (`routers/healing.py:296-340`) and do not: an answer may be as old as the cache,
  which is what `AnswersAreRecent` bounds.

Oddities met while reading, which no sentence of the repository contradicts
and which the models either reproduce or leave out:

- Uptime of agents omits timeouts (`scheduler.py:625`); a failed send takes the
  host's newer connection out of the registry; the buffer of a stopped stream
  is made anew by lines still being read.
- Maintenance: a window from YAML ignores `duration_minutes`
  (`alerts.py:406-412`).
- Scheduler: a tick longer than a minute passes minutes over; one that raises
  leaves the automations after the one that raised unmatched.
- Alerts: `first_trigger_at` of an escalation is never cleared, alerts of rules
  are never resolved, a manual check of an agent's monitor blocks the event
  loop and finds it down.
- Plugins: a busy old collector lives on with the new event; a plugin that was
  disabled at the start and is enabled later collects only after a reload.
- Governor: `suggested_action` is a dictionary that SQLite cannot bind
  (`scheduler.py:226`); the breaker raises a rule at observation to notify;
  promotion does not enforce the ceiling.
- Backup: the pattern of the latest backup never matches, so that none is
  incremental; a mismatch in verification is counted and the snapshot still
  promoted; a retention of zero days with nothing to keep prunes the new one;
  a signal after the last command leaves the partial copy with exit code 0.
- Settings: concurrent writers of the YAML file share one temporary file, and
  a reader may store an old value in the cache after a write cleared it.
- Users: a failed load of the file creates a first administrator and
  overwrites it (`auth.py:184-196`).
- Terminals: the clean-up sends `pty_close` for `term-<host>`
  (`routers/agent_terminal.py:171-176`) while browsers open
  `term-<host>-<timestamp>`, so that the shell of a browser that drops lives
  until the agent's connection fails; both the reader and `_pty_close` close
  the descriptor (`src/share/noba-agent/terminal.py:160-163, 244-247`).

## Proofs

All are for every value of the constants, under the `ASSUME` of the module.
Every safety property that a run checks is proved, and each of the four
refinements. So are all type invariants: those of the pipeline, the runner, the
workflows and the channel are therefore not among the runs' invariants, and
neither are `OutcomeIsFinal` and `DecidedOnce`, which the refinements imply, and
`AnswersAreReal`, of which they imply what callers and the history see; all three
have theorems of their own.

The assumptions are those of the modules: limits and bounds are naturals, most
of them positive; what is looked up is there (`Token # {}`, `Approval # {}`, a
graph's nodes refer to nodes, a chain of the pipeline has a step); threads, jobs,
commands and targets are finitely many; and the times of the code stand to one
another as they do there (a minute is longer than the shortest sleep, a row's
width divides how far back a rollup looks and is shorter than retention).

**HealPipelineProofs**: `TypeCorrect`, `OwnerCorrect`, `SingleOwnerCorrect`,
`StepsCorrect`, `TrackedCorrect`, `PermitsCorrect`, and `LeaseRefined`: every
behaviour of the pipeline is one of `EscalationLease`. The argument rests on
`IInv`: type correctness and, for every key, `KeyInv`, which says which threads
are in a position to release the key's entry, that there is at most one of
them, that there is one unless the entry is lost, and that its step is the
entry's. Neither "has an owner" nor "has one owner" is inductive alone:
`Select` keeps a second owner out only because an entry is there whenever an
owner is, and `Resolve` may delete the entry only because nobody else owns it.
`PermitsCorrect` counts: holders and permits left add up to `Slots`, and every
step changes both alike. The refinement maps an entry to a held lease, one
without an owner to a lost one.

**JobRunnerProofs**: `RunnerTypes`, `PoolIsBounded`, `RowIsAttended`,
`RecordIsTrue`, `RecordIsFinal`, `ContractIsKept`. The invariant has four parts beside
the types and the count of slots: `Slots` (a run has a slot exactly as long as
its thread is busy), `Process` (what can be alive at each place of the thread),
`Judged` (the verdict a thread has drawn is about what happened to its process)
and `Row` (what the row says at each place). `Process` exempts what a thread dropped when it
raised, and `Judged` says that its verdict stays "failed". `RecordIsTrue` is not inductive
without the last two: between the verdict and the update of the row a late
timer or cancel may still set its flag, and the row gets the verdict.
`ContractIsKept` maps a step to one of `JobContract` by the place of the
thread: the update of the row is `Settle` or, if it fails, `Lose`, the return
of the slot is `GiveBack`. That the work is over by then is in `Process`, that
the verdict has its cause in `Judged`, that a slot is given back once in
`Slots`; and a slot is taken within the limit because the contract counts the
same slots as the code.

**WorkflowProofs**: `QueueExecutesAsDecided`, `QueueDecidesOnce`,
`WorkflowStopsAtGates`, `PromiseIsKept`, `WorkflowTypesHold`. `QueueInv` says what each actor of the queue still
owes: a decider that has read a row as pending owes nothing, one that has
written it owes one execution, a thread that executes owes none. `FlowInv`
says which nodes a stack of a thread, or a saved context, may hold: as long as
no row of gate `g` was decided one way, none behind that branch, which is
closed under everything the engine does (going on, fan-out, joins, resumption).
`PromiseIsKept` needs the whole of `QueueInv`, since each of the three ways to
execute an action must find the row as `ApprovalContract` allows it. `ChainInv`
counts the attempts at each step of a chain, so that the types bound them.

**AgentChannelProofs**: `CommandsRunOnce`, `ResultsAreOfExecuted`,
`DeliveryRefined`, `ChannelTypesHold`. A command has
its place: the connection it was sent on, and at most one other (the pending
queue, a report's answer, the agent's batch, the queue drained into another
connection). Each place holds it once, and executions and places add up to one
(`CommandInPlace`), or to two when the connection is gone, since the server then
takes the command for lost and queues it again, while the agent may still read
what was sent. That is what the property concedes. The second theorem traces
results back to executions through every queue, row and caller. The refinement
takes both: `CommandDelivery` lets a command run while `CommandInPlace` says that
one is still owed, and answers a caller or completes a row where a result came
from an execution. What is in doubt stays so because a connection that was
closed is not opened again, and commands are never sent on one that is yet to be
opened.

**AgentServicesProofs**: `HealsAreLedgeredOnce`, `WatchersAreServed`,
`UploadsAreWhole`, `LinesComeInOrder`. A heal is being verified, kept by the
agent, in one report on its way, or in the ledger: the one that is verified is
the last and in none of the other places (`VerifiedIsApart`), and the agent
waits for one report at most (`OneIsAwaited`). Connections of the desktop are numbered:
nothing is registered or asked on one that is yet to come, so that what was
asked earlier is never taken for the present. A viewer whose start failed only
keeps the capture on. An undisturbed upload gathers
chunks up to the one the agent sends, or is assembled; then another attempt at
the last chunk, whose answer was lost, finds the earlier files gone and cannot
end well, unless it is the only chunk. Every place from the browser back to
the journal's reader holds lines in order and later ones than the places
before it; until a line is dropped, together they hold all of them.

**WatchersProofs**: `MinutesAreTicked` (a tick in a minute sleeps to the next
boundary, never past it, and a slow one, or one that raises, into a later minute
than it ended in), `FieldsAreMeant` (modular arithmetic of steps),
`NewItemsAreStarted` (what was tried is what was seen after the first round), `AlertsFollowTheVerdict`, `RowsSayWhatWasDown` and
`DowntimesAddUp`, `AlertsKeepTheCooldown`, `HeldRulesWereFired` and
`WindowsAreRecent`. For the downtime, the rows of an endpoint cover the seconds
the checker judged down, and no two that cover any begin together; the sum over
them is at least the number of those seconds, and equal if no row was inserted
while another was open. An answer about windows is recent because the cache is
as recent as its stamp, and also as the start of any refresh whose thread is
still to stamp it: of two refreshes that overlap the later stamp may come with
the earlier thread's windows. Alerts are apart because the time a cooldown
counts from is that of the rule's last alert, read and set under one lock.

**ServicesProofs**: `TokensSurvive`, `LockoutsAreDeserved`,
`LoadedPluginsAreCollected`, `NewestSnapshotsStay`, `NoHistoryIsLost`,
`RootsExplainMost`. The dictionaries of the sessions do not matter, since a look
that misses goes on to the table: a good token's row stays. Failures that were
dropped from the list are outside the window ever after, so that the count of
those within it is that of all failures. The plugins' event is set only between
two steps of a reload in which no thread starts, and no thread is tracked when
the new ones start. A backup prunes by a listing that may be old, but what it
lists as surplus has enough newer ones already and can only get more. Where a
row begins on a boundary so do all; between two rows no interval with samples
is left out. The walks of the dependency graph reach the least set that contains
the direct neighbours and is closed under them, which is also what the
transitive closure is.

**Types of the services.** Each service has a theorem (`TransferTypesHold`,
`StreamTypesHold`, ..., `BackupTypesHold`); `ServicesAreTheirParts` joins them to
`ServicesTypesHold`. Most types follow from the invariants above, action by
action. Five need more: no minute is matched twice
(the invariant of `MinutesAreTicked`, which `TickTypesHold` rests on); a path
is triggered for what was noted, and noted as it was written (`PathInOrder`, under
`FeedTypesHold`); a thread waits on an event that was made, one for
each reload (`PluginTypesHold`); each start of the backup makes at most one
lock file (`BackupTypesHold`); and the failures kept of an address are always
fewer than lock it, since the one that locks it clears them (`SessionTypesHold`).

**Extremes** has the least-number principle for sets, from the well-foundedness
of the naturals. It stands in for the induction schemes the prover cannot
instantiate: a claim about all numbers is proved by taking the least one it
fails for. In the same way the recursive functions (the walk of `RootCause`,
the sums of `Endpoints`) are unfolded: for every number of targets or rows there
is a table that satisfies the equation, since the least number without one
would have it. A recursive *operator* would be out of reach, so `VisitNode` and
`Walk` are recursive functions.

**Model-checked only.** Liveness (`EscalationEnds`, `JobEnds`, `WorkflowEnds`,
`AutoApprovedHasResult`, `IssuedIsExecuted`, `CaptureStops`): it rests on fairness,
hence on `ENABLED`, which is out of this prover's reach. The seven violations are
TLC's too.

## Plan

Done: the core (pipeline, runner), the queue and the workflows over it, the
agent channel, fourteen services, four abstract specifications with their
refinements, and proofs of every safety property of the runs and of all types.
What would come next, in this order:

1. the governor's promotions and ceilings, with the ledger's rates as inputs;
2. terminals: sessions of shells over the agent's connection;
3. the settings file with its cache, once its writers agree on a lock.

## Not modelled

The mapped lines are about a tenth of the code. What is left has little state
that two steps of it relate:

- integrations, collectors, most routers, the frontend and the shell helpers
  read other systems and present what they read;
- the handlers of `remediation.py` and the commands of the agent
  (`src/share/noba-agent/commands.py`) each make one call to the operating
  system: the models take them as "succeeds", "fails" or "raises";
- the database layer is SQLite behind one lock: a call is one step of the module
  that makes it, and may fail where the code catches the failure;
  `db/migrations.py` is called by nothing;
- passwords, the users file, second factors, external identity providers and
  API keys are checks of what a request carries;
- of modelled components: promotions and ceilings of the governor; escalation
  tiers of alerts and expiring certificates; the staged deadlines of
  `healing/approval_manager.py`, the heal watchdog and chaos tests, which
  nothing calls or starts; terminals and the payloads of commands; downloads
  to agents; configuration of plugins; encoding of frames; the text of a job's
  output and `prune_job_runs`.

Some paths of modelled handlers are left out too, and limit what the properties
say:

- endpoints: renaming a monitor while it is down (`monitoring.py:352-353`; its
  alerts are keyed by name) leaves the alert of the old name open, and deleting
  one (378-388) its rows: `AlertsFollowChecks` and `DowntimeIsCounted` are about
  monitors that keep their name;
- alerts: a restart of the server clears the cooldowns (`alerts.py:31`), after
  which an alert may come within a cooldown of the last; and a cooldown that
  was taken before its alert could not be written;
- metrics: other threads insert beside the collector, and `insert_metrics` reads
  the clock before it takes the lock (`db/metrics.py:25, 28`), so that a sample
  may arrive after its minute was rolled up; raw rows are pruned by age, whether
  or not they were rolled up, when no rollup has run for as long;
- commands: the parameters of a `file_push` may override the message's type
  (`routers/agent_deploy.py:707`), which the agent then ignores;
- workflows: `get_workflow_context` swallows a failed read
  (`db/automations.py:600-602`), and `routers/automations.py:855` then executes
  the approval's action instead of resuming the workflow;
- streams: a restart of the agent; plugins: a discovery that fails;
- sessions: a logout that is in flight while the token is looked up may win or
  lose, and transfers: a request handled after its retry, are conceded by the
  properties;
- the scheduler's clock is the one it sleeps by: a wall clock that is set, or a
  wait that returns early against it, is not modelled.

