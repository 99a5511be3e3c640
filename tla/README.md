# Teros, specified in TLA+

TLA+ models, TLC runs and TLAPS proofs for Teros: its conversation runtime, the
permissions its tools ask for, and the metering and billing of its turns
(`src/packages/core` and `src/packages/backend`).  Paths below are relative to
`src/packages/` unless they start with `src/`.

Teros lets people and schedulers talk to agents.  A message becomes a *prompt*
of its channel; the channel's single worker runs prompts as *turns*; a turn is a
loop of LLM calls and tool calls whose transcript is persisted part by part; a
tool that needs it waits for the user's permission; every turn reports what it
used, and the hours in use are billed to the user's subscription; a restart of
the backend replays what was interrupted.  Everything runs on one
Node.js event loop: code between two `await`s is atomic, and all the hard cases
come from what may happen at an `await`, from Mongo writes nobody awaits, from
timers, and from crashes.

## 1. Inventory

### 1.1 Conversation runtime (core)

| Component | Source | State | Operations | Hard behaviour | Correct when |
|---|---|---|---|---|---|
| ChannelWorker | `core/src/conversation/ChannelWorker.ts` | `queue`, `currentItem`, its AbortController, `lifecycle`, `runLoop`, idle timer, three promises per item | `enqueue`, `abort` soft/hard, `clearQueue`, `shutdown` drain/now, run loop, idle collection | enqueue in the loop's exit microtasks, throwing listeners, stop aimed at the wrong turn | every prompt settles exactly once, FIFO, one cohort at a time, closed for good |
| ChannelWorkerRegistry | `core/src/conversation/ChannelWorkerRegistry.ts` | map channel -> worker | `getOrCreate`, `get`, `close`, `closeAll`, `fatal` and idle listeners | a worker replaced while its turn still runs, a dead worker's timer | one turn per channel; the registry's worker is the live one and is heard |
| ConversationManager | `core/src/conversation/ConversationManager.ts` | none of its own; user messages with `queueState`, sessions | `prompt`, `interrupt`, `getHistory`, persistence of the user message | unordered unawaited `running`/`done` writes, crash between persist and enqueue | an unanswered prompt is replayed after a crash |
| TurnDriver, MessageProcessor, TurnController | `core/src/conversation/{TurnDriver,MessageProcessor,TurnController}.ts` | step counter, assistant message, `toolcalls` map, step-limit flags per channel, persisted parts | `runTurn`, LLM step, tool dispatch, abort/error paths, orphan synthesis, retry after recovery | a turn that outlives its deadline, abort between tool call and result, per-channel flags shared by turns | every persisted tool call gets a result; step limit is kept |
| TurnStateMachine, InterruptStrategy, TurnReconciler | same directory | phase of a turn; none; none | transitions; when to interrupt (two strategies: headless channels never interrupt a turn, the others at a step's end); closing of orphaned calls at boot | reconciliation racing a live turn | phases follow the table; orphans closed |
| SessionCompaction | `core/src/compaction/index.ts`, `TurnDriver.maybeCompact` | summary and boundary of the session | `shouldCompact`, `compact`, boundary resolution, migration | messages written while the summary is generated, crash in the middle of a migration | no message is lost between summary and tail |
| StreamPublisher, operationTimeout | `core/src/streaming/StreamPublisher.ts`, `core/src/util/operationTimeout.ts` | subscribers, timers | publish, stall watch, deadline | deadline racing the late answer | a waiter is answered once |
| MessageQueue, SessionLockManager | `core/src/queue/MessageQueue.ts`, `core/src/session/SessionLockManager.ts` | queue, locks | legacy API, no caller in the backend | | |

### 1.2 Backend services around a turn

| Component | Source | State | Operations | Hard behaviour | Correct when |
|---|---|---|---|---|---|
| ChannelRunningTracker | `backend/src/services/channel-running-tracker.ts` | `bound`, debounce timers; persisted `channels.running` | worker events, debounce | two unawaited writes of the flag | flag covers every turn and is cleared at rest |
| ResumeService | `backend/src/services/resume-service.ts` | none; reads `running` and `queueState` at boot | zombie cleanup, orphan reconciliation, replay, resume event | crash during recovery, double recovery | an interrupted turn continues once |
| MongoSessionStore, InMemorySessionStore | `backend/src/session/MongoSessionStore.ts`, `core/src/session/InMemorySessionStore.ts` | messages, parts, sessions, migrations | writes, LLM view, compaction update, migration | migration interrupted | the LLM view is the transcript after the boundary |
| MessageHandler, EventHandler, agent loop, streaming state | `backend/src/handlers/` | per-channel streaming state | websocket messages, scheduled events | fire-and-forget wake-ups | |
| PermissionManager, FormManager and their registries | `backend/src/handlers/message/` | pending approvals and forms, timers, persisted requests | ask, answer, cancel, expire | answer racing timeout, restart with a pending request | an approval is consumed once, by the turn that asked |
| Autoplay, Board | `backend/src/services/{autoplay,board}-service.ts` | tasks, runs, dependencies | assign, start, move, complete | two starts of a task, cycles | dependencies start before dependents |
| Scheduler | `backend/src/services/scheduler-service.ts` | reminders, recurring tasks, next run | poll, fire, reschedule | missed or double firing across restarts | each occurrence fires once |
| LeaderElection | `backend/src/services/leader-election.ts` | lease document | acquire, renew, release | expired leader still acting | one leader per lease |
| Billing (gate, hours tracker, reset, charge, reconciliation crons) | `backend/src/services/billing-*.ts`, `agent-hours-tracker.ts` | balances, cycles, charges | consume, reset, charge, reconcile | charge retried after a crash | a cycle is charged once |
| Agent usage (session service, event buffer, reconciler, applier, rollup) | `backend/src/services/{agent-usage-*,usage-event-buffer,dead-letter-file-writer}.ts` | usage sessions, event buffer, rollups | start, heartbeat, end, flush, reconcile, roll up | flush fails half way, buffer full | no usage lost or counted twice |
| McaManager, connection manager, container manager, tool executor, event subscriptions | `backend/src/services/mca-*.ts` | processes/containers, connections, pending calls | spawn, health, call, reconnect, stop | concurrent spawns, exit racing a call | one live process per instance; each call answered once |
| PubSub, board and channel subscriptions, rate limiter, auth sessions | `backend/src/services/{pubsub,board-subscription}-service.ts`, `rate-limiter.ts`, `auth/session-service.ts` | subscriptions, counters, tokens | subscribe, publish, refresh | subscriber gone meanwhile | |

### 1.3 Clients

The MCA SDK (`mca-sdk`: websocket client, HTTP server), the React Native app
(`app`: websocket transport with reconnect, stores) and the tool plug-ins
(`src/mcas`) talk to the backend over websockets and HTTP.

### 1.4 How they interact

```
 ws / scheduler / resume ──prompt──▶ ConversationManager ──persist──▶ SessionStore (Mongo)
                                           │ getOrCreate + enqueue          ▲  ▲
                                           ▼                                │  │ parts, results
                                   ChannelWorkerRegistry ─▶ ChannelWorker ─▶ TurnDriver ─▶ tools (MCA)
                                           │  worker events      │ item.started / idle / fatal
                                           ▼                     ▼
                                   ChannelRunningTracker ──setRunning──▶ channels.running
                                                                            │ at boot
                                                        ResumeService ◀─────┘

 tools ─ask─▶ PermissionManager ─▶ user ─answer─▶ PermissionManager ─▶ tool runs
                    │ status                          ▲ restored by every subscription
                    ▼                                 │
              channel_messages ───────────────────────┘

 turns, tools ─events─▶ UsageEventBuffer ─▶ store / dead letters ─▶ applier ─▶ usage sessions
                                                                        hourly rollup │
                          subscription ◀─ AgentHoursTracker ◀── rollup buckets ◀──────┘
                               ▲  closes, renews
                          BillingResetCron, change of plan
```

### 1.5 What is hard here

`PROJECT.json` lists the hazards at their lines.  In short: an `enqueue` that
comes in the microtasks in which a run loop exits; a worker replaced under the
same channel id while its predecessor still has a timer or a turn; two Mongo
updates of one field that nobody awaits; a crash between storing a prompt,
marking it and starting its turn; a turn rejected by its deadline that goes on
beside its successor; a Stop in the middle of a parallel tool dispatch; step
counters and limit flags that outlive the step they belong to; a request
answered while a subscription restores it; a usage event claimed and not
applied, buried, replayed or written ahead of those before it; a failed insertion
taken for duplicates; a billing run that dies between two writes and is taken up
by the next; a user who is left without a subscription and given one that has no
cursor.

More hazards were met in the survey than the modules planned for them; besides
those of `PROJECT.json`: an unreconcilable or zombie channel that loses its flag
with its prompts (`backend/src/services/resume-service.ts:171`), the calls of an
attempt rejected as too long (`core/src/conversation/TurnDriver.ts:1136`), two
schedulers on one free slot (`backend/src/services/autoplay-service.ts:292`), a
crash between moving a task and linking its channel
(`backend/src/services/autoplay-service.ts:511`), a cycle closed by two
insertions (`backend/src/services/board-service.ts:1341`), concurrent `moveTask`
(`backend/src/services/board-service.ts:712`), a migration cut short
(`backend/src/session/MongoSessionStore.ts:421`), a delta that comes after its
session's counters went to the parent
(`backend/src/services/agent-usage-event-applier.ts:241`), the roll-up job over a
moving projection (`backend/src/services/agent-usage-rollup-job.ts:267`), a charge
retried after a crash (`backend/src/services/billing-charge-cron.ts:402`), a
reminder fired and not rescheduled
(`backend/src/services/scheduler-service.ts:307`), concurrent spawns
(`backend/src/services/mca-manager.spawn.ts:61`), a summary kept in memory that was
not persisted (`core/src/conversation/TurnDriver.ts:1044`), the websocket client's
queue across reconnects (`app/src/services/transport/ws-transport.ts:134`).

## 2. Modules

| Module | Models | Composes |
|---|---|---|
| `PromptQueue` | abstract: what a prompt queue promises its callers | |
| `ChannelQueue` | abstract: what a channel promises, whichever workers serve it | |
| `ChannelWorker` | `core/src/conversation/ChannelWorker.ts` | refines `PromptQueue` |
| `WorkerRegistry` | `ChannelWorkerRegistry.ts` and `channel-running-tracker.ts` over the workers of one channel | extends `ChannelWorker`, refines `ChannelQueue` |
| `PromptRecovery` | a prompt from its storage to its `done` mark, across crashes: `ConversationManager.prompt`, the tracker's flag, `resume-service.ts` | the worker as an instance of `PromptQueue` |
| `TurnDriver` | the turns of a session over its stored tool calls: `TurnDriver.ts`, `MessageProcessor.ts`, `TurnReconciler.ts`, `operationTimeout.ts` | |
| `ToolApprovals` | the tool calls of one channel that ask for permission: `permission-manager.ts`, `pending-approvals-registry.ts`, `mca-tool-executor.ts` | |
| `UsageEvents` | the metering of turns: `usage-event-buffer.ts`, `agent-usage-event-applier.ts`, the reconciler, the replay script | |
| `BillingPeriod` | the subscriptions of one user: `agent-hours-tracker.ts`, `billing-reset-cron.ts`, `billing-subscription-ops.ts` | takes the hourly rollup of `UsageEvents`' sessions as given |
| `MC*` | the same modules for TLC; constants are in the `.cfg` files | |
| `ChannelWorkerProofs`, `WorkerRegistryProofs`, `PromptRecoveryProofs`, `TurnDriverProofs`, `ToolApprovalsProofs`, `UsageEventsProofs`, `BillingPeriodProofs` | theorems and proofs | extend the module they are about |

The chain from one module to the next: `ChannelWorker` is shown to implement
`PromptQueue`, and `PromptRecovery` uses `PromptQueue` in the worker's place;
`ChannelWorker` assumes that a turn ends, and `TurnDriver` shows that `runTurn`
settles whatever the model, the tools and the store do (`TurnReturns`).  A tool
call that waits in `ToolApprovals` is one of those that `TurnDriver` leaves at
work; the sessions `UsageEvents` projects are the source of the buckets that
`BillingPeriod` bills.

A definition whose comment begins with *Mutant* is a plausible bug of the
definition below it; no specification uses it.  Each property is paired in
`PROJECT.json` with one that makes it fail.

### 2.1 ChannelWorker

Atomicity is that of the event loop: the code between two `await`s, with the
synchronous listeners it calls, is one action.

| In the module | In the code |
|---|---|
| items `1..MaxItems`, numbered in order of arrival | `QueueItem`; a set of numbers stands for the FIFO array |
| `status[i]`, `started` | `completionPromise`, `startedPromise` |
| `queue`, `batch`, `current` | `this.queue`, the cohort of `processQueue`, `this.currentItem` |
| `abortReason` | the reason `currentItemAC` was aborted with |
| `lifecycle`, `idleTimer` | the fields of these names |
| `loop`: `none`, `turn`, `crashed`, `exiting` | `this.runLoop`: null; awaiting `runTurn`; rejected; resolved, its `.finally` not run yet |
| `Enqueue`, `Abort(kind)`, `ClearQueue`, `ShutdownDrain`, `ShutdownNow` | the public methods; `StartTurn`, `PurgeQueue`, `AbortCurrent` are the private ones they share |
| `StartTurn`: `CohortRuns` or `StartedListenerThrows` | the head of `processQueue`: the whole queue is spliced off, its starts are announced, and the turn begins; or a listener of `item.started` throws out of it, and the cohort is in no queue and unsettled (`stranded`, history) |
| `TurnSettles` | from the resolution of `runTurn` to the next `await` or the exit of the loop: settle the cohort, take the whole backlog |
| `SettledListenerThrows`, `LoopCatch` | a listener that throws out of `processQueue`; the loop's `catch`, which emits `fatal` |
| `LoopFinally`, `DrainEnds` | the `.finally` of the loop; `shutdown` after `await this.runLoop` |
| `CallerAborts` | a caller's `AbortSignal` |
| `IdleTimerSpent`, `IdleTimerCloses` | the idle timer finds work, or closes |

`EnqueueWhileExiting`, `SettledListenerMayThrow` and `StartedListenerMayThrow` are
environment constants: may a continuation of a settled prompt enqueue before the
`.finally` has run, and may a listener of `item.settled` or of `item.started`
throw?  The code defends against none of them.

### 2.2 WorkerRegistry

One channel; its successive workers are the set `Workers`.  `entry` is the map's
entry, `bound` the tracker's set, `wired` the workers whose events reach it,
`debounce` its timer, `flagWrites` the `setRunning` updates on their way,
`runningFlag` the stored flag.  `PromptExisting` and `PromptNew` are
`getOrCreate` followed by `enqueue`; `CloseEntry`, `OwnerClosesAll`,
`OwnerShutsWorker` and `IdleGc` the ways a worker goes; `TrackerSees`,
`WorkerFatal`, `WorkerLoopEnds`, `DebounceFires` what the tracker does with
`item.started`, `fatal`, `idle` and its timer.  `OwnerCalls` says which closing
calls the owner makes: the backend as deployed makes none, the idle collection
apart.  `HearsNext` is what `getOrCreate` and the tracker's bound set make of the
next worker: a closed one still in the map is disposed of first.  `leaked`
(history) is set while a `closeAll` or `drainAll` has left the tracker bound to
nothing.  `Backlog`, `Cohort`, `Answers` and `Orphaned` are what the channel shows of
its workers, the four variables of `ChannelQueue`: orphaned prompts are those of a
worker the registry has dropped.  `IdleGc` is guarded by `~debounce`, an assumption about time: the idle
timer runs for five minutes and the debounce, armed by the same event, for 250 ms.

### 2.3 PromptRecovery

Messages are numbered in the order of `time.created`.  `queueState` and
`runningFlag` are what Mongo holds; `marks` and `flagWrite` the updates sent and
not applied.  `StoreMessage`, `StoreParts`, `Submit` are the three stages of
`ConversationManager.prompt`; `TurnEnds` and `StopPurges` settle prompts and send
their marks; `MarkApplied` and `FlagApplied` are Mongo.  `Crash` keeps what is
stored and loses everything else.  The pass of `ResumeService` is
`FindRunning`, `Reconcile`, `ListPending`, `Replay`/`DropReplay`/`SkipReplay`,
`ReplayReturns`, `StartDispatch`, `LeaveToAutoplay`/`WakeAgent`/`FindFinished`,
`PassEnds`, with `ClearFlag` for each awaited update that clears a flag.

The marks of a message are sent from two continuations, of `awaitStart` and of
`awaitCompletion`, that nothing orders: they are applied in any order.  Other
awaited writes succeed, and listeners of `item.started` do not throw here
(`PromptQueue` with `MayLose = FALSE`).  `Hazards` chooses what the environment may do:
`purge`, `longOutage` (zombies), `reconcileFails`, `noAgent`, `replayThrows`,
`promptDuringPass`.  `copyOf` is history.

### 2.4 TurnDriver

`phase[t]` is where `runTurnInner` of turn `t` is: `top` (gate, limit,
transcript), `synthesize` (closing what is open), `call` (a new processor),
`stream`, `dispatch`, `ended`.  `returned` holds the turns whose `runTurn` has
settled: after `Deadline`, a turn is in it while its phase goes on, and a second
turn may be in flight.  `part[c]` is the stored state of a tool call; `toolCalls`
the processor's map; `todo` and `executing` the dispatch; `orphans` what
`synthesizeOrphans` (of a turn or of the boot pass, `Reconciler`) has read as
open and not closed yet; `seen` the open calls of the prompt of the step.
`incoming` holds the calls the model has delivered and `handleToolCall` has not
stored yet: three awaits lie between, and neither it nor the adapter's loop looks
at the signal again, so that a call of a turn past its deadline, or of a stream
given up as stalled, is stored later (`ModelAsks`, `HandleToolCall`).  `late` is
history: calls that another turn stored behind the last load of this one.
`ResultLost` and `ResultThrows` are a result that could not be written: that of a
tool that failed throws out of the dispatch.
`Parallel` is `toolExecutionMode`.  `Hazards`: `deadline`, `stall`, `tooLong`,
`lostWrites`, `reconcile`, `progressNotes`.  One assumption about the provider: a
stream whose signal is aborted delivers no more tool calls.  Which strategy a
channel has decides whether a waiting message ends the turn at a step's end;
the module lets a turn do either (`ContinueTurn`, `YieldToQueue`) at every step.

### 2.5 ToolApprovals

The calls of one channel, the registry of requests in memory, and the message of
each call in `channel_messages`, which is all that outlives the process.

| In the module | In the code |
|---|---|
| `row[r]` | `content.status` of the call's message (`waiting` is `pending_permission`) |
| `writes` | `updateToolStatus` calls that nobody awaits; they may be applied in any order |
| `registry[r]` | `PendingApprovalsRegistry`: absent, registered by a live turn, or restored, and by which subscription |
| `call[r]` | how far `enforcePermissionPolicy` is; `lost` with its process |
| `Ask`, `AskUnanchored`, `AskFails` | `onAskPermission`: registered while the status is written; denied for want of a message; denied because the write failed |
| `WriteApplied`, `WriteFails` | an update reaches Mongo or not; the one to `running` is awaited before the executor hears of the grant |
| `AnswerLive`, `AnswerRestored` | `handleResponse`, and "Allow always", which answers through it |
| `RunTool`, `CallEnds` | what follows the grant, and the last status of the message |
| `RedoRuns`, `RedoEnds` | `executeRestoredTool` |
| `RestoreReads`, `RestoreChecks`, `RestoreRegisters`, `RestoreDiscards`, `RestoreEnds` | `restorePendingApprovals`, one pass per subscription, with an `await` between the test of the registry and the registration |

`RunTool` may also run nothing: the turn may have been stopped, or access
revoked, while the user decided.  `CallEnds` may write nothing, as when the
streaming state of another turn tracks the call.  `RestoreDiscards` fails a request whose tool is gone; when that
cannot be written, the message goes on waiting for the next subscription, and the
pass no longer counts it as found.  Other awaited updates of a restored
request succeed, and its first status and its run are one step.  Left out: what
observers are sent, the counters of the navigation bar, resolved records and
their pruning, the automatic denial of headless channels, `clearAll` (nobody
calls it), the prompt that continues a conversation after a restored tool.

### 2.6 UsageEvents

An event is a type and a session; `script` chooses which events the sessions of
a behaviour emit, `MayEmit` in which order a turn can.  `job[w]` is what a writer
has in hand and at which of its awaits it is: `flush` (the loop of `flush()`),
each direct write of a saturated queue, and the replay script, which is a process
of its own and survives `Crash`.

| In the module | In the code |
|---|---|
| `EmitAfterShutdown`, `EmitSaturated`, `EmitQueued` | `emit`: refused, written directly or dropped, queued and perhaps flushed |
| `FlushTimer`, `Batch`, `JobDone` | the interval, `splice(0, maxBatchSize)`, the loop to the next batch |
| `Insert`, `InsertFails`, `Bury` | `bulkInsert` (unordered: a failure may have stored some), retries, the dead-letter file and its own failure |
| `InsertSwallowed` | the failure without write errors that `bulkInsert` takes for duplicates: some are stored, all are claimed |
| `Claim`, `Apply*`, `ApplyFails`, `Propagate`, `Count` | `applyBatch` event by event: `tryClaim`, the handler of its type, a swallowed failure, the second update of `onSessionEnded` and of `onToolEnded` (`FollowUp`) |
| `ReplayStarts`, `ReplayRenames`, `ReplayStops` | `scripts/replay-usage-deadletter.ts` |
| `ReconcileSession`, `ReconcileTool` | `AgentUsageReconciler` |
| `BeginShutdown`, `ShutdownTimeout`, `ProcessExit`, `Crash`, `Restart` | `shutdown`, its budget, and the process |

`accepted`, `lost`, `detoured` and `forgotten` are history: what this process
answers for, what even the dead-letter file refused, the sessions whose events did
not stay in order, and what was in no sink after an `InsertSwallowed` or after
`ReplayRenames` replaced an earlier file.  Names of files are abstracted: a
renaming finds no `.processed` file of that name, or replaces one.  A duplicate key is not an error in the code nor a case of its own
here, since a stored set does not tell one copy from two.  `Emit` is one event per type and
session; files do not rotate; the rebuild script, for maintenance with nothing
else running, and the hourly rollup, which only reads, are left out.

### 2.7 BillingPeriod

Hours are numbered; `used` tells `agentHoursUsed` apart by hour, so that counting
one twice can be seen.  The runs of the tracker, of the reset and of a change of
plan are three processes, each between two of its writes at a `step`, each with
the document it read; `TrackerDies`, `ResetDies`, `ChangeDies` end them there.

| In the module | In the code |
|---|---|
| `Rollup` | a bucket is written, perhaps after a later one |
| `TrackerReads`, `TrackerSums`, `TrackerLedgers`, `TrackerIncs` | `processAllSubscriptions`: projection, sum, ledger upsert, guarded `$inc` by user |
| `ResetFinds`, `ResetClaims`, `ResetRecords`, `ResetRenews`, `ResetCloses`, `ResetOpens`, `ClaimAges` | `processExpiredSubscriptions`: find, claim, invoice and snapshot, renewal or close and open; a claim older than five minutes may be taken again |
| `Schedule` | a cancellation or a deferred change noted or taken back |
| `Pause` | an administrator's `paused` or `past_due`, which nothing but that edit reads again; counted with the faults |
| `AdminOpens` | the edit of a user without an active subscription, or of the team the user is in, opens one first, without `lastBilledHourBucket` |
| `ChangeReads`, `ChangeCloses`, `ChangeOpens`, `ChangeReopens` | `changeUserPlanImmediate` with its compensation |

A cursor of 0 is a document without `lastBilledHourBucket`, which the tracker
bills from the epoch; the first subscription has none either
(`createDefaultSubscription`).  Assumed: the leases hold (one tracker, one reset
run), a run or a request ends within its hour (`Tick` only between runs), the
unique index of active subscriptions exists, and the administrator's handler
writes the subscription that is active at that moment (it reads and writes in two
steps).  Left out: prices, the charge, boosts, the 80% warning, the gate and the
reconciliation report.  Three variables are history: `late`, hours rolled up
behind a cursor; `revived`, subscriptions reopened under a reset; `again`, hours
some cursor had passed when a subscription behind them became active, because it
has no cursor or because a failed change reopened it.

## 3. Runs

| Run | Asks | Bounds |
|---|---|---|
| `worker_any` | with enqueues in the exit microtasks and throwing listeners: no prompt duplicated or overtaken, none lost but to a listener of `item.started`, no stop meant for another turn, closed for good, refinement of `PromptQueue` | 2 workers, 3 items; 1.2M states |
| `registry_owned` | without these: every backlog has a turn ahead of it, every prompt settles, a drain ends and leaves nothing, and the worker that replaces a closed one is heard, whatever the owner closes | 2 workers, 3 items, all owner calls; 44k |
| `registry_deployed` | as deployed: one turn per channel, in the worker the registry knows; the flag covers turns and is cleared at rest; idle collection spares work; successive workers are one `ChannelQueue` | 3 workers, 3 items; 642k |
| `recovery_quiet` | users wait for the pass, every channel has an agent: what a worker holds is what a pass would find, replays in order, none forgotten; with purges | 2 channels (one a board task's), 2 prompts, 6 messages, 1 crash; 518k |
| `recovery_any` | with every hazard: the pass ends, also when a second crash cuts it off | 1 channel, 1 prompt, 7 messages, 2 crashes; 50k |
| `turn_any` | with every hazard: no open call in a prompt of the worker's turn but one stored behind its load; every turn returns | 2 turns, 2 calls, 1 left open by a crash, limit 1, parallel; 740k |
| `turn_alone` | stops and progress notes only: tools at work are open, blocked exactly past the limit, steps end closed, results kept | 2 turns, 4 calls, 1 left open, limit 1, sequential; 646k |
| `approvals_any` | answers of every kind between the steps of two restoring passes, with a fault: no run without its own grant, an executor waits exactly while an answer can reach it, a pass makes all a crash left answerable | 2 calls, 2 subscriptions, 1 crash or failed write, symmetry of both; 3.0M |
| `usage_any` | saturation, failures, replays, reconciler, shutdown, crash and restart: counted once, nothing vanishes unreported and a clean exit keeps all, but for the two holes of section 5, statuses follow the events, closed for good, the queue drains | a turn and one it delegates to, three choices of events, batch 2, queue 3, 2 attempts, 1 direct write at a time, 1 fault, or 4 for a turn alone; 1.0M |
| `billing_any` | late rollups, changes of plan, cancellations, pauses, subscriptions without a cursor, a death between any two writes: billed once, hours kept, ledger covers, periods end | 2 subscriptions, 3 hours, month 1, day 1, 1 fault; 1.2M |
| `turn_header_reused`, `approvals_twice` | the disagreements of section 6 | as small as their counterexamples |

Type invariants are theorems (section 4) and not properties of a run.

Why the bounds are enough.  Three items are the least that give a cohort of two
behind a turn, and a fourth prompt adds no new relation to them (a cohort is
always the whole backlog).  Three workers of a channel are the entry, the one it
replaced and the one before.  Seven messages leave room for a prompt, its replay,
the wake-up and the same again after a second crash.  Two turns are a turn and
the one whose deadline it outlived; with a limit of one step, two calls reach a
blocked step, and four a blocked step, a reset and another turn.  Two calls and
two subscriptions are the least that give one request two restores and one pass
two requests; `RestoreCovers` speaks of a process that finds what another left,
which one crash provides.  A queue of three holds more than a batch and is full
while a batch is in flight; one fault reaches the retry, the dead letters (a
batch of a shutdown has one attempt, and so has a direct write) and the replay
of what was stored in part; with four, the one turn alone goes on to a replay whose
insertion fails and a second file renamed over the first.  Three hours give a month
of one three ends in a row, and a tracker that comes late a batch of several hours,
some of them of an earlier period; two subscriptions give one change of plan.  The
safety properties were also checked with four hours and a month of two (2.3M
states), and the inductive invariant of the proofs with three subscriptions and a
month of two (5.1M states).
Deadlock is not checked where a behaviour ends when its bounds are used up; a
conversation at rest is also a legal state of the program.

### Fairness

* `ChannelWorker!FairSpec`, `RegistryFairSpec`: `WF` on a worker's loop steps.
  Microtasks always run, and `runTurn` settles because it is raced against
  `turnDeadlineMs`; `TurnReturns` checks the latter.  In the registry also the
  debounce timer and Mongo's answers.  Callers, owners and stops are not fair.
* `PromptRecovery!FairSpec`: `WF` on the pass, ends of turns, timers, the
  submission of a stored prompt and applied updates; none on prompts and crashes.
* `TurnDriver!FairSpec`: only `WF(StartTurn)` and `WF(Deadline(t))`.  Nothing is
  assumed of the model, the tools or the store: that they may hang is the reason
  for the deadline.
* `UsageEvents!FairSpec`: `WF` on the interval and on the steps of the flush
  loop, whose Mongo operations answer or throw; none on turns, direct writes, the
  replay, the reconciler, shutdown or restart.
* `BillingPeriod!FairSpec`: `WF` on the reset's steps, which run on its timer, and
  on the ageing of some claim, which is the clock's; none on the tracker or requests.
* `ToolApprovals` has safety only: a user may never answer.

## 4. Proofs

TLAPS checks the theorems for every value of the constants allowed by the
modules' `ASSUME`s.  Where a theorem needs a quiet environment, that is a
hypothesis about a constant, stated in the theorem.

**`ChannelWorkerProofs`.**  `TypeOK` and `ItemsAccounted` are not inductive: a
fresh id must be fresh (`IdsInOrder`: an item is new exactly if its number is
greater than the last), and a turn must belong to a loop (`TurnOwnsLoop`).  `IInv`
is `TypeOK`, `IdsInOrder`, `ItemsAccounted`, `StartedIffLeftQueue`,
`NoOvertaking`, `TurnOwnsLoop`, with one lemma per action; it needs no assumption
on the environment.  What a throwing listener strands is part of it: pending, in no
queue and no cohort, and there for good.  From it follow `TypeCorrect`, `PromptsAccounted`,
`StartsResolve`, `Fifo`, `ShutdownIsFinal` and `Refinement`: every step maps to a
step of `PromptQueue` or a stutter (a purge is `Drop`, the end of a turn is
`Finish` with the backlog as the next cohort, or with none; a cohort stranded on
its way into the turn is in `lost`).  With `Quiet` (no
enqueue in the exit microtasks, no throwing listener), `QuietInv` adds that a
backlog has a turn ahead of it and that a shut-down worker has no queue:
`NoLostWakeup`, `ShutdownSettlesAll`.  `NewTurnsAreUnaborted` needs only the types.

**`WorkerRegistryProofs`.**  Hypothesis `Deployed`: the owner makes none of its
closing calls, so the idle timer alone closes a worker.  A turn outside the
registry would need a worker that lost its entry and can still start one.
`DropoutIsOver` rules it out: such a worker was collected and is closed, or its
loop crashed, and then the item it was at is never cleared, so that its own idle
timer does not find it at rest (`CollectedIsEntry`).  `RInv` joins this to the
worker's `IInv` and to what the tracker hears, and gives `OneTurnPerChannel`,
`RegistryTypeCorrect` and `CollectionIsHarmless`, with enqueues in
the exit microtasks and throwing listeners.  `TrackerHears` needs no hypothesis:
whatever the owner closes, the tracker is bound exactly while there is an entry,
and hears it, unless a `closeAll` has left it bound (`Announced`).  The flag needs in addition
`WritesInOrder`: the last update sent is right for a turn (`Marked`), and a mark
left at the end of one has its clearing ahead of it, in the debounce or under way
(`Cleared`).  Results: `TurnsAreMarked`, `RestIsCleared`.

`ChannelRefinement`: as deployed, the workers that serve a channel one after the
other are one `ChannelQueue`.  By `RInv` only the registry's worker has a cohort,
so the channel's backlog and cohort are that worker's (`ServedShows`), or empty
(`VacantShows`).  `ChannelInv` adds that a worker not made yet holds nothing, so
that a replacement starts with the new prompt alone, and that only a throwing
listener crashes a loop.  A prompt is `Accept` or `AcceptAndStart`, the end of a
turn `Finish`, a stop `Drop`; `WorkerFatal` is `Lose`, between two turns, and idle
collection a stutter.  That two cohorts never overlap and that a lost prompt is
never answered later are what the abstract steps say; no step of `ChannelQueue`
other than `Lose`, and a cohort that never begins, orphans a prompt, and either
needs a listener that throws.

**`PromptRecoveryProofs`.**  That a held prompt is open is lost if the pass marks
a message done that this process holds.  So the invariant follows a message
through its life: unstored messages are nowhere, a submitted one is pending and
nobody else's, a held one is open, in its own channel and without a done mark
under way, and the pass's list is disjoint from all of them, because until it
lists the process has no prompts of its own (`PassBeginsAlone`).  This is where
"users wait for the pass" is needed.  `TypeCorrect` does not need it.

A second invariant, `PInv`, says what the pass knows of the process.  A channel's
flag is cleared beside the worker's own writes, so that the pass will look at it
rests on two facts:
the last update sent for a channel with a turn is that it runs (`FlagStands`), and
a flag the pass is about to clear is that of a channel without work
(`ClearIsFree`).  The latter holds because while messages are replayed the process
works on nothing but the copies (`WorkIsReplay`), and the list of flags to clear is
started on only when no copy is left.  Both together are `CrashLosesNoPrompt`: what
a worker holds is open, in a channel whose flag is stored or being set.
`ReplaysAreOrdered` adds that a copy is
older, by its original, than what its channel has left to replay (`ReplayIsNext`).
`NobodyForgotten` follows an open message of a recovered channel from the listing
on (`OpenIsSeen`): it is listed, then stands behind a copy under way, and then has
a settled copy (`SettledIsOver`), unless this process works on it itself or has
settled it, whichever of its two marks came last.  It needs
that no channel has lost its agent; what happens then is in section 5.

**`TurnDriverProofs`.**  `First` is a `CHOOSE`; `FirstIn` proves that a non-empty
set of calls has a least one, from the well-foundedness of inclusion on finite
sets.  Three invariants, each on top of the one before:

* `IInv`, with every hazard: turns begin in order, each when the one before has
  returned; a turn that has returned and goes on has an aborted signal; what is
  open while the worker's turn closes orphans is among its orphans, or was stored
  by another turn behind its load (`OpenIsOrphan`).  Result: `PromptsAreClosed`.
  Where no turn is given up with work under way, nothing is stored that late
  (`NoneLate`), and the model is shown no open call at all: `NoOpenCallIsShown`.
* `LInv`, without deadlines: at most one turn is in flight, and the session's
  flag stands as the step counter says at each phase.  Result: `LimitIsExact`.
* `QInv`, with nothing but stops and progress notes: at each phase the open calls
  of the transcript are known (none; the processor's map; what the dispatch has
  still to take up together with what is at work).  Results:
  `RunningToolsAreOpen`, `StepsLeaveNothingOpen`, `ResultsAreKept`, in both
  execution modes, with any number of turns, calls and steps.

**`ToolApprovalsProofs`.**  `IInv` follows a grant from the click to the run
(`GrantHeld`: whatever is on its way to run a tool was granted), and pins the two
views of a waiting call together (`WaiterIsRegistered`).  The latter is inductive
only because a restoring pass cannot register over a live request between its
test and its registration: what it holds was waiting when it read, so its call
was asked before and cannot be asked again (`NewUntouched`, `CheckStands`).
`PassCovers` says of each request a pass found that it is answerable, still on
its list, or at hand and found unregistered; `CoveredStays`, that nothing takes
an answerable request back to silence.  Results, for any calls, subscriptions
and number of faults: `GrantedOnly`, `WaitersReachable`, `RestoreIsComplete`.

**`UsageEventsProofs`.**  Four invariants over `TInv` (types, and writers at work
hold events).  `CountInv`: at most one writer handles an event past its claim
(`OneHandler`), and a counter of a session is zero, or one with its event
claimed and no longer in hand.  `KeepInv`: what a writer has past the insertion is stored, and
what the buffer accepted is in hand, durable, lost or forgotten; `forgotten` grows
only by the two steps it is defined by, so that every other is shown to keep what
it takes out of a sink or a queue.  `ExitInv`: a direct write
holds nothing but transitions of a session that left the order
(`DirectIsCritical`), and a shutdown that has flushed has an empty queue and an
idle loop, so that of what was accepted nothing else is in memory.  `OrderParts`
looks at what the loop has in hand and what is queued behind it as one pipe: its
events are in the order they were emitted (`PipeInOrder`), a claimed event has no
event before it left in the pipe (`ClaimsInOrder`), and no session has an event
claimed or piped without its start (`StartFirst`).  A step of the loop, a shutdown
and a crash only shorten the pipe (`PipeKept`); only `EmitQueued` makes it longer,
and there the start of a live session is known to be claimed or piped
(`LiveReach`).  Any other writer works for sessions that have left the order
(`OthersDetoured`), so a status in order is how far the loop has got
(`StatusIsProgress`).  The sequence lemmas (`RangeOfPieces`, `TailOfJoin`,
`OrderOfTail`, `OrderOfAppend`) say that a batch and the rest of the queue share
the queue's events without loss and in order.  Results, for any sessions, parents,
scripts, writers, batch and queue sizes and faults: `EachIsCountedOnce`,
`NoEventVanishes`, `ClosedStays`, `CleanExitLosesNothing`, `StatusesFollow`.

**`BillingPeriodProofs`.**  At most one subscription is active (`OneActive`), and its
cursor is at or past every other's (`ActiveLeads`), but for the hours in `again`:
a subscription that becomes active behind others puts there what it is behind.  A
period's hours are not past its subscription's cursor (`Windows`), and the batch of
a run starts at the cursor it read, so that whichever subscription the guarded
update hits, the one read or one opened since, has not been billed for it
(`BatchIsNew`); a claim's copy is contained in the document it will reset
(`ClaimHolds`).  With these `BilledOnce` is inductive itself: `HoursBilledOnce`.
`LedgerExplains` adds `LedgerLeads`: an entry starts where the cursor once was, and
the one of the run under way reaches back to the cursor it read, also if an earlier
run wrote it; and `OthersNew`: what may become active in the middle of a run or a
change, other than what was read, has a cursor of this hour or none.
`HoursAreKept` needs that a batch misses no hour the cursor will pass
(`BatchIsWhole`), and that the tracker cannot reach a period that a reset has
claimed or a snapshot has closed (`ClaimStands`, `SnapshotStands`), so that what a
renewal clears is what the snapshot has; periods move forward (`PeriodsAdvance`),
so that the snapshot of one is not taken for that of the next.
Any number of subscriptions, hours, pauses and deaths, any month.

**Only model-checked.**  All liveness (`EveryPromptSettles`, `DrainCompletes`,
`RecoveryEnds`, `TurnReturns`, `QueueDrains`, `PeriodsEnd`): fairness and
`ENABLED` are outside the prover.

## 5. What the code does not promise

Met while modelling; the models allow all of it, and the properties that would
forbid it are checked only where it cannot happen.

* A prompt enqueued in the loop's exit microtasks is pulled by no loop until
  another prompt arrives (`BacklogAttended` only without that hazard).
* A listener of `item.settled` that throws takes the backlog behind its turn with
  it: the registry drops the worker, and nothing settles those prompts or runs them
  (`Lose`).  One of `item.started` strands the cohort it was told of, which has left
  the queue and entered no turn (`core/src/conversation/ChannelWorker.ts:242`).
* An aborted caller's signal stops the whole cohort its prompt is in.
* `close()` in the middle of a turn lets a new worker begin a second turn of the
  channel (`LiveTurnIsEntry` only as deployed, where nobody calls it); `closeAll`
  leaves the tracker bound to nothing.
* If Mongo applied two `setRunning` updates in the other order, the flag would
  stay wrong (`WritesInOrder`).
* A crash after a prompt was stored and before its channel's flag is loses it to
  the pass (`HeldIsFound` begins with the turn, and excepts the flag under way), and
  so do a zombie channel, one that cannot be reconciled and one without an agent.
* The running mark may overwrite the done mark: the two are sent by continuations
  that nothing orders (`core/src/conversation/ConversationManager.ts:366`, `:385`),
  the first after an awaited callback.  A prompt that failed at once can so be
  replayed after a crash, against `:388`, "Mark done on failure too so ResumeService
  doesn't loop on it".
* A prompt sent while the pass runs can have its flag cleared by the pass.
* A turn past its deadline, or the boot pass beside a live turn, can replace a
  result by "did not complete", run a call the transcript calls failed, and clear
  the flags of the turn that followed.
* A call delivered before its turn was given up is stored after it
  (`core/src/conversation/MessageProcessor.ts:238`), perhaps between the load and
  the synthesis of the next turn's prompt.  What is read again after the synthesis
  is not checked again (`core/src/conversation/TurnDriver.ts:962`), and the model is
  shown the call without a result, which is what the check is there to prevent.
* The tool calls of an attempt rejected as too long are closed by the reload and
  then run with those of the retry.
* A progress note resets the step counter, and with it the turn passes the
  billing gate as on a first step (`core/src/conversation/TurnDriver.ts:198`).
* A prompt sent in the seconds between the start of the server and the pass is
  taken for one the crash left (`backend/src/services/resume-service.ts:77`); the
  original of a replayed message is never marked, so that the next crash replays
  it again (`backend/src/bootstrap/server-bootstrap.ts:855`); the flag outlives a replay by its debounce, and the
  channel just answered is woken as well (`resume-service.ts:382`).

Permissions:

* `validateToolExists` says no when an app does not answer, and the pass then
  fails the request for good and replaces the whole content of its message
  (`backend/src/handlers/message-handler.ts:204`).
* `executeRestoredTool` writes the result to `channel_messages` only; the comment
  at `message-handler.ts:646` expects the agent to see it in its session.
* A discarded request whose status could not be written waits on, unregistered,
  until the next subscription looks at it (`permission-manager.ts:653`).
* A request denied because its status could not be written keeps its mark of
  waiting in the user interface.

Usage:

* `bulkInsert` takes an error for duplicates when every one of its write errors is
  one, and so also when it has none, as a failure of the network or of the write
  concern (`backend/src/services/agent-usage-event-repository.ts:42`).  The batch is
  then stored in part or not at all, not retried and not buried, and is claimed and
  applied, so that a rebuild from the store misses it.
* The writer of dead letters keeps its path until it rotates
  (`backend/src/services/dead-letter-file-writer.ts:111`) and creates the file again
  after a replay has renamed it; a second replay renames that one over the first
  (`backend/src/scripts/replay-usage-deadletter.ts:120`), and with it what the first
  replay could not insert.
* A shutdown that finds a flush at work does not wait for it
  (`backend/src/services/usage-event-buffer.ts:186`), and what that flush has in
  hand is in no sink when the process exits; `CleanExitKeeps` covers the shutdown
  that did wait.  What then remains for the dead letters (`:232`) is nothing.
* A `session.running` written directly overtakes the `session.started` still in
  the queue and matches no document; only the reconciler repairs the session.
* An event claimed and not applied, after a failure or a crash, is stored and
  never counted (`backend/src/services/agent-usage-event-applier.ts:57`); also
  for a direct write, whose comment says "and projected".
* The replay renames its file with the lines appended meanwhile; they are kept
  and not replayed.  A delta that comes after its session has ended does not
  reach the parent.

Billing:

* A death between closing a subscription and opening the next leaves the user
  without one (`backend/src/services/billing-subscription-ops.ts:60`,
  `billing-reset-cron.ts:342`), against `models/billing.ts:651`; so does a pause.
* What the administrator's edit then opens has no `lastBilledHourBucket`
  (`backend/src/handlers/domains/admin/update-billing-subscription.ts:110`, and
  `billing-teams.ts:187`, `:335` beside it), and the tracker bills it from the epoch
  (`agent-hours-tracker.ts:247`): hours billed before are billed again.  The ledger
  entry and the counter of such a run may also name different subscriptions.  The
  same happens in small to a subscription a failed change reopens.  `BilledOnce`
  and `HoursKept` except these hours, and `LedgerCovers` these subscriptions.
* After a death before the counter and another hour, two ledger entries overlap:
  they cover the hours (`LedgerCovers`), and are not one per range, as the
  comment at `agent-hours-tracker.ts:286` has it.
* An hour rolled up after a later one was summed is never billed (`late`); hours
  a reset had claimed when the compensation reopened the subscription are billed
  and then zeroed (`revived`).  Hours before a change of plan that the tracker
  had not seen are billed to nobody.
* Two trackers at once would bill an hour twice; only the lease prevents it.

## 6. Where the code and its words differ

1. `turn_header_reused` (`TurnDriver.ts:559`): a progress note resets the step
   counter, and step 0 takes the reserved message id a second time.
2. `approvals_twice` (`permission-manager.ts:637`): a request answered while a
   subscription looks at it is registered again, and a second answer runs its
   tool a second time.

Beside these, comments that the code contradicts without a run of their own:
`billing-reset-cron.ts:8` has the reset clear `lastBilledHourBucket`, and `:425`
says why it keeps it (the mutant `ResetRenewsCursor` is the comment, and violates
`BilledOnce`); the comments on the done mark, on overlapping ledger entries and on
restored tools are quoted in section 5.

## 7. Not modelled, and the plan

Each component without a module is listed with its reason in `PROJECT.json`.  The
plan, in order of what a failure would cost:

1. **`ChannelWorker`, `WorkerRegistry`**: done, with their proofs.
2. **`PromptRecovery`**: done, with its proofs.
3. **`TurnDriver`**: done, with its proofs.
4. **`SessionCompaction`**: `maybeCompact`, the summary and boundary in
   `MongoSessionStore`, the migration, and emergency compaction after a prompt
   too long, against a transcript that grows beside them.  Property: the LLM view
   is a summary of a prefix and exactly the rest.  Theorem: the boundary covers
   no message the summary does not.
5. **`ToolApprovals`**, **`UsageEvents`**, **`BillingPeriod`**: done, with their
   proofs.
6. **`Forms`**: one open form per channel, restored by every subscription and
   persisted after its answer, next to `ToolApprovals`, whose shape it shares.
7. **`LeaderElection`**: one lease and ticks that outlive it, below
   `BillingPeriod`, which takes the lease to hold.
8. **`Autoplay`**: slots, stuck tasks and wake-up caps of a board under
   concurrent schedulers, with the acyclicity of dependencies.
9. The scheduler, the spawning of tool servers, the stream publisher's stall
   guard and the app's websocket transport, one small module each.

Left out for good: prompt assembly and provider adapters (conversions), accounts
and files (single requests over single documents), tool plug-ins and the user
interface.
