# Formal models of the NeoKai daemon

TLA+ specifications of the parts of NeoKai whose correctness depends on the
order in which things happen: model-checked with TLC on small instances and,
where it matters most, proved with TLAPS for every value of the constants.
Paths below are relative to the repository root; `D/` stands for
`packages/daemon/src`.

## 1. The system

NeoKai is a TypeScript monorepo. A *daemon* (`packages/daemon`, one Bun process,
one SQLite database) runs agent sessions and, in *spaces*, teams of agents that
work on tasks along workflows; clients (`packages/web`, `packages/cli`,
`packages/desktop`) talk to it through a WebSocket RPC/event hub
(`packages/shared/src/message-hub`). All of the daemon's JavaScript runs on one
thread: a piece of code between two `await`s is atomic, SQLite statements are
synchronous, and interleavings happen only at awaits, timers and callbacks. A
crash loses all memory and keeps the database.

| Component | Code | State | Operations | What is hard | What makes it correct |
|---|---|---|---|---|---|
| Job queue | `D/storage/job-queue-processor.ts`, `D/storage/repositories/job-queue-repository.ts` | table `job_queue`; `inFlight`, timer, `lastStaleCheck` | enqueue, dequeue, complete, fail, reclaimStale, cleanup, start, tick, stop | handlers outlive ticks and claims; crash while processing | slots are counted exactly; one handler per job; finished jobs stay finished; every job settles |
| Task schedules | `D/lib/space/schedule`, `D/lib/job-handlers/task-schedule-fire.handler.ts`, `D/storage/repositories/task-schedule-repository.ts`, recovery in `D/app.ts` | table `task_schedules`, the pending fire job of each | create, update, pause, resume, delete, fire, startup recovery, space pause/stop/resume/start | a fire job races edits of its schedule, retries and restarts | at most one task per slot; an active schedule has a live job or is found by recovery |
| Goals | `D/lib/space/goals/goal-service.ts` | goal row: status, active task, queued next run | create task, queue run, claim scheduled task, terminal task | task callbacks and scheduled fires race | one active task per goal; a queued run is not lost |
| Self-scheduling jobs | `D/lib/job-handlers/{cleanup,github-poll}.handler.ts` | the chain of pending jobs | poll, clean, enqueue next | retries, reclaims and restarts fork or end the chain | the chain goes on |
| Agent sessions | `D/lib/agent/*` | message queue, processing state, SDK query | enqueue, start/stop query, interrupt, model switch, recovery | async generators, interrupts during start, late SDK messages | no message lost or sent twice; idle state only when nothing runs |
| API error circuit breaker | `D/lib/agent/api-error-circuit-breaker.ts` | recent errors, trip count, cool-down | check message, trip, reset | trips while a query is being stopped | a loop of errors is cut; a success clears the count |
| Session management | `D/lib/session/*`, the pool in `D/lib/space/runtime/task-agent-manager.ts` | session cache, agentSessionIndex, subscribed instances | create, load, register, reset, archive, delete | three registries torn down at different awaits | one live object per session |
| Space runtime | `D/lib/space/runtime/*`, `D/lib/space/managers/*`, `D/lib/space/tools/*` | workflow runs, node executions, tasks, gates, channel cycles | activate node, deliver message, open gate, complete, approve | agents act concurrently; restart rehydrates; cyclic channels | state machines respected; bounded cycles; a finished run spawns nothing |
| Agent-to-agent messages | `D/storage/repositories/pending-agent-message-repository.ts`, `D/lib/space/runtime/agent-message-router.ts` | table of queued messages | enqueue, dedupe, deliver, retry, expire | target not running; retry after failure | a message is delivered, failed or expired, once |
| Reactive database, live queries | `D/storage/reactive-database.ts`, `D/storage/live-query.ts` | subscriptions, versions, transaction depth | write, begin/commit/abort, subscribe, re-evaluate | change events inside transactions, microtask batching | no committed change is missed |
| Message hub | `packages/shared/src/message-hub/*`, `D/lib/websocket-server-transport.ts` | pending calls, rooms, subscriptions | request, respond, event, timeout, disconnect | late answers, reconnects | every call settles once |
| Internal buses | `D/lib/internal-{event,command,query}-bus.ts` | handlers, in-flight publications | publish, subscribe | handler failures | one failing handler does not stop others |
| External events | `D/lib/external-events/*` | event store | ingest, dedupe, ignore (nothing subscribes yet) | duplicates | each event stored once |
| Database lock | `D/storage/database-lock.ts` | lock file with a pid | acquire, release | stale pids, two starters | one daemon per database |
| Process watchdog | `D/lib/process-watchdog.ts` | observed child processes | sample, kill | pid reuse | only orphans are killed |
| GitHub integration, MCP, providers, RPC handlers, DB schema and migrations | `D/lib/github`, `D/lib/mcp`, `D/lib/providers`, `D/lib/rpc-handlers`, `D/storage/schema` | mostly protocol adaptation and I/O | — | — | — |
| CLI, web, UI, desktop, e2e, skills, docs | `packages/*`, `docs` | presentation | — | — | — |

## 2. Structure

| Module | Of | Abstract specification or property | Proofs |
|---|---|---|---|
| `JobQueue` | the queue every deferred piece of work goes through | implements `JobLedger`, the life of one row | `JobQueueProofs` |
| `TaskSchedule` | schedules, spaces and fire jobs | implements `JobLedger`, through which it sees the queue | `TaskScheduleProofs` |
| `Goal` | goals, above tasks and schedules | | `GoalProofs` |
| `SelfSchedule` | the jobs that enqueue their own successor | | `ServicesProofs` |
| `MessageDelivery` | message queue, processing state and query life cycle of one agent session | implements `MessageLedger`, what a user relies on | `MessageDeliveryProofs` |
| `WorkflowRun` | the tick over one workflow run, with its task, executions, sessions, humans and restarts | | `WorkflowRunProofs` |
| `ChannelRouter` | messages between nodes, gates, the gate cache and cyclic channels | | `ChannelRouterProofs` |
| `PendingMessages` | the queue of messages to an agent that is not running, its flushes and its repair | | `PendingMessagesProofs` |
| `LiveQuery` | change events, shared evaluations, snapshots and deltas up to the client | | `ServicesProofs` |
| `MCServices` | the last three and `SelfSchedule` side by side | implements each of the four | `ServicesProofs` |

The modules are cut where the code shares little. `TaskSchedule` needs of the
queue only the arcs of `JobLedger`, which `JobQueue` is proved to implement;
`Goal` needs of a schedule only whether it is active; `PendingMessages` and
`ChannelRouter` need of a run only its status and whether the target is alive,
which `WorkflowRun` has in full. Every module keeps its parameters in `CONSTANTS`
with a named assumption, has one action per operation, handler or piece of a
handler between two awaits, and no `RECURSIVE` operator. `MC...` modules hold
what TLC needs; definitions marked "mutant" are plausible bugs that show that a
property can fail.

## 3. Modules

### JobQueue

`job` is the table `job_queue`, `run` the set of promises of `processJob()`,
`inFlight`, `sinceCheck` (`now - lastStaleCheck`) and `phase` the fields of
`JobQueueProcessor`.

| Action | Code |
|---|---|
| `Enqueue` | `JobQueueRepository.enqueue()`, by any caller |
| `Tick`, `Start` | `tick()`, `start()`: stale check, then `Poll`: the loop over the queues (`Claims`), each of which is asked for what the queues before it left of the slots (`TakenBefore`) and gives its due rows by priority and `run_at` (`Dequeue`) |
| `Resolve`, `Reject` | the promise of a handler settles: `complete()` or `fail()`, and `inFlight` goes down in the `finally` |
| `DeleteJob`, `Cleanup` | `deleteJob()`, `cleanup()` |
| `Stop`, `Stopped` | `stop()` and its drain |
| `Crash` | the process dies; only the table survives |
| `Advance` | the clock |

Times are relative to the clock: `lag` is `now - run_at`, `age` is the time since
`started_at` or `completed_at`. An id is used once, as `generateUUID()` does.
The payload, result and error columns are left out. `MaxRunTime` bounds how long
a handler takes: it is the environment's, and the two runs take it on
either side of `StaleThreshold`.

`JobLedger` is what the queue promises: each row moves along the arcs of a job's
life. `KeepsLedger` (`JobQueue` refines it) holds if no handler outlives its
claim. A slower one may settle a row a second time; what still holds then is in
the run `job_queue_slow`.

### TaskSchedule

`sched` is the table `task_schedules`, `space` the flags of the spaces, `fire`
the rows of queue `taskSchedule.fire`, `settling` the handlers that have
returned and whose row has not been told yet, `up` whether the processor runs.
`made` is a history variable: how many tasks a schedule has created since the
clock moved, and in the life of a one-shot schedule.

| Action | Code |
|---|---|
| `Create`, `Edit`, `EditIdle`, `Pause`, `Resume`, `Remove` | `ScheduleService` |
| `CloseSpace`, `RemoveSpace`, `ReopenSpace`, `ReopenSpacePartly` | pause, stop, archive, delete a space; resume, start it, with the recovery hook |
| `FireSkips`, `FireInClosedSpace`, `LettingGoFails`, `FireRuns`, `FireThrows` | the paths through the fire handler |
| `Settle`, `Reclaim`, `Cleanup` | the queue's side of a fire job |
| `RunsDry` | from now on `getNextRunAt()` returns null, until an edit |
| `Start`, `StartCutShort` | the re-seeding in `app.ts` |
| `Crash`, `CrashIn...` | the process dies between two statements that share no transaction |

A cron expression recurs until it runs dry (`dry`), which may happen at any
moment to a schedule that has been created: the fire handler then completes the
schedule, or, in a closed space, leaves it active with neither a job nor a next
run.

Abstractions: the claim age and the cleanup
age are left out, so a stale claim is reclaimed and a finished row deleted at
any time after they may be, which allows more behaviours than the code;
`maxConcurrent` is left out for the same reason (`JobQueue` has it). Of a goal,
only the answer of `canClaimScheduledTask()` matters here: `FireRuns` may create
no task for a goal schedule. Row ids are reused once nothing refers to them
(`Free`); a step that needs an id is not taken without one, and `StartCutShort`
leaves one, so that every restart can end.

### Goal

`goal` is a row of `space_goals`, `schedule` the linked schedule reduced to what
the goal sees of it, `open` the state of the space, `task` the statuses of the
goal's tasks: working (open, in_progress, review, approved), ended (done,
blocked, cancelled), archived. `telling` holds the tasks whose
`handleTaskTerminal()` is still to be called: the status is written first, the
goal told after an `await`, and a crash or an exception loses the call for good.
`reopened` and `orphaned` are history variables.

| Action | Code |
|---|---|
| `Trigger` | `createImmediateTask()` |
| `Tell` | `handleTaskTerminal()` |
| `End`, `EndQuietly`, `Reopen` | changes of a task's status by callers that tell the goal, by callers that do not, and back to work |
| `Fire` | the goal's part of the fire handler's transaction |
| `SetStatus`, `SetAuto`, `SetOpen`, `EditSchedule` | operations on the goal, its space and its schedule |
| `Crash`, `CrashInTrigger`, `CrashInTell`, `CrashInSetStatus` | the process dies, also between two statements that share no transaction |

The branch of `createImmediateTask()` that deletes its task after a failed claim
is left out: the service is synchronous, so nothing changes the goal between its
own check and its claim. Goals share no rows, so one goal stands for all.

### MessageDelivery

One session in immediate mode. `row` is the `send_status` of each message's row
in `sdk_messages`, `mq` the `MessageQueue` (`entries` with the promise each
settles, `waiters` the parked generators, `running`, `gen`), `ctx` the fields of
`AgentSession` its handlers share (`queryPromise`, `queryObject`,
`queryAbortController`, the last consumed message, the flag
`acknowledgedPersistedUserThisTurn`, the processing state). `run[r]` is the call
of `runQuery()` of generation `r`, `sdk[r, n]` the subprocess and the input
generator of its attempt `n` (there is one retry). `handler`, `flush`,
`lifecycle`, `stopping` and `interrupting` say where each asynchronous function
in progress waits. Interrupts may overlap: any number of calls are under way, and
the first to end takes the promise that `ensureQueryStarted()` waits for with
it. The messages a replay has yet to push are a set, which it
takes in order of arrival (`First`). `covered` holds the messages older than the latest
`system:init`; `given` counts deliveries and is history.

| Action | Code |
|---|---|
| `Persist` | `MessagePersistence.persist()` |
| `SendEnsure`, `SendStart`, `SendPush` | `startQueryAndEnqueue()`, cut at its awaits |
| `Timeout`, `FailReset`, `FailStopped`, `FailRestart`, `Repush`, `GiveUp` | the timer of an entry and `handleQueuedMessageFailure()` |
| `Take`, `Ask` | a generator takes a message, with `handleMessageYielded()`; the SDK asks for the next one |
| `FlushTrigger`, `FlushEnsure`, `FlushStart`, `FlushPush` | `QueryModeHandler`: replay at startup, deferred messages at the end of a turn |
| `Launch`, `Output`, `Echo`, `Result`, `End`, `Fatal`, `Caught`, `Unwound` | `runQuery()`: the query starts, SDK messages, a replayed user message, the end of a turn, the end of the loop, the catch and the finally block |
| `StartupTimeout`, `Transient` | the two retries inside `runQuery()` |
| `Interrupt`, `InterruptEnds` | `handleInterrupt()`, two of which may overlap |
| `UserReset`, `UserRestart`, `LifecycleStopped`, `LifecycleStarts` | `reset()`, `restartQuery()` and `stop()` |
| `Crash` | the daemon dies and a new `AgentSession` recovers |

The SDK is external and modelled by how the code uses it: it reads its input
eagerly, may answer several messages in one turn, replays user messages or not,
and may exit. Consecutive awaits between which only this session's own code could
matter are folded into one action: the state change and the clear at an
interrupt, the clear and the stop in a reset, the fallback acknowledgement,
`setIdle()` and the trigger at the end of a turn. The wait of
`ensureQueryStarted()` for an interrupt has no time limit here (five seconds in
the code), and a startup timer acts only on its own query.

`MessageLedger` is what a user relies on: a row moves only along its life cycle,
a message is given at most once and never after it was shown as failed. A retry
after a dropped connection gives a message twice on purpose, so `KeepsLedger` is
checked without that fault.

### SelfSchedule

`row` and `fails` are the status and `retry_count` of the rows of one queue,
`slot` the jobs its handlers were given, `serves` whether the daemon has started.
`gaveUp` is history.

| Action | Code |
|---|---|
| `Claim`, `ReclaimStale`, `Fails` | `dequeue()`, `reclaimStale()`, `fail()` as the handlers notice them |
| `Finishes` | the handler: a successor unless one is pending, then `complete()` |
| `Starts` | the first job, enqueued by `app.ts` and `GitHubService.start()` |
| `Dies`, `DiesInHandler` | the process is killed, also between the successor and `complete()` |

Whether a claim is stale, and when a job is due, is left open, which allows more
behaviours than the code.

### WorkflowRun

One run, its canonical task, one agent per node. `run`, `task`, `reported`,
`exec` and `bound` are columns of the database; `place`, `hears` and `work` say of
each node's session where it lives (the index of `TaskAgentManager`, its
`subSessions`, the database), whether its end is listened for, and how its
transcript ends; `driven`, `crash`, `retries`, `stuck` are maps of
`SpaceRuntime`. `pc` is the await the tick is at, `snap` what it read before it.

| Action | Code |
|---|---|
| `TickBegin` | `executeTick()` and `processRunTick()` up to the first await |
| `RetryBlocked` | `attemptBlockedRunRecovery()` |
| `CheckSessions`, `Nag`, `Restart`, `MarkTask` | the pass over dead sessions, `handleAliveStuckExecutions()`, `blockRunForAgentCrash()` and its siblings |
| `Decide` | completion, by the value read at the start of the tick, or the repair of pending executions and the list to spawn |
| `SpawnLive`, `SpawnStart`, `SpawnDone`, `SpawnFails`, `SpawnImpossible`, `SpawnsEnd` | `spawnWorkflowNodeAgentForExecution()` and `createSubSession()`, cut at their awaits, and the end of the loop |
| `Settle`, `CleanUp` | the task of a completed run, its siblings; `cleanupTerminalExecutors()`, `reconcileTerminalRunsWithoutExecutors()` |
| `Progress`, `TurnEnds`, `TurnFails` | an agent works, ends a turn (`handleSubSessionComplete()`), fails |
| `Report`, `Submit`, `MarkComplete`, `Message` | tools of the agents |
| `UpdateTask`, `ApproveTask`, `RecoverTask` | `spaceTask.update` with every move of `VALID_SPACE_TASK_TRANSITIONS`, by the handler that owns it; a recovery of a task in whatever state |
| `RetryTask` | the tool `retry_task`, which writes the task and not its run |
| `CancelRun`, `ResumeRun`, `MarkFailed`, `WriteToAgent`, `DeleteSession` | other RPCs of a human |
| `Crash`, `Boot` | the process dies; the first tick: `rehydrateExecutors()`, `recoverStalledRuns()` and the rehydration of sessions |

Whether the threshold of a silent agent has passed is a choice. The space is not
paused and has free task slots.

### ChannelRouter

`runs`, `data`, `count` and `live` are columns (run status, gate data, cycle count,
an active execution of the target), `cached` the table of gates seen open.
`call[p]` is what caller `p` is doing; `turn` is the call that has not awaited
yet, so no other moves. `trips` and `owed` are history.

| Action | Code |
|---|---|
| `Send` | `send_message`, which writes gate data before it routes |
| `Enter`, `Notice` | `deliverMessage()` and `onGateDataChanged()` up to the first evaluation |
| `Evaluated`, `Activate`, `Reopened`, `Recheck`, `Finish` | the gate's answer, `activateNode()`, the run reopened, the second look, `incrementAndResetCyclicChannel()` |
| `ApproveGate`, `RejectGate`, `HumanTouch`, `NodeIdle`, `RunEnds` | the RPC, a human's message, the end of a turn, completion |

Gate data is reduced to whether it satisfies the gate, gates with scripts to
evaluations that end. Gates whose template has a script, which are evaluated anew
every time (`channel-router.ts:1038`), are left out: they are the ones no cached
answer is ever used for.

### PendingMessages

`status`, `tries`, `stale` are columns of `pending_agent_messages`, `flush[f]` the
loop of one `flushPendingMessagesForTarget()`, `peer` whether the agent's session
lives, `phase` the status of run and task (`closing`: the task is done or
cancelled and the run not yet), `seen` the rows the tick listed. `arrived` is
history.

| Action | Code |
|---|---|
| `Post`, `TimePasses` | `enqueue()` with the flush of a living session; `expires_at` passes |
| `Feed`, `Fed`, `NotFed`, `Flushed` | one row of a flush: injection, mark, failed attempt; its end |
| `TickBegins`, `Spawned`, `NotSpawned`, `TickEnds` | `repairQueuedWorkflowNodeHandoffs()`; `Block` blocks a run in progress, also one whose task has closed meanwhile |
| `PeerStops`, `Restart`, `TaskCloses` | the session stops, the daemon restarts, the task ends |
| `Resume` | `spaceWorkflowRun.resume`; `retry_task` of a task that closed |
| `RecoverRun` | `recoverWorkflowBackedTask()` of a blocked, done or cancelled task: the settled rows are deleted first, the transaction after it may refuse |

One target agent: the rows of several agents meet only in the tick's list.

### LiveQuery

`stored` is the table, `entry` the engine's `QueryEntry`, `queued` its microtasks,
`subs` and `ghosts` the subscriptions of live and lost connections, `wire` and
`view` the events under way and what each tab shows. A row is a row with its
content: an update removes one and adds another. Left out are an event that cannot
be sent on a connection still open, after which the handlers dispose of the
subscription (`live-query-handlers.ts:2418`), and a second subscription under the
same id on one connection, which `SessionStore` never makes.

| Action | Code |
|---|---|
| `Write`, `AbortedWrite` | a write or batch of `ReactiveDatabase`; a batch that throws after a write |
| `Evaluate` | `evaluateQuery()` |
| `Subscribe`, `Unsubscribe`, `Disconnected` | the RPC handlers, `onClientDisconnect` |
| `Arrive`, `Connect`, `LoseConnection`, `Reselect` | the client's store |

### MCServices

`ChannelRouter`, `PendingMessages`, `LiveQuery` and `SelfSchedule` share no rows,
and what they share of a run is a parameter of each. `focus`, chosen at the start,
names the one that moves; their product would add nothing but states.

## 4. Runs

| Run | Instance | Properties | Shows |
|---|---|---|---|
| `job_queue_prompt` | 2 jobs of two priorities, 2 slots, handlers no slower than a claim | `ExclusiveHandler`, `RunOwnsClaim`, `KeepsLedger`, `EveryJobSettles`, `StopEnds` | a job has one handler, a handler owns its claim, the queue implements `JobLedger`; every job settles once the daemon stays up; a stop ends |
| `job_queue_slow` | 2 jobs in 2 queues, 3 runs, handlers up to three times slower than a claim | `SlotAccounting`, `NoIdleSlot` | slots are counted exactly; the loop over the queues leaves no slot idle while a row of any queue is due |
| `task_schedule_safe` | 1 schedule, 1 space, 2 fire jobs, 1 retry, expressions that may run dry | `OneTaskPerFire`, `OneShotFiresOnce`, `OneTaskPerInstant`, `NeverOutOfReach`, `StartRearms`, `KeepsLedger`, `ArmedFires` | at most one task per job, per instant and per one-shot schedule; nothing gets out of the recovery's reach; a start re-arms, but for schedules that ran dry; an armed schedule fires |
| `goal` | 2 tasks | `OneTaskAtATime`, `RestingGoalsStartNothing`, `ToldRunStarts` | one task at a time; resting goals start nothing; a queued run starts once the goal is told |
| `delivery_safe` | 2 messages, 2 queries, 1 fault or intervention | `QueueServesItsRun`, `PromisesMatch`, `KeepsLedger` | a running queue has a query, queued promises have their callers and callers that wait have a promise, `MessageLedger` is kept |
| `delivery_live` | 2 messages, 3 queries, 1 fault of any kind but timeouts, an SDK that answers | `EveryMessageConsumed`, `ProcessingEnds` | without faults every message is consumed; with one, the session leaves "processing" while the latest query holds a message, but not if a replaced one does |
| `delivery_settles` | 1 message, 3 queries, 1 fault, timeouts, an SDK that may be silent | `EnqueuedSettles`, `QueuedEnds`, `ProcessingEnds` | an enqueued row settles although its query failed, the session leaves "queued", and it leaves "processing" unless the latest query's SDK lives and says nothing |
| `delivery_startup` | 1 message | `RetryReadsInput` | a violation: finding 1 |
| `workflow_safe` | 2 nodes, 1 blocked retry, no crash retries or restarts, 1 fault or human act | `TerminalStands` | what is over stays over, but for the named ways back, `retry_task` and a recovery among them |
| `workflow_live` | 1 node, limits of 1, 3 faults or human acts | `PendingSpawns`, `StuckHandled`, `EndedRunSettlesTask`, `BlockedRetried` | the tick goes on to spawn, replace, retry and settle whatever fails |
| `workflow_restarts` | 1 node, limits of 1, no faults | `RestartsEnd` | a violation: finding 2 |
| `services` | see below | `TripBudget`, `ResetGatesHold`, `OpeningsAreServed`, `OpenGateStartsNode`, `DeliveredMeansArrived`, `HandoffLife`, `HandoffSettles`, `QuietViewsAgree`, `ViewsCatchUp`, `ChainGoesOn` | caps of cycles hold, no cached gate is trusted across a round, an opened gate always has somebody to start its node, and it starts; no handoff is lost, hangs, is undone by a late flush, or deleted while it is pending; a tab with nothing on its way shows the table, and every tab catches up; the chain goes on |

**Bounds.** The hazards need few identities. A job row is raced by at most one
reclaim, one late settle and one new claim of another run: three runs and two
rows cover it, and with three runs two slots are short. A fire job is raced by
the job that succeeds it: two ids; a third would be a double that a crash left
behind, which the proofs cover. Two schedules interact only through their
space's recovery, which takes them one by one (`ReopenSpacePartly` cuts it at
any place): the proofs cover any number. A goal has its active task and one that
ended and may be reopened or still has to be told: two, and `GoalProofs` covers
any number. In a session, a message meets one neighbour, and a query the one
that replaces it: two of each, and a third query to let the delivery after a
reset run in full. Timeouts of messages are not faults and not counted; two
messages, an SDK that answers and timeouts are too many states for a liveness
run, so `delivery_live` has none and `delivery_settles`, with one message, has
them (a single message with every kind of fault was checked with one and with two
faults, too). `EnqueuedSettles` is for one fault: if the second delivery fails as
well, the message is rejected and its row stays enqueued until the next start.
Time is
counted in units: 1 is enough to tell "now", "later" and "older than the
threshold" apart, as all thresholds of an instance are 1 and ages are capped one
above. The caps (`MaxLag`, `AgeCap`, `MaxRetries`, `MaxRunTime`, `Counted`,
`Horizon`) are constants or operators of the modules, named where they apply.

In a workflow, one act meets every await of the tick (`MaxActs` counts human RPCs,
session errors, failed spawns, deletions and crashes together). The liveness
properties speak of one node at a time, so `workflow_live` has one, the end node,
and three acts: a fault, its repair, and one more. `workflow_safe` needs a
sibling whose messages call a node back; it has two nodes (1.9 million states)
and one act with limits of 0, so that a first dead session blocks the run. Three
or more acts and larger limits are covered by the proof. `services` has one agent and a human on a
forward channel and one back, each with a gate, and a cap of 1, so that the
second trip is refused; two handoffs, two flushes (the tick's and one in the
background), two attempts and one upset; two tabs, two rows and two moves; two
slots and three rows in the chain, so that a reclaimed job runs twice beside its
successor. `MaxUpsets` and `MaxMoves` bound the environment only.

**Deadlock** is checked in every run of `JobQueue`, `TaskSchedule`, `Goal` and
`WorkflowRun`: a clock, a tick or an operator can always move. A session may rest
for good once its messages are settled and the bounds on queries and faults are
used up, and so may the services once their bounds are.

**Fairness.** `JobQueue` assumes that the poll timer fires, handlers settle
within `MaxRunTime`, a stopped or killed daemon is started again and the clock
runs; enqueuing, deleting, stopping and crashing are never forced.
`TaskSchedule` assumes the same of the processor. `Goal` assumes that a caller
of `handleTaskTerminal()` goes on after its `await`; that tasks end is a premise
of the property, not fairness. `MessageDelivery` assumes (`DaemonFairness`) that
asynchronous functions go on after their awaits, each of which settles or has a
time limit, that timers fire, that the stream of a query that was closed or
aborted ends, and that a live SDK reads its input; `Answers`
adds that it speaks and ends its turns. `delivery_live` needs the latter,
`delivery_settles` holds with an SDK that says nothing. `WorkflowRun` assumes that
the timer of the tick goes on and its awaits return, that a daemon that went down
is started again, and that the threshold of an agent that is silent again and
again passes some time (strong fairness of `Nag` and `Restart`, which are enabled
only during the pass of the tick); agents and humans owe nothing. `ChannelRouter`
has strong fairness for each call: the event loop is first in, first out, so a
call is resumed however often others hold the thread. `PendingMessages` assumes
that flushes and the tick go on and time passes, `LiveQuery` that microtasks run,
requests are handled and events arrive while a connection lasts. The liveness
properties of the first modules are about a system that is eventually left alone
(`StaysUp`, `Calm`), since a user can always pause, or a crash recur.

## 5. Findings

1. **The retry after a startup timeout reads nothing** (`delivery_startup`).
   `runQuery()` stops the queue when its loop ends (`query-runner.ts:614`), and the
   retry runs in the same call without starting it. The message that should be
   "preserved for the retry" waits for its own timeout.
2. **The limit of restarts of a silent agent is never reached**
   (`workflow_restarts`). `handleAliveStuckExecutions()` forgets its counters when
   the session is not the one it saw last (`space-runtime.ts:3345`), and a restart
   always makes a new session: `MAX_AGENT_STUCK_RESTARTS` bounds nothing, and an
   agent that never does anything is nagged and restarted for ever.

The models show further weak spots. Each is a behaviour of the model that a
property excepts by name, or says nothing about:

- `recoverSchedulesForSpace()` passes over schedules that still name a job
  (`schedule-service.ts:480`), although a fire job that failed to let go of its
  schedule counts on the next resume (`task-schedule-fire.handler.ts:145`): it
  waits for the next start of the daemon.
- A recurring schedule without a next run that fires in a closed space stays
  active with neither a job nor a next run (`task-schedule-fire.handler.ts:130-150`);
  no recovery finds it. In an open space the handler completes such a schedule
  (`:197`), although the comment at `schedule-service.ts:496` says that a failing
  expression should not complete it.
- `retry_task` takes a cancelled task up again on the task's row alone
  (`space-agent-tools.ts:827`): its run stays cancelled, and the next tick cancels
  the task again. `spaceTask.update` turns a cancelled task into a done one.
- `cancel_task`, `archive_task` and the cancellation of a run end a task without
  telling its goal: a queued run waits until somebody triggers the goal. A
  trigger also starts a task beside a reopened one.
- The retry after a dropped connection queues its message again in the same
  generation, where the parked generator of the dead attempt takes it
  (`query-runner.ts:763-774`).
- A turn whose end marks a message consumed before it is delivered; a finally
  block that nulls `queryPromise` of the next query after its await; a query
  replaced while it was starting, which launches anyway and takes messages of its
  successor, so that the session shows "processing" until the next query ends: the
  finally block of a replaced query skips `setIdle()` (`query-runner.ts:957-1022`);
  neighbours of a timed-out message, whose rows stay enqueued.
- The passes over dead and silent sessions come before the check for completion
  (`space-runtime.ts:3681-3736`), although the comment at `space-runtime.ts:3577`
  wants completion looked at first: an agent that dies after its task was done or
  cancelled blocks the run and overwrites the task (`Overruled`).
- Two flushes of one row inject its message twice; a handoff that fails in a
  background flush never blocks the run.
- An evaluation under way puts a gate's old answer back into the cache after a
  reset; the resets of a cycle are committed even when the counter refuses.
- A message reopens a run that is over (`channel-router.ts:1450`) but adds no
  executor for it: one whose executor was dropped before is driven again only
  after a restart or a recovery of the task (`ensureExecutorRegistered()` is called
  at `space-runtime.ts:2346` and `2615` only). The liveness properties of
  `WorkflowRun` ask for `driven`.
- A spawn is admitted by the status the task had when the tick read it
  (`task-agent-manager.ts:560`): a run cancelled meanwhile still gets the agents
  the tick had listed.
- `abortTransaction()` drops the change event of a batch that threw, but nothing
  undoes its writes: tabs stay stale until the next event.
- *Read, not modelled:* a session is known to `SessionCache`, to
  `agentSessionIndex` and to the buses its instance listens on, and the three
  come apart. Rehydrating or registering a session whose instance is already
  loaded leaves two that listen; `cancelBySessionId()` and the manager's cleanup
  leave a cleaned-up instance in the cache; a hard reset leaves the index at the
  old instance, and, racing a deletion, puts a deleted session back into the cache.

## 6. Proofs

All theorems hold for every value of the constants that satisfies the module's
assumption; sets of ids may be infinite except `Runs`, whose cardinality is
counted.

- **JobQueueProofs** — `TypeCorrect` and `SlotsAreAccountedFor`. `SlotAccounting`
  is inductive with `TypeOK`: a poll claims at most `MaxConcurrent - inFlight`
  rows and starts as many runs (a bijection), and each settle takes one away. No
  assumption relates `MaxRunTime` and `StaleThreshold`: the count survives
  reclaimed claims. So do `RetriesAreBudgeted`, which is only proved, and
  `SlotsDoNotIdle`. The latter is an argument about the loop: each queue's rows
  are counted off the slots that the queues before it left (`ClaimsFit`, by
  `TakenSplit`); the last queue in the loop's order that has a row due exists
  because that order is well founded (`LastQueue`), and a slot that is left after
  it was left to it, so it gave all its due rows. Under `MaxRunTime <=
  StaleThreshold`, and only then, a claim with a handler is never stale:
  `HandlersAreExclusive`, `RunsKeepTheirClaims` and the refinement
  `QueueKeepsLedger` follow. `BackoffAssumption` states that powers of two are
  natural numbers, which the provers do not know.
- **TaskScheduleProofs** — the type invariant, `OneTaskPerFire`,
  `OneShotFiresOnce`, `OneTaskPerInstant`, `NeverOutOfReach` and the action
  property `StartRearms`. `Inv` adds what makes them inductive: a job that a
  schedule names belongs to it and has made no task yet, so once a fire has let
  go of its job neither a retry nor a reclaim can use it again (`Links`); an
  active schedule has a next run, unless its expression ran dry (`Timing`), the one
  exception `NeverOutOfReach` and `StartRearms` name; a handler's outcome waits only for a
  row in process (`Handled`); a one-shot schedule that has made its task is
  completed, for ever (`Once`); and a schedule that has fired at this instant
  waits, with the job it names, for a strictly later one (`Spent`), which rests
  on cron times being strictly after now. `FireJobsKeepLedger` is the refinement
  of `JobLedger`: it needs `Handled`, for a late `fail()` would move a row that
  was given up.
- **GoalProofs** — the type invariant, `OneTaskAtATime` and
  `RestingGoalsStartNothing`. `OneTaskAtATime` needs `WorkIsClaimed`: every task
  at work is the goal's active one, or was reopened or orphaned by a crash.
  `QueuedRunsAreComing` is the safety half of `ToldRunStarts`: a run is queued only
  beside a task that is at work or whose end is being told, and from then on only
  a caller that keeps quiet (`cancel_task`, `archive_task`, the end of a run) or a
  crash leaves it without one. What remains for fairness is that tasks end and
  callers go on.
- **ServicesProofs** — `LiveQuery`, `SelfSchedule`, and the composition.
  `ChainGoesOn`: a handler whose own row was reclaimed finds it pending, so whoever
  completes a row leaves a pending one. `QuietViewsAgree` rests on `LiveInv`: the
  snapshot and the deltas on a client's wire, applied to what it shows, give the
  rows the entry was evaluated to last (`Promised`), and those are the rows of the
  table unless an evaluation is queued (`entry.due => queued > 0`) or a batch threw
  after its write (`missed`); an entry lives only while somebody subscribes.
  `ServicesAreServices` shows that a behaviour of the four side by side is one of
  each, so `ServicesAreSafe` and `ServicesTypesCorrect` carry every safety property
  of the run over to the composition.
- **ChannelRouterProofs** — types, `TripBudget`, `ResetGatesHold`, for any number
  of agents, channels and gates. `RouterInv` says that `trips` is the counter and
  the counter within its cap; that a call past an evaluation of a gate that
  resets, or in one that will say yes, has seen the gate open (`SawOpen`): no
  cached answer gets it there; and which channels calls are on (`OnItsWay`).
  `OpeningsAreServed` is the safety half of `OpenGateStartsNode`: an opening that
  is owed its node always has a call that will start it, until the node runs or
  the cap refuses it (`OwedInv`: what is owed is open and not started). It assumes
  `OneChannelPerGate`. The code lets several channels name one gate; the workflows
  it ships put each on one, and a shared gate would be owed one node per channel,
  which the model's `owed` does not count.
- **PendingMessagesProofs** — for the queue of one target agent, types, `DeliveredMeansArrived` and the action property
  `HandoffLife`. `QueueInv` needs that the row a flush waits on was written or is
  settled already, and that the first of a non-empty list is on the list (the
  natural numbers are well founded). `HandoffLife` follows from it step by step:
  whatever a flush read, it settles only a row that is pending when it writes, and a
  recovery, of a task in whatever state, deletes the settled rows all together.
- **WorkflowRunProofs** — types and `TerminalStands`, for any number of nodes and
  any limits, with every move of a task's status a human or a tool can make. A step of the tick writes by what it read several awaits ago;
  `Remembered` relates the two: a retry found the run blocked, a tick that spawns
  had found neither task nor run complete. `AgentsAreInReach`: an execution in
  progress is bound to a session, so the watch over silent agents, which skips
  unbound ones, passes over none, and agents work only in sessions the daemon
  holds; it is inductive with `KickoffHeld`, which says that nobody takes the
  session away while its kickoff is awaited. `RunsFollowMachine`: every write of
  the run's status, those that do not ask `canTransition()` included, is a move of
  the status machine.
- **MessageDeliveryProofs** — types, `QueueServesItsRun`, `PromisesMatch`, and
  the refinement of `MessageLedger`, for any number of messages, queries and
  faults. `RunInv`: a queue is started together with a run, every end of the
  current run stops it, and a superseded run has another generation.
  `PromisesMatch` is inductive only with `PromiseInv`: no two replays, and no
  replay and a sender, have the same message in hand (`ListInv`), what an SDK
  took and has not acknowledged has its caller waiting (`WaitInv`), and no
  message has two promises (`ApartInv`). Its converse, that a caller which waits
  has a promise somewhere, needs two more: a generator parked at an empty queue
  holds nothing, and neither does an attempt that was never made (`ParkedInv`),
  so that handing an entry over or emptying the queue forgets nobody
  (`Answered`). The ledger needs `FreshInv`: what may still be delivered was
  never given. The retry after a dropped connection breaks that on purpose, so
  `DeliveryKeepsLedger` assumes that this fault is not among `Kinds`.

Every safety property of a passing run is stated by a theorem. Only model-checked
are the liveness properties, as liveness under fairness is out of the prover's
reach: `EveryJobSettles`, `StopEnds`, `ArmedFires`, `ToldRunStarts`,
`EveryMessageConsumed`, `ProcessingEnds`, `EnqueuedSettles`, `QueuedEnds`,
`PendingSpawns`, `StuckHandled`, `EndedRunSettlesTask`, `BlockedRetried`,
`OpenGateStartsNode`, `HandoffSettles` and `ViewsCatchUp`. `ToldRunStarts`,
`OpenGateStartsNode` and `ViewsCatchUp` have their safety halves proved. The two
runs of section 5 end in a counterexample, and nothing is proved of them.

## 7. Not modelled

Of agent sessions: manual mode, the question to the user when a transcript is
lost, questions of the agent, the cool-down after a rate limit, a restart deferred
until the agent is idle, the retry after a lost rewind point, error results of the
SDK, switching the model and rewinding. A message that times out beside others
(the reset rejects them, and their rows stay enqueued until the next start), and
rows after the one a replay stops at, are in the model; no property claims they
settle, as the code promises nothing about them.

Of the space runtime: standalone tasks, the Space chat agent, post-approval
sessions, worktrees, archiving, dependencies between tasks, edits of a workflow
under way, idle timeouts, gates with scripts, and the stop of a whole space
(`stopActiveWork()`, `space-runtime-service.ts:245`), which cancels its runs one by
one. Of messages between agents: addressing, several target agents, messages to
the Space agent, idempotency keys. Of live queries: scopes, metadata,
authorization, failing sends on an open connection, a second subscription under
one id, and `debounceMs`, which no query of the registry sets.

Session management is not modelled beyond one instance: what one would check of
the registries does not hold, as section 5 lists. Of external events, the half
that delivers is not reached: nothing in production calls `registerSubscription()`.
The message hub's calls are independent of each other, the internal buses dispatch
synchronously, and the circuit breaker is a counter over a window of texts in one
session: their awaits are in the modules of those who use them. The outcome of
the database lock depends on the file system and on identities of processes,
which would be the whole of a model.

Left out for good: the web, CLI and desktop clients, protocol adaptation around
GitHub, MCP and model providers, RPC validation, the schema's migrations
(straight-line SQL), and the process watchdog, which samples the operating system.
