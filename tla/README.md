# Aiko Code: a TLA+ development

Specifications, model checking and machine-checked proofs for the parts of
Aiko Code that keep state across interleavings: the query loop and the
scheduling of its streamed tools, the ownership of the interactive turn with
its command queue, the `/guide` harness, the Telegram gateway, the task board
that agents share through files, the uploader of session events, and scheduled
tasks with the lock that elects their owner. Paths below are relative to the
repository (`src/query.ts` is the file of that name in its `src` directory).

Contents: [inventory](#inventory) · [modules](#modules) ·
[runs](#runs) · [disagreements found](#disagreements-between-code-and-text) ·
[fairness](#fairness) · [proofs](#proofs) · [limits](#what-is-not-modelled) ·
[plan](#plan)

## Inventory

The program is one Node/Bun process per terminal session. All of its
concurrency is cooperative (one event loop, promise callbacks, React effects)
except where several processes share files: state under `.claude/`, task
lists, mailboxes and lock files.

| Component (source) | State | Operations | Hard behaviour | What makes it correct |
|---|---|---|---|---|
| Streaming tool executor (`src/services/tools/StreamingToolExecutor.ts`) | list of tracked tools with status, results and progress; `hasErrored`, `discarded`; abort controllers | `addTool`, `processQueue`, `executeTool`, `getCompletedResults`, `getRemainingResults`, `discard` | several `processQueue` coroutines walk one list; a sibling error, an abort or a fallback between two updates of a tool; generators suspended at a yield | exclusive tools run alone and in order; one `tool_result` per block; no success after cancellation; nothing stays queued; the drain ends |
| Query guard (`src/utils/QueryGuard.ts`) | `status`, `generation` | `reserve`, `cancelReservation`, `tryStart`, `end`, `forceEnd` | a cancelled query unwinds after its successor began | one owner of the turn; a late end is harmless |
| Command queue (`src/utils/messageQueueManager.ts`, `queueProcessor.ts`) | array of queued commands with mode, priority, addressee | `enqueue`, `dequeueAllMatching`, `remove`, `popAllEditable`, `processQueueIfReady` | read by snapshot, emptied after an await; served by an edge-triggered effect | every command delivered once, none lost, none forgotten |
| Turn lifecycle (`src/utils/handlePromptSubmit.ts`, `src/screens/REPL.tsx`, `src/hooks/useQueueProcessor.ts`) | the installed abort controller, the executions under way | `executeUserInput`, `onQuery`, `onCancel`, `handleIncomingPrompt` | overlap of a cancelled and a new execution at every await | the user can always interrupt; the reservation holds |
| Query loop (`src/query.ts`, `src/query/*.ts`, `src/services/compact/autoCompact.ts`) | the `State` of an iteration: turn, recovery and nudge counts, override, compaction tracking; token budget; blocks and executor of the answer | compact, stream, fall back, recover, run tools, stop hooks, continue or return | each continue site resets some counters and keeps others; fallback with tools in flight; an interrupt anywhere | every `tool_use` answered, truncated answers recovered or shown, the loop ends |
| Guide harness (`src/harness/*.ts`, `src/plugins/bundled/aiko-code/scripts`) | a state file per session, the teachings log | `/guide`, stop hook (`advanceHarness`), repair (`fib.ts`), cancel, steer | a hook that awaits a probe for a minute and then writes a state it read before | no step passed without its work-product; the loop ends |
| Boundary audit (`src/harness/boundaryAudit.ts`) | none | search | external language servers | textual |
| Telegram gateway (`src/channels/telegram`, `src/entrypoints/gateway/telegram-gateway.ts`) | pending messages and timers of a chat, flushes, known sessions; a subprocess, queue and draft per flush | receive, flush, spawn, read chunks, edit drafts, final edit, restart | flushes of one chat overlap; draft edits are answered after the final edit; error path of a flush; restart | no message lost or doubled, session created once, final text wins |
| Task board, mailboxes (`src/utils/tasks.ts`, `teammateMailbox.ts`) | task files, high-water mark, locks of the list and of tasks | create, delete, claim, update, block, unassign, reset; send, read | several processes, two kinds of locks and operations without any; torn files; crashes | a claim takes free tasks with resolved blockers, identifiers never reused, edges stay |
| Event uploaders (`src/cli/transports`) | queue, batch in flight, failures, waiting callers; stream-event buffer and its timer | enqueue, drain, retry, give up, flush, close; write, writeBatch | retry while the queue refills; close with a grace period against late answers | order, nobody waits for ever, what a returned write or flush held was posted, refused for good or counted as dropped |
| Bridge (`src/bridge`) | transport, flush gate, poll and heartbeat timers | start, end, drop, deactivate flush | transport replaced while history is flushed | history before live messages |
| Scheduled tasks (`src/utils/cron*.ts`) | lock file, task file, next firing times and in-flight sets of every process | acquire, recover, release; load, check, fire, remove, stamp, create | recovery of a stale lock by two processes; two processes of one session; a shutdown that releases the lock and goes on; unserialized read-modify-writes; crash between truncation and fill | one scheduler, no double firing, no task lost, somebody takes over |
| Memory consolidation (`src/services/autoDream`) | lock file with mtime | acquire, roll back | write, then read back | one consolidation at a time |
| Headless engine (`src/QueryEngine.ts`) | messages, file cache | `submitMessage` | as the query loop | as the query loop |
| Non-streaming orchestration (`src/services/tools/toolOrchestration.ts`) | batches | partition, run | bounded concurrency | as the executor |
| Permissions, compaction, provider clients, MCP/LSP, hooks/plugins, storage, terminal UI, other hosts | — | — | sequential over text, or I/O to external systems | out of scope, see below |

How they interact. The terminal calls `handlePromptSubmit`, which either
queues the input (guard active) or runs `executeUserInput`; that reserves the
guard, processes the input and calls `onQuery`, which starts the guard and
drives the query loop. The loop feeds the tool executor with streamed blocks,
drains it, and between iterations consumes commands from the same queue. Tasks,
timers and subagents enqueue notifications; the guard and the queue notify the
effect that starts the next turn. At the end of a turn the stop hook runs the
harness, which blocks the stop and so starts another iteration. `/guide`,
`cancel.sh`, `steer.sh` and other processes touch the harness files at any time.

The Telegram gateway is a process of its own that starts one `aiko` subprocess
for each batch of messages; the two share the session file on disk. The agents
of a team share the task board, the sessions of a project the scheduler lock
and the task file, each through files only. A bridged session hands its events
to the hybrid transport, whose uploader posts them.

The behaviours that are hard to test are listed one by one, at the line where
they bite, in `PROJECT.json` under `hazards`, each with the properties that
cover it or the reason why none does yet.

## Modules

| Module | Models | Remarks |
|---|---|---|
| `ToolExecutor` | `StreamingToolExecutor` with its two consumers in `query.ts` | |
| `QueryGuard` | `QueryGuard` as a value with one operator per method | no variables |
| `Filter` | `Array.prototype.filter`, from the set of places it keeps | no variables |
| `CommandQueue` | the queue as a sequence; `peek`, the batch of a turn | no variables |
| `Turn` | extends the two above with the executions, the effect, the mid-turn drain and the user | composition |
| `TurnOwner` | abstract specification: what the guard promises | refined by `Turn` |
| `Harness` | the `/guide` loop of one session and the scripts around it | |
| `QueryLoop` | `queryLoop` of one query: an action per return and continue site | the executor and the drain are inputs here, modelled above |
| `TelegramChannel` | the gateway for one chat, with its subprocesses and the answers of Telegram | |
| `TaskBoard` | the operations of `tasks.ts`, a step per file operation | |
| `EventStream` | abstract specification: what an uploader promises | refined by `Uploader` |
| `Uploader` | `SerialBatchEventUploader` | |
| `HybridTransport` | extends `Uploader` with `HybridTransport` and its callers | composition |
| `SchedulerLock` | the lock file of the scheduler, a step per call | |
| `CronScheduler` | extends `SchedulerLock` with schedulers, task file and time | composition |
| `MC*` | instances for TLC | |
| `*_proofs` | theorems | |

### ToolExecutor

`kind` fixes, for each block the response will hold, whether the tool exists,
is concurrency safe, is Bash (its errors cancel the siblings) and may be
interrupted. `count`, `status`, `results`, `progress`, `hasErrored`,
`discarded` are the fields of the class; `parent` is the abort reason of the
turn's controller. The rest are program counters: `pos[c]` is the index at
which a `processQueue` call resumes (one call per `addTool`, per completed
tool, and one of the drain), `run[t]` the place of `t`'s `for await` loop over
the updates of the tool, `pc`/`draining`/`cursor`/`waitSet`/`woken` the
consumer in `getCompletedResults`, the body of `getRemainingResults` and its
`Promise.race`.

A step is the code between two awaits. Promise callbacks run before the event
loop takes I/O, a timer or a key, so actions that stand for the latter
(`Deliver`, `AbortTurn`, `DismissDialog`, `ReadChunk`, `ResumeYield`) are guarded
by `Quiescent`: no callback is ready. What `query.ts` does with a chunk of the
response is not: it adds all blocks of a message in one synchronous loop
(`src/query.ts:937`), so `processQueue` calls of several `addTool` calls are
suspended at once, tools of the burst already fail while later ones are added,
and the fallback or the drain may begin among them. The consumer *of* the query
loop asks for the next message at once or after I/O of its own. Among ready
callbacks every order is allowed, which is coarser than the FIFO microtask
queue and admits every real order.

| Action or operator | Code |
|---|---|
| `AddTool` | `addTool`: an unknown tool is completed at once with an error, others are queued and the queue is walked up to its first await |
| `ScanQueue`, `ResumeQueue` | `processQueue`, from one await to the next; `PassedOver` is its `else` branch with the `break` on a blocked exclusive tool |
| `ExecuteTool`, `HandleUpdate`, `Finish` | `executeTool`/`collectResults`; `AbortReason` is `getAbortReason` |
| `Yield`, `ResumeYield`, `EndCollect` | `getCompletedResults` and the tail of the drain loop |
| `DrainLoop`, `QueueDone`, `Wake` | `getRemainingResults` |
| `ReadChunk`, `PollResults`, `EndStream`, `Discard` | `query.ts` while it streams, after the stream, on fallback |

Assumed of tools (they are inputs): a success comes only after I/O, an error
possibly before; exactly one `tool_result`, then possibly further messages.
Content of messages, attachments, in-progress identifiers and context modifiers
of exclusive tools are abstracted.

### QueryGuard, CommandQueue, Turn, TurnOwner

A command has a class (mode, priority, addressee, slash, meta, where it comes
from) chosen in `Init`. The queue holds *objects* rather than commands: two
objects may carry the same text, and `query.ts` removes by reference.
`phase[e]` says at which await execution `e` stands; `batch`, `gen`, `snap` are
the locals of `executeUserInput`, `onQuery` and `query.ts` that survive awaits.
`installed` is the abort controller of React state and `dirty` says that the
effect of `useQueueProcessor` is due, as the queue or the guard changed since
it last ran. `handed`, `returned` and `dropped` are history variables; `dropped`
holds what the two errors lose that drop commands (`FailInput`, and the second
disjunct of `ConsumeDrain`).

| Action | Code |
|---|---|
| `Submit` | `handlePromptSubmit` |
| `Notify` | `enqueue`, `enqueuePendingNotification` |
| `IncomingPrompt` | `handleIncomingPrompt`, which calls `onQuery` without an `executeUserInput` around it |
| `ProcessQueue` | the effect with `processQueueIfReady` |
| `StartQuery` | the end of `processUserInput` and `onQuery` up to its first await, including the replay of refused messages |
| `FinishLocal`, `FailInput` | the branch without messages; `processUserInput` threw, the batch is dropped |
| `SnapQueue`, `ConsumeDrain` | the drain in `query.ts`: snapshot, await, removal, also when making the attachments threw and `maybe` returned none (`src/utils/attachments.ts:1027`) |
| `EndQuery`, `ClearController`, `Return` | the `finally` of `onQuery` before and after its await, the `finally` of `executeUserInput` |
| `Cancel`, `PopQueue` | `onCancel`; `popAllEditable` |

`mrOnTurnComplete` is a stub in this repository
(`src/moreright/useMoreRight.tsx`) but its await is kept. React runs the effect
in a microtask (`src/ink/reconciler.ts` sets `supportsMicrotasks`), so
`ProcessQueue` needs no `Settled` guard: it can come between two last
microtasks of an execution. User input, timers and I/O need `Settled`.

`TurnOwner` says what all of it is for: at most one owner; ownership passes
only through nobody; a revoked query may end later without effect. The
refinement maps `unfinished` to the executions inside `onQueryImpl` and
`owners` to those whose generation is the guard's while it is running.

### Harness

`file` is the state file of the session (`none` when it does not exist) with
the fields the loop reads: step, repair workspace, count of no-ops, mode, north
star. `line[s]` is what the gate can see in the teachings log for step `s`:
`findStepLine` returns the first line carrying the marker, so a log is
`missing`, `accepted`, `malformed` or `corrected` (malformed first, good
later). The model writes only lines of the step it was given and only appends.
`wait[h]` holds, for a hook between `probeOrStartDevServer` and its write, the
state it read and the step it will write; `copy` is the temporary file of
`steer.sh`.

`Stop` is `advanceHarness` up to its await or its end: `Promised` and
`Exhausted` close; `Warn`, `Engage`, `RepairMissed` are the escalation;
`Resolved` and `Advance` follow a passed gate; `Persist` is the write after
the probe. `Guide`, `Cancel`, `SteerCopy`/`SteerMove` are `setup.ts`,
`cancel.sh`, `steer.sh`.

Several hooks overlap when Escape abandons a turn whose hook waits for its
probe (the hook is not cancelled), or when a second process works in the same
directory.

### QueryLoop

One query, from its first iteration to the return. `phase` is where an iteration
stands: `setup` (compaction, checks), `stream`, `ended` (the stream is over),
`settled` (the tools have run), `over`. `turnCount`, `recoveryCount`,
`override`, `nudges`, `stopHookActive` and `failures` are the fields of `State`
that the next iteration inherits; `blocks`, `tracked`, `last`, `hidden` and
`prevent` are the locals of an iteration. `wire` and `fallen` say what
`callModel` may still yield. `limited` says whether `params.maxTurns` is given:
the terminal passes none, and the turns of tools are then without a bound.
`open`, `failedInRow`, `asked` and `cut` are history. Each `return` and each
`continue` of the loop is an action or a disjunct, so that what a site resets,
keeps or forgets is what the code writes there:

| Action | Code |
|---|---|
| `CompactSucceeds`, `CompactFails`, `NoCompact` | autocompact with its circuit breaker, the blocking limit |
| `Message`, `Notice`, `Truncated`, `ApiError` | a message of the stream, with the results of tools that are ready |
| `StreamFallback`, `ModelFallback`, `StreamThrows`, `ImageError` | what may break it; tombstones and made-up results |
| `EndStream` | the end of the stream, or the interrupt |
| `Escalate`, `Recover`, `GiveUp`, `ErrorEnds` | a truncated answer, an error |
| `HooksPrevent`, `HooksBlock`, `HooksPass` | stop hooks, then budget, nudge or completion |
| `RunTools`, `ResultThrows`, `ToolsEnd`, `NextTurn` | the tools and the returns and the continuation after them |

The server, tools, hooks and the user are inputs; how tools run is
`ToolExecutor`, how the queue is drained between iterations is `Turn`.

### TelegramChannel

`window` and `timers` are the pending entry of the chat and the timers armed
for it and its predecessors (the error path of a flush deletes an entry but not
its timer). `flush[f]` is a record for each call of `flushPending`: its phase,
its batch, the subprocess (`mode`, `engine`), the queue between the handler of
its output and the generator (`asked`, `answer`, `queued`), the reply (`acc`,
`draft`), and Telegram's side (`drafts`, `final`, `screen`). `established` is
the gateway's belief about the session, `transcript` the file on disk, `orphan` a
subprocess of an earlier life that is still to create it, and `late` that one has. Texts
are counts of chunks, since each text is a prefix of the next.

| Action | Code |
|---|---|
| `Receive`, `WindowCloses` | `debounceMessage`; the timer callback up to the first await |
| `Spawn`, `PlaceholderFails` | `streamReply` after its placeholder, `engineRoute` |
| `EngineSaves`, `EngineWrites`, `EngineExits` | the subprocess: session saved, output, exit or error |
| `TakeChunk`, `EndOfReply` | the generator loop, `SendFinal` the last edit |
| `DraftFires`, `DraftAnswered`, `FinalAnswered` | edits sent, and answered in any order |
| `ReplyFails`, `Fail` | the catch of `flushPending` |
| `Restart`, `OrphanSaves`, `OrphanExits` | the gateway dies and is started again; its subprocesses, which it never kills, may live on |

### TaskBoard

`file[i]` is `None`, `Empty` (truncated and not filled yet) or a task; `mark`
likewise. `op[a]` is what agent `a` is doing: the kind, the place, what it has
read (`seen`, `high`), and the updates still to make (`todo`). A step is one
file operation, so everything an operation has read may be out of date when it
writes. `createTask` and `resetTaskList` hold the lock of the list, `updateTask`
and `claimTask` that of the task, `deleteTask` and `listTasks` none; `blockTask`,
`unassignTeammateTasks` and the cascade of a delete read first and make a list
of updates of it. `Crash` forgets an operation anywhere; its locks go stale and
are taken over. `raced`, `crossed` and `blurred` mark the histories in which the
code's own lack of locking shows, so that the properties can say what holds
otherwise.

### EventStream, Uploader, HybridTransport

`Uploader` is `SerialBatchEventUploader`: `pending`, `loop` (the drain loop:
idle, sending, sleeping), `batch`, `failures`, `closed`, `dropped`; `call[c]` is
a caller, blocked for room, woken, in `flush` or returned. The drain loop takes
its next batch in the same step in which it handles the answer to the last, as
no await lies between. `HybridTransport` adds the buffer of stream events with
its timer, overlapping writes, `flush` (which takes two calls: the `enqueue`
nobody awaits and the flush), and `close` with its grace period. A batch in
flight is posted (2xx; history `posted`), refused for good (a 4xx answer or no
token; history `refused`, as the code counts it nowhere), retried or given up.
`EventStream` says what is promised: events leave in the order they were
accepted, each once, posted or lost with the head of the stream; nothing is
accepted after the close. The refinement maps its `stream` to what is in flight
and queued and can be serialized.

### SchedulerLock, CronScheduler

`lockFile` is the lock with the identity of the file, since a process may fill a
file that was removed after it opened it. `lock[p]` is the place of process
`p` in `tryAcquireSchedulerLock` or `releaseSchedulerLock`; every await is a
step. `session[p]` is the session it runs: a session that is resumed has a
second process, beside the first or after it, and the code takes a lock of its
session for its own. `halted` are the processes whose scheduler `stop` has
stopped; `isOwner` is `IsOwner(p)`, which a shutdown leaves on (`released`).
`lost` is a history: the processes from which the lock was taken.
`CronScheduler` adds `disk` (the task file: for each
task, the time it was last fired for, and whether the file is whole),
`sched[p]` (the closure of `createCronScheduler`: tasks loaded, `nextFireAt`,
`inFlight`), `held` (processes whose ticks do nothing, in a turn or by the kill
switch), and `ops[p]`, the read-modify-writes under way, as many as there may
be, in three steps each. `clock[t]` counts the times of a task that have passed,
which is all that schedules need of time.

| Action | Code |
|---|---|
| `Probe`, `Read`, `Rewrite`, `Recover`, `Retry`, `Fill` | `tryAcquireSchedulerLock` |
| `Stop`/`Halt`, `Release`, `Unlink` | `stop`, `releaseSchedulerLock` |
| `Shutdown` | `gracefulShutdown` runs the cleanup of `registerLockCleanup` |
| `Start`, `Crash`/`Die` | processes |
| `Enable`, `LoadInitial`, `Reload`, `Check` | `enable`, `load`, `check` |
| `HoldUp`, `TurnEnds` | the tests of `isKilled` and `isLoading` in `check` |
| `OpReads`, `OpTruncates`, `OpFills`, `Create` | `removeCronTasks`, `markCronTasksFired`, `addCronTask` |

Two properties name what they leave out. `OneOwner` speaks of the processes that
have not lost the lock: a recovery removes whatever is there by then, a release
removes what another process of the session has written meanwhile, and who has
lost the lock goes on with what it began. `OnceUnlessRaced` leaves out histories
in which two operations on the task file overlap (`damaged`), or a process fires
ahead of the file or beside another owner (`stale`): in both the code fires
twice. It holds however the lock has changed hands before, and while the owner
itself has any number of operations under way.

## Runs

Passing runs (bounds in the `.cfg`, distinct states approximate):

| Run | Bound | Shows |
|---|---|---|
| `tool_executor` | 3 blocks, 4 kinds, 1 progress message each (4.0 million states) | `ExclusiveAccess`, `SerialAroundExclusive`, `StartInOrder`, `OneResultPerTool`, `NoSuccessAfterCancel`, `QueueServed` |
| `tool_drain_live` | 2 blocks, 4 kinds (99 000 states) | `DrainTerminates`, which excepts one shape of response by name (`UnknownAfterExclusive`, see below) |
| `turn` | 3 commands of 5 classes, 3 executions (2.1 million states) | `SoleOwner`, `NothingLost`, `WakeupPending`, refinement of `TurnOwner` |
| `turn_live` | 3 commands of 2 classes, a user's prompt and a notification for a subagent, 2 executions (320 000 states) | `Served` |
| `harness` | 2 hooks, quick and standard mode, 2 commands (500 000 states) | `EvidencedProgress`, `LoopCloses` |
| `telegram` | 3 messages, 2 flushes, 2 chunks, 1 restart (710 000 states) | `NothingLost`, `ServedOnceInOrder`, `WindowHasTimer`, `SessionTracked`, `ReplyComplete`, `NeverAsleep` |
| `task_board` | 3 agents, 3 identifiers, 3 operations, 1 crash (330 000 states) | `IdsNeverReused`, `BlockersHonoured`, `EdgeKept`, `NoTheft` |
| `transport` | 4 events, 3 calls, batches and queue of 2, 2 failures, event 2 not serializable (187 000 states) | `NoStrandedCaller`, `WriteOrder`, `SettledWhenReturned`, refinement of `EventStream`, `FlushReturns` |
| `cron` | 3 processes of 1 or 2 sessions, 1 task, 1 time (736 000 states; see below for `Explored`) | `OneOwner`, `OnceUnlessRaced`, `NoTaskLost` |
| `cron_live` | 2 processes of 2 sessions, 1 one-shot task, 1 time (140 000 states) | `FailOver`, `DueFires` |
| `query_loop` | 2 blocks, 2 turns or no limit of turns, every other limit 1 or 2 (590 000 states) | `ToolUsesAnswered`, `CutOffRecovered`, `BreakerHolds`, `LoopEnds` |

`tool_executor` and `query_loop` also check the type invariant; those of the
other modules are proved.

For every property of a passing run `PROJECT.json` names a mutant: a plausible
slip in a modelled operation (the operator after the word "Mutant" in the
module) under which TLC finds that property violated, so that none of them
holds merely by the shape of the model.

Why these bounds. Three blocks give every pattern the scan distinguishes: a
running tool, a blocked one and one behind it, with the fourth party (the
drain) walking the same list; the properties relate at most two tools and one
between them, and the proofs remove the bound. Three
executions are one that unwinds, one that took over and one that follows; with
three commands a batch, a queued rest and a newcomer coexist. Two hooks
suffice for one to write over what the other wrote; two commands are a restart
in another mode, or cancel or steer in any order. Two flushes overlap, fail
under each other's window and find each other's session; the third message
opens a window behind them. Three operations on the board are one under way,
one that invalidates what it has read and one that sees the outcome; three
agents let all of them overlap. Four events in three calls over a queue of two
block a caller, let another overtake it and put a failed batch back before
newer events. Three processes are an owner that dies or shuts down, the one
that recovers its lock and one of either session that comes late. The constraint
`Explored` of `cron` cuts off what cannot break a property or only repeats
another instance: after an overlap of two operations on the file nothing but
`OneOwner` says anything, and no step on the task file changes the lock; all
three processes contend while there is no task, and two of them once there is
one, until the lock is lost otherwise than by a shutdown. The
theorems about the safety properties hold for every value of the bounds and know
no constraint. Two
turns and limits of one and two reach every continue site after every other; a
query without a limit of turns runs on in the model too, as its count is kept at
`MaxTurns` where nothing looks at it. Generations and counters are not cut off in `Turn`: each
command is sent once, so the state space is finite by itself. `MaxCommands`,
`MaxProgress`, `NTools`, `Hook`, `Exec`, `Cmd`, `MaxMessages`, `MaxFlushes`,
`MaxChunks`, `MaxRestarts`, `Agent`, `MaxId`, `MaxOps`, `MaxCrashes`,
`MaxEvents`, `MaxCalls`, `Processes`, `Sessions`, `Tasks`, `MaxDue`, `Blocks`
and `BudgetSteps` are all the bounds there are; the other constants are
parameters of the code. Symmetry (of slots and of commands in `Turn`, of
agents, of processes) is used in safety runs only.

`ToolExecutor` has an explicit `Stopped` and is checked for deadlock. The other
systems may stop: the user, the chat, the agents do nothing more, all processes
are over, or the query has returned.

## Disagreements between code and text

One is a run, `hook_stop`: its property `StopHonoured` is the comment "If a
hook indicated to prevent continuation, stop here" (`src/query.ts:1716`), and
TLC finds a behaviour that breaks it. The results that are ready while the
answer streams are yielded by a loop (`src/query.ts:943`) that does not look for
the attachment by which a hook of a tool asks to stop; only the loop after the
stream does (`src/query.ts:1562`). A tool that ends during the stream, and whose
hook asked to stop, does not stop the query.

The others were met while modelling, and confirmed by TLC or by reading; no run
states them. Each is a sentence of the repository and what the code does.

* `src/services/tools/StreamingToolExecutor.ts:450`, "Wait for remaining tools
  and yield their results as they complete": an unknown tool tracked behind an
  executing exclusive one keeps `hasCompletedResults()` true (`:467`), so the
  drain loops on resolved promises and the event loop never serves the
  executing tool. Without its exception `DrainTerminates` fails at once.
* `src/utils/handlePromptSubmit.ts:434`, the guard is to be active during those
  awaits "to ensure concurrent handlePromptSubmit calls queue": the `finally`
  (`:604`) of a cancelled execution releases its successor's reservation. It
  happens without any cancellation too, when the effect starts the next turn in
  the microtask between `end()` and the `finally` of the turn that ended.
* `src/utils/messageQueueManager.ts:270`, "Callers must pass the same object
  references that are in the queue": `src/query.ts:1840` removes what it took a
  snapshot of before an await; a command that was popped into the input box
  meanwhile is also given to the model.
* `src/query.ts:1828`, "Remove only commands that were actually consumed as
  attachments": an error while the attachments are made is swallowed and counts
  as none (`src/utils/attachments.ts:1041`), and the commands are removed all the
  same; `src/utils/attachments.ts:757` warns of exactly that for another path.
* `src/hooks/useCancelRequest.ts:96`, "so users can always interrupt": a late
  execution clears the controller of the running query
  (`src/utils/handlePromptSubmit.ts:586`); Escape no longer aborts it.
* `src/harness/loop.ts:128`, "clear harnessWs (auto-resolve fractal mode) and
  advance normally": the advance after a repair writes back the state with the
  repair workspace (`:261`).
* The README's `/cancel`, "Abort a session": the state file that `cancel.sh:32`
  removes comes back when the probe of a waiting hook answers and the hook
  writes (`src/harness/loop.ts:261`); an undone steer has the same cause.
* `src/harness/loop.ts:175`, "Re-do step": a corrected line that the model
  appends after a malformed one is never read, as `findStepLine` (`:280`) returns
  the first.
* `src/utils/cronTasks.ts:5`, "One-shot ... fire once, then auto-delete": two
  removals of fired tasks overlap (`src/utils/cronScheduler.ts:336`, no
  serialization in `src/utils/cronTasks.ts:244`), the later write brings a task
  of the earlier one back, and it fires again.
* `src/utils/tasks.ts:400`, "Update high water mark before deleting to prevent ID
  reuse": `deleteTask` takes no lock; two deletes, or a delete and a create,
  overlap, and an identifier is given again.
* `src/channels/telegram/telegramChannel.ts:208`, "Prevent re-entry": the timer
  callback deletes the entry in the same turn, so a second flush of the chat
  begins while the first runs.
* `src/entrypoints/gateway/telegram-gateway.ts:190`, "so gateway restarts don't
  try to recreate an existing session": nothing kills the subprocesses of the
  gateway that stopped (`:317`, `:418`), and one may save its session after the
  restarted gateway has looked; its next message then asks to create it again.
* `src/cli/transports/HybridTransport.ts:112`, "`await write()` resolves after the
  event is POSTed", and `:140`, "Snapshot before/after writeBatch() to detect
  silent drops": a batch refused with a 4xx answer, or met without a token,
  resolves like a success and is not counted (`:203`, `:238`); the bridge, which
  compares the counts (`src/bridge/replBridge.ts:1284`), takes its history for
  delivered. `SettledWhenReturned` without `refused` fails at once.
* `src/utils/cronTasksLock.ts:109`, "If two sessions race to recover a stale
  lock, only one create succeeds": the slower one unlinks (`:165`) the lock that
  the faster one has created, and both become owners.
* `src/utils/cronTasksLock.ts:3`, "only one should drive the cron scheduler", and
  `src/utils/cronScheduler.ts:347`, the lock "exists to stop two aiko sessions in
  the same cwd from double-firing": a process that finds the lock of a live
  process of its own session writes it over and owns the scheduler as well
  (`src/utils/cronTasksLock.ts:139`); and the release that `gracefulShutdown`
  runs (`:93`) leaves `isOwner` and the timers on while another session acquires
  the lock. `OneOwner` with no exceptions fails at once.
* `src/services/compact/autoCompact.ts:367`, the breaker skips attempts "this
  session": its count lives in the state of one query and starts anew with the
  next.

Smaller ones: results come out in completion order, not "in the order tools
were received" (comment of `StreamingToolExecutor`); the batch of a turn is in
insertion order, not in "priority order" (`dequeueAllMatching`); a `/guide`
passes its steps on teachings lines an earlier session left
(`src/harness/setup.ts:53`), as `evidenceMissing` does not use the freshness
counts it is given; five consecutive no-ops close a session, not the three of
the README, because engaging the repair resets the count; the last step is
closed before its gate is looked at (`src/harness/loop.ts:94`); the retry with a
larger output limit fires again after every recovery, which resets the override,
not "once per turn" (`src/query.ts:1286`).

What is lost by design of the code, and not a property: an input that throws
drops its whole batch (`src/utils/handlePromptSubmit.ts:477`; `NothingLost`
names that error and the one above as the only ways to lose a command); a task
deleted between the read and the write of an update is written again, and an
agent that dies between truncation and fill leaves a task nobody can read
(`src/utils/tasks.ts:365`); the hide timer sweeps a task created after its
reading (`src/hooks/useTasksV2.ts:166`); a process that dies while it fills the
task file leaves no tasks (`src/utils/cronTasks.ts:177`); a stop of the gateway
loses the pending window (`src/entrypoints/gateway/telegram-gateway.ts:427`);
the error of a truncated answer that has a `tool_use` before it is never shown
(`src/query.ts:919`), whether the query goes on with the next turn or returns
`hook_stopped` or `max_turns`; `CutOffRecovered` names that case.

## Fairness

* `ToolExecutor`: weak fairness of every promise callback and of the consumer
  (JavaScript runs every ready microtask); strong fairness of a running tool's
  answer and of the query loop's consumer, which iterates to the end, as each is
  disabled for a moment by every burst of callbacks. None of the stream. Tools
  that never answer are out of scope: nothing in the code bounds them.
  `Deliver` is fair only for answers, not for progress.
* `Turn`: weak fairness of the effect, of `processUserInput`, of attachments
  and of the `finally` blocks; strong fairness of `EndQuery`, which the
  microtasks of other executions suspend. No fairness of the user, of
  notifications or of mid-turn snapshots.
* `Harness`: turns keep ending, since a blocked stop makes the model continue
  (`WF Stop`); a probe answers or gives up within a minute
  (`src/utils/devServerProbe.ts`, `WF Persist`); `steer.sh` finishes
  (`WF SteerMove`). No fairness of the model's writing: the loop closes for a
  model that writes nothing.
* `QueryLoop`: weak fairness of the loop (`Progress`), strong fairness of
  `EndStream` (a request that can be retried without end is answered in the
  end: the two fallbacks themselves are not counted by the code) and of
  `HooksPass` (stop hooks that block again and again let one answer pass; they
  are programs of the user). Everything else ends by the loop's own counters. No
  fairness makes the model stop asking for tools: without a limit of turns
  `LoopEnds` says that nothing else keeps the loop going.
* `HybridTransport`: a request ends in success or failure, as it has a timeout,
  the backoff timer fires and continuations run (`Deliver`, `Continue`,
  `FlushedThenClosed`). The server need not ever succeed.
* `CronScheduler`: awaited file calls return, of the lock (`LockStep`) and of the
  task file, and the watcher of a process that runs reports (`Progress`); turns
  end and the kill switch is turned off (`TurnEnds`); strong fairness of `Check`,
  as a turn that begins before every tick would disable it again and again, and
  some tick falls between two turns. No fairness of time, processes, creations
  and of what holds a tick up.
* `TelegramChannel` and `TaskBoard` have safety properties only: Telegram's and
  the subprocess's answers, and the agents' attempts at a lock, have no bound
  that the code sets. `NeverAsleep` and `WindowHasTimer` state as invariants
  what liveness would need.

## Proofs

All theorems hold for every value of the constants that satisfies the named
assumptions of the modules, and nothing else is assumed:

* bounds and limits are natural numbers, positive where the code's are
  (`NToolsAssumption`, `MaxProgressAssumption`, `MaxCommandsAssumption`,
  `BoundsAssumption` of the gateway and of the board, `QueryAssumption`,
  `CronAssumption`, `UploaderAssumption`), and the blocks of an answer are a
  finite set;
* the marks for "nothing" and "truncated" are neither agents nor tasks nor
  numbers, `none` is no execution (`NamesAssumption`, `NoneAssumption`);
* classes and modes are those of the code, and an unknown tool is tracked as
  concurrency safe (`ClassesAssumption`, `ModesAssumption`, `KindsAssumption`).

The argument of each module:

* `ToolExecutor_proofs`: `TypeCorrect` and all six properties of the run.
  `ExclusiveAccess` alone is not
  inductive: what protects a later tool is where each `processQueue` call
  stands. `SchedInv` therefore says that every tool a suspended call has walked
  past has left the queue (`Behind`), that tools leave the queue in order
  (`LeftInOrder`), and that a tool that does not exist is never queued. From it
  `FirstQueued` shows that a scan, wherever it resumes, only ever starts the
  first tool of the whole queue: whatever blocks an earlier tool blocks the
  later one too. Mutual exclusion, the serial order and the order of starts
  follow together in `ScanSched`. `ResultInv` adds what the results rest on:
  whenever a tool could be started a `processQueue` call is under way
  (`Attended`, hence `QueueServed`: the least queued tool could be started if
  none executed), and a tool between its success and its completion is alone
  among the promise callbacks (`Undisturbed`), so that no sibling can cancel it
  there and give it a second result: `query.ts` is not at work on a chunk
  (`Feeding`, `DrainPlaces`), and with `Attended` the drain finds nothing to
  start. `OneAnswer` then counts the results.
* `Turn_proofs`: `TypeCorrect`, all three invariants of the run
  (`SoleOwnerCorrect`, `NothingLostCorrect`, `WakeupPendingCorrect`) and
  `TurnOwnerCorrect`, the refinement of `TurnOwner`. `StepShape` reduces the
  fourteen actions to what they do to guard, phases and generations; `GuardInv`
  adds to `SoleOwner` that no execution's
  generation exceeds the guard's and that two querying executions have
  different generations, without which `end(gen)` of a late execution could
  match its successor. For the commands, `CommandInv` adds to `NothingLost` and
  `WakeupPending` that queue, batches and snapshots are made of objects of
  commands that were sent, and that an execution has a batch until it returns
  (`ExecTypes`, `SessionTypes`): `Range` of what a handler queues, takes or
  removes is then all a step needs. `StillFound` says that a step loses nothing
  if what leaves the queue or an execution is found elsewhere afterwards, and
  `StillDue` that the queue keeps its wake-up if the step sets `dirty`, leaves
  the guard active, empties the queue of the main thread or touches none of
  them; each action is an instance of both. `BatchTakes` is what the wake-up
  rests on: the effect gives up only when `peek` finds nothing for the main
  thread.
* `HybridTransport_proofs`: `TypeCorrect`, `NoStrandedCallerCorrect`,
  `WriteOrderCorrect`, `SettledWhenReturnedCorrect`, and `StreamCorrect`, the
  refinement of `EventStream`. The batch in flight and the queue behind it are
  one line, and every step keeps the line, takes events at its end, posts the
  batch, loses it to a refusal, gives it up, or cuts the line at the batch when
  the uploader closes (`Keeps`, `Takes`, `Posts`, `Refuses`, `GivesUp`,
  `Closes`); meanwhile events that
  cannot be sent may disappear from it. `IInv` consists of `TypeOK`; `LoopInv`
  (there is a batch exactly while the loop sends, and the loop rests only over
  an empty queue or closed); `BlockedInv` (who waits has a loop to wait for);
  `CloserInv` (`close` calls `flush` once, and the uploader closes only when
  that call has ended); `FlushInv` (the events a caller answers for are posted,
  refused or in line, unless a batch was dropped since its call or the uploader closed);
  and `OrderInv` (posted events, line, buffer and events still to be written are
  one ascending sequence until somebody had to wait). The refinement follows
  from the same six kinds of step, as the stream of `EventStream` is the part
  of the line that can be serialized.
* `Harness_proofs`: `TypeCorrect`, `EvidencedCorrect`. `EvidencedProgress` is
  not inductive, because a waiting hook or a copy of `steer.sh` can bring an
  older or newer state back; `EvidencedPending` says the same of these pending
  writes. It rests on `AcceptedStays` (the log is only appended to and an
  accepted first line stays first) and `NextStepOfMode` (no step of the mode
  lies between a step and its successor).
* `QueryLoop_proofs`: `TypeCorrect`, `ToolUsesAnsweredCorrect`,
  `CutOffRecoveredCorrect`, `BreakerHoldsCorrect`. `IInv` says between the sites
  what the properties say at them: an iteration begins with nothing open,
  withheld or in the executor (`Clean`); what waits for a result is a block of
  the current answer, and nothing waits once the tools have run (`Waiting`); the
  executor knows every block unless the turn was interrupted (`Known`); an error
  is withheld only while it is the last message (`Withheld`); and the count of
  failures that travels through `State` is that of the failures in a row
  (`SameCount`), which each continue site must preserve. `Matched` is inductive
  beside it: the answers cut off in a row are at least the recoveries counted
  and at most twice that and one, as one retry with the larger limit fits before
  each, and every other way on finds them at zero.
* `TelegramChannel_proofs`: `TypeCorrect` and all six properties of the run.
  Per flush, `Good` says that what the subprocess printed is in hand, handed
  over or queued (`Hand`), that nothing is before the subprocess exists
  (`Stages`), that the final edit has all the text and no draft is under way
  after it, unless one overlapped it (`Ending`), and that a streaming flush
  still has something coming (`Awake`). Across the flushes and the window,
  `Fresh`, `Arrived` and `InOrder` keep the messages in order of arrival, and
  `Known` says that the session is on record as soon as a subprocess was spawned
  for it, with a creator at work or failed as long as it is not on disk.
* `CronScheduler_proofs`: `TypeCorrect`, `OneOwnerCorrect`,
  `OnceUnlessRacedCorrect`, `NoTaskLostCorrect`. `LockInv` says that the
  lock file is there, and names its session, for every process that acts on
  owning it and has not lost it; who has lost it takes it from all others when it
  goes on (`Taken`). `Bookkeeping` ties the marks of tasks in flight to the operations
  under way. `OneWriter` says that, as long as operations on the task file have
  not overlapped, one at most has begun, and a torn file has the one that will
  fill it. `NextAhead` (a task is due next after whatever it was fired for),
  `FiredStands` (what was fired is in an operation under way, or stands in the
  file) and `MarkFresh` (no operation brings an older time) then exclude a
  second firing, as whoever fires is the only owner.
* `TaskBoard_proofs`: `TypeCorrect`, `IdsNeverReusedCorrect`,
  `UpdateAtomicCorrect`, `BlockersHonouredCorrect`, `EdgeKeptCorrect`,
  `NoTheftCorrect`. `IInv` is `Types`, `Locks` (whoever stands at a place under a
  lock holds it), `Known` (what an operation has in hand was an identifier in
  use), `Covers`, `Atomic`, `Resolved` and `Edges`. They are stated of the
  operation `o` of an agent, so that a step, which changes one operation and one
  file, is examined from two sides: the agent that takes it, and any other, for
  whom `Quiet` treats all steps that leave the files alone, and `KnownWrite`,
  `AtomicWrite`, `ResolvedWrite`, `EdgesWrite` those that do not. `Covers` is why
  identifiers are not reused: while no delete has overlapped, at most one agent
  is numbering, and files, mark and what that agent has read are together at
  least as high as any identifier given, through the truncation of the mark and
  a crash in the middle of it. The highest file exists by the well-ordering of
  the naturals (`WFMin`), as does the least queued tool above.

The inductive invariants of `CronScheduler_proofs`, `TaskBoard_proofs`,
`Turn_proofs`, `QueryLoop_proofs` and `HybridTransport_proofs` were
model-checked before they were proved: the first on two processes with no
constraint (5.84 million states), the second on two agents with four operations
(2.94 million states), the others on the instances of the runs.

The batch of a turn, what stays in the queue, and the batch of an uploader are
what `Array.prototype.filter` keeps of an array. `Filter` defines it from the
ranks of the places that are kept rather than by recursion along the array, so
that `AtPlaces` and `AtRange` (each kept element once, in its order, and no
other) follow from the cardinality of finite sets; two modules need them.

Only model-checked:

* liveness (`DrainTerminates`, `Served`, `LoopCloses`, `FlushReturns`,
  `FailOver`, `DueFires`, `LoopEnds`), as fairness and `ENABLED` are beyond the
  prover;
* `StopHonoured`, which the code violates (`hook_stop`).

Every invariant and every refinement of the passing runs is a theorem.

No specification uses a `RECURSIVE` operator, and nothing is proved by induction
over data.

## What is not modelled

In modelled components:

* executor: blocks that stream in after an abort are never added to it (the
  query loop makes up their results); in-progress identifiers and context
  modifiers; a discarded executor beside the fresh one after a fallback;
* turn: the abort by a `now`-priority message, chained next inputs, the
  restoring of an interrupted prompt to the input box, the UI of local JSX
  commands, the drains of subagents, abort reason `interrupt`, which matters
  only for tools whose `interruptBehavior` is `cancel`;
* harness: the choice among several live sessions of a directory, the contents
  of warnings and prompts;
* query loop: the branches of `REACTIVE_COMPACT` and `CONTEXT_COLLAPSE`, which
  the build switches off, `pendingToolUseSummary`, attachments, the contents of
  messages;
* gateway: pairing, commands, the daemon around it, and several chats, which
  share nothing but the bot;
* task board: `claimTaskWithBusyCheck`, which no call asks for, and the
  mailboxes (`src/utils/teammateMailbox.ts`);
* event uploaders: `WorkerStateUploader`, `ccrClient` and the byte limit of a
  batch beyond its effect on where a batch ends;
* scheduled tasks: tasks of a session only, cron expressions, jitter and the
  age at which a recurring task expires; a `/resume` inside a process, which
  changes its session; a probe that outlives the interval of the timer and
  overlaps the next one of the same process; a stop in the middle of the release
  of a shutdown.

Whole components: those marked `not_modelled` in `PROJECT.json`, with the reason.
The flush gate of the bridge and the consolidation lock have state worth a
module and are left for later. The bulk of the repository (terminal rendering,
provider clients, permissions and compaction over text, MCP and LSP clients,
other language hosts) is I/O, layout or sequential evaluation of text, where a
state model would say little.

## Plan

Done: `ToolExecutor`; `QueryGuard`, `CommandQueue`, `Turn` with `TurnOwner`;
`Harness`; `QueryLoop`; `TelegramChannel`; `TaskBoard`; `Uploader` and
`HybridTransport` with `EventStream`; `SchedulerLock` and `CronScheduler`; the
proofs above.

Left, in this order:

1. two executors across a fallback, composed with `QueryLoop`;
2. `Mailbox` (append and mark-as-read under the lock), `FlushGate` (history
   before live messages, across a replaced transport), `StateUploader`
   (coalescing: the last value of every key arrives);
3. the consolidation lock, as a second client of the lock-file steps;
4. `Harness` with several sessions (`pickActiveSession`).
