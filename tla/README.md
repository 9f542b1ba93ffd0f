# Verification of hotdog

TLA+ modules that model the parts of hotdog where several actors meet, the TLC
runs that check them on small instances, and theorems about them that TLAPS
checks. Paths below are those of the repository; `lane-ledger.ts:413` is a line
of a source file.

hotdog is a single-threaded TypeScript (Bun) agent harness. "Concurrency" here
means three things: callbacks and continuations that interleave between two
`await`s of one process; several hotdog processes that share a state directory;
and crashes of a process between two writes.

## 1. Inventory

| component | code | state | operations |
|---|---|---|---|
| lane ledger | `core/session/lane-ledger.ts`, `utils/fs-atomic.ts`, `utils/process-group.ts` | slot files of a lane and their mtimes; `processSlots`, `#held` in memory | `acquire` (with reclaim in place), `release`, the heartbeat `#beatAll`, `sweepStale` |
| task scheduler, manager, execution | `core/session/task-{scheduler,manager,execution,types}.ts` | the `TaskEntry` table: status, provider, lease, blocked, turnPending, turnGranted ...; the retry timer | `spawnTask`, `planForSpawn`, `admit`, `warmPlace`, `taskTurn`, `completeTask`, `interruptTask`, question asked and settled, `retryQueued` |
| provider health | `core/session/provider-health.ts` | up or down per provider | `noteUp`, `markDown`, `doSweep` |
| message bus | `core/session/message-bus.ts` | `#queue`, `#steerChain`, `#pendingSteers`, the waiter, the abort signals | `enqueue`, `run`, `interrupt`, `cancel`, `executeCommand` |
| turn lanes | `core/session/turn-lanes.ts` | the lease of the session's turn | `acquireTurn`, release |
| agent loop | `core/agent.ts` | `#running`, `#steering`, `cancelled`, the context | `run`, `steer`, `cancel`, the wrap-up after the iteration cap |
| tool executor, user gate | `core/tool-executor.ts`, `extensions/user-gate` | results in order of the calls; the queue of prompts, `sessionGrants` | `execute`, `executeViaPlane`, the TOOL_CALL gates, `askUser` |
| compaction, handoff | `extensions/compaction`, `extensions/handoff-tool` | `batonStash`, `settings.strategy`; they rewrite the context | the hooks before a request, after an overflow and at the end of a turn; `/compact` |
| commands | `core/command-handlers.ts` | none: they rewrite the context | `/undo`, `/clear` |
| context | `core/context/*` | the messages | append, repair of dangling tool calls, rewind |
| session log and resume | `extensions/session-log`, `core/session/session-log.ts`, `extensions/websocket/resume.ts` | a JSONL file, a write queue per file, `barrierFailures`, `openTurns` | append, fsync append, the barrier before a tool, rewind checkpoint, replay, adoption |
| exec broker | `core/tool-exec-broker*.ts`, `workers/tool-exec.ts` | pending calls in three processes, the runner pool, the respawn budget | `invoke`, `cancel`, `close`, respawn, reap, fence swap |
| workflow engine | `extensions/workflows/{engine,workflow,gates}.ts` | a `NodeRun` per node, one gate per attempt, deadlines, the journal | `run`, `cancel`, `cancelNode`, attempts, judges, resume |
| run directory | `extensions/workflows/{run-store,workflow-tools}.ts` | the marker `.owner`, claims parked beside it, the journal | dispatch, resume, skip, the scan of a starting process |
| websocket sessions | `extensions/websocket/{session-registry,attach,replay,server}.ts` | sessions, channels, counters, cursors | create, fork, attach, adopt, replay, idle cleanup |
| web UI | `extensions/webui/ui/*` | the session shown, rows, cursor, question card | connect, switch, append live events, reload |
| question bridge | `extensions/websocket/question-input.ts`, `extensions/question-tool` | held questions | ask, answer, dismiss |
| session index | `core/session/session-index.ts` | a sqlite mirror of the logs | sync, rebuild |
| stream processor, LLM client | `core/stream-processor.ts`, `core/llm-client/*` | one request, its attempts, the text so far | retry, idle timeout, abort |
| MCP client | `extensions/mcp-client/*` | pending requests, elicitation holds | call, timeout, death |
| configuration, tools, UI, web UI, wire formats, approvals | the rest of `src/` | mostly none | pure functions, one-shot I/O, presentation |

**How they interact.** A *user* submits to a message bus, which has one
consumer. The consumer runs the INPUT hooks, acquires a slot of the provider's
lane (turn lanes, which call the lane ledger), and drives the agent. A
submission that arrives while the agent runs is *steered*: it goes through the
hooks in a chain of its own and into the agent's steering queue, which the next
iteration drains. The agent's tools can spawn *tasks*; the task manager keeps a
table of them, and its scheduler admits them to lanes, again through the ledger.
The workflow engine is a consumer of the task manager that parks tasks between
turns. A question of an agent passes the websocket bridge, and gives the task's
slot back while a human thinks. All processes of a machine share the ledger.

**What makes each correct, and what is hard.** The list with a line for each is
`hazards` in `PROJECT.json`. In short:

- *lane ledger*: a lane admits at most Cap turns although holders crash, pause,
  leak and fail; and no fault takes a slot away for good. Hard: every read of a
  file is old by the time of the next call on it.
- *scheduler*: a turn holds a slot while it may call the model, no slot is lost
  in a cancel that races an answer, nobody waits without a wake-up, finished
  tasks stay finished. Hard: five kinds of promises are in flight per task.
- *bus and agent*: each submission is answered for once, in order; the context
  never loses what the model was told and never separates a tool call from its
  result. Hard: the gap between an agent's last look at its steering queue and
  the bus's look at the same queue.
- *session log*: a call whose side effect ran is never replayed as "safe to
  retry", across kill -9, power loss and failed writes; automatic resumes are
  bounded; one adopter per session.
- *exec broker*: every call is answered once, by the child it was sent to; a
  cancelled call is not executed later.
- *workflow engine*: every node terminates in one way, and releases its task.
- *run directory*: two processes never drive one run, and a run is called
  interrupted only when its driver is gone. Hard: a claim is several calls over
  files, and a process may die after each.
- *tool executor and user gate*: no tool runs without the consent its call needs, each
  call has one answer in its turn, and a human has one question of the gate at a time.
  Hard: several sessions wait in one queue for one human while runs are cancelled.
- *compaction*: a cut context is one a strict backend accepts, and a popped tail comes
  back at most once, behind a plan. Hard: six strategies, three triggers and two
  extensions that rewrite one context at the end of one turn.
- *websocket sessions*: a log has one writer, a question that waits has somewhere
  to be answered, a counter that reaps sessions is the number of their viewers.
  Hard: a tab switches, closes or deletes while an adoption is awaited.
- *web UI transcript*: what a tab shows after a reconnect is the log, once, in
  order. Hard: a cursor over records, rows made from events, and cuts.
- *LLM call*: of several attempts one answers, and a cancel stops them. *MCP
  client*: every request settles once, at its own deadline. *Session index*: a
  row says of a log what a derivation from the log would say.

## 2. Plan

Order of the modules, most important behaviour first. A to I are written.

| | module | models | abstract specification | status |
|---|---|---|---|---|
| A | `LaneLedger` | the shared ledger | `LaneSemaphore` | checked and proved |
| B | `TaskScheduler` | scheduler, manager, execution, health; uses the ledger's abstraction | - | checked and proved |
| C | `SessionBus` | bus, agent loop, turn lanes, `/undo`, `/compact` | - | checked and proved |
| D | `SessionLog`, `SessionDurability` | write queue, barriers, crash, replay and repair, cuts, adoption | `Stranded`: what an answerable context is, apart from the repair | checked; `EffectsRecorded` and `AutoResumesCapped` proved |
| E | `ToolExecBroker` | supervisor, broker child, runners | each call answered once (`CallsAccounted`) | checked and proved |
| F | `WorkflowGraph`, `WorkflowEngine`, `WorkflowRunDir` | the graph; nodes, attempts, judges over the task API; claims on a run directory | the journal folded (`JournalTruth`) | checked and proved |
| G | `SessionHost`, `Transcript` | live and cold sessions under several tabs; one tab's rows and cursor against the log | transcript = log (`TranscriptIsLog`) | checked; `SessionHost` proved |
| H | `LlmCall`, `McpClient`, `SessionIndex` | one model call; one MCP server; one index row | row = derivation (`MirrorIsDerivable`) | checked and proved |
| I | `ToolCalls`, `Compaction` | the gates and approvals of tool calls; the cuts of a context with the baton | the pairing of calls and results (`Paired`); the smallest cut (`CutsAreFair`) | checked; `ToolCalls` proved |

Composition: `TaskScheduler` takes the ledger as what `LaneLedger` was proved to
promise; `SessionDurability` and `Transcript` share `SessionLog`'s view of a log;
`WorkflowEngine` takes the task table as what `TaskScheduler` promises, and
`WorkflowRunDir` takes a run as a step that may end or die; `MCServices` runs the
independent parts of H and I, each alone. It extends `LlmCall` and `ToolCalls`, whose
properties are proved too (hence the names `ToolInit`, `ToolNext`, `ToolSpec`), and
instantiates the others.

`SessionDurability` and `WorkflowRunDir` share no state, but both are about what files
say after a death; `DurabilityProofs` extends the two (hence the names `RunDirInit`,
`RunDirNext`, `RunDirSpec`).

Theorems: section 6 lists what is proved, and at its end what only TLC checks, and why.

## 3. Modules

### LaneLedger (with LaneSemaphore, MCLaneLedger, LaneLedgerProofs)

One lane: `slot[s]` is the marker in slot file s or `None`, `age[s]` its
mtime as `"fresh"`, `"quiet"` (older than leaseMs) or `"stale"` (older than
staleMs). `registered` is `processSlots`, `held` the heartbeat table, `pc`, `at`,
`token`, `judged` the local state of each caller of `acquire` or `release`. An
action is one filesystem call and the code that runs when it returns:

| action | code |
|---|---|
| `StartAcquire`, `Create`, `Read`, `Recreate`, `Judge` | the scan of `acquire`, 210-287, with `#occupied` |
| `Verify`, `RenameClaim`, `ReadBack` | `#reclaimInPlace`, 550-573 |
| `StartRelease`, `ReleaseRead`, `ReleaseRm` | `release`, 289-322 |
| `BeatRead`, `BeatTouch` | `#beatAll`, 467-527 |
| `SweepStat`, `SweepRm` | `sweepStale`, 334-396 |
| `Expire` | time: a file nobody refreshes ages |
| `Crash`, `Stall`, `Resume`, `Leak`, `IoError`, `ReadError` | the environment's faults |

Abstractions. A token is its caller and a serial; a fresh one differs from every
token anything still mentions (the code draws a UUID). A marker's pid and host
follow from its token. Heartbeats are 15 s and leases 120 s, so a file ages only
if its process is dead or suspended or no longer beats it. Unparseable markers are
left out. Two history variables say when an *accepted* deviation happened:
`blind` (a reclaim's rename or a sweep's rm hit a marker other than the one
judged: the window `lane-ledger.ts:51-57` accepts) and `lapsed` (a live holder's
file went quiet, because its process was suspended for two minutes). The release
has the same window between its token check and its rm (305-318), although its
comment says "never delete a live slot"; only a process that stalled for a lease in
between can meet it, so it falls under `lapsed`.

### TaskScheduler (with MCTaskScheduler)

`task[t]` is the `TaskEntry` of the t-th spawn plus what its handlers left in
flight (`fetching`, `sorting`, `acquiring`, `granting`, `settling`, `run`);
`seek[t]` its `warmPlace` calls that wait for the ledger; `slots`, `freeing`,
`handing` count this process's slot files and the unlinks in flight. `setup` is
a configuration and workload, fixed in `Init`, so that one run covers several.

| action | code |
|---|---|
| `Spawn`, `Planned`, `PlanFails` | `spawnTask`, `planForSpawn` |
| `Admit` (inside other actions) | `admit`: grants of waiting turns, then starts |
| `StartAnswer`, `GrantAnswer`, `SeekAnswer`, `TurnSlotAnswer`, `SettleAnswer` | the continuation of each `acquireSlotSafe` |
| `Sorted`, `SeekReturned` | the two other awaits of `warmPlace` |
| `Built`, `BuildFails` | `TaskExecution.launch` |
| `TurnEnds`, `Park`, `Final` | `driveTurn`, `parked`, `finalizeTurn` |
| `TaskTurn`, `Woken` | `taskTurn` |
| `CompleteTask`, `Interrupt` | `completeTask`, `#interruptEntry` |
| `Ask`, `Gone`, `Answered` | `onTaskQuestionAsked`, `onTaskQuestionSettled` |
| `Freed`, `Handed`, `RetryTick` | `releaseSlot`, `releaseLease`, `#armLanesRetry` |
| `SweepDown`, `SweepUp` | provider health |

The ledger is represented by what LaneLedger promises: an acquire answers with a
slot only if one of Cap is free, and with "full" at any time, since other
processes take slots too. Not modelled: ids that are reused, eviction of
finished records, unlinks that fail, consumers that throw, and the sleep
between two tries of the settle loop. The end of `driveTurn` and
`finalizeTurn` are a microtask apart and are one step. A `warmPlace` sort uses
the latency and load of providers: the order is any permutation its ties allow.

The loop of `admit` that starts queued tasks is a fold over the table in insertion order:
`Promise` gives each task the first lane of its `Homes` (its candidates that are up, or
its own lane) with `Room` left by the turns that occupy it and by what the pass has
promised before; `StartOn` starts it there. `setup.seeks` is how many placements
(`warmPlace`) of one task may await the ledger at a time: the reservation ends when the
sort does (`task-scheduler.ts:444`), so the next pass may place the task again.

### SessionBus (with MCSessionBus)

Submissions are numbered in the order `enqueue` sees them. `fate` is their
history: unsent, open (accepted, unanswered), heard (in the context), handled
(consumed by a hook, or its run failed before it was heard) or dropped (by an
interrupt). `loop` and `agent.phase` are the awaits at which the bus loop and
`Agent.run` stand.

| action | code |
|---|---|
| `Submit`, `Deliver`, `Steer` (inside) | `enqueue`, `#deliverSteering`, `Agent.steer` |
| `NextItem`, `InputDone`, `Drop` | `_messages`, `_processMessage` up to the lane |
| `AcquireAnswer`, `SleepEnds`, `SlotLands`, `Unlanded` | `acquireTurn` |
| `RunStarts` ... `LastTurnEnd`, `RunEnds` | `Agent.run`, one action per await |
| `HandOff`, `Released` | what `_processMessage` does after the run |
| `Interrupt`, `Cancel`, `Undo`, `CompactStart`, `CompactEnd` | the user |
| `OtherTakes`, `OtherGives` | another process on the lane |

Messages of the assistant and results of tools are not in `ctx`; `tail` says
whether the context ends in unanswered tool calls. Left out: continuation items,
empty input and images (same control as a plain or piped item), drain mode (used
by tests and one-shot mode; the interactive process starts one loop), and a
second compaction while one is in flight. The gap of one microtask between the
yield of `_messages` and the start of `_processMessage` is closed. An INPUT hook that
throws is a message that is handled. `Undo` and `CompactStart` check and rewrite in one
step; the code awaits the COMMAND_DISPATCH pipeline between the two, which is a microtask
as long as no extension has an asynchronous hook there.

### SessionDurability (with SessionLog, MCSessionDurability, DurabilityProofs)

`SessionLog` holds the pure part: what a resume derives from the entries of a
log (`Epoch`, `OpenTurn`, `ConsecutiveAutoResumes`, `PendingQuestions`), the
repair (`RepairToolCalls`, `ReplayEntries`) and the cuts (`UndoCut`,
`RewindCuts`). `SessionDurability` is one session over several lives of its
process. `disk`, `synced`, `torn` are the file: its whole lines, how many of them
an fsync covers, and whether a part of a line follows. `queue` is `writeQueues`
of the path; `openTurn` and `failed` are `openTurns` and `barrierFailures`;
`held` is `resumedHeldQuestions`; `phase`, `todo`, `waits`, `clearing` and
`resuming` say where the agent and the bus stand.

| action | code |
|---|---|
| `WriterAppends`, `WriterSyncs`, `AppendFails`, `SyncFails` | `queuedAppend`, `queuedFsyncAppend`, with the handler that waits for the write (`Settle`) |
| `SendPrompt`, `SendRejected`, `ContinueTurn` | `handleSend`, the start of `Agent.run` and TURN_START; a prompt dismisses resumed questions |
| `LlmReplies`, `LlmFails`, `EndTurn` (inside) | the reply, TURN_END and the handlers that run in parallel there |
| `DispatchCall`, `AnswerUnrun`, `Execute`, `AskQuestion`, `ToolReturns` | `executeSingle`: the barrier, the gates, the tool, the result |
| `Cut`, `ClearAtTurnEnd` | `/undo`, `/rewind`, `/clear`; a clear by loop, handoff or the baton; CONTEXT_REWOUND |
| `Crash` (with `FileSurvives`) | a kill keeps the file, power loss a prefix that holds what was fsynced |
| `Adopt`, `Restore` (inside), `AnswerHeld` | `attachResumedSession`, `adoptSessionLog`, `restoreSessionIntoAgent`, `seedResumedQuestions` |

Abstractions. `session_start` lines carry nothing a resume reads and are not
kept; they matter because the first line of a new life completes a torn one.
Records that only inform (system prompt, usage, model, profile) are left out. An
fsync that succeeds is believed even after one that failed, and the directory
entry of a new file survives. Assistant messages are taken to have text, so they are
visible to `/rewind`. One prompt is in flight (the bus queues the next), an
adopting session gets no prompt, and a call id is used once. History variables
(`ran`, `merged`, `strays`, `undone`, `autos`, `ended`, `reopened`) only serve the
properties.

Where a property has an exception, the exception is what the code does:
`RanIsRecorded` and `NotStartedNeverRan` leave out a record written behind a torn
line, `NotStartedNeverRan` also a record above a reset that a crash cut off from
its kept messages, `RequestsAnswerable` a call that a cut separated from its result
or its question, `EndedTurnStaysClosed` the marker that a clearing handler writes
behind `turn_end`. The properties that say "as long as no write fails" do so
because a plain append that fails is not reported to anybody.

### ToolExecBroker (with MCToolExecBroker)

The execution plane: the supervisor in the harness process
(`tool-exec-broker.ts`), one child (`tool-exec-broker-main.ts`) and its runners
(`workers/tool-exec.ts`). A call is followed from the executor that races it
against an abort to the runner and back; frames between supervisor and child travel
in order, and each process may die between any two of them. `down` and `up` are the
frames in flight, `child`, `entry` and `runner` the broker processes and their pools,
`pending` the calls the supervisor waits for, `policy` the sandbox a session is
entitled to and `planned` the one a call was dispatched with.

| action | code |
|---|---|
| `Invoke`, `ResumeCall`, `Abort` | `#executeViaPlane`, `invoke` before and after its await, `cancel` |
| `Post`, `SetPolicy` | `warm`, `reap`; a policy that changes the fence |
| `HearReady`, `HearReply`, `HearExit`, `Overflow` | the frames and exits the supervisor hears, the line limit |
| `WindowSlides`, `Close`, `CloseReturns` | the respawn window, `close` before and after its waits |
| `Boot`, `RouteInvoke`, `Warm`, `RouteCancel`, `ReapEntries`, `Relay` | the child's handlers |
| `RunnerSpawnFails`, `RunnerExit`, `RunnerWriteError`, `RunnerCrash` | the failures of a runner |
| `IdleTimer`, `Leave`, `Drain`, `DrainTimer`, `Crash`, `Finish` | idle runners, the end of the child, a runner's answer |

Left out: how a fence is planned, frames byte by byte, the sharing of a broker.

### WorkflowGraph and WorkflowEngine (with MCWorkflowEngine, WorkflowEngineProofs)

`WorkflowGraph` has the graph: dependencies, gates and the judge that a node owns.
`WorkflowEngine` is a run of it. `node[n]` is a `NodeRun`, `task[k]` a task of the
task manager as the engine sees it (planned, live, between turns, over), `log`
`run.jsonl` as its readers fold it, `queue` the terminal events of this dispatch. The fold
of `readRunLog` sets a state and a claim per event, so what it leaves of a node is what the
node's last event says (`Journal`, `LastOf`, `ClaimAfter`). Ids of tasks are finitely many
here: an action that may spawn waits for a free one (`HasId`).

| action | code |
|---|---|
| `DepsReady`, `PlanReady`, `PlanFails` | the wait for dependencies, `spawnTask` before and after its await |
| `TurnStarts`, `TurnEnds`, `TurnDelivered` | the task's turns and `onTurn` into the gate of the present attempt |
| `Gate`, `Verdict`, `Accepted` (inside) | the evaluation of deterministic gates, the judge's verdict |
| `JudgeDeps`, `JudgeGate` | `#runJudge` before and after it has its task |
| `Deadline`, `Interrupt`, `CancelNode`, `CancelRun` | `timeoutMs`, the user, `cancelNode`, `cancel` |
| `RunEnds`, `Crash`, `Edit`, `Redispatch` | the end of `run`, a death, a change of the files a claim names, a resume |

### WorkflowRunDir (with MCWorkflowRunDir, DurabilityProofs)

The same run directory under several processes of one host, at the grain of one
file call: `owner` is whom `.owner` names, `aside` a marker renamed aside while it is
judged, `astray` (history) the processes that live while their marker is gone.
`DispatchRun`, `Read`, `Discard`, `PutBack`, `Create`, `Reread` are the claim
(`run-store.ts`); `Open`, `Work`, `Finish`, `Leave` the run; `Skip`, `SkipOwner`,
`SkipAppend` the skip tool; `ScanJournal`, `ScanOwner`, `Mark` the scan of a starting
process; `Kill` a death and `Corrupt` a marker that is gone or unreadable. A pid is
used by one process only.

### SessionHost (with MCSessionHost, SessionHostProofs)

The host of websocket sessions and several tabs. `live`, `adopt` and `logged` say
whether a session is live, being adopted or cold, `held` and `pend` are its questions,
`act` is the session and channel of a socket, `count` the registry's counter, `flows`
the handlers of a tab that are suspended at an await, `view` and `card` what the tab
shows. `early`, `twice`, `slipped` and `yanked` are history: the deviations that
section 5 lists, each an exception of a property.

| action | code |
|---|---|
| `Connect`, `SwitchSession`, `LoadLog`, `CreateSession`, `Fork`, `Close` | `onUpgrade`, `onClose` and the handlers of `server.ts`, up to their await |
| `Send`, `Command`, `Answer`, `Cancel`, `Delete` | prompts, slash commands, answers, cancel and delete |
| `Burst`, `Looked`, `Refused`, `Fall`, `CreateFails`, `FreshDone`, `NewDone` | the frames a tab receives, and the continuations of the handlers above |
| `Built`, `AdoptFails`, `Restored`, `RestoredGone` | `adoptSessionLog` and its await |
| `TurnStarts`, `TurnEnds`, `Ask`, `Expire`, `Reap` | the agent, a question and its timeout, idle cleanup |

A fresh session id is used once; which session counts as most recent is any live
one. A dismissed question is a delete of an idle session's. Left out of `Send`: a prompt
whose upload is rejected, which dismisses the held questions and enqueues nothing.

### Transcript (with MCTranscript)

One tab and one session: `log` is the session's log, `shown` what the tab shows, `tab`
its own state with the cursor, `wire` the frames in flight, `flows` the attaches that
await their read of the log. `Prompt`, `StreamChunk`, `StreamReset`,
`StreamEnds`, `CommitCall`, `CommitText`, `ToolReturns`, `TurnEnds`, `Undo` are the
session; `Connect`, `SwitchStarts`, `ReadLog`, `SendBurst` the attach with its full or
delta replay; `GetCreated`, `GetCursor`, `GetEvent`, `ViewLog`, `SwitchSession`,
`SocketDies`, `Reload` the tab. Two fields of `tab` are history: `replaced` (the rows were replaced by those
of a cold log) and `missed` (the last replay could not hold
all that was under way); section 5 says what
they exclude.

### LlmCall, McpClient, SessionIndex, ToolCalls, Compaction (with MCServices, ServicesProofs)

Five parts that share no state here. `MCServices` chooses in `Init` which of them a
behaviour is about, so that one run checks each of them alone; it is not a
composition.

- `LlmCall`: one call of the model. `Start`, `Accept`, `Refuse`, `RequestBreaks`,
  `RefusalRead`, `RefusalBreaks` are the request, `Event`, `End`, `StreamBreaks` its
  stream, `Wake` the backoff, `Rescue` the retry the PROVIDER_ERROR pipeline asks for,
  `Cancel` and `HostAbort` the two ways to stop it. `conn` is the sockets as the backend
  sees them: an open one is a generation somebody pays for.
- `McpClient`: one stdio server. `Call`, `Response`, `Timeout` are requests,
  `AskNobody`, `Elicit`, `Answer` questions of the server, which hold the clocks. The lines
  of a chunk are dispatched synchronously (`reading`), also after one of them destroyed the
  transport; only at its end (`ChunkEnds`) do the callers settled by it go on, which is
  when `callTool` removes its handler and `_sendRequest` clears its timer. Every other
  event waits for that. A timeout, a death and a shutdown settle their callers with no
  line in between, so there both are one step.
  `Initialized`, `Listed`, `TooManyTools`, `ConnectFails` are the handshake and paging of
  tools, `ServerDies`, `Shutdown` the end. A call and the send of its line are one step.
- `SessionIndex`: one row. `Prompt`, `Reply`, `TurnEnds`, `Rewinds`, `Resumes` append to
  the log, `Starts`, `Queries`, `Returns` are a tool call, `CommitPoint`,
  `CommitFails` the mirror, `ReadLog`, `WriteRow`, `SearchLooks` a derivation before and
  after its await, `Crash`, `LoseIndex`, `Reconcile` a death and the next boot. Left out:
  the mirrors of usage and model records, which touch other columns, and a boot whose
  reconcile fails.
- `ToolCalls`: the calls of one reply of each of several agents. `stage` is where
  `executeSingle` waits, `queue` the process-wide prompts, `grants` the `sessionGrants`;
  `consent`, `allowed` and `ran` are history. `RuleDecides`, `GrantDecides`,
  `EnqueuePrompt`, `PromptTurn`, `HumanAllows`, `HumanDenies` are the handler of the user
  gate, `FencesPass` and `FenceStops` the gates behind it, in the order of their
  extensions (`loadOrder`), `Attempt`, `ToolReturns`, `ToolTransient`, `BackoffOver` the
  attempts, `Refused` a call that gets no attempt, `Abort` and `SessionEnd` what a cancel
  and a deletion do to all of these. A target stands for what `memoKey` tells apart.
- `Compaction`: one context as a sequence of message kinds. `FirstKept`, `TrimCut`,
  `TokenAwareCut`, `BatonKeeps` are what each strategy keeps, `Compacted` and `Perform`
  the rewrite with guard, summary, notice and stash. `CompactFirst`, `Rescue`,
  `CompactNow`, `CompactKeep` are the four places a cut is made; `Replay`, `Completes`,
  `HandsOff`, `HandoffRefused`, `TurnFails` the baton. The summary call has only its
  outcome here (`LeaveContext` when it fails); what else happens while it is awaited is in
  `SessionBus`. The session has one run at a time, an id, and a bus, as interactive ones do.

## 4. Runs

A property that is a conjunction of named parts is checked as one, and its parts
are stated and commented one by one in the modules.

| run | properties | bounds | states, time |
|---|---|---|---|
| `LaneLedger_faults` | `LaneBound`, `LedgerInv`, `NoWedge` | 2 processes on one host, 1 caller each, 1 slot, 1 fault of any kind | 198 000, 40 s |
| `LaneLedger_semaphore` | `RefinesSemaphore` | 3 callers in 2 processes on 2 hosts, 2 slots, no fault | 426 000, 25 s |
| `TaskScheduler_safe` | `SlotsAccounted`, `TurnsAdmitted`, `NoLostWakeUp`, `FinishedIsFinal`, `WarmTurnsFirst` | 8 setups of 1 to 3 tasks, cap 1 per lane and one lane of 2 | 943 000, 100 s |
| `TaskScheduler_live` | `EveryTurnProceeds` | 2 tasks, 2 candidate lanes | 14 000, 30 s |
| `SessionBus_turns` | `SubmissionsAccounted`, `HistoryIntact`, `Settles` | 3 submissions, 2 iterations, 1 interrupt, 1 undo, 1 foreign turn | 430 000, 125 s |
| `SessionDurability_crash` | `EffectsRecorded`, `RequestsAnswerable`, `LogIsFaithful`, `AutoResumesCapped` | 2 prompts, 2 calls, 2 replies, 1 cut, 1 failed write, 2 deaths; 3 of these events together | 1 960 000, 70 s |
| `ToolExecBroker_plane` | `CallsAccounted`, `PoolIsSound`, `AllSettle`, `NoCrashLoop` | 2 calls of 1 session, 2 troubles, 1 warm or reap, 2 children, 2 runners, 1 respawn | 1 760 000, 100 s |
| `WorkflowEngine_run` | `NoStrayWorker`, `GraphOrder`, `RunIsJournalled`, `AllSettle`, `StoppedNeverAccepted` | a producer, its judge and a consumer; 6 tasks, 2 dispatches, 1 trouble | 629 000, 95 s |
| `WorkflowRunDir_claims` | `ClaimsExclude`, `JudgedLostWhenLost` | 3 processes, 4 dispatches, 4 kills or corruptions | 3 000 000, 110 s |
| `SessionHost_tabs` | `RoomsAgree`, `QuestionsReach`, `ContinuedOnce`, `LogIsTakenOver` | 2 tabs, 2 sessions, 2 held questions, 2 suspended handlers, 3 troubles | 1 160 000, 60 s |
| `Transcript_attach` | `CursorIsExact`, `TranscriptIsLog` | 3 messages of 2 chunks, 2 connections, 2 troubles | 1 960 000, 50 s |
| `Services_each` | `OneStream`, `StopsAsking`, `CallsAreGated`, `ContextSurvivesCuts`, `CallsSettle`, `MirrorIsDerivable` | 2 retries of 3 chunks; 2 agents with 3 calls for 2 targets, 2 attempts; 6 messages, budget 4, 1 queued; 5 requests, 2 questions, 2 cursors, 3 pages; 2 calls, 6 records, 2 derivations, 2 troubles | 875 000, 120 s |

The parts:

| property | parts |
|---|---|
| `SlotsAccounted` | `TypeOK`, `NoSlotLost`, `FinishedIsReleased`, `IdleYields` |
| `TurnsAdmitted` | `QuietTurnHoldsSlot`, `LaneCap`, `OneTurnAtATime`, `RunsWhereItMay` |
| `NoLostWakeUp` | `NothingStranded`, `BlockedIsRetried` |
| `EveryTurnProceeds` | `QueuedStarts`, `WaitingTurnProceeds` |
| `SubmissionsAccounted` | `TypeOK`, `NothingLost`, `NothingParked`, `ChipTellsTruth`, `SlotHeldByTurn` |
| `HistoryIntact` | `QuietContextKept`, `ToolsPaired` |
| `Settles` | `SubmissionsSettle`, `LoopExits` |
| `EffectsRecorded` | `RanIsRecorded`, `NotStartedNeverRan` |
| `LogIsFaithful` | `TypeOK`, `CutsArePersisted`, `LogIsTranscript`, `RunningTurnIsOpen`, `EndedTurnStaysClosed` |
| `CallsAccounted` | `TypeOK`, `NoCallLost`, `EntryAccounts`, `CancelReaches` |
| `PoolIsSound` | `RunsBehindItsFence`, `OneRunnerPerKey`, `IdleTimerFits` |
| `GraphOrder` | `StartsOnDone`, `JudgeMirrorsOwner` |
| `RunIsJournalled` | `TypeOK`, `JournalTruth` |
| `ClaimsExclude` | `TypeOK`, `DoubleOnlyAstray`, `OnePerProcess`, `MarkerNamesDriver` |
| `RoomsAgree` | `TypeOK`, `CountIsRoom`, `ViewIsSubscribed` |
| `QuestionsReach` | `HeldIsAsked`, `LiveQuestionHasCard` |
| `LogIsTakenOver` | a log has one writer; no turn begins on a dangling call |
| `LedgerInv` | `TypeOK`, `NoGhostRegistration` and the parts of section 6 |
| `OneStream` | `OneGeneration`, `AnswerIsOneStream` of `LlmCall` |
| `CallsAreGated` | `ToolTypes`, `RunsOnConsent`, `PlaneHearsCancel`, `AnsweredInOrder`, `OneQuestion`, `DeadForget` of `ToolCalls` |
| `ContextSurvivesCuts` | `TypeOK`, `Paired` of the context and of the popped tail, `OneNotice`, `CutsAreFair` of `Compaction` |
| `CallsSettle` (`MCServices`) | `CallsSettle`, `ClocksFair`, `ServerContained` of `McpClient` |
| `MirrorIsDerivable` | `MirrorTellsLog`, `FreshMissedNothing` of `SessionIndex` |

Why the bounds suffice to be of use. *LaneLedger*: one slot is where callers
collide most; two slots and three callers in the second run make the scan move
on, and let a loser of one slot win another. One fault is enough for every
handler of a fault to meet every step of the other process; what the runs show
for one, the proofs show for any number. *TaskScheduler*: with cap 1 the lane is
full as soon as one task runs; three tasks give a holder, a waiting warm turn and a
queued spawn at once, which is what admission has to order. `MaxSeeks` bounds
`warmPlace` calls of one task that wait at a time, `MaxLoops` the settle loops: two of
each are what it takes for one to outlive the other. The lane of cap 2 is there for two
settle loops of one task that both get a slot.
*SessionBus*: three submissions put one in the run, one in the chain or the
steering queue and one behind it; two iterations make the last one and the
one before it differ (`MaxIterations`), and one interrupt, undo and foreign turn
meet every step. `Serials` gives a caller a second token. *SessionDurability*: two
calls put one before the other in the order of a reply; two deaths put one into
the resume of the other; `AutoCap = 1` is reached by two automatic resumes
(the code's cap is 5). Prompts, cuts, failed writes and deaths share the budget
`MaxEvents = 3`: every three of them meet in every order, and a hazard of this
code takes two or three (a prompt, a failure, a death). *ToolExecBroker*: two calls
let one die with the runner or child that the other uses; two troubles put a crash
of a runner into the restart after a crash of the child; `RespawnCap = 1` (the code
has 3 in a window) is reached; with two children only the window half of `NoCrashLoop`
could fail here, and its cap rests on the theorem. *WorkflowEngine*: the graph has each kind of edge once (a
dependency, a judge and its owner), a second attempt needs a second task of each
(`MaxTasks = 6`; an action that may spawn waits for a free id), and the second dispatch resumes whatever the first left.
*WorkflowRunDir*: three processes are what it takes for one to restore a claim over
another's; two do not show it. *SessionHost*: two tabs on one session, and a second
session to switch to; two held questions make the first answer leave one.
*Transcript*: three messages put one on each side of a cursor and one behind a cut.
*LlmCall*: two retries make a first, a middle and a last attempt. *McpClient*: five
requests leave three calls behind a handshake of two, so that one is answered while the
clock of another is held; of two questions one can come behind a response in its chunk; a
buffer of two stands for the code's 1000. *SessionIndex*: two derivations overlap. *ToolCalls*: two
agents put one prompt behind the other; one of them makes two calls, so that a grant of
the first is used by the second; one target is always asked for and runs in the plane,
the other runs inline under any verdict. *Compaction*: with one recent pair, a tool result
of size two and a budget of four, six messages hold a call with two results on either
side of every boundary, an overflow under a notice, and a tail that comes back.

Symmetry: processes in `WorkflowRunDir_claims`, tabs in `SessionHost_tabs`, calls and
asks of `McpClient` in `Services_each`; none of these runs checks liveness, and no definition
tells the members apart.

Fairness. LaneLedger: the callbacks of a running process run (WF of acquire,
release, polling and the beat: an event loop), and time passes (`Expire`).
Crashes and other faults need not happen, and a suspended process need not
resume. TaskScheduler: WF on promises, timers, builds and ends of turns; SF on
an acquire that asks again and again for slots that are free now and then, as
the retry timer has no queue; `FewTurns`, because the workflow engine bounds the
turns of a node by `maxAttempts`. Nobody has to spawn, answer, complete or
interrupt. SessionBus: WF on the loop, on the run (requests, tools and hooks
have timeouts), on the INPUT pipeline of the chain and on the end of a foreign
turn. Users and the summary call of a compaction owe nothing. In ToolExecBroker and
WorkflowEngine that something always settles is stated without fairness: `AllSettle`
says that as long as a call or node is open, some reaction that the program or its
environment owes is enabled, so the system never waits for nobody.

`CHECK_DEADLOCK FALSE` in all runs but those of LaneLedger: with a bounded number of
spawns, submissions, calls or troubles everything finishes and nothing is left to
do, and the bus loop may exit. `NothingStranded`, `Settles`, `AllSettle` and
`CallsSettle` say that this is the only way to stop.

## 5. Disagreements between code and text, and what else was seen

No run of the project expects a violation: where the code deviates from a comment,
the properties have an exception that names the deviation, and dropping the exception
gives the counterexample. In order of the modules:

- *LaneLedger*: release reads the token, awaits and removes the slot by path
  (`lane-ledger.ts:305-318`), although its comment says "never delete a live slot".
- *TaskScheduler*: `warmPlace` awaits the return of a slot of a lane that filled up
  (`task-scheduler.ts:484`) and goes on without looking at the status again; it can
  move a *running* task to the bare lane and mark it blocked (`task-types.ts:331`: the
  lane it occupies while RUNNING). `websocket/server.ts:207` does not return the
  promise of `onTaskQuestionSettled`, so an answered agent may call the model before
  its slot is back (`task-manager.ts:733`); `TurnsAdmitted` speaks of turns that ask no
  question. A settle loop may outlive its turn, and two may run at a time, since nobody
  awaits them; each overwrites the lease of the entry (`task-manager.ts:752-753`), so a
  slot is forgotten until the sweep of the ledger finds it, or a parked task keeps one
  while idle: the exceptions `Askers` of `NoSlotLost` and `IdleYields`. The moved running
  task above is the exception of `RunsWhereItMay` and of `LaneCap` on the bare lane.
- *SessionBus*: a turn that begins while `/compact` awaits its summary loses its
  messages (`extensions/compaction/index.ts:285`, `message-bus.ts:652`);
  `QuietContextKept` is the part that holds. Of two steered submissions the later may
  enter the queue first (`message-bus.ts:602`, against "The chain preserves submission
  order", :200). A request goes out after a kill when the cancel falls into the hooks
  before it (`agent.ts:765`, against :529); an interrupt during the INPUT pipeline stops
  nothing (`message-bus.ts:230`).
- *SessionDurability*: an append that fails half way leaves a line without its
  newline; the next `tool_started` record is written onto it, its fsync succeeds and the
  tool runs, but no reader sees the record (`record-count.ts:75`), against `CONTEXT.md:75`
  ("an absent record means the call truly never dispatched"). Handlers of TURN_END run in
  parallel and `clearContext` awaits once before its checkpoint, so the open-turn marker
  lands *behind* `turn_end` (`session-log/index.ts:459`, against :608-610), and a resume
  continues a turn that is over. After a resume an interrupted call is answered at the
  end of its block, which may be behind a later prompt (`repair.ts:104-107`), and an
  `/undo` of that prompt takes the answer along (`rewind.ts:20-21`). A held question whose
  assistant message was lost by a failed append is still presented
  (`session-log.ts:767`); a crash inside a checkpoint hides the started record of a call
  of the kept context (`session-log/index.ts:455`); a reset whose plain append fails is
  not noticed when the fsync of the tail succeeds (:458).
- *ToolExecBroker*: a call that is cancelled while it awaits the start of the child is
  dispatched later (`tool-executor.ts:422`, `tool-exec-broker.ts:546`). `close` during a
  start leaves a waiting invoke unsettled when the next start overwrites `#onReady`; its
  tail rejects all pending calls, those of a child started meanwhile included; an invoke
  that resumes without a child throws after `pending.set`. (`close` has no caller in
  production.) A write error to a runner answers a call twice, harmlessly.
- *WorkflowEngine*: a task interrupted while its spawn is planned leaves its gate
  unanswered (`engine.ts:441`: "never hang the run"). `cancelNode` of a judge whose
  `spawnTask` is awaited finds nothing to interrupt (:726), and `#runJudge` drops the
  task (:765-767), against `workflow-tools.ts:969` ("a queued node never spawns a
  worker"): the exception `Abandoned` of `NoStrayWorker`. The record of a judge names no
  dependencies and files, so on a resume its claim stays valid when its owner's is not. A
  judge that is cancelled while its gate is evaluated lets its owner settle cancelled,
  where the doc says blocked. Verdict files are not checked for freshness. `run` removes
  `.owner` while aborted workers still end their turns. A crash between the terminal
  events of an owner and of its judge blocks the judge on resume, so that the run can
  never succeed.
- *WorkflowRunDir*: a parked claim is restored with an exclusive create whose result is
  ignored (`run-store.ts:153`, against :115-116): with three processes, one drives a run
  whose marker names another. `DoubleOnlyAstray` without its exception shows it. Further:
  a claim restored after its owner left; two starting processes that both append
  `interrupted`; a run resumed between the look at its owner and the append that calls it
  interrupted (:331 to :404), where `JudgedLostWhenLost` speaks of the look; a skip that races a resume; `finished` is never reset by `resumed`.
- *SessionHost*: the create handler broadcasts `sessionCreated` to every tab, where
  `attach.ts:207-212` says broadcasting would yank tabs. `resume.ts:90` makes a session
  live before its replay is over. The card of a chained held question is locked by the
  broadcast of the first answer; a joiner of an adoption gets no card of a held question. A
  slash command or `/loop` starts a turn past held questions; `/fork` copies dangling
  calls. A channel removed twice makes `connectedClients` too small, and the idle cleanup
  can delete a session that somebody views. A failed `createSession` leaves the tab
  deaf; `handleCancel` leaves stale cards. Prompts that meet the open window of an
  adoption are outside of `LogIsTakenOver`.
- *Transcript*: the cold log view and `switchSession` clear the rows but not the cursor,
  and a reconnect offers it (`chat.ts:757` against :735-737), so a delta lands on the
  wrong rows. A live event in the window of a delta shows twice. A burst that crosses a
  later full replay appends again, or winds the cursor back. A reply that is assembled but
  not committed at the attach is missing until the next full replay. Live order is text
  before call, replay has the call first (`wire-messages.ts:1-5`: shapes cannot drift).
  Undone rows stay until the next attach. This is what `replaced`, `missed` and the
  hypothesis that no cut follows the cursor exclude.
- *LlmCall*: a call that throws leaves the partial text set (`stream-processor.ts:74-76`,
  `session-registry.ts:720`), and a tab that attaches to the idle session is sent it
  (`attach.ts:94-104`). A failure to read the body of a refusal is thrown raw
  (`llm-client/client.ts:538-540`), so a 503 whose body breaks is not retried. A cancel
  during the hooks before the request still walks the ladder of retries. A body that is
  cut off cleanly counts as complete.
- *ToolCalls*: a cancelled call whose prompt waits behind the live prompt of another
  session stays where it is until that human answers (`user-gate/index.ts:79-83`: only
  `askUser` looks at the signal), where :184 says such a prompt "must resolve toward deny
  rather than dangle". Questions of the question tool and of MCP servers do not take a
  turn in the queue, so "the UI never has two live questions" (:75) holds of approvals
  only. After a cancel the inline tools of what is left of the batch are still entered;
  `PlaneHearsCancel` is what holds. The user gate is asked before the other gates had a
  chance to block, so a human may say yes to a call that never runs. Calls whose arguments
  cannot be parsed share one key for a tool (`memoKey`, no targets), and with it a grant.
- *Compaction*: `handoff-tool` awaits the files of its plan before it clears the context,
  and handlers of TURN_END start together, so the baton's handler still finds the notice
  (`compaction/index.ts:599`, against :564 "already run" and
  `tests/extensions/compaction-strategy-pass-the-baton.test.ts:581`): after a handoff by
  tool the popped tail is not given back, unless a front cut took the notice away before,
  in which case a *refused* handoff gives the tail back to the live context.
  `findFirstKeptIndex` keeps 2n-1 messages, not the "keepRecent * 2" of `utils.ts:31`. A cut
  that trim backs up to nothing counts as a rescue (`trim.ts:71`, `index.ts:686`), so drop
  is not tried. An interrupt that drops the queued plan leaves the stash armed, and its tail
  joins the next prompt, also after `/clear` (against :574 "must not hijack whatever comes
  next"). A replayed tail may end in a text of the assistant, which `ensureUserTurnGuard`
  exists to prevent. A second pop while a tail is stashed overwrites it.
- *McpClient*: late answers to timed-out requests stay buffered, so that the 1001st kills
  a healthy connection. A question may outlive its call or be attributed to another; one
  that comes right behind a response in the same chunk is put to the human in the name of
  the call that has just been answered, since `callTool` removes its handler a microtask
  later (`client.ts:404-409`, :444 against :446 "Not attached to any live tool call"), and
  `CallsSettle` says of the handlers what they are between chunks. After
  the failure of all requests an answered question still runs. A request answered with an
  error keeps its timer. `shutdown` in the same tick as a send does not reject it.
- *SessionIndex*: a commit point stamps the current size of the file without
  a derivation, though "a row is only ever fresh for bytes it actually read": the search
  text of a fresh row may be old. A crash right after a mirrored `tool_started` leaves a
  fresh row, so the boot does not derive `interrupted`. A failed mirror followed by a good
  one is not repaired, and a derivation that races a mirror loses or double counts
  (the history variables `astray` and `twice`). The kind of a question is lost by ON
  CONFLICT DO NOTHING, so the result of another call turns awaiting into idle.

## 6. Proofs

`LaneLedgerProofs` proves, for every number of processes, callers, slots and
faults, from `LaneAssumption` and `NoneAssumption` (typing of the constants,
`None` is no token) and, for theorems about cardinality, the finiteness of
`Slots` that follows from `Cap \in Nat`:

| theorem | statement |
|---|---|
| `Typing` | `Spec => [](TypeOK /\ TokenInv)` |
| `NoGhosts` | `Spec => []NoGhostRegistration` |
| `LedgerInvariant` | `Spec => []LedgerInv` |
| `LaneNeverOverAdmits` | `Spec => []LaneBound` |
| `ImplementsSemaphore` | `Faults = {} /\ Spec => RefinesSemaphore` |

The argument. `LaneBound` is not inductive: a caller about to rename a claim
over a marker is harmless only if that marker's owner is past that slot.
`LedgerInv` adds what is needed. `TokenInv`: a token names its caller, who has
one exactly while it acquires, holds or releases. `HeldInv`: the heartbeat's entry
names the slot its holder holds, so a beat never revives somebody else's marker.
`MarkerInv`: a marker's owner stands at that slot or has passed it, since tokens
are not reused and the scan only moves up. `OwnerInv`, while neither `blind` nor
`lapsed`: whoever stands at a slot has its marker there, an aged file belongs to
nobody, and whoever is about to overwrite or delete judged a marker that nobody
can come to own. Two holders then stand at different slots (`HoldersApart`), an
injection into `Slots`, hence at most Cap. Without faults `FaultFreeInv` shows
that every marker has an owner, so nothing is reclaimed, and the win of a slot is
a `Take` and the start of a release a `Give`. Each preservation lemma has a step per
action that can disturb its conjunct.

`TaskSchedulerProofs` proves, for every number of tasks, lanes, caps, configurations and placements in flight, from `SchedulerAssumption` (typing of the
constants; the fields of a setup):

| theorem | statement |
|---|---|
| `Invariant` | `Spec => []IInv` |
| `SlotsAreAccounted` | `Spec => []SlotsAccounted` |
| `FinishedStays` | `Spec => FinishedIsFinal` |
| `TurnsAreAdmitted` | `Spec => []TurnsAdmitted` |
| `NobodyIsForgotten` | `Spec => []NoLostWakeUp` |
| `WarmTurnsComeFirst` | `Spec => WarmTurnsFirst` |

`SlotsAccounted` is not inductive: whether a step may add a lease depends on what the
other awaits of the same entry still hold. `IInv` says it per entry. `ColdInv`: a task
that never ran holds nothing. `PlanInv`: planning, sorting and acquiring exclude each
other, and a task waits for a lane of its plan. `RunInv`: which flags a running task has
at each place of `launch`, `taskTurn` and `driveTurn` (a grant in flight is exactly a
granted waiter, a build is the first turn). `LeaseInv`: only a running task has a lease,
of its lane, and none between turns. `OverInv`: what is finished let go of everything.
`Placements` types the placements in flight and says to whom they belong, `Ledgers`
types the counters. On top of these, `NoSlotLost` is a balance: a step that moves one
lease, one placement and the unlink counters changes what is accounted for on a lane by
as much as it changes the slots taken (`BalanceKeeps`, with lemmas on the cardinality of
a set that one task joins or leaves). The admission pass is one lemma for all its
callers (`PassKeeps` and those under it): it touches nobody's lease and revives nobody.
Every step lemma also shows `NoneRevived`, from which `FinishedIsFinal` follows.

`LaneCap` needs two arguments. With a ledger the turns of a lane are among the holders
of its slots, so `NoSlotLost` bounds them. Without one the registry has to count right:
`Fits` says that every turn on a lane is one the registry counts and that they are at
most the cap, and the pass keeps it because each grant and each promise is made below
the cap after those before it (`FillsUp`, an induction over the tasks by least
counterexample), and `warmPlace` because it looks again after its last await.

`NoLostWakeUp` speaks of states where nothing is in flight, so it says nothing of the
steps that lead there. `WakeInv` does: a timer is armed, a placement is in flight, or
whoever could be served (a waiting turn, a queued task, neither blocked) waits while
somebody else is at work (`Attended`). Each step makes a pass, arms the timer, leaves a
placement in flight, or changes one entry so that nobody new waits and nobody stops
working (`Wakes`). A pass leaves everyone attended (`PassAttends`): when nobody is at
work every place on a lane is reserved by a turn that waits itself, so the pass grants
the first of them; and when none waits a queued task finds each lane of its plan empty.
Whoever reserves a place must be at work for that, which is why `PlanInv` has `placing`
only while the warm sort runs.

`WarmTurnsFirst` is an action property, so the argument follows a step through the
registries it works on one after the other: whoever is let in on a lane out of the queue
leaves room for all turns that claim it (`Spare`), and from such a registry a pass may
start (`Passable`). A pass grants first and promises a start only below the cap, counted
after its grants and over every turn that claims the lane, because every claim is one
that the registry counts (`Owed`). A warm placement counts again after its awaits
(`PlacedPasses`).

`ToolExecBrokerProofs`, from `PlaneAssumption` and `SentinelAssumption` (typing; names
of calls and posts differ; the sentinels are no frames):

| theorem | statement |
|---|---|
| `Invariant` | `Spec => []IInv` |
| `NoCallForgotten` | `Spec => []CallsAccounted` |
| `OneRunnerOneFence` | `Spec => []PoolIsSound` |
| `CrashLoopsEnd` | `Spec => []NoCrashLoop` |

`IInv` follows a call through the pipe: `Frames` (the frame of a call is the planned one,
written once, and until it is read nobody else has the call), `Execs` and `Holds` (a
runner's call is held by the live entry of that runner, behind its fence), `Pool` and
`OneEntry` (an entry, its runner and its child die in order; a session has one live entry
in a child), `Born` (only a child that lives has a stdin), `Waiting` (who awaits the
start is not pending yet), `Budget` (a crash is spent on one respawn). The cancel needs
`CancelFollows` (it lies behind the frame, in the pipe of the child that has the call)
and `CancelComes`: without the order of the pipe a cancel could overtake its call.

`SessionBusProofs`, from `BusAssumption` (typing; `None` is no submission), for every
number of submissions, iterations, interrupts, undos and foreign turns:

| theorem | statement |
|---|---|
| `Invariant` | `Spec => []IInv` |
| `SubmissionsSafe` | `Spec => []SubmissionsAccounted` |
| `HistorySafe` | `Spec => []HistoryIntact` |

`NothingLost` counts sightings, which says nothing of who moves what; `IInv` says where a
submission may be. `Apart`: queue, chain and steering repeat nobody and share nobody.
`Located`: what lies in one of them is open and not the current item, and what is open
lies there or is current; so every handoff (`Steer`, `HandOff`, the drain of `Prepare`)
moves a submission, never copies it. `TurnInv`: the current item is open until the run
appends it and heard until the release settles, so an aborted wait may drop it and a
release may forget it; something is parked with the agent only until the run's end is
released, which is why the loop never sleeps on it. `ContextInv`: unless something
crossed, a compaction in flight means an idle bus and a context unchanged since it
started, so its late write changes nothing. The lemmas on sequences (members and
repetitions under `Append`, `Tail`, `Front` and `\o`; `Occurrences`, `DistinctLength`)
turn these sets back into the counts that the properties state.

`SessionHostProofs`, from `HostAssumption` (typing; `None` is no session and no socket;
finitely many sockets, since a counter of clients can only agree with a finite room), for
every number of sockets, sessions, held questions, handlers under way and failures:

| theorem | statement |
|---|---|
| `Invariant` | `Spec => []IInv` |
| `RoomsHold` | `Spec => []RoomsAgree` |
| `QuestionsHold` | `Spec => []QuestionsReach` |
| `ContinuedAtMostOnce` | `Spec => []ContinuedOnce` |
| `LogHasOneOwner` | `Spec => LogIsTakenOver` |

The properties speak of tabs at rest and of agents that are ready; `IInv` says what holds
on the way there. Per session (`TurnOf`): what is not live does nothing and asks nothing,
an adoption builds only where no agent is (`BuildsAlone`), questions are held only of a log
that is in the agent (`HeldOfLog`), and unless a prompt went past it nothing runs or is
queued before the log is there, or while one of its questions is held (`WaitsForLog`);
the continuation is queued with the last of them, hence once (`ContinuesLater`). Per room
(`RoomOf`): the counter is the size of the set of channels, in which `CountRooms` follows
the sockets that leave and join, and a dead session has an empty set, so one that is built
again starts from zero. Per tab (`TabOf`): while nothing slipped a socket has one handler,
and the burst it waits for is of the live session it has already joined (`OneHandler`), so
`view` and `act` meet again when the burst is sent; the reaper passes because a counter of
zero is an empty room (`EmptyRoom`). A step changes one socket or one session, and
`OneTabChanges` and `OneTurnChanges` carry the others.

`WorkflowEngineProofs`, from `GraphAssumption` (what the validator accepts: finitely many
nodes, no cycle, judges that fit) and `EngineAssumption` (typing; `None` is no state,
verdict or claim), for every graph, number of attempts, tasks, dispatches and failures:

| theorem | statement |
|---|---|
| `Invariant` | `Spec => []IInv` |
| `NoStrayWorkerHolds` | `Spec => []NoStrayWorker` |
| `GraphOrderHolds` | `Spec => []GraphOrder` |
| `RunIsJournalledHolds` | `Spec => []RunIsJournalled` |
| `StoppedStaysStopped` | `Spec => StoppedNeverAccepted` |

The properties look at workers, at settled nodes and at runs that are over; `IInv` says
what each coroutine may find when it goes on. Per node (`NodeOK`): it has at most one task
of this run that is not over (`One`), that is its own once the spawn returned (`Known`), and
the task's state fits the await where the node stands (`Place`); what its gate was given is
what became of that task, so a gate opened for one attempt is never read by another. Per
node that a coroutine drives (`MainOK`): a deadline is armed only while its turn runs, and
past its wait every dependency has succeeded (`Good`). Per judge (`JudgeOK`): it works only
while its owner stands in `#runJudge`, and settles with it; the exception is a judge that a
resume reused though its owner was not. Tasks of an earlier dispatch are aborted, or a
judge's (`TaskOK`). For the journal, every settled node was told to it (`Heard`), and a node
has a claim exactly when the last it was told is its success (`LogSane`); `JournalIs` then
reads the fold off the last events.

A handler changes worlds (nodes, tasks, events) through several helpers, and a node and its
judge are changed together. So each helper has a lemma that says what it makes of a family
(a node with its judge) and that it leaves the other families alone (`Frame`), frames
compose (`FrameComposes`), and each action is a chain of them (`Moves`, `Through`). The
claims that verify with all they rest on are a fixed point: `ValidIs` shows that the set
which `Valid` chooses exists. `StoppedNeverAccepted` follows the other way round: `Denies`
says that a helper makes no node succeed, it composes, and all handlers but that of an
accepted node are made of such helpers; that one asks `Stopped` first, and a node that was
killed never comes to it (`MainOK`).

| module | assumptions | theorems |
|---|---|---|
| `DurabilityProofs`, of `SessionDurability` | `DurabilityAssumption` (typing) | `LogInvariant`; `EffectsAreRecorded` : `Spec => []EffectsRecorded`; `AutoResumesAreCapped` : `Spec => []AutoResumesCapped` |
| `DurabilityProofs`, of `WorkflowRunDir` | `RunDirAssumption` (typing, sentinels) | `RunDirInvariant`; `OneWriter` : `RunDirSpec => []ClaimsExclude`; `LostIsLost` : `RunDirSpec => JudgedLostWhenLost` |
| `ServicesProofs`, of `LlmCall` | `CallAssumption` (typing) | `LlmInvariant`; `OneGenerationOneStream` : `Spec => []OneStream`; `StoppedTurnsAreSilent` : `Spec => StopsAsking` |
| `ServicesProofs`, of `ToolCalls` | `ToolCallsAssumption` (typing; a reply makes a call) | `Gated` : `ToolSpec => []CallsAreGated` |
| `ServicesProofs`, of `McpClient` | `PartsAssumption` (typing; finitely many questions, since a counter counts them) | `CallersAreSettled` : `ServicesSpec => []CallsSettle` |
| `ServicesProofs`, of `SessionIndex` | `PartsAssumption` (typing) | `RowsAreDerivable` : `ServicesSpec => []MirrorIsDerivable` |

*SessionDurability*: `EffectsRecorded` speaks of the file, but what a resume is told of a
call may still lie in the queue or in the context, and a crash, a reset or a failed
append separates the three. So `LogInv` says of every entry in the file, the queue and the
context what it knows (`Known`: only calls made so far) and on what it rests (`Backed`:
one that says a call never ran is not about a call that may still run, and if that call
ran, its record was lost behind a torn line or lies above a reset that is older than the
entry). A power loss leaves a prefix, hence `Backed` measures each line of the file by the
lines above it. `AwaitInv` says who waits for a write: one waiter, with the last write of
the queue, except at the end of a turn, when two handlers write. Hence the barrier in the
queue is that of the current call, and a gate passed without a failure means a record that
an fsync covers (`BarrierInv`), on which the tool then starts (`RanIsRecorded`). The cap
on automatic resumes needs `CapInv`: every prefix that power loss may leave still counts
all resumes since the last progress, nothing queued is going to end their row, and an
attempt in the queue has room below the cap; `AdoptInv` says that an adoption writes
nothing but the line of the session and the attempt. The replay and the repair only
select, join and answer messages (`ReplayIsIn`, on lemmas about `FlattenSeq`), so what
holds of every entry holds of the context they build; the cuts keep parts of it
(`RewindIsIn`, `UndoIsIn`). `SettlingKeeps` is one argument for all the ways a write
ends.

*WorkflowRunDir*: the marker is judged by several calls, so the invariant says what
holds between them: the flow past a claim is the one its process registers
(`Registered`), only a claim about to put a marker back holds one (`AsideToPutBack`), and
the marker names who is in `run` unless it was displaced (`MarkerNamesRun`). *LlmCall*:
every attempt is one request (`Counted`), the only socket the backend serves is that of
the request the turn waits for (`OneSocket`), the buffers hold its stream (`OneText`), and
a turn that asks was not stopped, or before it could hear of it (`Heeded`). *ToolCalls*:
per agent, where the loop over the calls is (`Position`), for which calls a tool was
entered (`Entries`), and that the consent of each call and each grant goes back to a
rule or to an answer of the human (`Backed`). *McpClient*: which requests wait, that every
call that does has its handler, and between chunks no other has (`McpWaiting`), the counter of held questions as the size of their set
(`HumansAsked`, through `HeldChanges`), the clocks as they must be in both cases
(`ClocksFair`; the last answer of a human finds every pending request among the
suspended), and, until the tools are listed, one request at most, the one awaited
(`McpConnecting`).

*SessionIndex*: a derivation looks at the epoch, a mirror at one record, so the two agree
only because of how a log is written (`Orderly`): a call starts once, asks and returns
while it is open, and a reset comes when no call is. Then what is open in the epoch is
what was started and not answered in the whole log (`OpenIs`, on `EpochIds`), a thing
that can be followed one record at a time (`MirrorNext`). `RowTold` says that a row which
missed nothing tells what that many records say (`Tells`), all of them or all but the one
whose hook goes on (`Behind`). A record may be mirrored although the row accounts for it
(`MirrorAgain`), even behind its result, which reopens the call (`MirrorReopens`); the
latter happens only while the hook of that result is still due, since a derivation for a
record began when it was the last one (`JobsRead`). `RowFresh` says where a record can be
missing: under a row that is astray, not as long as its log, or about to be derived.
Of the properties that the runs check, `LedgerInv`, `LaneBound`, `RefinesSemaphore`,
`SlotsAccounted`, `TurnsAdmitted`, `NoLostWakeUp`, `FinishedIsFinal`, `WarmTurnsFirst`, `CallsAccounted`,
`PoolIsSound`, `NoCrashLoop`, `SubmissionsAccounted`, `HistoryIntact`, `ClaimsExclude`,
`JudgedLostWhenLost`, `OneStream`, `StopsAsking`, `CallsAreGated`, `CallsSettle`, `MirrorIsDerivable`,
`RoomsAgree`, `QuestionsReach`, `ContinuedOnce`, `LogIsTakenOver`, `NoStrayWorker`,
`GraphOrder`, `RunIsJournalled`, `StoppedNeverAccepted`, `EffectsRecorded` and
`AutoResumesCapped` are proved as well; each inductive invariant was checked by TLC before.

Only model-checked: `RequestsAnswerable` and `LogIsFaithful` of `SessionDurability` and the
safety properties of `Transcript` and `Compaction`. They speak of what a
replay, a repair, a merge of rows or a cut computes from a whole log or context, for every
input, where the theorems above need only that what comes out was there before; that needs
induction over data, which is beyond the prover. So are every liveness property (`NoWedge`,
`EveryTurnProceeds`, `Settles`) and ENABLED (`AllSettle`).

## 7. Not modelled

Components with status `not_modelled` in `PROJECT.json` name their reason. The largest
parts of the source that no module covers are the terminal UI with its renderer and line
editor, the components of the web UI that lay things out, the loading, validation and
rescue of configuration, the tools themselves (one call over files, a child process or
the network each), the parsers (markdown, wire formats, command lines) and the
experimental extensions. They hold little state that outlives a call and no actor meets
another in them; a model would restate their text. That is why the map
covers a small share of the lines although the session, task, log, execution, workflow
and attach paths are modelled. Within the modelled components, each subsection of
section 3 and each note in `PROJECT.json` says what is left out.
