# Verification of mailin-agent

mailin-agent is a local agent: a FastAPI and LangGraph back end (`backend/app`) that runs turns of a conversation
— model requests, tool calls, questions to the user — and a Vue client (`frontend/src`) that shows them as they
happen. This directory holds TLA+ models of the parts of it whose correctness depends on order, failure and
concurrency, the TLC instances that check them, and TLAPS proofs of the results that hold for every value of the
constants. Paths below are relative to the repository; `ws:139` stands for
`backend/app/services/ws_chat_service.py:139`, `chat:` for `services/chat_service.py`, `files:` for
`storage/conversation_files.py`.

## 1. The system

A turn is driven by one coroutine on the event loop. It sends the graph's events to a client. Inside the graph two
nodes alternate: the synchronous *agent* node, which runs on a thread and talks to the model, and the *tools* node,
which hands a batch of calls to worker threads. Two durable stores record what happens: the **ledger**, an
append-only JSONL file per session, and the **checkpoint** of each branch, kept by LangGraph. They are written
separately, so after a crash, a cancel or a time-out they disagree, and `recover_ledger_tail` replays the ledger rows
the checkpoint has not seen.

| Component | State | Operations | Hard behaviour | Correct when |
|---|---|---|---|---|
| Turn graph (`agent/graph.py`, `state.py`, `checkpoint.py`, `nodes/`) | graph channels, checkpoint with its cursor `ledger_seq`, status merged by a reducer | agent step, gate, interrupt, batch, finish | crash between a row and its checkpoint; node re-run after a resume; late checkpoint writes | a gated call never runs without consent; the checkpoint follows the ledger |
| Ledger audit (`agent/audit.py`) | ledger rows | start/settle a call, a model request, a turn | several threads settle the same call | one result per call, one outcome per turn |
| Ledger recovery (`agent/recovery.py`) | a recovered snapshot | replay, settle what is uncertain, fail or cancel the turn | dies between two of its own appends; runs concurrently with what it repairs | facts stay in order; an unknown outcome fails the turn |
| Graph stream (`streaming/sse_mapper.py`) | the coroutine's place | run the graph, persist the terminal state | cancel and time-out leave threads behind | a turn ends once |
| Chat service (`services/chat_service.py`) | per-session execution lock | send, resume, repair a cancelled checkpoint, mark it terminal | the lock is free while a turn waits; awaits between reading and writing a checkpoint | one turn in progress; a submission starts one turn |
| WebSocket turn lifecycle (`services/ws_chat_service.py`) | active runs, approval futures, dispatchers, connection per turn | send, cancel, approve, subscribe, sync, re-attach | answers, cancels and time-outs of a wait race; client comes back on another connection | every turn ends; the client learns of it |
| Conversation files (`storage/conversation_files.py`, `event_projection.py`) | the file, an index per object | append, submit, fork, read a branch | torn lines, unacknowledged writes, several objects, forks of forks | the file stays readable; a branch sees only its lineage |
| Dispatcher and connections (`streaming/dispatcher.py`, `services/ws_manager.py`) | bounded queue, latest state, transport numbers | publish, drain, snapshot, close | full queue, slow or lost connection | text is never dropped, the end arrives |
| Stream client (`api/ws.ts`, `streamEventInbox.ts`, `useChatStream.ts`) | inbox, pending frames, deferred end, promises | order, wait behind a gap, apply, settle, reconnect | gaps, snapshots, reordering by a snapshot, timers | text in order, question shown, wait ends |
| Tool batch (`tools/tool_search.py`) | queue of a batch | run, withdraw, time out | workers outlive the batch | a call is not run twice |
| MCP (`tools/mcp`), resilience (`resilience`) | registry of connections, cards, failure counts, one event loop, a breaker per server | discover, connect, drop, enable, disable, refresh, call | tool threads wait for coroutines of a loop another thread stops; a time-out does not stop what it times | no connection is left that nobody shuts; every thread returns |
| Memory and maintenance (`context/sediment.py`, `context/memory`, `maintenance`) | daily note, marks, two stores of JSON and view, the runner's lock | note, collect, extract, decide, commit, view, compact; run with a time-out | threads the time-out gave up go on; store objects out of date; crash between two files | JSON, view and decisions agree; one thread at a time |
| Policy gate (`tools/policy`, `agent/nodes/tools.py`) | settings, the node's answers | evaluate, ask, resume, run | the node runs again after each answer while settings change | a call runs on its own answer |
| Shell jobs (`tools/packages/shell`) | registry of jobs | start, read, kill, wait, cancel | reader, waiter, killer and canceller without a lock | a cancel leaves no process it knew |
| File tools (`tools/packages/filesystem`) | files, snapshots | write, delete, move, undo, retention | calls of a batch run in threads of their own | an undo is exact or refused |
| Context (`context/engine.py`, `compressor.py`, `ledger.py`) | the window in the checkpoint, summary pointer | assemble, compress, rebuild, fork, record late results | the window is replaced at each step; results come late | calls and results of a request belong together; nothing is lost silently |
| Configuration (`config`, `services/config_service.py`, `mcp_service.py`, `skill_service.py`, `tools/mcp/config.py`) | document, backup, revision tracker | list, save a module, save or switch a server, switch a skill, reset | several writers, revisions held in memory, two spellings of an entry | a stale page cannot save; a save changes only what it names |
| History and timeline (`storage/history_projection.py`, `services/timeline_service.py`, `eventTimelineReducer.ts`) | cached projections, cursors | project, page, catch up | stale cache, concurrent append | *not modelled*, section 7 |
| Sessions, push, migration, hooks, routes, pages | | | | *not modelled*, reasons in `PROJECT.json` |

Interactions: the WebSocket service calls the chat service, which calls the graph stream; nodes and recovery append
through the audit to the conversation files; the graph writes checkpoints; events go back through the dispatcher to
the connection manager and the client. Approvals come in as client operations that complete a future the turn's
coroutine waits on. The event loop runs one coroutine at a time between awaits; agent and tool threads run beside it.

## 2. Modules

| Module | Models | Role |
|---|---|---|
| `TurnLedger` | `audit.py`, rows of `conversation_files.py` | pure operators: ledger rows, look-ups, `SettleTool`, `TurnTerminal`, ... |
| `LedgerRecovery` | `recovery.py`, snapshots of `state.py` | `Replayed`: what a checkpoint becomes once the rows behind its cursor are applied |
| `TurnRuntime` | `graph.py`, `nodes/`, `sse_mapper.py`, `chat_service.py`, `ws_chat_service.py`, `tool_search.py` | the state machine of a session's turns |
| `TurnPromises` | | abstract: five sets of facts that only grow, each fact once, in an order that makes sense |
| `TurnProperties` | | the properties of `TurnRuntime`, the refinement mapping to `TurnPromises`, fairness |
| `ConversationFiles` | `conversation_files.py`, `event_projection.py` | pure operators over a file and an index |
| `SessionBranches` | the send path of `chat_service.py` over the files | state machine of sends, forks and checkpoints' cursors |
| `StreamInbox` | `streamEventInbox.ts`, `useChatStream.ts` | pure operators: the inbox and what the page shows |
| `StreamDelivery` | `dispatcher.py`, `ws_manager.py`, `ws.ts`, `ws_chat_service.py` | state machine from the run to the page |
| `McpServers` | `tools/mcp/lifecycle.py`, `handlers.py`, `resilience/` | state machine of servers, threads and the loop |
| `MemorySediment` | `context/sediment.py`, `context/memory/`, `maintenance/` | state machine of the consolidation and its runs |
| `ToolGate` | `tools/policy/`, the approval part of `nodes/tools.py` | the gate's decision function and the node that asks |
| `ShellJobs` | `tools/packages/shell/` | state machine of jobs and the threads that share them |
| `FileSnapshots` | `tools/packages/filesystem/` | state machine of changes, snapshots and undo |
| `ContextWindow` | `context/engine.py`, `compressor.py`, `ledger.py` | state machine of the model's window |
| `ConfigDocument` | `config/`, the services that write it | state machine of the configuration file |
| `MCTurns` | | bounds for TLC (`StreamDelivery` needs none) |
| `MCSessions`, `MCServices`, `MCTools` | | several instances in one run; see section 3 |
| `TurnLedger_proofs`, `TurnRuntime_proofs`, `TurnPromises_proofs` | | proofs: the operators of the ledger and of recovery; types and the gate; the refinement, facts, the checkpoint |
| `SessionBranches_proofs`, `StreamDelivery_proofs`, `ContextWindow_proofs` | | proofs about those modules |
| `Services_proofs`, `Tools_proofs` | | proofs about `McpServers` and `MemorySediment`; about `ToolGate`, `ShellJobs`, `FileSnapshots` and `ConfigDocument` |

`PROJECT.json` maps every definition to its lines. In `ConversationFiles` the limits of a branch are numbers of lines
and what it sees is a set of lines, which is what the projection's loop over the records comes to.

### TurnRuntime: state and actions

`ledger` and `cp` are the durable stores; a crash leaves only them. `pc[t]` is where the coroutine of turn `t` is:
queued for the lock, accepted, at a node of the graph, waiting for the user, resuming, or in one of the phases a
cancelled or failed coroutine goes through. `mem[t]` are the graph's channels between nodes; `put` and `upd` are
checkpoint writes that have been started and not yet done — they may be overtaken. `agent`, `work` and `runner` are
the threads of the agent node, of each call and of the batch; they go on after their coroutine was cancelled.
`job` is a stretch of synchronous code that holds the event loop (a recovery), one ledger append per step, so that
threads and crashes come between any two appends.

Actions follow the code: `Submit`, `BeginSend`, `AcceptTurn`, `StartGraph` (`_exclusive_turn`, `iter_chat_events`);
`AgentThread`'s steps (`agent_node`); `AgentReturns`, `AskInteraction`, `WriteInterrupt`, `StartBatch`,
`FinishTools`, `EndRun` (graph nodes and routing); `BeginCall`, `StartCall`, `FinishCall`, `LeaveCall`,
`BatchTimeout` (the batch runner); `BeginResume`, `CommitDecision`, `RejectResume`, `ResumeGraph`
(`resume_chat_events`); `BeginAttach`, `Attach` (`_attach_waiting_turn`); `Cancel`, `GraphTimeout` and the phases
`persist`, `repair`, `mark`, `repair2`, `mark2`, `abort`, `error` (`_persist_terminal`,
`repair_cancelled_checkpoint`, `mark_terminal_checkpoint`, once in the cancelled coroutine and once in `cancel_run`);
`Recover` (one append of `recover_ledger_tail`); `Crash`.

What is abstracted, beyond message contents:
* Rows without influence on a decision (`step` rows, created to running) are left out. The retry of a failed tool
  inside a worker and the comparison of late evidence with the recorded content are one row each.
* When a step's name is `agent` the code drops the calls of the snapshot; the model keeps them. It can then write
  one more late row, nothing else.
* A resumed graph gets its update with `Command(resume, update)`; the checkpoint changes when the tools node ends.
* `RefuseSend` refuses a send because the checkpoint is *running* or waiting, as the code does. The first half never
  happens: the recovery that precedes it has stopped such a turn.
* Further cancels while a cancel is being finalized are not modelled.
* Results are looked up as the code does: recovery takes those of its own turn (`LedgerRecovery`), `finish_node` those
  of the call in any turn's row, the last one winning (`Outcome`). `AgentReturns` leaves every call of the new response
  pending: the response is appended and the rows are read in one call, and a result in between would have to come from
  a repair that runs beside the node's thread at that moment.
* The window's results are represented by the statuses in `mem`. A result that another turn's repair adds to the window
  alone is left out, so that the model resumes into the gate where the code may find no open call.
* `abort` stands for a time-out of the graph and for any other exception in it (among them a gate that no longer
  matches, `GateMismatch`).

### SessionBranches: state and actions

`file` is `[lines, torn]`; an index is the records an object has loaded and the file's signature then. The signature
is the size only, because lines are never rewritten. `AppendEvent` loads, numbers, and writes with one of the
outcomes *ok*, *torn* (half a line) and *unacked* (the line is there but the call fails). A send (`send[r]`) is looked
up (`Begin`), forks a branch (`Fork`, `RefuseFork`) or continues one from its checkpoint (`Continue`), appends its
message (`Accept`) and then works: it defines and answers one tool call, saves a checkpoint, may wait for the user
and be resumed without the lock. Cursors a client can name are the events visible to it and the origins of branches.
Recovery's settlement is reduced to one result per open call; a failed write ends its send; a send that has ended
forgets what was asked. A crash is the death of the process, not a loss of power. Deletion of a session, content
resources, summaries and export are left out.

### StreamDelivery: state and actions

`turn` is what the run has published, `out` its dispatcher (`putting` is a frame whose `put` is awaited, `sent` says
that the loop of `run` is between the two sends of an iteration), `link` the client's connection and the one the turn
is bound to, `net` and `ops` what is under way in each direction, `client` the inbox, the page, the end held back for
50 ms and whether the promise of the send is settled. Frames carry the transport number of their connection. Frames
that only consume a number — timeline events in the model, pongs and broadcasts in the program — make the inbox see
gaps. `StartStep` jumps in the state's revision when frames in between were not shown.

One turn and one client are modelled. Tool segments, usage figures, stages and event identifiers are left out
(identifiers occur on timeline events only), as is the list `pendingInterruptTurns`, which has no effect on an end
that carries a terminal state. The read of the state and its publication in `state.sync` are one step. Every
connection gets a fresh number.

### McpServers: state and actions

`registry[s]` names the discovery that connected server `s`, so that two connections to one server are told apart;
`discs` are the discovery coroutines, each with the loop generation it runs on; `loop` is the generation and whether
it runs; `th[x]` is what a tool thread, the management thread or the background discovery waits for. `Discover`, `Scan`,
`Connected`, `NotConnected`, `FinishDiscovery` are `_discover_*`; `WaitTimesOut` gives up a wait and leaves the
coroutine running; `Drop` is the end of a server task; `Enable`, `Disable`, `Refresh` with `Shut`, `RemoveCards`,
`StopLoop` the management operations; `BeginCall`, `Attempt`, `Get`, `Answered`, `CallFails` a tool call through its
breaker, `Cool` the end of the breaker's open time.

### MemorySediment: state and actions

A fact is what the model made of a line; `TargetOf` says which store it belongs to. A thread collects the pending lines
(`Collect`), opens the stores (`Initialize`, `Load`), asks the model (`Extract`, `ExtractFails`), routes and decides
(`Route`, `Arbitrate`, `SectionTooLong`), writes JSON and view (`CommitClean`, `Persist`, `View`), marks what it took
(`Mark`) and compacts the section misc (`Compact`). A model's answer is any subset. `ideal` is what the decisions
together make of each store and `stale` says that a store was written by an object older than the file; both are
history. A run takes the runner's lock, starts a thread and ends with it or at the time-out, in which case the thread
stays (`behind`). The lock is let go when a run ends, whatever its thread does. Snapshot copies of a store are left
out, both stores are opened in one step, and a note and a mark are written in one step each; there is one note a day
and lengths are a choice.

### ToolGate: state and actions

`Evaluate` is the decision function over what a call claims, where its paths resolve, what its command matches and
what the settings say; a path is the place it resolves to, a command what the guards and the allowlist tell apart.
`RunNode` is one run of the tools node from its start, which consumes the answers in order and stops at the first
question without one; `Answer` resumes it; `Invoke` starts a call it let through; `EditSettings` changes what the gate
reads.

### ShellJobs: state and actions

`job` is the registry entry, `os` the process, `run` and `kill` where the threads are. `Popen` and `Register` are two
steps; a foreground thread goes on at the end of the output, at its deadline, or when it was killed; `Aim`, `Shoot`,
`MarkKilled` are the steps of `kill_job`; `CancelTurn` takes the list of jobs and `CancelNext` kills one of them. The
process ends by `Exit`.

### FileSnapshots: state and actions

A change is named by a number, and so are the content it writes and its snapshot. A change takes its snapshot
(`Snapshot`), changes the files (`Mutate`), records the fingerprint afterwards (`Finalize`) and removes old snapshots
(`Cleanup`), as steps that other threads come between; `UndoCheck` compares, `UndoRestore` writes. Age and size limits
of the retention are left out.

### ContextWindow: state and actions

`said` are the message rows of the branch, `window` the messages the checkpoint carries, `stored` what the summary it
points to stands for. `AskQuestion`, `AskRebuilt`, `AskForked` begin a turn on the window, on one rebuilt from the ledger, or
on a fork's; `StepPlain`, `StepCompressed`, `StepRejected`, `StepEmergency` are the ends of a step, each of which
replaces the window by what it sent and what was answered; `Decide` and `ToolsStep` bring the results in; `Abandon`
is a batch that is given up, `LateResult` the row of a call that outlived it. Sizes are choices: how long the tail is
and whether a layer gets below the limit. Prompt frames are rebuilt at each step and left out.

### ConfigDocument: state and actions

A document says which modules it has, in which of the two places, and which servers. One action per API function:
they never await. `EditByHand`, `SetToken` and `Restart` come from outside. A secret is a value, a reference to a
variable, or the mask; `did` names the last operation and what it was asked to change. `list_modules` reads the
document and its digest at two moments; an edit by hand between them is left out.

## 3. What the runs check

All runs set `CHECK_DEADLOCK FALSE`: when the turns, sends or budgets of an instance are over the system rightly
stops. `MCSessions`, `MCServices` and `MCTools` hold several instances that share no state; the initial state chooses
one and the behaviour stays in it, so that one run checks them all. `MCServices` extends `McpServers` and
`MemorySediment`, `MCTools` extends `ShellJobs`, `ToolGate`, `FileSnapshots`, `ContextWindow` and `ConfigDocument`: the
properties of those modules, which the proofs are about, are checked as they stand. The turns are instances, and their
properties are read in the instance they are about.

| Run | Instance | Checks |
|---|---|---|
| `one_call` | 1 turn, 1 gated call, 2 requests, 2 crashes, 1 cancel, 1 graph and 1 batch time-out, fairness | `TypeOK`; `GateHolds`; `CheckpointFollowsLedger`; `FactsWrittenOnce`; `StartedOnce`; the refinement `PromisesKept`; `TerminalStays`; `SettledIsQuiet`; without crashes `TurnsEnd`, `CheckpointCatchesUp`, `RunsEnd` |
| `both_ask` | 2 turns that both ask | `TurnsAdvance` |
| `sessions`, turns | 2 turns, the first with a gated call, 1 crash | `FactsWrittenOnce`, `NothingSkipped`, `CompletedIsAccounted`, `StartedOnce` |
| `sessions`, calls | 1 turn, a free and a gated call, 1 cancel or 1 batch time-out | `NothingSkipped`, `StartedOnce`, `CompletedIsAccounted` |
| `sessions`, submissions | 3 sends, 2 objects, 2 branches, 2 faults, resubmission | `Readable`, `AckedStays`, `SubmittedOnce` and the others |
| `sessions`, lineage | 3 sends, 3 branches, calls in 2 of the turns | `CursorsHold`, `ForksAreSettled`, `BranchesAreIsolated`, `BranchTypesHold` and the others |
| `delivery` | 2 chunks, 1 step, 1 question, 1 timeline event, queue and connection of capacity 1, 1 lost connection | `TextInOrder`, `TextKept`, `PromptShown`, `Settles`, `TypeOK` |
| `services`, mcp | 2 servers, 1 calling thread, a manager, the background discovery; six mixtures of at most 2 calls, 2 switches, 1 refresh, 2 scouts, 1 drop, 1 time-out | `NoOrphans`, `ThreadsReturn` |
| `services`, memory | 2 facts, 2 threads, 2 runs, 1 tool; five mixtures with a crash, a second day, a hanging thread | `StoresAgree`, `OneThreadAtATime`, `RunsReturn` |
| `tools`, gate | any 2 calls, 1 change of settings | `AnswersMeetQuestions` |
| `tools`, jobs | 1 foreground and 1 background job, a killer, a cancel | `CancelLeavesNone` |
| `tools`, files | 2 paths, 3 changes, 2 snapshots kept, 2 undos | `UndoIsExactElsewhere` |
| `tools`, window | 2 turns of 2 steps, six mixtures of pressures, emergencies, rebuilds, forks, time-outs | `RequestsPaired`, `NothingForgotten` |
| `tools`, config | 2 pages, 1 server, 2 API calls and 2 looks, or 1 call and 2 changes from outside | `StaleSavesConflict`, `EditsAreLocal` |
| `lock_on_resume` | 2 turns | finding 1 |
| `phantom_result` | 2 turns, 1 cancel | finding 2 |
| `unknown_completes` | 1 turn, 2 calls, 2 crashes | finding 3 |
| `reconnect` | 1 chunk, 1 lost connection | finding 4 |
| `skill_switch` | as `tools` | finding 5 |
| `summaries` | as `tools` | finding 6 |

**Why the bounds are enough to be of interest.** A disagreement between ledger and checkpoint needs one call and one
fault; two crashes allow a crash of the recovery from a crash; a second model request lets a turn go on after its
batch, which is when results can be lost. A second call separates a call's own consent and result from another's; a
second turn separates facts of one turn from those of the next. Two turns with cancels and crashes together are beyond
TLC here. Two objects are enough for one index to be behind the other, two children of `main` for siblings and a fork
of a fork. A queue of one is full as soon as anything waits; the chunk that does not fit, the question and the end all
meet it. For `delivery`, the invariants also hold without a loss for two steps, two timeline events, a queue and a
connection of two (610,000 states), and with one loss, two chunks, two steps and a queue of two (3.5 million states);
only those instances have revisions that jump, and they are too slow to be kept with the liveness check.

For the servers, what goes wrong takes one operation that gives up or stops the loop and one that is under way; the
mixtures put every pair of them together (a call with a refresh, a refresh with a scout and a time-out, two scouts, a
drop with a refresh), since all at once is too large. For the memory, two runs are enough for a thread left behind to
meet the next, a tool for a writer outside the runner's lock. Two calls show whether an answer can reach the wrong
question. One killer and one canceller meet each job's own thread. Three changes of two paths exceed the two snapshots
kept. Two turns of two steps have a window that was answered, compressed and used again. Two pages have one that is
out of date.

**Properties that hold in part.** `CheckpointFollowsLedger` is claimed for one turn. With two turns and a cancel its
part about results fails: `finish_node` looks results up by their call alone, over the rows of every turn, and the last
one wins (graph.py:198-205). So when a cancelled second turn has settled the first turn's call again (finding 2) while
the first, resumed without the lock, is in its batch, the first takes *cancelled* for its call's result where the ledger
says *unknown* for that turn. What is left for several turns is `CheckpointIsBorneOut` (section 4). The last part of
`NothingSkipped`, an ended checkpoint is of a settled turn, needs
the bounds it is checked in. With two turns that both ask and one cancel it fails: the first turn is answered and
resumes without the lock; the send of the second recovers the session, which settles the first; the second waits and is
cancelled, and its repair prepares an update while the first turn's late write puts an ended status into the
checkpoint; the update takes that status over (the reducer keeps an ended one), so that the checkpoint says the second
turn has ended and the ledger does not. Its part about starts fails with one turn of two calls, a cancel, a crash and a
batch time-out: the user cancels a turn that waits, the repair settles the call it asks about, the process dies before
the mark; attached again and answered, the call runs, its result is late evidence, and the next checkpoint passes its
start with the call still pending (section 6). `TurnsAdvance` is checked without cancels: the write of a cancelled turn,
which holds no lock, may replace the checkpoint of a newer turn. `CompletedIsAccounted` fails with two crashes
(finding 3). `TerminalStays`, `SettledIsQuiet` and `TurnsEnd` are claimed for one turn: with two and a cancel TLC finds
the first two violated, because the repair of the cancelled turn works on the checkpoint of the newer one. It may settle
the newer turn, whose graph goes on to ask, or write a status it has read over the one that turn has ended with since.
`StartedOnce` is
about behaviours up to the first crash: after one a call whose result was not recorded may run again
(section 6). `NoOrphans` excludes discoveries started while one whose wait had timed out still
runs: two of them orphan a connection. `StoresAgree` excludes stores written from an object that was out of date.
`NothingForgotten` is about windows that were not cut since they last held everything, and leaves out results that
came late. `RequestsPaired` asks for every call's result only while nothing
stands between calls and results in the ledger. `UndoIsExactElsewhere` leaves out a move onto a file that exists and changes disturbed before their
fingerprint was taken. Each of these exceptions is a behaviour listed in section 6, and named in its module.

**Fairness.** `one_call`: the event loop runs a coroutine that can go on, a thread that can go on does, a model
request is answered or fails (the client library has its own time-out), the batch timer and the 300 s timer of a wait
fire. A tool handler need not return — the batch timer is what ends the batch — and a user need not answer. Crashes
are neither fair nor unfair: the three properties are about behaviours without one (`ProcessLives`), since nothing
restarts a turn whose process died before its client comes back. `delivery`: the run, the dispatcher and the server's
reader are tasks of one event loop, the client's timers fire, and a client without a connection makes a new one
(`scheduleReconnect`). All of it is bounded by the instance, so weak fairness of the union is enough: no component can
move for ever and starve another. `services`: each thread and the MCP loop go on when they can; connecting, and a
call, end by their own time-outs. A run of the maintenance task goes on, and its timer fires; its thread may hang, and
no fairness is assumed of it.

### Findings

1. `lock_on_resume`: a session is said to have one turn in progress (chat:72), but `resume_chat_events` does not take
   the execution lock; a new turn is accepted while a resumed one runs. The recovery of that send settles the resumed
   turn, which goes on, may ask, and may be answered after its outcome (`Decide` of `TurnPromises` allows for it).
2. `phantom_result`: the repair of a cancelled turn that has defined no call settles the calls of the *previous* turn
   a second time, under the cancelled turn (audit.py:18: "One durable final result per call"). If the previous turn is
   still in its batch, its node takes that second result for its own (section 6).
3. `unknown_completes`: `backend/README.md:89` says an unknown outcome fails its turn. Settling the call and the turn
   are two appends; after a crash between them the turn runs the call again and completes.
4. `reconnect`: a client that reconnects while its turn is *running* is never told how the turn ended: the answer to
   `state.sync` goes through the turn's dispatcher to the connection that was lost (ws:139, ws:57).
5. `skill_switch`: the switch of a skill reads `config.toml` as JSON (skill_service.py:80), gets nothing, and writes
   the file anew with the skill settings alone. `tests/test_config_document.py:165` says what a save keeps.
6. `summaries`: `backend/README.md:83` says summaries are stored and the checkpoint points to them. A compression
   that brings the window below its limit answers the count 0 (compressor.py:610), and the summary is written only
   when the count has grown (graph.py:151); the message that carried it is dropped at the next step.

## 4. What is proved

Every theorem is about the specification the runs check, for every value of the constants that meets the assumptions
named with it.

**Turns.** For every number of turns, calls and requests, every set of gated calls and every bound on faults, from
`LedgerAssumption` and `BoundsAssumption` (numbers are naturals, sets are subsets):

* `TurnRuntime_proofs!TypeCorrect`: `Spec => []TypeOK`. `TypeOK` is not inductive: recovery indexes functions by the
  turn of the snapshot it works on, and that snapshot may be empty. `TypeInv` adds `ScopeOK` (a coroutine inside the
  graph has channels of its own turn) and `JobOK` (the same for a recovery job, and that what it has still to settle
  are calls of a real turn). One lemma per group of actions shows that `TypeInv` is preserved.
* `TurnRuntime_proofs!GateAlwaysHolds`: `Spec => []GateHolds`, no call that needs approval starts before the consent to
  that very call is durable. `GateHolds` says nothing about a worker that is queued and has not started, so it is
  strengthened with `GateInv`: a worker of a gated call exists only once consent is in the ledger. Two lemmas carry
  the proof: `LedgerSteps` (a step leaves the ledger alone, appends a row that starts no call, or is `StartCall`) and
  `WorkSteps` (a worker comes to be in `StartBatch` only); consent, once in the ledger, stays (`AllowedStays`).
* `TurnPromises_proofs!FactsOnce`: `Spec => []FactsWrittenOnce`; `KeepsPromises`: `Spec => PromisesKept`, the
  refinement of `TurnPromises`, step by step; `CheckpointIsBorneOut`: `Spec => []Sound(ledger, cp)`, a call the
  checkpoint holds a result of has one, the cursor is inside the ledger, and what the checkpoint waits for was asked;
  `CheckpointIsBehind`: `Spec => []CheckpointFollowsLedger` with `MaxTurn = 1`, where the checkpoint's result is the
  call's only one (with more turns it may be from another turn's row, section 3). The four share one inductive invariant, `PromisesInv == TypeInv /\ GateInv /\ PromiseInv /\ FactsWrittenOnce`. What is hard is that a
  turn completes only when every call it has begun is finished, because the node that completes it does not look at
  the ledger: it is right because of where its threads can be. `RunInv` says so (outside of a batch an unsettled turn
  in the graph has no call that has begun and not finished). For a checkpoint attached after a crash it rests on
  `AttachInv` (the replay of the rows behind the cursor finds every such call), on `SoundInv` (every state of the graph,
  the recovery and the pending writes is borne out by the ledger) and on `WaitInv` (a checkpoint that waits is older
  than every start that is not finished). `ThreadsInv` and `PlaceInv` say what a thread that is done or left behind, and a
  place of the graph, have in the ledger (when a batch is back, every call that may run has a result under its own
  turn, whichever row the node then reads); `RowsInv` that rows are of accepted turns and requests of gated calls; `AloneInv` that no
  agent thread, not even one a cancel left behind, is about while the graph is past its agent node. TLC checked the
  invariant exhaustively for one turn and two calls (2.9 million states) and in part for two turns before it was proved,
  its parts about results also for two turns and a cancel, over the schedules without a refusal or a failed request in
  which the first turn's call has a result before the second turn is accepted.
* `TurnPromises_proofs!CallsStartOnce`: `Spec => []StartedOnce`: as long as the process does not die no call is
  started twice. The node that is resumed runs from its start, so nothing it reads tells it that a
  batch ran before; what prevents that is where the coroutine can be. `OnceInv` says that at the places before a batch
  the calls of the turn's latest response are `Untouched` (they have no start and no worker), that a worker yet to start
  is the first of its call, and that every start and every worker is of a call the turn has defined. A new response
  keeps this because its calls are new to the turn. A coroutine comes back to the wait only by attaching to a checkpoint
  that waits, when it is idle; without a crash, the coroutine of a waiting checkpoint never is (`StepWaiting`). TLC
  checked the invariant for two turns, two calls and a crash, and for one turn with a cancel and both time-outs, before
  it was proved. It rests on `Batch` being the calls of the latest message only (router.py 14-27), not all that the
  state of the turn names.
* `TurnPromises_proofs!SettledStaysQuiet`: `Spec => SettledIsQuiet`, and `EndedStays`: `Spec => TerminalStays`, both with
  `MaxTurn = 1`, the assumption section 3 shows to be needed; calls, requests and faults are unbounded. Four actions
  settle a turn (`NewEnd`), and three of them may do so while something of the turn is still under way. `QuietInv` says
  what is left: no place of the graph where it works (`OverOK`), an agent thread that has finished, and a recovery that
  could let a waiting turn go on only if it has not seen the settlement. That it has seen it is where the work is: a
  checkpoint that waits is older than the settlement, no request comes after it, so the replay ends with it
  (`ReplayEnds`), and the event loop is held from that replay to the coroutine's next move (`HeldStays`, `WaitHeld`).
  For `TerminalStays` two more invariants. `PutInv` (for every number of turns): a checkpoint write under way is of a
  graph at work or at its end, and the graph never finds its calls gone while one is (`GateMismatch` has none to lose).
  `EndsInv`: a state that has ended has no request behind its cursor (`Clear`; the replay would make it wait
  again), and under an ended checkpoint no write is under way, no coroutine is in the graph, and every update prepared
  before says "ended" as well, so that `_merge_terminal` keeps the status. TLC checked all three exhaustively for one
  turn and one call (147,000 states), and `QuietInv` in part for two calls, before they were proved.
* `TurnLedger_proofs!SettleToolAppends` and its siblings: each audit operation appends at most one row, and which; and
  what the replay of recovery makes of a snapshot.

**Branches.** For every number of sends, objects, branches and faults (`SendAssumption`, and `BranchAssumption`: there
is a branch `main`):

* `SessionBranches_proofs!FileStaysReadable`: `Spec => []Readable`, and `AcknowledgedStays`: `Spec => []AckedStays`.
  Neither says what an object believes of the file, and a write depends on just that: the number of a line comes from
  the object's index. `FilesInv` adds it: the index of every object holds a prefix of the lines, and its signature is
  empty or the size of that prefix (`IndexOK`). From it `LoadAll` follows (a load ends with all whole lines, whatever
  the object knew before, and cuts the torn one), from this `AppendEventAdds` and `AppendMessageAdds` (a call leaves
  the lines it found and at most one more, with the next number and an id no line has); and what other objects know
  stays a prefix, because lines are only added (`IndexOfLater`).
* `SessionBranches_proofs!OneTurnPerSubmission`: `Spec => []SubmittedOnce`. `SubsInv`: a submission is accepted on one
  line at most, and a send that was answered was told of the turn on that line. A step adds at most one line, and an
  acceptance only if no line has its submission (`LinesStep`, from `LoadAll`: `append` looks it up in all lines there
  are); `_existing_submission` answers from such a line (`BeginAnswers`).
* `SessionBranches_proofs!BranchesStayApart`: `Spec => BranchesAreIsolated`, an action property; `CheckpointsAreInside`:
  `Spec => []CursorsHold`; `ForksInheritNoCall`: `Spec => []ForksAreSettled`. What a branch sees is computed along its
  lineage, so the proofs need the order of the lines, `LineageInv`: a branch has no line before its fork, and a fork
  starts at an earlier line of a branch that is there, or at the origin of one. Then the limits of a branch are well
  defined (`LimitsAreDefined`, by well-founded induction on the line of its fork), lie before its fork but for its own
  lines (`LimitsShape`), and one more line leaves them as they are (`LimitsStay`).
* `SessionBranches_proofs!BranchTypes`: `Spec => []TypeOK`, what `BranchTypesHold` checks of the two instances of
  `sessions`. That each line is one of a send and a branch there are takes a walk over every call a send makes: the
  events it writes are owned by it (`EventsAreOwned`), the calls recovery settles are calls of a line (`OpenIsOwned`),
  and a write raises only where a fault was left (`OnlyFaultsRaise`).

**Delivery.** For every limit of the queue and the connection, and every number of chunks, questions, timeline events and
lost connections (`DeliveryAssumption`: the two limits are positive, the rest are naturals):

* `StreamDelivery_proofs!TextStaysInOrder`: `Spec => []TextInOrder`, and `DeliveryTypes`: `Spec => []TypeOK`. The page
  cannot tell text that is late from text that is next, so the invariant orders the text stage by stage (`OrderInv`):
  what is shown, what waits in the inbox, what is on the connection, what is in the dispatcher's queue and what waits
  to be put there are each in order, and all of one stage comes before all of the stages behind it. Three facts about
  the inbox carry it. Only chunks wait there, because any other frame forces the drain (`ClientInv`). A chunk that
  comes in has a greater number than those that wait, as long as they are of the same connection. A new connection
  counts from 1 again, and old chunks may still wait behind a gap: `GapInv` says that the first frame of the new
  connection the client is sent is a question or a snapshot, which takes all that waits. `InsertedKeeps`,
  `TakenInOrder` and `AppliedInOrder` say what the inbox and the page do to a sequence of frames. TLC checked the
  invariant on the instance of `delivery` before it was proved.
* `StreamDelivery_proofs!TextIsKept`: `Spec => []TextKept`, and `QuestionIsShown`: `Spec => []PromptShown`. Both are
  about behaviours in which no connection was lost, and share a second invariant, `KeptInv`, that says nothing of the
  others. Text could be lost in four ways. The inbox refuses a frame that is numbered at or below what it has taken:
  without a loss, every frame under way is numbered above that, and a snapshot, which starts the count anew, does so
  one below its own number (`SeqInv`, `Follow`). It refuses a frame of an older revision: chunks have none, and the
  inbox knows no revision the turn has not reached (`FitInv`). The page drops a chunk that comes before the start of a
  text segment: while none is open, a start comes ahead of all text under way, and the inbox knows no revision that
  could make it stale (`Coming`). The turn is shown as over before its text: the end is behind it at every stage, and
  where the client holds it back for 50 ms nothing of the text is left (`EndInv`). So all text is on the page, in the
  inbox or behind it (`TextInv`), and what is shown rises and is all of it (`CountedUp`). For the question `WaitInv`
  says that it is at some stage with no snapshot behind it but of the waiting turn, or on the page with none such to
  come: a snapshot the queue's overflow puts in is of the newest state (`out.latest`), which is the question's.
  `DrainChunks`, `DrainLast` and `CameSo` say what the inbox makes of one frame: refused with a flush of what waits,
  one more chunk, or a frame that takes along all that waits. TLC checked `KeptInv` on three instances (up to 6.8
  million states) before it was proved.

**Servers.** Nothing is assumed of the constants.

* `Services_proofs!ConnectionsAreKnown`: `McpSpec => []NoOrphans`. `NoOrphans` says nothing of a connection while it
  is dialled, and a second one to the same server would push the first out of the registry. `DialInv` adds that a
  server is not dialled while it is connected; that holds because discoveries do not overlap (`AloneInv`: one that is
  under way is the one a thread waits for; `WaitInv`: one thread waits). TLC checked `McpInv` on the instances of
  `services` before it was proved.

**Memory.**

* `Services_proofs!RunnerIsExclusive`: `SedimentSpec => []OneThreadAtATime`, if no tool thread is a sediment
  thread. One run at a time is past the lock (`LockInv`), and a thread at work that was not given up is the one a run
  waits for (`ThreadInv`). What the threads do to the stores does not matter: `StepsOfAThread` says that no step of one
  sets another to work.
* `Services_proofs!StoresStayTogether`: `SedimentSpec => []StoresAgree`, if no thread is called `"free"` (the
  value of a lock nobody has). `StoresInv` adds what a thread that holds a store's lock has done so far (`Place`) and
  that, as long as nothing was written from an object out of date, the objects say what the file says (`FreshInv`).

**Tools.**

* `Tools_proofs!AnswersAreKept`: `GateSpec => []AnswersMeetQuestions`, for any number of calls and answers
  (`GateAssumption`: the numbers are naturals). The node runs from its start after each answer and takes the answers in
  order; `Consistent` ties each to its call: the walk with the answers before one stops at the call of that one. A walk
  with more answers goes the way of the shorter one until that stops (`WalkAgrees`), so the call that takes an answer
  is the one that asked (`AnswerIsItsOwn`).
* `Tools_proofs!CancelKillsAll`: `JobsSpec => []CancelLeavesNone`, if neither `"tool"` nor `"cancel"` is the name of a
  job (both kill with a slot of their own). The cancellation looks at fields that nobody locks, so the invariant is
  about what they say of the process: a job is marked only when its process has ended (`JobInv`), whoever is about to
  mark it has seen to that (`KillInv`, `RunInv`), and a job the cancellation has passed has no process left or is the
  one it is killing (`CancelInv`).
* `Tools_proofs!UndoExactOrRefused`: `FilesSpec => UndoIsExactElsewhere` (`FilesAssumption`: changes are numbered from
  1, content 0 being the one a file has at first). The fingerprint compared by an undo is of the files, its promise of
  their history; `FilesInv` connects them: a change nobody has disturbed knows what its files held before it, its
  snapshot holds just that, and an undo that has passed the comparison restores over the files of its change.
* `Tools_proofs!StalePagesConflict`: `ConfigSpec => StaleSavesConflict`, nothing assumed. The tracker need not know of
  a write when it happens: a page's digest was the document's when the tracker had the page's revision, and a revision
  counted since the last restart is never counted twice (`PagesInv`).
* `Tools_proofs!EditsStayLocal`: `ConfigSpec => EditsAreLocal`, nothing assumed. A save normalises what it does not
  name: it merges, promotes entries to their new place and rewrites each server. `DocInv` gives the shape of a
  document a person may have edited; the lemmas `CanonicalStays` (normalising twice, or what was read with its
  references replaced, changes nothing more), `PromoteKeeps`, `MergeModuleKeeps` and `WithServerKeeps` say what each
  operation leaves alone.

**Window.** Nothing is assumed of the constants.

* `ContextWindow_proofs!RequestsArePaired`: `WindowSpec => []RequestsPaired`. One part is about the functions, for every
  window. A window is `Full` when each call has its result in the run of results right behind it, and `Part` when it has
  it there or nowhere. `RepairIsFull`: repair makes a `Part` window `Full`. `SanitizedIsSound`: sanitizing returns a
  window where results follow their calls, and a `Full` one stays so. Every request is an end of the repaired window, or
  messages without calls, sanitized (`Requests`). Both functions are recursive over positions; `FlattenPlaces` and
  `FromPieces` say where their pieces are found in the result, and `OwnResults` which results a chain is made of. The
  other part is that the window stays `Part` while the ledger is in order, although each step replaces it and each
  question appends rows the checkpoint does not know. `WinInv` ties the three together (`Good`): behind the checkpoint
  are only results, of calls that had none (`RowsBehind`); the row before them is the last message of the window if it
  has calls (`EndOf`), so what a question takes over answers that message or none of the window (`PartExtended`,
  `PartOneMore`); in the ledger no call has two results (`Rows`), so a window made anew from it is `Part`
  (`PartOfRows`). Results put back behind the window are of calls it may not have; the next sanitizing folds them. TLC
  checked `WinInv` on an instance of three turns (1.7 million states) before it was proved.
* `ContextWindow_proofs!NothingIsForgotten`: `WindowSpec => []NothingForgotten`. That a row is in the window is not
  inductive: a result that is there may be one the next sanitizing drops, because its calls are not in front of it or
  were answered already. A row is `Safe` when a message about it is none of these, and the functions are shown to keep
  that, whatever the window: `Repair`, which moves messages and puts others between them, and `Sanitize`, which drops
  results and folds chains into texts. What is then left is which rows come to be safe. A step shows what it was given
  and its own answer; a question takes over the rows behind the checkpoint, and a window made anew takes all of the
  ledger. `Told` says of the ledger what makes those safe: a result whose calls are not behind an earlier question has
  nothing but results and replies in between (`InTime`), a call a worker still has belongs to a turn that is over or is
  one of the last message's (`LateAre`), and what the checkpoint does not cover came late or answers that message
  (`BehindAre`). The invariant is `ToldInv`: `WinInv`, `Told`, and, while the window is not cut, that every row the
  checkpoint covers is a reply, a result that came late, or safe (`Shown`).

The theorems by induction (a branch's limits, the walk of the gate, the pieces of a window) use the well-foundedness of the naturals, or of a
relation, through the minimum of a set of counterexamples, since the library's induction rules take an operator.

**Model-checked only.** Of turns: `NothingSkipped` and `CompletedIsAccounted` hold in their instances and
not in general (section 3), `TurnsAdvance` likewise; `StartedOnce` does not hold after a crash, nor
`CheckpointFollowsLedger`, `TerminalStays` and `SettledIsQuiet` in a session of several turns, and their theorems say so. Liveness under fairness
(`TurnsEnd`, `CheckpointCatchesUp`, `RunsEnd`, `Settles`, `ThreadsReturn`, `RunsReturn`) is outside the prover's reach.

## 5. Plan

1. `Projections`: event projection, the cached history with its `ledger_seq`, timeline paging, and the client's
   reducer against them, over bounded ledgers; abstract specification: the projection of the whole visible ledger.
2. The migration of the runtime directory: copy, verify, switch, with a crash between any two steps.

## 6. Behaviour observed without a run of its own

Reachable in the models or read from the code; no statement of the repository contradicts them, or the model leaves
them out.

Turns:
* After a late cancel the checkpoint's outcome may differ from the ledger's (sse_mapper.py:80): the ledger keeps the
  first, the checkpoint gets what the cancel found.
* After a crash behind a batch that followed a resume, the interrupt is still pending; resuming runs the node from its
  start, and a call that succeeded can run again.
* A crash between the prompt's row and the waiting checkpoint leaves a turn that refuses new sends and can be neither
  resumed nor cancelled from the client until a recovery stops it.
* The second result of finding 2, written while the first turn is in its batch, is the last row of that call, so the
  turn's node takes *cancelled* for *unknown* (graph.py:198-205): it does not fail, asks the model again, and its
  checkpoint holds a result that is not the turn's. What the ledger says of the turn stays: the send of the second turn
  has settled it by then, and the first settlement wins.
* A worker that has begun runs a call which the repair has recorded as cancelled; its result becomes late evidence.
* The second repair of `cancel_run` reads a checkpoint, awaits, and writes it; a newer turn's checkpoint written
  meanwhile is overwritten, and a newer turn that runs is settled by the recovery that comes before the repair.
* A turn accepted in the ledger that dies, or is cancelled, before its first checkpoint is never settled.
* The cursor written by `turn_terminal` may be smaller than the one before it.
* A process killed while it creates a session's metadata leaves a directory that every later call refuses
  (files:78-89); a session deleted while its turn runs comes back with the turn's next append.

Delivery:
* A frame with a state that finds the queue full brings a snapshot that overtakes the chunks still queued; the client
  drops those. The history projection repairs the text later. `TextKept` therefore excludes turns with snapshots.
* Numbers used by timeline events and pongs make gaps, and thus sync requests, routine.
* A question lost with its connection is sent again as the first frame of the new one, where the inbox, which still
  holds the old connection's numbers, drops it; the snapshot does not restore it. The wait ends after 300 s.
* Connections are named by `id(websocket)`: a new one may inherit the turns bound to a lost one.
* A `state.sync` between the closing of a dispatcher and its removal gets no answer.

MCP servers (`tools/mcp/lifecycle.py`):
* A server registered between the clearing and the stop of the loop of a refresh (:510) stays in the registry with a
  connection on a loop that is gone, until a call finds it lost.
* A discovery that has read the configuration registers a server that was disabled meanwhile; a discovery leaves the
  applied revision as it was when it began.
* A call that finds no connection while a discovery runs fails at once and counts for the breaker; a result that comes
  after its time-out closes it. In the half-open state every thread that asks is let through.
* The policy of MCP calls has no retries, so that `reset_mcp_server` is never called for one.
* Two discoveries, of which one was started after the wait for the other had timed out, may connect one server twice.

Memory:
* `is_pending` hashes the stripped text of a note, `mark_consolidated` the raw one (`sediment_state.py:97`): a note
  whose text has blanks at an end is pending at every run.
* The compaction of misc commits stores loaded before the pipeline; two consolidations at a time lose each other's
  decisions; a failed result of the pipeline is not looked at, and its notes are marked.
* A crash after the last clause of a store was removed from the JSON and before its view is written brings the clause
  back. An update of a clause in another section gives two clauses one identifier. A commit over the limit is on disk
  when it raises.

Gate, shell and files:
* Every denial of the decision function is a hard boundary, so that the audit mode relaxes nothing.
* The settings may change while a question waits; then the node may ask fewer questions when it runs again, and an
  answer is used for another call's question. `AnswersMeetQuestions` therefore excludes it (`AnswersKept`,
  nodes/tools.py:359).
* A job registered after a cancel has taken its list survives it; a status *killed* may be overwritten by *exited*;
  jobs are never removed from the registry; a process number may belong to another process when it is killed.
* A move onto a file that exists overwrites it without a snapshot of it; the fingerprint after a change may be that of
  a later writer; the size limit may remove the snapshot just reported; `replace_in_file` reads before its snapshot.

Window:
* A count of compressions set back to 0 is lost when states are merged (`state.py`, `or`); a rejected compression
  empties the window; an emergency keeps the last answer and the last message of the user and stores no summary.
* A result recorded while a later turn runs is not in the window until it is rebuilt. A fork or a rebuild behind an
  approval gives a request whose results stand after a message of the user (`RequestsWellFormed`;
  `tests/test_repair_ledger.py:114` is about neighbouring ones). Cache updates that were put off enter again behind
  the window.

Configuration:
* The revision is counted in memory from 0, so a page shown before a restart may save after it.
* A server below `mcp.servers` without `mcp.version` is not read, and is deleted by the next save of any module; drafts
  of other modules that are not valid are lost at a save; a reference to a variable is replaced by its value when a
  server is saved or enabled, or a module saved; an entry that stands in both places changes when it is promoted; the
  revision of the catalogue is back at 0 after a switch of a skill or a reset.

## 7. Not modelled

See `components` in `PROJECT.json` for every part and the reason. In short: the projections of history and timeline
and the client's reducer (planned; each is a fold over events whose interest is in the data, and the only state is a
cache); the migration of the runtime directory (runs once, before anything else); parts whose calls read or write one
file and keep no state between them; encodings and layouts; pages and forms. TLC checks small instances only; what
section 4 does not list is not established for larger ones.
