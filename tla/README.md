# IronCrew: a TLA+ verification project

IronCrew runs Lua-scripted crews of LLM agents behind an HTTP API and from a
command line. Several replicas may share one PostgreSQL store; a single process
may use SQLite or JSON files. This project models the parts of the code in which
several processes, tasks, retries, crashes, limits and clocks meet, checks them
with TLC on small instances and proves the main properties of eight of them with
TLAPS for every instance.

## The system

| Component | State | Operations | What is hard |
|---|---|---|---|
| Keyed run ledger (`engine/postgres_store/idempotency/`) | one row per idempotency key: state, attempt id, lease, retention, response body, cancel and drain marks | lookup, claim, release, complete, mark indeterminate, prune | two replicas on one key, lost answers, expired leases, retention |
| Run records (`engine/postgres_store/run_history/`) | one row per run: status, owner, lease | save intent, hydrate, finish, delete | the owner finishing after a peer abandoned the run |
| Run fence (`api/idempotency.rs`) | local deadline, published outcome, heartbeat in flight | start, renew, lose, admit | local clock against database lease, late answers |
| Run handler and finaliser (`api/handlers.rs`) | handler, worker, monitor and heartbeat tasks | `run_flow`, `abort_run`, `delete_run` | order of gate, intent, answer, terminal write and close |
| Reconciler and maintenance (`engine/reconciler.rs`, `maintenance.rs`, `lease_helpers.rs`) | none of its own | abandon expired claims and runs, sweep, fence an owner | acts on other replicas' rows |
| Lifecycle, shutdown, readiness (`api/lifecycle.rs`, `cli/server_shutdown.rs`, `api/handlers.rs`) | phase, gauge of retrying finalisers, health, probe cache | begin fencing, fence owner, stop, probe | requests admitted just before the fence, counters left behind by cancelled loops |
| Lock order (`engine/postgres_store/`) | advisory and row locks of a transaction | every transaction | cyclic waits between any two or three of them |
| Conversation turns (`api/conversations.rs`, `idempotency/conversation.rs`) | conversation revision, incarnation, exclusive scope rows | claim a turn, commit, save, delete, recover | two turns at once, ABA after delete, indeterminate turns |
| Lua conversations and dialogs (`lua/conversation.rs`, `lua/dialog.rs`) | private transcript, revision, stored record | turn, save, reset, delete, resume | cancelled callers, callbacks that call back, two handles on one id |
| SQLite store (`engine/sqlite_store.rs`) | the same tables in one file | the same operations, each one blocking transaction | calls that outlive their caller, reused instance ids |
| JSON store (`engine/run_history.rs`) | one file per row | sequences of file replacements under a lock | a crash or a failed write between two of them |
| Human input (`engine/input_bridge.rs`, `human_input.rs`, `postgres_store/human_input/`) | parked questions, encrypted mailbox rows, keyrings, waiter count | ask, answer, receive, sweep, roll keys | answers from another replica, late answers, run completion |
| Run events (`engine/eventbus.rs`, `postgres_store/run_events/`) | queue, journal, retention, streams | emit, append, evict, expire, page, resume | gaps and duplicates across reconnects, eviction during a read |
| Agent turns and approval (`lua/agent_turn.rs`, `engine/executor.rs`, `tools/approval.rs`) | message history, rollback snapshot, grants | request, tool calls, approve, cut, roll back | history cut inside a tool exchange, a turn dropped at an await |
| Token budget and usage (`usage/`, `llm/accounting.rs`) | reserved and used tokens, scope totals, locks | reserve, dispatch, settle, abandon | concurrent attempts at the limit, providers that report badly |
| Admission (`api/admission.rs`) | token buckets | admit, refuse | clocks read before the lock |
| Orchestrator (`engine/orchestrator.rs`, `task.rs`, `task_runner.rs`, `foreach.rs`, `collaborative.rs`) | task graph, results, failed set, byte budget | phases, handlers, retry, foreach, discuss | failure propagation, result replacement, limits |
| Memory and message bus (`engine/memory.rs`, `messagebus.rs`) | items with TTL, queues, pending broadcasts | set, get, evict, save; send, register, receive | limits, overlapping runs on one file |
| MCP client (`mcp/`) | connection, mutex, child process group, tool definitions | discover, call, refresh, poison, reap | dropped callers, a child that dies, reaping races |
| Shell tool (`tools/shell.rs`) | process group, pipe, four deadlines | run, time out, terminate, drain | processes left behind, nested deadlines |

Components interact through the store (ledger, run, mailbox and journal rows,
several of them written in one transaction), through process memory (the handler
hands the claim to the monitor; the heartbeat task publishes a fence outcome that
the monitor selects on; all tasks of a run share one input bridge, one budget and
one tool registry) and through the lifecycle phase, read by the middleware and
again under the registry's write lock. A model that needs another component holds
the facts it reads: HumanInput has the run's status, lease and drain mark,
RunEvents the run record and the monitor, Orchestrator one action per outcome of
TaskRunner's loop.

## Modules

Each component has a module. `MCKeyedRun` and `MCConversationTurn` instantiate theirs
for TLC; Readiness, WaitStatus and LocalConversation are also checked as they stand, in
the runs that show a violation. The other components share an MC module by theme
(`MCStores`, `MCTranscripts`, `MCEvents`, `MCCrew`, `MCShared`): it holds several
instances, `part` names the one a behaviour is of, and the variables of the others are
`Off` for good, so the state space is the disjoint union of theirs. Each of these
modules extends one component whose theorems are proved (LockOrder, McpClient,
EventBus, TokenBudget, HumanInput), which stays in an initial state while the others
are at work; `MCStores` has further instances of LockOrder with other constants over the
same variables. `MCLive` does the
same for the components that must make progress; there an idle component stays in an
initial state, since a fairness formula has to have a value in every state.

* **KeyedRun** — the core: keyed HTTP runs on the shared store. An *attempt* is
  one `POST /flows/{flow}/run` with an `Idempotency-Key`; it stands for its
  run id and attempt id, and `Req` gives its key, its principal with request
  fingerprint, and its replica. `ledger` and `runs` are the two tables; `pc`
  and `mem` are the handler, heartbeat, worker and monitor tasks of an attempt;
  `phase` is each replica's lifecycle; `now` is the database clock. One
  PostgreSQL transaction is one action (the code takes advisory locks and row
  locks for its whole duration), the process code between two transactions is
  another. `acked`, `ran`, `freed` and `deleted` record history for the
  properties.
* **KeyedRunProofs** — its inductive invariants (`TypeInv`, `OwnershipInv`,
  `FenceInv`, `DrainInv`) and the proofs.
* **Transcript** — the abstract specification of a conversation: it is created
  under an incarnation no turn belongs to, its transcript only grows until it is
  deleted, and an answer names a turn that was appended for the same request.
* **ConversationTurn** — keyed messages of one HTTP conversation on several
  replicas, which implements Transcript. `conv` is the durable record (its
  incarnation, revision and transcript), `ledger` the conversation rows of the
  idempotency table, `cache[i]` the live handle of a replica, `sess[i]` the
  `/start` or DELETE under way on it, `pc` and `mem` the handler and task of a
  message. `past`, `said`, `ran`, `recovered` and `freed` are history.
* **ConversationProofs** — its proofs, the refinement of Transcript included.
* **LockOrder**, **Readiness** — the locks of the PostgreSQL transactions, and
  what a process says about its own health; **LockOrderProofs** proves the first.
* **SqliteStore**, **JsonStore** — the two process-local backends;
  **SqliteStoreProofs** proves the first.
* **LocalConversation**, **Dialog** — the Lua handles over a stored transcript.
* **HumanInput**, **WaitStatus** — questions to a human;
  **HumanInputProofs** proves the first.
* **RunEvents**, **EventBus** — events and their streams; **EventBusProofs**
  proves the second.
* **AgentTurn** — the provider and tool loop.
* **ProviderStream**, **ProviderCalls** — one streamed answer of a model provider,
  and calls side by side with their gauge and rate limiter.
* **UsageReceipt**, **TokenBudget**, **Admission** — counting and limiting;
  **TokenBudgetProofs** proves the second.
* **TaskPhases**, **TaskGraph**, **Orchestrator**, **TaskRunner**,
  **Foreach** — the run of a crew.
* **MemoryStore**, **MessageBus** — what the tasks of a crew share.
* **McpClient**, **McpClientProofs**, **ShellTool** — external processes.

### How KeyedRun follows the code

`Request` is the middleware's phase check and the read-only lookup; `Claim` is
`claim_idempotency_record` with its sweep (`ClaimNew`, `ClaimExisting`,
`ClaimOverQuota`); `SendHeartbeat`, `HeartbeatTx`, `EstablishFence`,
`ReceiveHeartbeat`, `HeartbeatFails` and `FenceExpires` are the run fence, with
a request, its transaction and its answer as separate steps; `Register` and
`Admit` are the registry and the worker gate; `ProvisionalIntent`,
`ConfirmIntent` and `CrewIntent` are the two intents of a keyed run and the
read-back between them; `StopByFence`, `JoinWorker` and `TimeOutWorker` are the
monitor's biased select; `FinishRun`, `FallbackIntent` and `CloseLedger` are its
persistence loop. `Reconcile`, `Prune`, `Cancel` and `DeleteRun` are what peers
and clients do; `BeginFencing`, `FenceOwner`, `MarkStopping` and `Crash` are the
lifecycle.

Abstractions: names, bodies and fingerprints are model values; `success` stands
for success and partial failure, `running` for running and waiting for input;
the byte and row budgets are a nondeterministic choice; batch limits are above
the model's size; process clocks run at the database's rate (the code relies on
`Instant` durations only, never on a comparison of wall clocks).

### How ConversationTurn follows the code

`Read`, `Lookup`, `Replay` and `TakeGate` are `post_message_inner` up to the
local lifecycle gate: the durable read and the ledger lookup happen *before* the
gate, so everything may have changed when `Claim` runs. `Claim` is
`claim_idempotency_record` with its sweep: an existing row, a conversation that
moved on, a scope that is held (an occupant past its lease becomes a hazard), or
a new claim, which may recover one hazard that its recovery key names. Its answer
may be lost. `StartHeartbeat` to `LeaseExpires` are `LeaseHeartbeat`; a loss is a
published flag that every later select looks at. `UseHandle` is `message_handle`:
the cached handle if it is at the claimed incarnation and revision, or one
rebuilt from the store. `BeginTurn` and `EndTurn` run the turn on a private copy;
`CommitTurn` writes transcript and row in one transaction, and when its answer
is lost the task tries again and meets its own completed row (`CommitAgain`).
`Publish` installs the new transcript in the handle. `Mark` and `Release` are the
two ways out, `Disconnect` drops the handler's future. `OpenSession` to
`PublishSession` are `start_conversation_inner` with its two builds and the
persist between them; `OpenDelete`, `DeleteConversation` and `Evict` are DELETE
and the idle loop.

Abstractions: the transcript is the sequence of messages whose turns were
appended and stays below the history limit; the flow's definition does not
change, so the source fingerprint never differs; a key determines its principal;
byte and row budgets are a nondeterministic choice (`fits`, `ClaimRefused`);
provider work is `BeginTurn` and its outcome. A conversation id is fixed;
incarnations are drawn from a counter in place of random UUIDs.

### How the store modules follow the code

*LockOrder.* A transaction is its sequence of statements, a statement the locks
it takes: an advisory lock, a row `FOR UPDATE` or `FOR SHARE`, or the set of rows
an UPDATE writes, which are locked in any order. `Programs` gives each store
method its statements; `Take`, `Block`, `Wake`, `Advance` and `Finish` execute
them for as many concurrent transactions as there are slots. A ledger row is
locked as live or as ended: a statement that asks for rows of one state does not
wait for a row whose committed version is in the other, and a row keeps its state
for the time of a statement, because retention is far longer than a lock is
waited for. A set of transactions that wait for each other is a deadlock, which
PostgreSQL resolves by failing one of them; the best-effort journal maintenance
times out before that (`GiveUp`).

*SqliteStore.* Every method is one IMMEDIATE transaction in `spawn_blocking`, so
every action is atomic and may come as late as it likes: a caller that stopped
waiting does not stop it. Times are kept as the time left, and `Tick` moves the
clock. The three limits (records, in flight, bodies) are constants small enough to
be reached. In the liveness runs the maintenance loop is
never a whole tick late (it runs every third of a lease) and a fenced worker does
not save an intent after its lease.

*JsonStore.* A method takes the process's lock, reads its files and fixes its
writes; `plan[w]` is what is still to be written, and `Write`, `WriteFails` and
`Crash` come between any two. A write that fails has either not happened, or it has
and only the sync of its directory failed; the caller cannot tell.

*LocalConversation, Dialog.* A handle has a private transcript and the revision
its next save expects. A save is handed to a worker that commits although its
caller was dropped. In Dialog `frames` is the stack of calls under way, because
`turn_selector` and `should_stop` may call the dialog again.

*Readiness.* The four retry loops share the shape "add myself to the gauge at the
first error, subtract when I settle"; each exit of a loop is an action. A probe
takes the cache's lock, checks the store, stores the answer and looks at the
phase again.

### How the run-time modules follow the code

*HumanInput.* A question registers its row, parks on the bridge and waits for its
channel, a poll of the mailbox or its deadline. A request goes to the bridge of
the owner or seals its answer into the row. `Roll` restarts a replica with another
keyring; `ExpireAll` and `CompleteRun` end the run; `OwnerCrash`, `LeaseExpires`,
`Reconcile` and `DeleteExpired` are what is left when the owner is not.
*WaitStatus* is `with_run_wait_status` under parallel branches, including the
blocking write a dropped branch leaves behind.

*RunEvents.* `Emit` numbers an event and puts it into the bounded queue or counts
a gap; `TakeCommand`, `Write` and `WriteLost` are the writer with its batches and
retries; the monitor reserves a flush, waits for it, writes the terminal record
and publishes run_complete; the append, eviction, pruning and page transactions of
the journal are operators; a client connects, reads pages, is cut off and
resumes with the last id it saw. *EventBus* is the local bus: the replay history, as
the numbers of the events it keeps with the byte count `emit` maintains by hand, the
broadcast ring that a slow stream falls behind in, and the SSE permits.

*AgentTurn.* One step is the code between two awaits; provider answers, human
answers, tool results and the dispatch timer are choices. `Cancel` drops the
future: the guard restores the snapshot. The cut of a history to its limits and the
protocol-complete history it is checked against are operators of the module.

*ProviderStream, ProviderCalls.* The readers of the three streaming APIs share one
module with the provider as a constant: the server may send any line at any time,
every delta is charged to one output budget, and each chunk goes through a bounded
channel to the printer before the next line is read. ProviderCalls has calls side by
side, dropped at any await: the gauge of active calls and its peak, the outcome that
is recorded once, and the rate limiter, which sleeps with its lock held.

*TokenBudget.* An attempt counts its input, reserves, locks every scope it
reaches in address order, starts, and settles under the same locks; the scope
graphs are all graphs up to the bound. *UsageReceipt* turns the counts a
provider streams into a receipt and receipts into totals.

*Orchestrator.* One crew per initial state; conditions, results and their sizes
are choices. A failed standard task awaits its handler while no other future is
polled, which the model keeps. What the code does and a reader may not expect,
and the model therefore has: the retry and timeout of a task do not apply to
foreach and collaborative tasks; a phase whose tasks are all skipped skips the
memory write; a handler that failed for one task and succeeded for another stays
in `failed_tasks`. A collaborative task is one step with its outcome. *TaskGraph*,
*TaskRunner* and *Foreach* are the parts.

*McpClient.* One connection. A task acquires the operation mutex, sends, waits,
retries after a header refresh (HTTP), fails, times out or is dropped; a dropped
or timed-out request poisons the connection, which cancels the service, kills the
child's group and wakes the supervisor. `KillGroup` is separate from the swap of
the group id, as it is in the code. The rmcp service loop is external.

*ShellTool.* Timers are punctual. `kin` are the processes of the group, `away`
those that left it; when the command's future is dropped the group is killed, but
the reader tasks are only detached and live as long as an escaped process holds
the pipe.

## Runs

| Run | Module | Checks | Shows |
|---|---|---|---|
| `keyed_run` | MCKeyedRun | `TypeOK`, `OneExecutionPerKey`, `RepliesConverge`, `AckedRunIsDurable`, `LiveFenceExcludesPeers`, `LedgerMatchesRun`, `DrainFenceComplete`, `DrainedOwnerTakesNoControl`, `TerminalIsFinal` | Two retries of one keyed run on two replicas, one of which may drain or crash anywhere, with lost answers, late heartbeats, reconciliation, retention expiry, cancellation and deletion: the flow executes once, the answers agree, the local fence excludes peers, and a drain marks every registered run. |
| `conversation_turns` | MCConversationTurn | `TypeOK`, `ClaimPinsConversation`, `OneTurnPerKey`, `CacheAgrees`, `ScopeHeldByOneRow`, `UnsettledTurnBlocks`, `RecoveryGrace`, `LinearTranscript` | A message and, on another replica, its retry while the conversation is deleted and created again, or a message under its own key that names the first as its recovery key while the first's replica stops or crashes: one turn per key, no turn lands in another incarnation, one row holds the scope, a turn with unknown effects blocks the next until its lease and a whole lease more are over, cached handles at the durable revision hold the durable transcript, and the transcript only grows. |
| `stores` | MCStores | `LockOrderSound`, `SqliteStoreSound`, `JsonStoreSound` | The three stores, each on its own. SQLite: turns with a retry and a recovery key, keyed runs with retries, another principal and restarts; claims pin the conversation, limits hold, a recovered turn never lands. JSON files: the same with a crash between any two file writes, and with writes that fail before or after the rename; files agree with what clients were told, but for the intents that were refused. PostgreSQL: every pair of its transactions over a run and a conversation, and of those that share rows over two keys of a conversation, two keyed runs and the journals of three runs; nothing but an eviction and a reconciler waits in a circle, and the ledger's counters are only locked under the quota lock. |
| `transcripts` | MCTranscripts | `DialogSound`, `ConversationSound`, `GroupGone`, `RoundsBounded`, `NoOverlap`, `DefinitionPinned` | What a flow holds on to. Dialogs and conversations kept by Lua handles: re-entrant callbacks, tool rounds, resume, cancellation, late saves and two handles on one record; transcripts stay resumable, reported turns are stored, and no handle overwrites a record it did not read. Two callers and a discovery share one connection to an MCP server, over stdio to a child that may die, close its output or send bad frames, or over HTTP to a server that redeploys: answers, retries after a header mismatch, deadlines, dropped callers, failing writes and a manager shutdown, in every order; requests never overlap on the server, a call keeps its round limit over a refresh, a refresh changes nothing but the header plan, and a confirmed reaping leaves no process of the group. |
| `events` | MCEvents | `EventBusSound`, `RunEventsSound` | The durable event producer, its writer, the journal and an SSE client that pages, disconnects and resumes while the journal expires and evicts, and the in-process event bus: nothing is lost without a notice, a flush that says persisted is true, nothing follows run_complete. |
| `crew` | MCCrew | `BudgetSound`, `CrewSound`, `TaskSound`, `AgentTurnSound`, `ProviderSound`, `CommandSound` | What executes a crew: the dependency phases, the run loop with handlers and byte limits, one task with its retries, slices and questions, a foreach, an agent's turn with gated tools, a shell command behind the gate, streamed answers of the three providers, usage receipts, and two attempts in graphs of usage scopes with overflowing totals: each attempt is counted once in each scope it reaches or all of them are marked, reservations cover the true use, and the locks never form a cycle. |
| `shared` | MCShared | `HumanInputSound`, `StatusSound`, `AdmissionSound`, `SharedStateSound` | What replicas, runs and agents share: human input with its sealed mailbox under key rotation, crash and drain, the wait status of parallel branches with writes that outlive their branch, readiness probes, the rate buckets under racing clock reads, the message bus and a memory file that two stores save. |
| `live` | MCLive | `RowsSettle`, `WorkEnds` | Under each component's own fairness: runs, claims, questions, streams, tasks, turns, dialogs, MCP calls and commands come to their end, mailbox rows and dead claims are cleared away, and readiness comes back after an outage. |
| `readiness_lost` | Readiness | `GaugeReturns` | **violation**: A claim lost during a retried commit leaves the gauge at one for good, and the process not ready. |
| `status_race` | WaitStatus | `StatusSettles` | **violation**: A branch dropped inside its status write leaves the write to a blocking worker, which makes it after the write of a later holder of the serializer: the record stays on the wrong status. |
| `replay_lost` | MCStores | `ReplayNamesRun` | **violation**: The ledger row is renamed to running and its directory sync fails: the run file is rolled back, and a retry is answered with an id that has no run. |
| `deleted_returns` | LocalConversation | `DeletedStaysGone` | **violation**: A caller goes away during the first save of a handle, the record is deleted, and the late save or the handle's next one inserts the deleted incarnation again. |

The property of a component in a shared MC module is a conjunction of that
component's own invariants and action properties, each instance contributing the
ones it is there for:

* `CrewSound` (TaskGraph, Orchestrator): `RejectsCycles`, `PhasesAreLevels`,
  `StartsAfterDeps`, `VerdictsAgree`, `EveryTaskAnswered`, `ConcurrencyBound`,
  `UsageExact`, `MemoryIsCurrent`, `ResultsStand`, `BytesExact`
* `TaskSound` (TaskRunner, Foreach): `TimeoutIsEarned`, `RetriesKeepMessages`,
  `OutputsInOrder`, `FanOutBound`, `ResultNearLimit`, `WhollyFailedExact`,
  `FieldsBounded`
* `AgentTurnSound` (AgentTurn): `ProviderSeesWholeTurns`,
  `UncommittedLeavesNothing`, `GatedRunsWithConsent`, `WaitHasAllowance`
* `ProviderSound` (ProviderStream, ProviderCalls, UsageReceipt):
  `TotalsAreReadable`, `CompleteIsExact`, `TotalsAreSums`, `TotalsOnlyGrow`,
  `ReportedUsageSurvives`, `AnswerIsWhole`, `PrintedIsAnswer`,
  `OutputWithinLimit`, `FinalIsEarned`, `AnnouncedOnce`, `GaugeExact`,
  `RequestsSpaced`, `RecordedOnce`
* `CommandSound` (ShellTool): `GroupEnds`, `DrainBlame`, `ReapedBeforeCut`
* `AdmissionSound` (Admission): `RateBound`, `RetryAfterSuffices`
* `SharedStateSound` (MessageBus, MemoryStore): `HandedOnce`, `DirectAccounted`,
  `Bounded`, `SavedIsOnFile`, `WriteIsKept`
* `SqliteStoreSound` (SqliteStore): `ClaimPinsConversation`, `QuotasHold`,
  `SupersededNeverCommits`, `LedgerFollowsRun`
* `JsonStoreSound` (JsonStore): `CompletedTurnIsStored`, `TurnOnce`,
  `OneTurnInFlight`, `AnsweredRunExists` (crashes only), `OnlyRefusedIntentsLack`
  (failing writes too), `TerminalStays`
* `DialogSound` (Dialog): `HistoryResumable`, `PromptWithinBudget`,
  `CompletedOnce`, `ReportedTurnIsStored`, `SpeakersAlternate`, `SaveBuildsOnSeen`
* `ConversationSound` (LocalConversation): `VisibleWasStored`, `ReportedIsStored`,
  `NoBlindOverwrite`
* `RunEventsSound` (RunEvents): `FlushMeansStored`, `NothingAfterTerminal`,
  `PagesAreValid`, `CompleteMeansNoHole`, `NoSilentLoss`, `GapsAreLost`,
  `IdsIncrease`
* `EventBusSound` (EventBus): `ReplayWithinBudget`, `NothingLostUncounted`,
  `ReplayThenLive`, `PermitsExact`
* `HumanInputSound` (HumanInput): `FirstWriterWins`, `OwnerReadsAnswer`,
  `NothingParksAfterExpiry`, `CleanupArmed`
* `StatusSound` (WaitStatus, Readiness): `SerializedStatusSettles`, `WaitersExact`,
  `TerminalStays`, `TypeOK`, `GaugeCoversRetrying`, `HealthIsEarned`,
  `DrainNeverReady`
* `BudgetSound` (TokenBudget): `TypeOK`, `ScopesAreInclusive`, `BudgetIsReadable`,
  `SpendIsCovered`, `NoLockCycle`, `AllOrNothing`, `FailureIsSticky`
* `LockOrderSound` (LockOrder): `TypeOK`, `OnlyTheJournal`,
  `QuotaGuardsAccounting`
* `RowsSettle` (liveness): `RunsSettle`, `ClaimsSettle`, `MailboxDrains`,
  `KeyedOrphanEnds`, `DeadClaimSettles`
* `WorkEnds` (liveness): `GateIsReturned`, `AskReturns`, `MonitorEnds`,
  `ClientsClose`, `StreamsEnd`, `CrewEnds`, `TasksEnd`, `TurnEnds`, `DialogEnds`,
  `ForeachEnds`, `PoisonReaps`, `CallsEnd`, `CommandEnds`, `ReadinessRecovers`

## Bounds

Every bound is a constant of its module and is named in its declaration; those
of the shared MC modules stand in the `WITH` of the instance.

* `keyed_run`: two replicas, one key, two attempts, `MaxTime` 4 with leases and
  retention of 2 ticks: long enough for a claim to expire, be abandoned by the
  peer and leave retention, with the owner still at work. One replica may drain
  or crash. More keys only multiply independent histories: no transaction relates
  the rows of two keys.
* `conversation_turns`: three messages on two replicas, of which `OneAtATime` lets the
  first run with its retry, through a delete and a second incarnation (`MaxInc` 2), or
  with the one that recovers from it, while a replica may stop or crash. `MaxTime` 3
  with a lease of 1, so that the grace of one lease after the deadline ends inside the
  horizon.
* `stores`: up to three attempts on two keys. Of SQLite's limits those on bodies, in all
  and for a principal, and on rows in flight are met; the limits on rows are as many as
  there are keys, and that they hold is left to the theorem. The files have one crash
  and one failing write, with keyed runs and a run without a key, or a failing write of
  a keyed run and its retry. Locks: every two transactions over a run, a conversation
  and a key of each; two keys of one conversation; two runs with a key each; and the
  transactions that lock journal states, over three runs, the fewest with which a
  reconciler and an eviction can wait for each other.
* `transcripts`: two handles, two or three turns, history limits of one and two
  messages, deletes and one cancellation everywhere. MCP: two callers and a discovery
  over either transport.
* `events`: two or three events, a journal of two rows for a run and three in
  all, pages of one row, one disconnect: eviction overtakes a reader, and a page
  ends in the middle of a run.
* `crew`: crews of four tasks in eight shapes, every dependency list of at most
  two entries over three tasks for the graph, two tasks of one agent with a slice of two
  ticks, foreach of up to four items with three allowed, histories of up to six
  messages, two or three processes in a group without a gate and with one that may be
  answered in time, late or not at all, usage counts up to an overflow at 4; streams of
  three lines, of Anthropic's both with and without a forced tool. The budget has two
  tokens, so that two reservations exist at once; `FewScopes` leaves the graphs of two
  roots and a child, and of a fourth scope those where the links run in opposite
  directions, which is for the locks.
* `shared`: one question with two answers and every stage of a key rotation, or two
  questions with one answer on a bridge with room for one and one key
  (`OneOrTheOther`); three branches; two finalisers; two threads at the buckets; two
  stores on one memory file, where `FewReads` cuts the access counters.
* `live`: the same components with one item of each kind. Readiness has no lease loss
  and no drain there: what becomes of the gauge then is `readiness_lost`.

Symmetry is used where the values are interchangeable and no liveness is
checked: handles, connections, attempts.

## Fairness

The properties of `live` are of the form "if the component is scheduled fairly,
then ...": each has the fairness of its own component as its antecedent, so that
one specification serves all. What is assumed, and why:

* tasks that tokio has spawned are polled when ready, and timers fire: weak
  fairness on the steps of live tasks. Nothing is assumed of a crashed process, a
  dropped future, a client, a script, a provider or a server, except that a call
  ends by its timeout;
* the maintenance loop of some live replica goes round, and time passes: weak
  fairness on `Reconcile`, `Prune`, `Tick`. In SqliteStore the loop is never a whole
  tick late (`Timely`), because it runs every third of a lease;
* strong fairness in one place, the deadline of a question in HumanInput: polls
  of the mailbox may disable it again and again, but the timer stays armed.

## Findings

`readiness_lost`: *a finaliser that loses its claim leaves the gauge raised.*
`docs/cli.md:638` says the number of finalisers retrying durable persistence
"returns to `0` as those finalizers recover or are fenced". In
`commit_message_with_retry` the retry loop adds itself at the first error and
subtracts when it settles; when its lease is lost in between, the surrounding
select drops the loop's future and nothing subtracts. `GaugeReturns` holds when no
lease is lost and no drain refuses a finaliser (`live`), and is violated otherwise.

`status_race`: *a late write sticks.* The comment at `engine/input_bridge.rs:532`
promises "race-free durable status transitions". On SQLite and on files
`update_run_status` runs in `spawn_blocking`: when a branch is dropped inside its write,
the serializer is free while the write is still to be made. Another branch writes under
the serializer, and the older status lands after it. `StatusSettles` is violated; what
holds, and `shared` checks, is that the status is true whenever the last write was made
by a holder of the serializer (`SerializedStatusSettles`). PostgreSQL's write is a
statement of the dropped future and has no such tail.

`replay_lost`: *an answer names a run that is gone.* The comment at
`engine/run_history.rs:1357` wants "an observable Abandoned run instead of replaying an
id that can only return 404". When the ledger row is renamed to running and only the
sync of its directory fails (`:175`), `save_run_intent` takes the transition for failed
and removes the run file (`:1158`). A retry of the key is then answered with the id.
`AnsweredRunExists` is violated; the runs that are missing are only those whose intent
was refused (`OnlyRefusedIntentsLack`, in `stores`).

`deleted_returns`: *a deleted conversation comes back.* `docs/crews.md:306` says that
"Delete/recreate assigns a new incarnation so stale responses cannot cross that
boundary". A caller that goes away during the first save leaves its handle at revision
0 with the incarnation it made. When the record is deleted meanwhile, the late save or
the handle's next one inserts that incarnation again, and a save after it may replace a
log it never read. `DeletedStaysGone` is violated; `NoBlindOverwrite` and
`ReportedIsStored` hold for every incarnation that did not come back (`transcripts`).

### Divergences noted while modelling

The models have what the code does in these places; no run is kept for them.

* A keyed run acknowledged before the drain fence still saves a second intent,
  which the fence refuses (`postgres_store/run_history/intent.rs:50`), where
  `docs/architecture.md:416` lets accepted work continue.
* A claim whose body did not fit the budget fails the worker's read-back
  (`api/handlers.rs:1847`), where `docs/storage.md:125` says only replay is lost.
* `complete_run_idempotency` retries without end when retention removed the row
  (`api/handlers/terminal_persistence.rs:75`).
* `/start` that lost the creation race may publish a handle of a conversation a
  peer has deleted since (`api/conversations.rs:744`).
* An answer sent to an asker that has given up but still holds its receiver counts
  as delivered (`engine/input_bridge.rs:637`).
* Under a reused instance id SQLite's heartbeat renews the unkeyed runs of the process
  before (`engine/sqlite_store.rs:1376`). The models have keyed runs, whose row ends
  them; the unkeyed ones are not covered.
* A crash between the two files of a recovery leaves two hazards, which no
  recovery key can name (`engine/run_history.rs:1797`).
* A dialog without an `autosave` key is never saved (`lua/dialog/construction.rs:152`),
  where `docs/crews.md:590` saves it unless the script says `autosave = false`: so
  `ReportedTurnIsStored` is about scripts that have the key. Revisions restart at 1
  after a delete (`lua/dialog/persistence.rs:47`), so a handle whose record was deleted
  may overwrite the next one; `SaveBuildsOnSeen` leaves out such handles. A turn too
  many, taken back at the end of a re-entrant dialog, leaves an empty transcript when the
  history limit is 1 (`lua/dialog.rs:1014`), which cannot be saved; `HistoryResumable`
  allows that one case.
* The reconciler updates the journal states of the runs it ends in an order of its own
  and without the journal's usage lock (`engine/postgres_store/lease_helpers.rs:194`),
  while an append that evicts locks such rows, one batch after another
  (`run_events/retention.rs:90`). The two can wait for each other; PostgreSQL then
  fails one, and both are tried again later. So `NoWaitCycle` does not hold, and what
  holds is `OnlyTheJournal`: every circle has a reconciler that waits for an append on
  such a row.
* The stream of an abandoned run closes with a synthetic run_complete after its
  first page (`api/handlers.rs:2819`).
* A thread with an older clock moves a bucket's `updated_at` back
  (`api/admission.rs:335`, `:140`), so that a window is refilled twice, where
  `docs/http-scaling.md:314` bounds what is admitted by burst and refill rate alone.
  `RateBound` adds what the clock was set back by (`rewound`), and without it fails.
* A failed foreach does not consult `on_error` (`engine/orchestrator.rs:418`), nor
  does a failed handler (`:200`); `task_retry` is never emitted
  (`engine/task_runner.rs:176`).
* Foreach counts the compact encoding and returns the pretty one
  (`engine/foreach.rs:588`), longer than the "maximum serialized aggregate output" of
  `docs/cli.md:494`; `ResultNearLimit` says by how much.
* The clock of a task is stopped slice by slice: a question asked and answered within
  half a second is billed, a slice in which one is asked is not, where
  `docs/tools.md:248` says that human-wait time does not count. A retry repeats what the
  attempt before it did (`engine/task_runner.rs:173`); nothing promises otherwise, and
  no property is about it.
* OpenAI's reader takes a stream that breaks off for an answer when it said something
  (`llm/openai/stream.rs:149`), where the comment above its loop (`:49`) says it must
  fail. A last line without its newline is dropped by all three
  (`llm/provider_http.rs:141`). The input of a forced tool replaces the text
  (`llm/anthropic/stream/output.rs:21`), and is not what was printed.
* `abort()` swaps the group id before it kills, so a reaping may be confirmed in
  between (`mcp/stdio_abort.rs:43`).
* The dispatch timeout is the maximum, not the sum, of the tool's budget and the
  approval allowance (`tools/registry.rs:210`), so a command approved late is cut before
  it is reaped, against the comment at `tools/shell.rs:163`. `ReapedBeforeCut` is about
  the commands that were approved in time.
* `memory_set` over an expired item keeps its age (`engine/memory.rs:368`), and the new
  value is taken for expired as well. Of two runs that were open at once the later save
  removes what the earlier one saved; `SavedIsOnFile` is about runs that knew of it.

## Proofs

All theorems hold for every value of the constants under the named assumption of
their module; TLC evaluates these assumptions in the runs.

**KeyedRun**, from `KeyedRunAssumption` (an attempt has a key, an identity and a
replica; lease and retention are positive):

* `TypeCorrect`: `TypeInv` adds to `TypeOK` that a row's owner is an attempt on
  its key.
* `Ownership`, and from it `ExecutesOnce`, `RepliesAgree`, `AckedIsDurable`,
  `LedgerFollowsRun`, `TerminalStays`. `OneExecutionPerKey` is not inductive: a
  claim must know that an attempt past its claim still owns its row or was freed
  (`ClaimHeld`), that an attempt before its gate has not run (`GateClosed`), and
  that a row that is running or completed with a body has a record
  (`RowFollowsRun`), which needs what the monitor knows when it closes
  (`MonitorKnows`).
* `FenceExcludes`: `FenceInv` says that while the local deadline is live the
  database leases of the row *and* of the run reach at least as far, and so does
  the deadline an answer still on its way would install. This is the reason the
  code counts from the instant the heartbeat was sent.
* `DrainMarksAll`, `DrainStopsControl`: `DrainInv` adds that the tasks of a dead
  process are gone; a row can become in flight for a registered attempt only
  while its replica accepts.

**ConversationTurn**, from `ConversationAssumption` (a request has a key, a body
and a replica, and does not name its own key as recovery key):

* `TypeCorrect`, with `RowsNamed` as the strengthening. The type of a row has its dates:
  a claimed row has a lease, a settled one an expiry after its settlement, so that
  retention ends every row.
* `ClaimPins` and `ScopeExclusive`: neither is inductive alone. That a commit
  leaves no other message behind at the old revision needs the scope to be
  exclusive; that a new claim finds the scope free needs every message in flight
  to be in the current incarnation; both need a row in flight to hold its scope
  (`HeldScoped`). `ScopeInv` is their conjunction. Most steps only weaken what
  the ledger holds (`WeakerKeeps`).
* `RunsOnce` and `UnsettledBlocks`: `TurnInv` adds that a claim, and after it a
  turn, keeps its row until retention removes it (`ClaimHeld`, `TurnHeld`), that
  a released row ran no turn (`NotYetRan`), and that a completed row was committed
  and a row without scope recovered (`RowsKnown`). Two unsettled turns of one
  incarnation would then both hold the scope.
* `CacheIsStore` and `ImplementsTranscript`: `LogInv` adds to `ScopeInv` that every
  transcript held anywhere (the store, a handle, a session's candidate, the memory
  of a message at work) consists of turns that were committed, each in its place
  (`Known`), and that no two turns have one place (`Distinct`). Two records of one
  incarnation and revision then have one transcript, which is `CacheAgrees`; the
  property alone is not inductive, because a handle may be filled from a task's
  memory long after the store moved on. `Distinct` survives a commit because the
  revision is compared inside the transaction, and a `/start` because the candidate
  incarnation belongs to no turn (`CandidatesFresh`). For the refinement each action
  is shown to be a step of Transcript or a stutter; an answer is a replay step
  because a completed row names a turn of its own key and body (`RowsLinked`,
  `RowsPast`).
* `GraceHolds`: `GraceInv` adds to `LogInv` that the deadline a worker counts for
  itself is at most a lease away (`InTime`) and never after the lease of its row, nor
  after the instant the row became a hazard (`Warned`), and that a recovered message
  never has its row in flight again, so that no later renewal extends its deadline
  (`GivenUp`).

**McpClient**, from `McpAssumption` (the discovery is not a caller, the limits are
positive), for both transports: `McpTypeCorrect`, `McpRounds`, `McpGroup`,
`McpNoOverlap`, `McpPinned`. `McpInv` is the conjunction of the types, of `MutexInv`
(exactly the task between acquiring and leaving holds the mutex), `RequestInv` (a
request in the queue or on the wire belongs to the holder, or the connection is
poisoned), `RoundInv` (calls written never exceed the rounds started, and a queued
call has one to spare), `GroupInv` (the group outlives its id only while a thread
is about to kill it) and `ListInv` (a refreshing call finds a committed
definition).

**HumanInput**, from `HumanInputAssumption` (the owner is a replica, the limits are
positive, the keyrings are ones `read_env` accepts), for runs with and without a key
and owners with and without a keyring: `FirstWriter`, `OwnerReads`, `NothingParks`,
`CleanupIsArmed`. Where an answer is accepted depends on whether the question is
durable: `HumanInv` says that a durable question is accepted by the transaction while
its row is pending and never on the bridge, any other by its channel while that is
open (`AskKnown`, `ReqKnown`); that an answered row, a channel that was sent on and a
coroutine that has resumed all name the accepted request (`RowKnown`, `AskKnown`);
and that a row exists only for a durable question past its registration, sealed
under the owner's active key, as is its answer. `HumanInputHolds` is their
conjunction, `HumanInputSound`, the property the run `shared` checks.

**SqliteStore**, from `SqliteBounds` (finitely many keys, an attempt has a key or none
and is a run or a message, the limits are numbers), for processes that are late
without bound: `SqliteClaimPins`, `SqliteFollowsRun`, `SqliteQuotas`,
`SqliteSuperseded`. Every transaction but two only takes from a row (`Weak`: it is
removed, or keeps its owner and gains neither life nor scope nor body), and one lemma
(`WeakKeeps`) covers them all; the claim and the commit are the two. `StoreInv` says
that a row belongs to an attempt on its key that has claimed (`RowsOwned`), that a
turn in flight has the stored incarnation as its scope (`RowsPinned`), hence that
there is one (`OneTurn`), and that an attempt whose hazard was consumed has no live
row and will not claim again (`AttemptsKnown`). `ClaimPinsConversation` is not
inductive without `OneTurn`: a commit would move the record under another turn.
`SqliteSound` is their conjunction, `SqliteStoreSound`.

**TokenBudget**, from `BudgetAssumption` (finitely many attempts and addresses, which
are numbers; a positive limit; outputs are positive): `BudgetTypeCorrect`,
`ScopesInclusive`, `ScopesAllOrNothing`, `BudgetReadable`, `BudgetCovers`,
`BudgetSticky`, `ScopeLocksOrdered`, and `BudgetHolds`, their conjunction. `BudgetInv`
says that the lineage of a scope is the least set its links do not leave (`GraphInv`),
what an attempt knows at each of its stages (`AttemptsKnown`), that it holds the
first locks of its lineage in address order (`LocksHeld`, from which no set of
attempts can wait on itself: the holder of the greatest lock waited for would have to
wait for a greater one), that
the counters of a scope are the sums over the attempts within it (`CountsKnown`), and
that what is reserved is the sum of the live bounds and, with what is charged, covers
a bound for every live attempt and the true use of every settled one (`BudgetKnown`).
What a sum over a finite set is, and what a change of one summand does to it, is
proved from a least counterexample among the subsets, because induction over finite
sets takes an operator as parameter.

**LockOrder**, from `ResourceAssumption` (a key belongs to a run or a conversation),
for any number of transactions, runs, conversations and keys: `LockOrderHolds`,
`NoCycleWithoutTheJournal`. Each program is shown to satisfy `Facts`:
in which mode it takes each class of lock, what it has taken before that (`GuardFact`),
and what it may still wait for afterwards (`AfterFact`). `LockInv` says that a
transaction runs such a program (`TxOK`), holds only locks of the statements up to the
current one (`Holding`) and all of those before it (`Complete`), waits for a lock of
the current one (`Wanting`), and that locks exclude each other (`Exclusive`,
`OneOwnBeat`). A wait has a rank, from the kind of the transaction and the class of
the lock; when a transaction waits for another that waits itself, the second wait has
the higher rank (`RankGrows`), and ranks end at 13. An answer locks its question
first and its key and ledger row after it, where a heartbeat or a cancellation has them
the other way round; the lock on the run's resource, which all of them take before
that, keeps them apart. The one exception is a
reconciler at an append's journal state. Two transactions that lock rows in any order
do not meet there, because an earlier lock excludes one of them (`NotBoth`).

**EventBus**, from `BusLimits` (capacities and sizes are positive), for any number of
streams: `EventBusHolds`. `BusInv` says that the history holds increasing event numbers
up to the last one (`Ordered`), keeps both bounds and an exact byte count
(`ReplayWithinBudget`), that what a running stream has passed on and what it counted
as missed add up to the events since it subscribed, while what the history kept from
before is passed on or still to be replayed (`InStep`), and that each permit is free or
with a stream (`PermitsKnown`). That the
eviction loop of `emit` stops at the first history that fits is proved from the
well-foundedness of `<`. The lemmas on sums are those of TokenBudgetProofs, repeated
because each proof module stands alone.

**Only model-checked.** The other properties of the shared MC modules (JsonStore,
the Lua handles, RunEvents, the crew, WaitStatus and Readiness) and liveness
(`RowsSettle`, `WorkEnds`), which is out of the prover's reach because it rests on
fairness. What the recursive operators and functions of RunEvents, AgentTurn and
TaskPhases compute for every input would need induction over data.

## Plan

Done: the core (KeyedRun, ConversationTurn and their proofs), the other
components, the liveness of those that must make progress. Every safety property of
KeyedRun, ConversationTurn, McpClient, SqliteStore, TokenBudget, LockOrder,
EventBus and HumanInput that a run checks is a theorem.
Left: the inductive invariants of the other components in the shared MC modules.

## Not modelled

The request bodies, HTTP retries and wire formats of the LLM providers, the Lua
sandbox and bindings, the tools
other than the shell, metrics and tracing, CLI wiring and `ironcrew clean`,
configuration parsing, the text of requests, answers and events. Of what is
modelled: the inside of a collaborative task, the audit log's best-effort save,
unkeyed messages on a shared store, listing and history pages, subflows, and of MCP
the connecting of several servers, caching, framing and escapes.
