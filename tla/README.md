# Verification of SingleCLI

SingleCLI runs command-line coding agents. Its daemon, `single-runtimed`
(`crates/single-runtime`), keeps tasks (one run of one agent) and goals (a graph
of tasks that a coordinator plans, starts, reviews and repairs) in SQLite and serves
clients over a Unix socket from a few threads. Around it stand the command
`single`, a dashboard, an editor bridge, a gateway to MCP servers, a language-server
proxy and an agent of its own; below it files, a keychain and other programs.

This directory holds TLA+ models of these parts, TLC configurations that check them on
small instances, and proofs of what matters most. Paths below are relative to
`src/crates/` unless they begin with `docs`.

| part | modules | instance |
|---|---|---|
| coordinator | `TaskGraph`, `Coordinator`, `CoordinatorProps`; proofs `CoordinatorProofs`, `CoordinatorAlone` | `MCCoordinator`, `Coord*.cfg` |
| its brain and its routing | `Replies`, `Routing` | `MCStores` |
| task runner | `TaskContract`, `TaskRunner`; proofs `TaskRunnerProofs` | `MCTaskRunner`, `Task*.cfg` |
| provider pool | `Pool`; proofs `PoolProofs`; `Quota`, `Degrade` | `MCPool`, `Pool.cfg`; `MCStores` |
| processes around the daemon | `Daemon`, `Approvals`, `NativeAgent`, `Orchestrate`, `LspProxy`, `AgentRun`; proofs `ClientsProofs` | `MCClients`, `Clients.cfg` |
| what a person sits before | `Acp`, `Tui`; proofs `FrontsProofs` | `MCFronts`, `Fronts.cfg` |
| what is kept on disk | `Redact`, `SecretSpans`, `Memories`, `KnowledgeGraph`, `AgentConfigs`, `Worktrees`, `TaskHooks`, `Update`, `Backups`; proofs `StoresProofs` | `MCStores`, `Stores.cfg` |
| files that requests share | `Accounts`, `SelfHeal`, `Registries`, `Keys`; proofs `FilesProofs` | `MCFiles`, `Files.cfg` |

Run a module from here: `tlc -config TaskSlots.cfg MCTaskRunner`, `tlapm PoolProofs.tla`.
`PROJECT.json` maps each definition to the lines it is translated from, each run to its
properties, each property to mutations of the code that the run catches, and each hazard of
the code to the properties that would catch it going wrong.

## 1. Inventory

### The daemon

**Coordinator** (`single-runtime/src/coordinator/`: `scheduler.rs`, `goal.rs`,
`graph.rs`, `mod.rs`). State: tables `goals`, `graph_nodes`, `pending_merges`.
A *tick* lists the active goals and visits each one: settle the nodes
whose task has ended (done, retry once, ask the supervisor for a patch, fail, hold
for capacity, give up), recompute the ready set, then integrate, block, fail, or
start nodes within the global ceiling, the ceiling of each agent and the budget of
the goal. Hard: several threads tick at once, each on its own connection and with no
lock; a pass holds rows it read before asking an agent for minutes; nothing calls
back when a task ends. Correct when: a node is worked on once, after what it
depends on; it points at a task of its own; its result is not lost; counters keep
their caps (or exceed them by a known amount); a goal that is done is finished; a
goal with work to do gets it done.

**Daemon threads** (`server.rs`, `handlers.rs`). The tick timer, the thread that
resumes interrupted goals and then runs self-heal, one thread per request. Start-up
sweeps task rows, binds the socket, reconciles node rows; a clean stop pauses active
goals; a crash does not. Correct when: every interrupted goal is picked up again, and
nothing is reconciled to a result that did not happen.

**Brain and routing** (`coordinator/brain.rs`, `coordinator/routing.rs`). The planner,
the supervisor and the integrator are agents whose reply is searched for the first JSON
value; an agent for a node comes from three lists of a file, less those that are
rate-limited or not installed. Correct when: prose around the value does not change what is
read; the first agent of the lists that can run is the one that does.

**Task execution** (`task.rs`, `registry.rs`, `single-core/src/fallback.rs`). State:
table `tasks`; the cancel flags of background tasks; a counter with a condition
variable for each agent that has a `max_concurrency`; worktrees; accounts
marked rate limited. Hard: threads waiting for slots; a fallback
hop that runs in the same thread under a new row with no flag of its own; rows
forced to an end from outside while their thread is at work; a process that
outlives the daemon. Correct when: the caps hold, nobody sleeps beside a free slot,
each row in flight has a thread, each task ends once unless it is held up, a worktree in use is kept,
fallback moves forward.

**Running an agent** (`single-agent-sdk/src/run.rs`, `adapters.rs`). A process in a group of its
own, or `docker exec`; a poll loop that looks for its end, the deadline and the cancel
flag; two threads that drain its pipes. Hard: helpers that the agent forks keep the pipes
open, and the threads are joined without a deadline. Correct when: a kill leaves nothing of the group, and a killed run ends.

**Provider pool** (`pool_agent.rs`, `pool/*`). A call goes from candidate to candidate;
each failure benches the candidate for a time and with a provenance; leases count
what is in flight; a session remembers its last provider; the self-heal pass probes benches.
Hard: calls and the probe rewrite the rows of one another; a call that waits for a
provider's poll. Correct when: no way out keeps a lease, the time an exhausted call names is of
use, a change of provider is announced. **Ledger** (`pool/ledger.rs`, `pool/pools.rs`): a call
moves from lease to record in two writes; it must not be counted twice. **Health**
(`pool/degrade.rs`): a mode with hysteresis must not flap.

**Orchestration** (`orchestrate.rs`, `orchestrate_graph.rs`). A relay in one worktree, a batch,
and waves of a graph on scoped threads. Correct when: a node runs on final statuses of what
it depends on, what ran is reported, every request ends whose agents do.

**Self-heal** (`self_heal.rs`, `self_heal/*`). Passes at start-up, periodically and from
`doctor --fix` check and restore the database, back it up, install what is missing, probe
benches, check keys, re-evaluate blocked goals and re-route nodes. Hard: passes overlap with
each other and with the server. Correct when: what is whole is not replaced, what is there not
installed again, re-evaluation stays bounded.

### Around the daemon

**Clients** (`single-cli/src/client.rs`, `daemon.rs`, `serve_openai.rs`). A request goes over the
socket, or runs in the caller's process when no daemon listens. Correct when: no request is executed
twice, whichever daemons start, crash and stop meanwhile.

**Editor bridge** (`single-cli/src/acp.rs`). Turns of a session submit goals and tail events through
one shared cursor. Hard: a text cut at a byte may panic, in the thread of a turn or in the
loop. Correct when: every prompt gets its response as long as nothing panics, and no event is skipped by a `session/load`.

**Dashboard** (`single-tui`). A loop draws, polls background threads and takes a key. Correct
when: a key acts on the row the screen has shown, and every answer reaches the screen.

**Approvals and the gateway** (`single-core/src/preferences.rs`, `permissions.rs`,
`single-mcp/src/gateway.rs`). Processes ask, poll, resolve and learn on one database; calls of one MCP
server share a process that is swept when idle. Correct when: nothing is done without leave,
calls of one server share one process, every call ends that no mute server holds.

**Built-in agent** (`single-native-agent`). A conversation with a provider. Correct when: each
tool call has its one answer before the next request.

**Language-server proxy** (`single-lsp/src/proxy.rs`). Backends die with requests pending and are
started again under the same name. Correct when: each request is answered once, with its own id.

### On disk

**Redaction** (`single-core/src/redact.rs`). Secrets of a prompt are replaced by numbered aliases and put
back when the pool sends it. Correct when: a prompt gets its own secrets, as it was written.

**Memory, documents, notes, knowledge graph** (`memory.rs`, `documents.rs`, `embeddings.rs`,
`qdrant_backend.rs`, `knowledge_graph.rs`, `single-core/src/notes.rs`). Rows and vectors in two stores; writers
that look first and write later. Correct when: a search answers with the text that was
found; nothing speaks of an entity that is gone.

**Configuration of agents** (`integrations.rs`, `single-agent-sdk/src/formats/`, `provider_sync.rs`).
Whole files that requests read, back up and rewrite with no lock. Correct when: the user's
own entries stay.

**Worktrees, merges, hooks** (`single-core/src/worktree.rs`, `pending_merge.rs`, `task_hooks.rs`). Correct when:
no merge is left half done with nobody at work on it, unless it could not be undone; each entry of the
hooks' list runs once for a task, for its status.

**Updates and backups** (`single-cli/src/update.rs`, `single-core/src/backup.rs`). Correct when: what is
installed or restored is whole, killed at any step.

**Accounts, registries, keys** (`single-core/src/account.rs`, `agent_home.rs`, `mcp.rs`, `lsp.rs`, `tools.rs`,
`providers.rs`, `plugins.rs`, `pool_keys.rs`, `provider_keys.rs`). Homes and logins, registry files, two stores for
each key. Correct when: an agent runs with the login of its account; nothing is on that nobody
turned on; every key the pool may pick has a value, and only refused ones are disabled.

## 2. The models

A statement of the code commits on its own, so a thread is split into steps wherever another thread can
come in between; what is assigned without anything in between is one step. Every module
begins with what it stands for and what it leaves out.

### Coordinator

Variables: `goal`, `node`, `task`, `merge` are the tables (of tasks only the result);
`thread[t]` is where a thread stands and what it has *read*: the rows of its list,
the graph, the room and the ready set of the goal it visits; `spent` counts what
bounds the run. The splits are in particular around every call of
an agent and around the start of a task.

| code | actions |
|---|---|
| `tick`, `tick_pure` | `TickList`, `TickUnplanned`, `TickBlock`, `TickFail`, `TickIntegrate`, `IntegratorEnd`, `TickDispatch`, `TickEnd` |
| `settle_finished_node` and what it calls | `SettleDone`, `SettleRetry`, `SettleExhausted`, `SettleWait`, `SettleGiveUp`, ... |
| supervisor | `SupervisorOp`, `SupervisorSave`, `SupervisorClash`, `SupervisorAbort`, `SupervisorError` |
| dispatch | `DispatchStart`, `DispatchRecord`, `DispatchSkip`, `DispatchError`, `DispatchEnd` |
| goal requests | `Submit`, `PlanDone`, `PlanError`, `Amend`, `Cancel`, `Resume`, `ResolveMerge` |
| start and stop | `Restart` (crash, or clean stop through `PauseActive`; reconcile), `ResumeList`, `ResumeGoal`, `ResumeEnd` |
| self-heal | `HealBegin`, `ReevalGoal`, `ReevalEnd`, `RerouteGoal`, `RerouteEnd` |
| outside | `TaskEnd`, `StampPasses`, `ClockPasses` |

Abstractions: prompts, summaries and events are left out. A time stamp is
`future` or past, and passes in a step of its own; `age` counts timer ticks of a blocked
goal. A plan has fresh ids and no nodes that have run (`Fresh`). The nodes of a split (`Pieces`) are taken as the supervisor
writes them, with any status, task and attempts: its JSON is deserialized into whole nodes (`graph.rs`), so what holds of nodes holds
except for what a split was written with (`Given`). The status "ready", which nothing in the code tells from pending, is counted
with it. A stored cap of 0 is the default (`BudgetOf`, `DefaultDispatches`). A start that fails is a step; which error is not told.

### Task runner

Variables: `task` (rows: entry, status, rate-limited, whether `worktree_path` is set, the
row it follows), `job` (the thread of each request: where it stands in `execute`, the row it
works on, its options, its cancel flag, the outcome of its process), `registry`, `count`
(`AGENT_SLOTS`), `marked`, `trees`, `forcing` (a `force_fail` between its read and its
write), `survivors`, and three history variables (`forced`, `lost`, `restarts`) that no
guard but the restart bound reads. An *entry* is an agent, or one account of it, as
a fallback chain names them.

| code | actions |
|---|---|
| `TaskRun`, `run`, `run_background` | `Run`, `Launch`, `LaunchBreaks`, `Return` |
| `execute` up to the process | `Setup`, `SetupFails`, `Prepare`, `PrepareFails` |
| `acquire_agent_slot`, drop of the guard | `Acquire`, `Wait`, `SpuriousWakeup`, `ProcessEnds`; `Unslotted`, `UnslottedEnds` without a cap |
| `run_command_live` after the agent's own exit | `HelperHolds`: a helper keeps the pipes open, and the run does not end |
| the end of `execute`, `maybe_fail_over` | `Finish`, `Hop`, `NoHop` |
| an error handed up by `?` | `Breaks` |
| `TaskCancel`, `TaskCleanup`, `AccountSetStatus` | `Cancel`, `ForceRead`, `ForceWrite`, `Cleanup`, `AccountSetStatus` |
| restart | `Restart`, `SurvivorEnds` |

Abstractions: `max_concurrency` and the chains do not change while tasks run; a process
ends with any outcome the poll loop can report (cancelled only if the flag is up;
the pool, which runs no process, never); reconciliation at start-up succeeds; `Cleanup`
removes the worktree of an ended row in one step (nobody brings such a row back to
work). Prompt, token counts, artifact text and events are left out.

`TaskContract` is the specification a user of tasks, the coordinator among them,
relies on: a task starts, ends with one result for good, may be forced, and fails with
the daemon. Its fair form says that each task ends that is not delayed. `TaskRunner!Contract` maps
rows to it; `KeepsContract` is checked as a property.

### Pool

`Pool` keeps the bench of each candidate (time left and provenance), the leases, what each session ran
on last, and of every call the candidates it has tried, the note it carries and the benches it wrote.
The daemon's clock is not a variable: what is compared with it is kept as the time left, and
`Tick` lets all of it run down together.

| code | actions |
|---|---|
| `pool_agent::execute` | `Begin`, the steps of a call in `Step`, `Return` |
| handoff notes dropped by age | `Forget` |
| the probe of `self_heal/infra.rs` | `StartProbe`, `ProbeOk`, `ProbeFails` |
| time, restart | `Tick`, `Restart` |

`Quota` takes the ledger apart: `Begin`, `AcquireLease`, `ReleaseLease`, `Record` of a call, `LiveLeases`
(the backstop), a write that fails into memory. `admit` and the aggregate gate are defined by the code and
asked by its requests on usage, not yet by `execute`. `Degrade` is `degrade.rs` whole; nothing outside its tests
calls it, so it is checked as a component of its own.

### The others

| module | state | actions |
|---|---|---|
| `Routing` | the table file, loaders, health | `Read`, `WriteDefault`, `NextTick`, `Edit`, `Installed`, `RateLimited`, `Passes` |
| `Replies` | a reply as pieces, the scan's place | `Read`, `Found`, `Advance`, `Judge` |
| `Daemon` | rows of requests, daemons, the socket | `Connect`, `Refused`, `InProcess`, `Serve`, `Answer`, `Lost`, `Killed`; `Sweep`, `Bind`, `Reconcile`, `Dies`; `Ensure`, `Comes`, `Stop` |
| `Approvals` | rules, approvals, MCP sessions | `Check`, the steps of a call in `Step`, `GoesMute`, `Resolve`, `Update`, `Learn`, `Ages`, `Sweep` |
| `NativeAgent` | the conversation | `Request`, `RequestFails`, `Answered`, `ToolCalls`, `Execute`, `ExecutePanics`, `CommandEnds`, `OutOfSteps` |
| `Orchestrate` | rows and answers of workers | `Coordinates` (plan, validate, wave, join; `EventFails`, `WaveBreaks`, `RelayBreaks` and `JoinFails` for an error handed up by `?`), `Works`; `PlanHeld`, `TaskHeld` for an agent whose pipes are held |
| `LspProxy` | pending requests, backends, documents | `Receive`, `ClientStep`, `DidClose`, `ClientAnswers`, `BackendAsks`, `Exits`, `Reader`, `Close`, `Closed` |
| `AgentRun` | the process, its helpers, pipes, the loop | `Fork`, `HelperEnds`, `Exit`, `BadLine`, `WriteFails`, `Deadline`, `CancelRun`, `Thread` |
| `Acp` | turns, cursor, active goal, goals of the daemon | `Prompt`, `Acts`, `Raise`, `Refuse`, `Cancel`, `Load`, `Loaded`, `Panics`, `Dies`, `Works`, `Turnout` |
| `Tui` | the copy of the data, lists, windows, threads | `Turns` (draw, poll, a key), `RefreshAnswers`, `ExtraAnswers`, `FlowAnswers`, `Others`, `Quit` |
| `Redact` | alias rows, counter, keys, scans, prompts; a command beside the daemon with a counter of its own | `StartScan`, `Generate`, `Encrypt`, `Insert`, `Send`, `Promote`, `Expire`, `Restart` |
| `SecretSpans` | a prompt as pieces, its spans: found vendor by vendor and label by label, each added if it is free | `Scan`, `Send` |
| `Memories` | rows, vectors, documents, notes | `Store`, `Upsert`, `NotIndexed`, `Ingest`, `DocumentRow`, `Copied`, `IngestFails`, `Forget`, `Search`, `Get`, `Answer`, `Leave`, `NotesRead`, `Preamble`, `MarkRead` |
| `KnowledgeGraph` | entities, observations, relations | a look and a write for each request; a dump in parts |
| `AgentConfigs` | one file, its backups, edits | `Begin`, `BeginHook`, `Read`, `Backup`, `Truncate`, `Fill`, `Dies`, `Tick` |
| `Worktrees` | trees, branches, offers, the repository | `Add`, `Work`, `End`, `Offer`, `Cleanup`, `MergeApply`, `Resolve`, `GitMerge`, `GitAbort` (which may fail, or not start), `Dies`, `UserMerges` |
| `TaskHooks` | the rules file, a list with repetitions, rows, hooks | `Load`, `Truncate`, `Save`, `Finish`, `Fire`, `ForceReads`, `ForceWrites`, `HookEnds` |
| `Update` | binaries and temporary files | `Skip` (not in the archive), `ReplaceInPlace`, `Replace`, `Rename`, `SetPermissions`, `Ends` |
| `Backups` | files, archive, keychain | `Write` at any time, `AddFile`, `SkipEntry`, `CopyFile`, then `RestoreFile`, ... |
| `Accounts` | homes, own homes, login parts, requests | `Boot`, `CaptureFirst`, `CaptureSecond`, `UseFirst`, `UseSecond`, ...; an own home file by file: `Isolate`, `MakeOwn`, `Config`, `CopyConfig`, `ReadOwnFirst`, `WriteOwnFirst`, `ReadOwnSecond`, `WriteOwnSecond`, `Start`; `Crash` |
| `SelfHeal` | database, backups, switches, passes, installers that outlived a daemon | `Load`, `Integrity`, `Restore`, `Backup`, `Missing`, `Gate`, `Installer`, `OrphanEnds`, ... |
| `Registries` | one registry file, editors | `Load`, `Truncate`, `Fill`, `FillAside`, `Import`, `Inspect`, `Repair` |
| `Keys` | rows, secrets, probes | `PoolNext` (add, probe, sync, disable), `LabelNext` |

These modules share no modelled state: what crosses a boundary (a task that ends, a prompt that
is sent) is a choice on the other side. `MCClients`, `MCFronts`, `MCStores` and `MCFiles` therefore put
them side by side: a variable `which` picks at the start the part a behaviour is about, and the others
stay as they are. This is a union of their behaviours, not a product; it loses nothing where there is nothing
shared. `MCCoordinator`, `MCTaskRunner` and `MCPool` are compositions in the proper sense:
timer, clients, healer and restarts over the same tables.

## 3. What is checked

### Runs

| run | question | bounds | distinct states |
|---|---|---|---|
| `coord_quiet` | is everything right while the timer alone drives? | 2 goals (one careful, one auto-merging), 2 nodes, ceiling 2, 4 tasks, 1 request; splits into a fresh node, one written as running, one as done | 1.98 M |
| `coord_races` | what survives when a submit, a request and the timer drive one goal? | 1 goal, 1 node, 1 client, 5 tasks, supervisor saves; a split written as running and worn; a stored cap of 0 | 949 k |
| `coord_heal` | are paused goals resumed and re-evaluations bounded across a crash? | 1 restart, 1 periodic heal pass and `doctor --fix`, 1 request | 1.27 M |
| `coord_live` | does a planned goal settle, and every ended task? | 1 goal, 2 nodes (a task and its review), 4 tasks, 1 restart, fair | 117 k |
| `coord_cancel` | is a cancelled goal cancelled for good? (it is not) | 1 goal, 1 node, 1 request | 84 |
| `task_slots` | do the slots work, and does every task keep its contract? | 3 rows, 1 slot, cancel, two chains that share entries, a helper that holds pipes, fair | 487 k |
| `task_force` | do rows, threads and worktrees stay together under force, cleanup, cancel, restart? | 2 rows, worktrees, 1 named account, a helper that holds pipes, 1 restart, fair | 586 k |
| `pool` | are leases returned, recovery times of use, changes of provider told? | 2 calls, a key of one name on 2 platforms, one of which polls; benches of 1 or 2 ticks; a probe | 1.12 M |
| `fronts` | is what a person sees what there is, and does every answer come? | 2 turns, 2 goals, 1 event, 1 load; 6 tabs, 2 rows with 1 visible, 1 foreign change; panics; fair | 379 k |
| `clients` | what do the processes around the daemon promise each other? | 2 callers and 2 daemons; 3 calls, 2 persons; 3 model requests of 2 calls; graphs of 3 nodes; 1 language with 2 lives, 2 requests; 6 adapters on host and container; mute servers and held agents; fair | 287 k |
| `stores` | is what is kept on disk right, one store at a time? | 2 requests at each; 2 lives of a process and a command beside it; 2 binaries; prompts of up to 7 pieces, 2 vendors, 2 labels; replies of every shape up to its length | 3.57 M |
| `files` | and what requests share without a lock? | 2 requests, 1 profile, 2 logins; 3 passes of self-heal, 2 daemon starts; 2 editors; 2 key ids, 2 keepers of 1 label | 4.45 M |

Why the bounds are enough. Nearly every hazard here is one thread between the look and the write of another, so two of
each kind give every pair; a third is there where a pair needs somebody to race for (three rows for one slot, two
persons for one approval, a healer beside two of `doctor --fix`). Two goals make a pass visit a goal with rows that the
visit of the other has made stale; two nodes make a dependency, a review and a replacement. One restart, or a second life
of a process or backend, shows what outlives the first. One candidate more than a call can use at once makes a ladder.
`MaxTasks`, `MaxRequests`, `MaxCrashes`, `MaxHeals`, `MaxOps` (coordinator), `MaxTasks`, `MaxRestarts` (tasks), `MaxAge`,
`ProbeBudget` (pool), `MaxEvents`, `MaxAsks`, `MaxLoads`, `MaxOthers` (fronts), `MaxAlias`, `MaxLives`, `MaxTexts`, `MaxNotes`,
`MaxHooks`, `MaxSeconds`, `MaxVersion`, `EndOfTime`, `LastTime`, `MaxScans` (stores), `MaxStarts` (files) are the bounds in
guards. Configurations turn deadlock checking off where the system really stops: when nothing
is asked any more. `Pool.cfg` uses symmetry of the calls and `Files.cfg` of the requests of accounts, for invariants only.

### Properties

What a split was written with is excused in these properties (`Given`): a node the supervisor itself wrote as running, done or worn
is one no task of the program made so. All else in them holds with such nodes in the graph.

*While only the timer drives* (`coord_quiet`): `ParallelCap` (of the nodes the dispatcher set running); `NoWorkTwiceOrLost` (a node has one agent at a time, and
the result of its task is kept); `DepsBeforeNode`; `OnlyCompletedCounts` (a node is done, and its branch offered, by a
task that completed); `DoneMeansFinished`. The daemon does not die in this run; what is offered across a crash is a theorem only
(`DoneByCompletedWork`). They do not all hold once a request drives the same goal at the same time (the
ceiling, for one, is counted by each pass for itself), nor all of them when a supervisor's patch retargets, splits or blocks a
node that runs, which `apply_patch` does not refuse (`PatchScope` says which nodes a patch may name; none stands for the one
that failed). What holds however passes overlap is in the next two runs:

*However passes overlap* (`coord_races`, `coord_heal`): `RunningHasTask`, `AttemptsBounded`, `SpendingBounded` (by how
much patches and dispatches can exceed their caps: a known amount for each further thread, and each start is charged),
`ReevalOvershoot`, `PausedIsResumed`.

*Under fairness* (`coord_live`): `NothingWaits`, which is `GoalSettles` and `EndedTaskSettled`. It is conditional: each thread goes on,
so the agent it asks comes back; every task ends; a stamp passes (weak fairness). A timeout brings the first two about unless a helper
of the agent keeps its pipes open: the task runner promises no more (`Delayed`), and then the goal waits with it. Of splits this run has
a fresh one: a node that was written as running for a task that never comes waits for ever. And
the timer, which considers a ready node again on each tick, finds an agent for it some time
(strong fairness of `DispatchStart`: the start is disabled between ticks).

*Task runner*: `SlotCap`, `NoLostWakeup`, `NoEntryTwice` (if no chain repeats an entry, a job
never returns to one it tried, whatever chains overlap), `WorkedOn` (a row in flight
has exactly one thread, unless it was given up), `TreeKept`, `KeepsContract`. Fairness is weak
fairness of the step of each thread that is not held up: `run_command_live` kills a process at its deadline,
but once the agent itself has exited it joins the readers of its pipes without one, and a helper that the
agent left behind may keep them open for ever (`HelperHolds`). The contract has two
excuses. `lost`: `run_background` drops an error of `execute`
(`let _ = execute(..)`), so a row whose thread broke off says running until the
next restart. `Delayed`: a row whose run a helper holds, and one that waits for a slot of an agent of which a run
is held, are promised no end. The property says that nothing else leaves a row behind, and that a result is final.

*Pool*: `LeasesExact` (a lease exists exactly while its call is under way in this daemon), `RecoveryUseful` (the time an exhausted
call names is not before the end of every bench it wrote itself and that is still its own), `SwitchAnnounced`.

*Fronts*: `ShowsIt` is `Acp!NoneSkipped` with `Tui!ActsOnShown` and `Tui!Highlights`; `AnswersShown` is
`Acp!PromptAnswered` with `Tui!AnswersCome`. A prompt is answered unless its turn panics or the bridge dies: `acp.rs` slices texts at
fixed bytes (lines 74, 271, 721), which need not be the boundary of a character (`Panics`, `Dies`). And while the daemon plans or drives
for it the turn waits, with no timeout (`client.rs:70`), for agents that may be held up (`Waits`); once the daemon has answered, so does the
turn. Fair: the threads of turns run when they do not wait for that, a load ends (weak); a turn that could see its cancel flag or its deadline at every
poll sees it in the end (strong, because it is at other places of its loop between polls). The person need not answer. Of the dashboard only the loop is fair: an answer
that has come is drawn, whatever other polls have found.

*Clients*: `ExecutedOnce`; `DoneWithLeave` (with `OneProcess`); `EachAnsweredOnce` (`NativeAgent!EachCallAnswered`,
`LspProxy!AnsweredOnce`); `Settled`; `NoneLeft`; `AllAnswered` (`AsksEnd`, `RequestEnds`, `RequestsEnd`, `KilledEnds`). Fair (weak): the
threads of this program run. Nothing is assumed of other programs: an MCP server may never answer, as the gateway has no timeout for it (`GoesMute`; what
waits for it, or for the lock a start of it holds, is excused: `Stuck`), an agent may be held by a helper of its own (`PlanHeld`, `TaskHeld`; excuse `HeldUp`), a
language server may be silent for ever (what a request then waits for is its exit: `RequestsEnd` is about backends that end), and a
process that has left its group may keep the pipes of a killed run (`KilledEnds`).

*Stores*: `OwnSecret` (of prompts redacted by the daemon, whatever a command beside it numbers: an alias a command was the last to give is
no longer the daemon's); `LookupsAgree` (`Memories!FoundIsMeant`, `KnowledgeGraph!GraphClosed`,
`Routing!ChosenIsFirstUsable`); `OwnKept`; `MergeAttended` (a repository in the middle of merging a task's branch has a request at work on it, or the
merge is one that could not be undone: `git merge --abort` failed, as the code says itself, or the process died); `FilesWhole` (`Update!InstalledWhole`,
`Backups!RestoredAsReported`: what an import has reported is what the archive holds, and the text that was there when it copied a file is in place or in the
copy, unless somebody wrote the file meanwhile); `OnceOnly` (`TaskHooks!FiredOnceForItsStatus`: each entry of the list that
the notification read runs once, so a rule that was added twice runs twice; `Degrade!NeverFlaps`,
`Quota!NeverOvercounts`); `ReadRight` (`SecretSpans!SecretsOutAndBack`: what is sent is the prompt as it was written, or
nothing, and of each candidate a part at least is stored; `Replies!FirstValueAnswers`). Of a scanned prompt one cannot say that
nothing in it looks like a secret any more: the prefixes are looked for one after the other and what overlaps an earlier find is dropped as a
whole, so a key that ends in another vendor's key is sent but for its end (`NoKeyLeft` and `MatchesCovered` are not true), and behind a
character that is longer in lower case a label's value is missed (`LabelsSeen`).

*Files*: `RunsAsNamed` (an own home is filled file by file while captures and switches go on; the token it runs with was captured under the
name, though the fields beside it may be of another login, `RunsAsOne`); `HealHarmless` (`SelfHeal!IntactKept`, `InstalledOnce`, of the installers of one daemon: one of the daemon before may be at work still, `InstallerAlone`); `EnabledByChoice`; `KeysSound`
(`Keys!CandidateHasSecret`, `OnlyRefusedDisabled`).

Each property, and each part of a joined one, has a mutant in `PROJECT.json`: a dropped guard, an off-by-one or a swapped
order in a mapped definition that the run detects. The mutated forms (`RetryOffByOne`,
`SlotFreeOrWoken`, ...) stand before what they mutate and are used nowhere else.

### Findings

Where a comment, a document or a test says of the program what the code does not do, the statement stands in its module as a
property marked NOT TRUE, with the line it is quoted from, and in `PROJECT.json` under `findings`. `CancelSticks` has a run; the others
are reproduced as Experiments says. The ones that matter most:

1. *Cancel is lost* (`CancelSticks`). A pass that read a goal before `GoalCancel` writes the status afterwards.
2. *A goal that nobody will look at again.* `BudgetBlockHasWork`: a goal whose last dispatch uses up the budget is blocked
   while that node runs, and stays blocked when all nodes are terminal, against the comment of `tick_pure`. `BlockedIsReevaluated`:
   giving up on capacity leaves the node running, so each tick gives up again and refreshes `updated_at`; the goal never looks old enough. `ReroutedIsTried`: a
   pass of self-heal that listed a goal before it was done resets a worn node of it to pending, and nobody visits the goal again.
3. *The next process starts from nothing.* `InstancesCapped`: agents outlive the daemon, the next one counts from zero.
   `SweepsOrphans`: a daemon that starts fails rows that a client runs in its own process. `AliasKept`: alias numbers begin again
   while the rows they name live on, and a command beside the daemon counts for itself. `InstallerAlone`: an installer outlives the daemon whose gate it holds.
4. *Retirement by name.* `DocumentServed`, `FailsItsOwn`: the reader of a language server that died takes its successor with it.
   `ProbeSparesStated`: a probe of one bench lifts those of every platform that uses a key of that name.
5. *Looked at, then written.* `ToldIsFinal` (a task that completes is turned into a failed one), `ResolvedOnce`, `FreshId`, `HookInForce`,
   `SyncKeepsEntries`, `NeverDriftApart`, `NeverSeeded`, `InstalledWhole` for two updates at once, `OwnRecoverable` (backups named for the second), `EveryTextSaved` (a file written between its copy
   and its replacement by an import), `RunsAsOne` (a capture between the two parts of a login).
6. *Runs that do not end, or not whole.* `EndsByDeadline`, and with it `EveryTaskEnds` (a helper that holds the pipes), `AnswerOwed` (a turn that panics), `NoneLeftInside` (a container), `PromptWhole` (flags
   behind `--`), `BatchReported`, `NoneDropped` (a cursor that two turns share).
7. *Merges and installations half done.* `MergesUndone` (the abort fails too), `ReplacedRuns` (killed before `set_permissions`), `RejectedStays`, `UsersMergeKept`, `WorkKept`.
8. *The ledger.* `RetryIsLater`, `DayBeginsAtMidnight`, `GateSums`, `NeverUndercounts`; `OnlySustained` of the health mode.
9. *The dashboard.* `FailureTold`, `ShownIsCurrent`, `PoolShown`, `DetailFollows`.
10. *Secrets.* `NoKeyLeft`, `MatchesCovered`, `LabelsSeen`, `NoneDangling`, `NeverPanics`.
11. *A list that repeats.* `RuleRunsOnce`: a hook that is added again runs twice.
12. *A chain that repeats an entry loops* (`HopsBounded`). `next_after` finds the first
   position of an entry, so `[work, home, work]` goes back and forth.

Also met, without a statement to set against it: `run_role` does not look at how its task ended
(`Replies!PlannersCompleted`); a broadcast note is marked read by the first agent (`Memories!BroadcastReachesAll`), and a preamble may cut off a note it
marks (`DirectNoteShown`); a text whose vector could not be written stays unindexed (`DocumentIndexed`), and a document whose copy failed keeps its
row (`DocumentHasFile`); a dump of the graph ends in an error when an entity goes in between (`KnowledgeGraph!DumpAnswered`); a labeled key is
stored before its row (`Keys!KeyOfItsAgent`); a shell command of the built-in agent that timed out runs on (`NativeAgent`, `late`); an MCP server that never answers holds its callers, for the gateway
has no timeout (`Approvals!Stuck`); a child of the
gateway that died stays in its table until it is swept; an error in the middle of a wave or relay ends the request and leaves the rows it has
started (`Orchestrate`, `WaveBreaks`); a shell answer that is cut inside a character ends the built-in agent (`ExecutePanics`); an
installer has no timeout under the gate of self-heal; `AccountRemove` deletes a home under a running agent.

### Experiments

A statement that is not true is seen so with a copy of a configuration in which the statement takes the place of the properties. TLC then prints the
behaviour.

| statements | how |
|---|---|
| `BudgetBlockHasWork` | `MCCoordinator`, `CoordLive.cfg` with `SPECIFICATION Spec`, `NumNodes = 1`, `Pieces = {}`, `Plans <- RacesPlans`, `MaxCrashes = 0` |
| `BlockedIsReevaluated` | the same with `FairSpec`, `MaxDispatches = 4`, `ReevalAge = 2`, `MaxHeals <- Unbounded` |
| `ReroutedIsTried`; `DoneMeansFinished` beside a pass of self-heal | `MCCoordinator`, `CoordQuiet.cfg` with `Asks = {}`, `MaxHeals = 1` |
| `NoWorkTwiceOrLost`, `DepsBeforeNode` with a supervisor that names other nodes | `MCCoordinator`, `CoordQuiet.cfg` with `PatchScope = {1, 2}`, `Asks = {}` |
| `InstancesCapped` | `MCTaskRunner`, `TaskSlots.cfg` with `SPECIFICATION Spec`, `Requests = {}`, `MaxTasks = 2`, `MaxRestarts = 1` |
| `HopsBounded` | the same with `Chains <- Returning`, `MaxTasks = 4`, `MaxRestarts = 0` |
| `ProbeSparesStated` | `MCPool`, `Pool.cfg` without `SYMMETRY` |
| `EveryTaskEnds` | `MCTaskRunner`, `TaskSlots.cfg` |
| `AliasKept` | `Redact` alone with two threads, one scope, two secrets, `MaxAlias = 2`, `MaxLives = 2`; or one of the threads in `Commands` and `MaxLives = 1` |
| `SweepsOrphans` | `Daemon` alone with the constants of `Clients.cfg` and two starters |
| `DocumentServed`, `FailsItsOwn` | `LspProxy` alone with the constants of `Clients.cfg` |
| `NotAskedAgain` | `MCClients`, `Clients.cfg` with `Asks` and `Tools` the same two calls, `Hooks` and `Listings` empty |
| `ResolvedOnce`, `BatchReported`, `EndsByDeadline`, `NoneLeftInside`, `PromptWhole` | `MCClients`, `Clients.cfg` |
| `NoneDropped` | `MCFronts`, `Fronts.cfg` with `MaxEvents = 2`, `MaxLoads = 0` |
| `AnswerOwed`, `FailureTold`, `ShownIsCurrent`, `PoolShown`, `DetailFollows` | `MCFronts`, `Fronts.cfg`, `PoolShown` with `"Pool"` in `About`, `DetailFollows` with `MaxOthers = 2` |
| those of `Memories`, `KnowledgeGraph`, `AgentConfigs`, `Worktrees`, `TaskHooks`, `Update`, `Backups`, `Quota`, `Degrade`, `Routing`, `SecretSpans`, `Replies` | `MCStores`, `Stores.cfg`, with a line such as `Shown == which = "quota" => Q!NeverUndercounts` added to `MCStores`; `GateSums` with three calls, three models and `LastTime = 3`, `InstalledWhole` with `Updaters = {u1, u2}` |
| those of `Accounts`, `SelfHeal`, `Registries`, `Keys` | `MCFiles`, `Files.cfg`, with a line of the same kind |

## 4. What is proved

Theorems hold for every value of the constants that the assumptions below allow; nothing in them is bounded but what the
model bounds (`MaxTasks` and its like are any numbers).

| theorem | property of a run | says |
|---|---|---|
| `CoordinatorProofs!TypeCorrect` |  | Every reachable state is typed, for any number of goals, nodes, agents and handlers |
| `CoordinatorProofs!RunningNodesHaveTasks` | `RunningHasTask` | A running node is bound to a task started for it, however passes overlap, supervisor copies are saved late, or the daemon restarts; the exception is a row of a split that the supervisor wrote with that very status and task |
| `CoordinatorProofs!AttemptsNeverExceedTwo` | `AttemptsBounded` | Outside careful mode no node is ever counted beyond two attempts, whatever attempts the rows of a split are written with: a row with more keeps what it was given |
| `CoordinatorProofs!PausedGoalsAreResumed` | `PausedIsResumed` | A goal that a clean stop has paused is one the new daemon has yet to visit, whatever clients and the timer do meanwhile |
| `CoordinatorProofs!ReevaluationsBounded` | `ReevalOvershoot` | Automatic re-evaluations of a goal exceed their cap by at most one for each further healing thread, however passes of self-heal overlap |
| `CoordinatorProofs!SpendingIsBounded` | `SpendingBounded` | The caps on patches and dispatches are exceeded by no more than what the other drivers were about to add, and each start of a task is charged to its goal, wherever the daemon dies |
| `CoordinatorAlone!CeilingHolds` | `ParallelCap` | While only the timer drives, no more nodes run, over all goals, than the global ceiling allows, besides those that a split was written with as running |
| `CoordinatorAlone!DependenciesFirst` | `DepsBeforeNode` | While only the timer drives and a supervisor's patch is about the node that failed, a running node has all its dependencies done or skipped, unless a split was written with it running |
| `CoordinatorAlone!DoneByCompletedWork` | `OnlyCompletedCounts` | While only the timer drives and a supervisor's patch is about the node that failed, a node is done only by a completed task, and a merge is offered only for completed work of the node it names, once for each review: all but for the status and task that the supervisor writes into the nodes of a split, any of which are allowed |
| `CoordinatorAlone!WorkNeitherTwiceNorLost` | `NoWorkTwiceOrLost` | While only the timer drives and a supervisor's patch is about the node that failed, no node has two live tasks, and the result of a completed task stays with its node |
| `CoordinatorAlone!DoneGoalsAreQuiet` |  | While only the timer drives and a supervisor's patch is about the node that failed, no node of a done goal runs and no agent works for it, whatever self-heal, clients and restarts do |
| `CoordinatorAlone!DoneGoalsAreFinished` | `DoneMeansFinished` | If besides no self-heal pass overlaps and the daemon does not die, a goal is done only when no node of it is left to run |
| `TaskRunnerProofs!TaskTypesCorrect` |  | Every row, thread, flag and counter keeps its type, for any number of tasks, agents, chains, requests and restarts |
| `TaskRunnerProofs!SlotsNeverExceeded` | `SlotCap` | For any number of threads and any max_concurrency, a daemon never runs more processes of an agent than that |
| `TaskRunnerProofs!NoWakeupLost` | `NoLostWakeup` | No thread sleeps for a slot that is neither taken nor promised to a woken thread: one notify per slot given back is enough |
| `TaskRunnerProofs!LiveRowsWorkedOn` | `WorkedOn` | A row that is not terminal has a thread of this daemon, whatever fails, is forced or restarts |
| `TaskRunnerProofs!TreesKept` | `TreeKept` | No cleanup removes the working tree under a task that runs in it |
| `TaskRunnerProofs!NeverBackToAnEntry` | `NoEntryTwice` | Over chains without repeats, a task that falls back never comes to an entry it has tried |
| `TaskRunnerProofs!ContractKept` |  | Every step of the task runner is a step of the contract its callers rely on, or leaves the contract's state alone |
| `PoolProofs!PoolTypesCorrect` |  | Rows, leases, sessions and calls of the pool keep their types, for any number of each |
| `PoolProofs!LeasesAreExact` | `LeasesExact` | For any number of calls and candidates, no way out of a dispatch keeps its lease, and none is shared |
| `PoolProofs!SwitchesAreAnnounced` | `SwitchAnnounced` | A call that goes on with another provider always tells it so, whatever other sessions, forgotten entries and restarts do |
| `PoolProofs!RecoveryIsUseful` | `RecoveryUseful` | Whatever the benches last and whoever rewrites the rows, the time an exhausted call names is not before the end of every bench of its own |
| `FrontsProofs!PersonSeesIt` | `ShowsIt` | However turns and refreshes interleave, a turn of the editor has shown every event of its goal between its cursors, a key of the dashboard acts on what the screen says, and a list with rows has a highlighted one that is drawn |
| `ClientsProofs!NothingRunsTwice` | `ExecutedOnce` | For any number of callers and daemons, no request is executed twice, and an answered one was executed |
| `ClientsProofs!KillsWholeGroup` | `NoneLeft` | For every agent and kind of run, a kill leaves nothing of the process group, however it forks meanwhile |
| `ClientsProofs!OneAnswerForEach` | `EachAnsweredOnce` | Each tool call of the built-in agent and each request of an editor through the proxy is answered once, whatever backends die and come back |
| `ClientsProofs!NothingWithoutLeave` | `DoneWithLeave` | No tool runs without leave by a rule, a learned preference or a person, a call reaches a live session of its own server, and the calls of one server share one process |
| `ClientsProofs!RecordsAreSettled` | `Settled` | A request that has returned its records has nothing under way, a graph has a record for each node, and each node was run or skipped as its dependencies ended, for any graph, order, relay or batch |
| `StoresProofs!PromptsGetTheirOwn` | `OwnSecret` | For any number of scans, scopes and secrets, a prompt redacted by this process, while no command beside it numbers aliases of the same scope, resolves to its own secret or to none |
| `StoresProofs!LookupsDoAgree` | `LookupsAgree` | A search by meaning never answers with the row of another text, and the graph's observations and relations are about entities that exist, whatever requests overlap; a node goes to the first agent of its lists that can run and was not rate-limited of late, for any tables and agents |
| `StoresProofs!OwnIsKept` | `OwnKept` | In a JSON configuration where a value of another shape is refused, the user's own entry survives every overlap and every death of a request |
| `StoresProofs!MergesAreAttended` | `MergeAttended` | For any number of tasks and requests, a repository in the middle of merging a branch has a request that goes on to abort it, or one that said that its abort failed, or died, has left it so |
| `StoresProofs!NothingIsToldTwice` | `OnceOnly` | A task starts each entry of the list of hooks that its notification read exactly once if the entry asks for the status told, and no other, whatever is added twice, removed or forced meanwhile; health changes no more often than its grace allows; the admission of the pool counts no call twice, nor one of another model or an earlier window, for any calls, room in memory and windows |
| `StoresProofs!FilesAreWhole` | `FilesWhole` | With one update at a time, every program on the path is whole whenever an update ends or is killed, and those that the archive does not have are what they were; what an import says it restored is what the archive holds, and what it replaced has a copy, but for a file that others wrote after it or between its copy and its replacement |
| `StoresProofs!TextsReadRight` | `ReadRight` | For any prompts and names: a prompt without a token of its own that was scanned once reaches the provider as it was written, or not at all, and a part of all that looked like a secret is stored, whatever the prefixes and labels are and in whatever order they are tried. For any replies: a role is judged by the first JSON value of its reply, however it nests and quotes |
| `FilesProofs!HealDoesNoHarm` | `HealHarmless` | Self-heal never puts its backup over a database that is whole, and the passes of one daemon install a missing agent once; an installer that a daemon has left behind is not among them |
| `FilesProofs!NothingOnUnasked` | `EnabledByChoice` | Nothing in a registry is on that nobody asked for and that no default has on, whatever requests, repairs and imports overlap |
| `FilesProofs!KeysAreSound` | `KeysSound` | A key the pool can pick has its value in the keychain, and a key is disabled only if a probe of its own id said no |
| `FilesProofs!RunsUnderItsName` | `RunsAsNamed` | An agent whose token is in a file is started with a token captured under the account the task names, whatever captures, removals, switches and other runs come between the file operations that make its home ready; without one only where the account was removed meanwhile |

### The coordinator

`CoordinatorProofs` has the types. Most of the effort is in the operators: what patches, retargets and splits do
to a graph, and what a thread takes along when it enters a step (`Continuations`, `LocalFields`). `RunningHasTask` is not
inductive: a supervisor saves a graph it read long ago, and a dispatcher records a
task it started two steps earlier. `BoundInv` adds that those copies point at
their tasks too. That is preserved because task rows are never removed or changed in what
`TaskOf` reads (`TasksKept`), and a node only becomes running by `DispatchRecord`, or is written so in a split (`GivenTask`): a patch takes the
supervisor's rows as they are, so of a row with the task of a split nothing more can be said, and every theorem about nodes says so. `AttemptsInv`
bounds the copies of the supervisors as well; only a failed task is counted, and at 2, or where a split put the count beyond it (`Tried`), the settle no longer
retries.

Its second part is about passes that overlap. `RolesInv` says which thread may stand where. Each cap is a sum that no step
raises beyond its bound: what is in the table, plus the threads that are about to add to it. For re-evaluations (`ReevalInv`) and
patches (`PatchInv`) a thread counts while the row it *read* is under the cap; it enters only while the table is under it
too, and takes its place along when it writes. For dispatches (`AdmitInv`) a thread claims as many places as its room still has, so a
claim is a pair of a driver and a number up to `MaxParallel` (`Admissions`). `ChargeInv` balances the tasks of a goal with what
it was charged, with what is being recorded, and with what each crash may have lost. `PausedInv`: a goal is paused only by the
stop itself, and the one thread that must visit it has it in its list.

`CoordinatorAlone` assumes that no request drives (`Handlers = {}`); clients ask, self-heal passes, and the daemon
restarts all the same. Then what the timer has read still holds when it acts, up to what the others may do (`Elsewhere`: rows are
reset from failed to pending, empty goals are planned, tasks end). `AloneInv` adds to `ParallelCap` the room that is left
while the timer dispatches. `QuietInv` adds that the timer's copy of a graph agrees with the rows (`CopyAgrees`), that what waits to be
started has its dependencies met (`WaitingMet`), that each live task is the one its node runs for or is about to (`LiveIsBound`), and that a
node is done by a completed task of its own or was written as done, or as running for a completed task, in a split (`DoneByItsTask`; the same of what is
offered: `OfferedDone`, `OfferedOnce`). A patch about the node that failed changes, besides it, only rows that were not there and rows that depend on
it (`PatchedRow`). `FinishedInv` adds that what the timer is about to end has come to rest
(`AtRest`), and that a goal which is done is not visited (`VisitsUndone`).

### The task runner

`SlotInv`: the counter equals the number of processes (`SlotsExact`), which gives the cap; and where threads sleep, processes
and woken threads together are at least the limit. A slot given back wakes one sleeper,
which makes up for the process that ended; a newcomer that takes the slot turns
the woken thread into a sleeper again only when the counter is at the limit. Steps that move no thread
in or out of the three places are dealt with at once (`Quiet`). `WorkInv` gives `WorkedOn` and `TreeKept`: no two threads have one row (`OwnRows`); until its
thread leaves, a row has not ended unless it was forced (`EndedByThread`); what is in flight and not given up has a thread
(`SomebodyWorks`); and while a thread works, neither its row nor the copy that a `force_fail` will write back names a worktree
(`TreeUnnamed`). For `NoEntryTwice` entries are measured by the place where `next_after` finds them: a hop goes one on in
a chain, or on in an earlier one, so what comes later stands behind (`Behind`). `ContractKept` maps rows to the
contract and shows each step to be one of the contract's or a stutter: the safety half of `KeepsContract`.

### The pool

`PoolInv`: types; the leases are those of the calls under way; a call at rest has no
leftover of an earlier one, and the session of a call stands where the call was last sent (`Handoffs`); a call does
not come back to a candidate, and one bench that it wrote and nobody has rewritten lasts no longer than
each time it has named (`Times`): a bench of its own may be rewritten by others, but then it is not its own any more.

### The others

A part of `MCClients`, `MCFronts`, `MCStores` and `MCFiles` has an invariant of its own; the steps of the other parts leave it alone.

| invariant | why it is inductive |
|---|---|
| `Once` (daemon) | a request has run only where its caller's state says that it was served; one that was lost is not sent again |
| `KilledWhole` (run) | a run that is polled has not been killed, the kill ends the whole group in one step, what is dead forks nothing |
| `Conversation` (built-in agent) | for each message with calls the answers stand behind it in order, or are still to be made, in order |
| `Tables` (language servers) | a request is in the table once and as long as nobody has answered it; who takes it out answers it |
| `AsksInv` (approvals) | an approval is allowed by a person who was asked it, a preference by one who said that it be remembered, and a call that goes on has leave (`LeaveKept`); a call under way has the process of its server's session, or one that the sweeper gave up (`GateKept`) |
| `OrchInv` (several agents) | who joins, joins what has ended; of a graph, a node comes after its dependencies and nothing changes what it was to do (`ShouldRunStays`) |
| `Tails` (editor bridge) | the log only grows and no cursor is ahead of it; what moves a turn's cursor shows the events it passes |
| `Seen` (dashboard) | from the drawing of the screen to the key nothing moves the highlighted row or the window that asks; whatever replaces the list or the tab puts the selection within it |
| `Apart` (redaction) | the counter is above every number drawn, no two scans of the daemon have one number, the number of a prompt is its own secret's, free, or one that a command beside it was the last to give |
| `Meant` (memories) | an id stands for one text for good, in the rows, in the vectors, and in what is yet to be written |
| `OwnInv` (configurations) | what is on disk, and what each request is about to write, has the user's entry or cannot be read |
| `Attended` (merges) | the step that leaves a repository merging is the step that puts its request before the abort; the abort ends the merge or says that it could not, and a process that dies before is noted |
| `Told`, `Counts` (hooks, health) | a task has hooks only once it has told its end, and then one for each matching entry of the list it has read, numbered by its place; the time since the last change is no less than what is counted |
| `Routed` (routing) | types only: what each reader has is a table whose lists are lists. The rest is about the operators: each agent of the lists is a candidate once, where it first stands (`OnceOf`), and the k-th of a set of places comes before the next (`NthOf`), so that the least usable candidate is of the least rank |
| `Booked` (ledger) | a call has one request on record, in the table or in memory, or one lease, and never both: it gives its lease back before it records, and each event is written either to the table or to memory; what is recorded names its call, its model and its beginning. So the counts are the size of a set that maps one to one into the calls begun (`BookedOnce`) |
| `Updated` (updates) | where an update stands in its list of files says which of them are new and executable, which are as before, because they are behind or not in the archive, and what the temporary file is |
| `Carried` (spans of a prompt) | after one scan of a prompt without tokens of its own, unless it panicked, the prompt and the table are what the scan makes of the prompt as it was written, so that `Send` need not be followed further back. The rest is about the text, see below |
| `Looked` (replies) | no bracket before the place that the scan has reached begins a JSON value; an answer is the value that begins there |
| `Restorable` (imports) | what an import has reported so far is on disk unless it was written since, and what it copied is still in a copy; where somebody writes between copy and replacement, the file is counted as such from then on |
| `Harmless` (self-heal) | only the pass of a start may restore, and it has found the database broken; who installs has the gate, and what has been installed by this daemon is there |
| `Choices` (registries) | what a file, a backup or a request's copy has on was asked for or is a default |
| `Kept` (keys) | a row that is there or about to be has its value; what is disabled or about to be was refused |
| `Named` (accounts) | a token on its way from a file to a profile, or back, or into the files of an own home, is one that was captured under that name; so however the files of an own home come from two captures, its token has the name |

### Texts

Spans and JSON values are computed by functions that call themselves at a later place of the text. That
each is what its definition says it is, and not an arbitrary value, is a lemma of its own (`StringsDefined`, `ValuesDefined`, `ScannedDefined`,
`JwtSpansOf`, `TakenOf`, `ThroughDefined`, `TokensDefined`). No theorem of the library with an operator as a parameter is used: `LeastNumber` says that a set
of numbers that is not empty has a least one, `Upward` and `Downward` are induction over a set of numbers, and `Recursion` finds the function
by induction over how far of the text it is right.

*Replies.* `extract_first_json` counts the brackets of one kind and lets serde_json judge the span. `ScanSteps` and `StringsKeepDepth`: the scan is
in a string exactly where the parser is. `ValuesKeepDepth`: from the beginning of a value to its end the depth never falls below where it began, and ends where it
began. So the depth of a value with brackets is first zero at its end, and the span the scan finds is the value (`SpanOfValue`): no first value is passed over
because of the other kind of bracket, which the scan does not count.

*Prompts.* The candidates are spans with a piece of a secret in them (`CandidatesOf`; those of vendors and labels are lists put one behind the other, in the order of
the prefixes and labels: `Joined`, `KeysOf`), those that are taken do not overlap and each
candidate overlaps one of them (`TakenOf`, `SecretSpansOf`), so in the order of the text each ends before the next begins. `GapOf` and
`PlacesThere` say where each gap and each alias stands in the text with aliases; `TokensOf`, that the tokens found in it are the aliases, in order, whatever is between
them (a lone `}}`, a quote, another name); `BackAgain`, that putting the secrets in their places gives the prompt.
The assumption on names says what the code's counter guarantees: no two aliases of a prompt are equal,
and what is in `{{REDACTED:...}}` is no piece of a secret.

### Assumptions

`TaskGraphAssumption`, `PiecesAssumption`, `CoordinatorAssumption`, `TaskRunnerAssumption`, `PoolAssumption`, `ClientsAssumption`,
`FrontsAssumption`, `StoresAssumption`, `TextsAssumption` and `FilesAssumption` type the constants, and TLC evaluates them in the runs of these modules. `PiecesAssumption` says no more than that a replacement is made of
nodes. What the others say besides: a `max_concurrency` is positive (0 lets nobody run); the placeholders are none of the values; there are finitely many
requests; of the rules that cover a resource one is covered by all others, as prefixes of one name are; an archive
excludes some of what it knows; there is a binary to update and an alias to give; vendors and labels are lists; the mark of no login is no login; the lists of a routing table are lists of names; calls are finitely many, and memory
has room for one event of the ledger; names of aliases are distinct and no pieces of a secret, and a value behind a label has a piece. Some theorems have an assumption of their own:

| theorem | assumes | because |
|---|---|---|
| `SpendingIsBounded` | `MaxParallel > 0` | the bound is a product with it |
| those of `CoordinatorAlone` | `Handlers = {}` | with two drivers they are not true, see Properties |
| from `DependenciesFirst` on | `PatchScope = {}` | a patch that names a running node breaks them, see Experiments |
| `DoneGoalsAreFinished` | `MaxHeals = 0`, `MaxCrashes = 0` | a pass of self-heal breaks it (`ReroutedIsTried`), and a restart begins with one |
| `OwnIsKept` | `Strict`: JSON, a value of another shape is refused | the other formats replace what they cannot read |
| `FilesAreWhole` | `OneUpdate` | two updates share one temporary file (`InstalledWhole`) |
| `NeverBackToAnEntry` | nothing | that no chain repeats an entry is part of the property |

### Only model-checked

Liveness (`NothingWaits`, `AnswersShown`, `AllAnswered`, the fair half of `KeepsContract`) is out of the prover's
reach: it needs ENABLED. Every invariant of a run that passes has a theorem. What is behind the invariants marked NOT TRUE is seen
in runs only, as a theorem cannot refute.

## 5. Not modelled

| what | why |
|---|---|
| skills, context, plugins' content, printing of the CLI, rendering of the dashboard, the web page | files read one request at a time, and text; no protocol |
| which candidate the bandit picks | any admissible one may be picked: the properties hold for each |
| request and response encodings of providers, transcript formats, discovery of models and agents | formats of other programs |
| `pool/backoff.rs` | nothing in the program calls it |
| what git, docker, a keychain, a vector store or a provider does inside | external; modelled by the answers the code tells apart |
| links to other worktrees (`link_orphaned_gitlinks`) | part of `Worktrees!Add`, without the links |
| the gateway switch and the requests of the dashboard's other tabs | one key, one request, as those that are modelled |
| a key that was typed before the screen of a refresh is drawn | the dashboard's key is taken behind the drawing |
| leave for the tools of `singlecli-mcp` in the run (`Tools = {}`) | the same rule lookup as the gateway's calls; the experiment `NotAskedAgain` has them |
| an older database restored beside the vectors; health that is not known | each store by itself |
| the secret of a pool key deleted by the generic `secret delete` | the request is not one of keys |
| configurations other than JSON in `OwnKept` | they replace what they cannot read, see Assumptions |
| a change of `max_concurrency`, of chains or of the routing limits while threads wait | planned |

## 6. Plan

1. *Goal lifecycle.* An abstract specification of a goal (planned, worked on, held, blocked,
   ended) that `Coordinator` refines, with the coordinator's view of a task replaced by
   `TaskContract`: this also settles what a rate-limited row means while its hop still runs.
2. *A changing configuration*: `max_concurrency` and chains edited while threads wait.
