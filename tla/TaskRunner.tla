------------------------------ MODULE TaskRunner ------------------------------
(***************************************************************************)
(* How a task is carried out: crates/single-runtime/src/task.rs (run,       *)
(* run_background, execute, maybe_fail_over, the slots of an agent),        *)
(* registry.rs (cancel flags), the TaskRun, TaskCancel and TaskCleanup      *)
(* handlers, and crates/single-core/src/fallback.rs.                        *)
(*                                                                          *)
(* A job is one request and the thread that serves it; it has the id of the *)
(* row it started with.  When its agent is rate limited the same thread     *)
(* goes on with a new row for the next entry of a fallback chain (a hop).   *)
(***************************************************************************)
EXTENDS Integers, FiniteSets, Sequences

CONSTANTS
    Entries,        \* what a task can run on: an agent, or one account of it
    Agents,
    AgentOf,        \* the agent of an entry
    Named,          \* the entries that name an account
    Chains,         \* the saved fallback chains, in the order of the file
    Slotted,        \* agents with a max_concurrency
    Limit,          \* their max_concurrency
    PoolAgent,      \* single-pool: no process, no slot, no cancel
    Starts,         \* entries a request may ask for
    TreeChoices,    \* whether a request may ask for a worktree
    FailoverChoices,\* whether a request may allow fallback
    Requests,       \* client requests that may arrive beside TaskRun
    MaxTasks,       \* bound: task rows
    MaxRestarts     \* bound: restarts of the daemon

TaskIds == 1..MaxTasks

ASSUME TaskRunnerAssumption ==
    /\ Entries # {}
    /\ AgentOf \in [Entries -> Agents]
    /\ Named \subseteq Entries /\ Starts \subseteq Entries
    /\ Chains \in Seq(Seq(Entries))
    /\ Slotted \subseteq Agents
    /\ Limit \in [Slotted -> Nat \ {0}]
    /\ PoolAgent \notin Slotted
    /\ TreeChoices \subseteq BOOLEAN /\ FailoverChoices \subseteq BOOLEAN
    /\ {MaxTasks, MaxRestarts} \subseteq Nat

VARIABLES
    task,       \* table tasks: the i-th row has id i
    job,        \* the thread of each request
    registry,   \* ids that have a cancel flag
    count,      \* AGENT_SLOTS: slots in use of each agent
    marked,     \* accounts marked rate limited
    trees,      \* worktrees on disk, by task id
    forcing,    \* what each force_fail has read and not yet written back
    survivors,  \* agent processes that outlived the daemon that started them
    forced, lost, restarts  \* history: rows forced, rows given up, restarts

vars == <<task, job, registry, count, marked, trees, forcing, survivors,
          forced, lost, restarts>>
history == <<forced, lost, restarts>>

Live == {"created", "running"}
Ended == {"completed", "failed", "cancelled"}

\* tree: the column worktree_path is set.  parent: the row a hop follows, 0
\* for the first row of a job.
Row == [entry : Entries, status : Live \cup Ended, limited : BOOLEAN,
        tree : BOOLEAN, parent : Nat]

PCs == {"none", "launch", "setup", "prepare", "acquire", "asleep", "woken",
        "process", "finish", "failover", "return"}
Outcomes == {"completed", "failed", "limited", "cancelled"}

\* held: a helper of the agent has its pipes, see AgentRun.tla.
Job == [pc : PCs, row : Nat, entry : Entries, background : BOOLEAN,
        use_tree : BOOLEAN, failover : BOOLEAN, cancel : BOOLEAN,
        outcome : Outcomes, held : BOOLEAN]

NoEntry == CHOOSE e \in Entries : TRUE
NoJob == [pc |-> "none", row |-> 0, entry |-> NoEntry, background |-> FALSE,
          use_tree |-> FALSE, failover |-> FALSE, cancel |-> FALSE,
          outcome |-> "completed", held |-> FALSE]

Init ==
    /\ task = <<>>
    /\ job = [t \in TaskIds |-> NoJob]
    /\ registry = {}
    /\ count = [a \in Slotted |-> 0]
    /\ marked = {}
    /\ trees = {}
    /\ forcing = {}
    /\ survivors = [a \in Agents |-> 0]
    /\ forced = {} /\ lost = {} /\ restarts = 0

At(t, pc) == job[t].pc = pc
Goto(t, pc) == job' = [job EXCEPT ![t].pc = pc]
Agent(t) == AgentOf[job[t].entry]
SetRow(k, status) == task' = [task EXCEPT ![k].status = status]
NewRow(e, parent) ==
    [entry |-> e, status |-> "created", limited |-> FALSE, tree |-> FALSE,
     parent |-> parent]

-----------------------------------------------------------------------------
(* Start of a job. *)

\* TaskRun: one INSERT; a foreground run executes on the spot, without a
\* cancel flag.
Run(e, background, use_tree, failover) ==
    LET t == Len(task) + 1
    IN  /\ t \in TaskIds
        /\ task' = Append(task, NewRow(e, 0))
        /\ job' = [job EXCEPT ![t] =
                     [NoJob EXCEPT !.pc = IF background THEN "launch" ELSE "setup",
                                   !.row = t, !.entry = e,
                                   !.background = background,
                                   !.use_tree = use_tree, !.failover = failover]]
        /\ UNCHANGED <<registry, count, marked, trees, forcing, survivors, history>>

\* run_background: the flag is there before the thread is.
Launch(t) ==
    /\ At(t, "launch")
    /\ registry' = registry \cup {t}
    /\ SetRow(t, "running")
    /\ Goto(t, "setup")
    /\ UNCHANGED <<count, marked, trees, forcing, survivors, history>>

\* A write of run_background fails: there is a row, perhaps a flag, no thread.
LaunchBreaks(t) ==
    /\ At(t, "launch")
    /\ registry' \in {registry, registry \cup {t}}
    /\ lost' = lost \cup {t}
    /\ job' = [job EXCEPT ![t] = NoJob]
    /\ UNCHANGED <<task, count, marked, trees, forcing, survivors, forced, restarts>>

-----------------------------------------------------------------------------
(* execute. *)

\* The column worktree_path set with the worktree, not at the end.
SetupEarly(t) ==
    LET k == job[t].row
    IN  /\ At(t, "setup")
        /\ trees' = IF job[t].use_tree THEN trees \cup {k} ELSE trees
        /\ task' = [task EXCEPT ![k].status = "running", ![k].tree = job[t].use_tree]
        /\ Goto(t, "prepare")
        /\ UNCHANGED <<registry, count, marked, forcing, survivors, history>>

\* Up to `set_status(Running)`: the worktree, if one is asked for.
Setup(t) ==
    LET k == job[t].row
    IN  /\ At(t, "setup")
        /\ trees' = IF job[t].use_tree THEN trees \cup {k} ELSE trees
        /\ SetRow(k, "running")
        /\ Goto(t, "prepare")
        /\ UNCHANGED <<registry, count, marked, forcing, survivors, history>>

\* No repository, or git refuses: failed, and no fallback.
SetupFails(t) ==
    /\ At(t, "setup") /\ job[t].use_tree
    /\ SetRow(job[t].row, "failed")
    /\ Goto(t, "return")
    /\ UNCHANGED <<registry, count, marked, trees, forcing, survivors, history>>

Prepare(t) ==
    /\ At(t, "prepare")
    /\ Goto(t, "acquire")
    /\ UNCHANGED <<task, registry, count, marked, trees, forcing, survivors, history>>

\* A return without the row.
PrepareFailsSilently(t) ==
    /\ At(t, "prepare")
    /\ Goto(t, "return")
    /\ UNCHANGED <<task, registry, count, marked, trees, forcing, survivors, history>>

\* No isolated home, or no container.
PrepareFails(t) ==
    /\ At(t, "prepare")
    /\ SetRow(job[t].row, "failed")
    /\ Goto(t, "return")
    /\ UNCHANGED <<registry, count, marked, trees, forcing, survivors, history>>

\* An error that `?` hands up (a directory, a file, an event that cannot be
\* written): the caller drops it, and the row stays as it is.
Breaks(t) ==
    /\ job[t].pc \in {"setup", "prepare", "finish"}
    /\ lost' = IF task[job[t].row].status \in Live THEN lost \cup {job[t].row} ELSE lost
    /\ Goto(t, "return")
    /\ UNCHANGED <<task, registry, count, marked, trees, forcing, survivors,
                   forced, restarts>>

-----------------------------------------------------------------------------
(* The slots of an agent: a counter, a lock and a condition variable. *)

WaitsForSlot(t) == job[t].pc \in {"acquire", "woken"}
Sleepers(a) == {t \in TaskIds : At(t, "asleep") /\ Agent(t) = a}
Woken(a) == {t \in TaskIds : At(t, "woken") /\ Agent(t) = a}
Processes(a) == {t \in TaskIds : At(t, "process") /\ Agent(t) = a}

\* An `if` in the place of the `while`.
SlotFreeOrWoken(t) == count[Agent(t)] < Limit[Agent(t)] \/ At(t, "woken")
SlotFree(t) == count[Agent(t)] < Limit[Agent(t)]

Unslotted(t) ==
    /\ At(t, "acquire") /\ Agent(t) \notin Slotted
    /\ Goto(t, "process")
    /\ UNCHANGED <<task, registry, count, marked, trees, forcing, survivors, history>>

Acquire(t) ==
    /\ WaitsForSlot(t) /\ Agent(t) \in Slotted
    /\ SlotFree(t)
    /\ count' = [count EXCEPT ![Agent(t)] = @ + 1]
    /\ Goto(t, "process")
    /\ UNCHANGED <<task, registry, marked, trees, forcing, survivors, history>>

\* cvar.wait: the cancel flag is not looked at in here.
Wait(t) ==
    /\ WaitsForSlot(t) /\ Agent(t) \in Slotted
    /\ ~SlotFree(t)
    /\ Goto(t, "asleep")
    /\ UNCHANGED <<task, registry, count, marked, trees, forcing, survivors, history>>

SpuriousWakeup(t) ==
    /\ At(t, "asleep")
    /\ Goto(t, "woken")
    /\ UNCHANGED <<task, registry, count, marked, trees, forcing, survivors, history>>

\* How a process may end: the poll loop kills it for a flag it sees, and the
\* pool runs none.
Endings(t) ==
    IF job[t].held THEN {job[t].outcome}
    ELSE IF job[t].cancel /\ Agent(t) # PoolAgent THEN Outcomes
    ELSE Outcomes \ {"cancelled"}

\* The process has ended or is killed, and a helper of it holds the pipes: until
\* it lets them go, which may be never, the thread waits and keeps its slot.
HeldUp(t) == At(t, "process") /\ job[t].held
HelperHolds(t) ==
    /\ At(t, "process") /\ ~job[t].held /\ Agent(t) # PoolAgent
    /\ \E o \in Endings(t) : job' = [job EXCEPT ![t].held = TRUE, ![t].outcome = o]
    /\ UNCHANGED <<task, registry, count, marked, trees, forcing, survivors, history>>

WithOutcome(t, o) ==
    [job EXCEPT ![t].pc = "finish", ![t].outcome = o, ![t].held = FALSE]

\* The guard is dropped with the process: one slot back, one sleeper woken.
ProcessEndsSilently(t) ==
    /\ At(t, "process") /\ Agent(t) \in Slotted
    /\ count' = [count EXCEPT ![Agent(t)] = @ - 1]
    /\ \E o \in Endings(t) : job' = WithOutcome(t, o)
    /\ UNCHANGED <<task, registry, marked, trees, forcing, survivors, history>>

ProcessEnds(t) ==
    /\ At(t, "process") /\ Agent(t) \in Slotted
    /\ count' = [count EXCEPT ![Agent(t)] = @ - 1]
    /\ \E o \in Endings(t) :
         \/ /\ Sleepers(Agent(t)) = {}
            /\ job' = WithOutcome(t, o)
         \/ \E s \in Sleepers(Agent(t)) :
              job' = [WithOutcome(t, o) EXCEPT ![s].pc = "woken"]
    /\ UNCHANGED <<task, registry, marked, trees, forcing, survivors, history>>

UnslottedEnds(t) ==
    /\ At(t, "process") /\ Agent(t) \notin Slotted
    /\ \E o \in Endings(t) : job' = WithOutcome(t, o)
    /\ UNCHANGED <<task, registry, count, marked, trees, forcing, survivors, history>>

-----------------------------------------------------------------------------
(* The end of execute, and fallback. *)

Failure(o) == o \in {"failed", "limited"}

Finish(t) ==
    LET k == job[t].row  o == job[t].outcome
    IN  /\ At(t, "finish")
        /\ task' = [task EXCEPT ![k].status = IF Failure(o) THEN "failed" ELSE o,
                                ![k].limited = (o = "limited"),
                                ![k].tree = job[t].use_tree]
        /\ Goto(t, IF job[t].failover /\ Failure(o) THEN "failover" ELSE "return")
        /\ UNCHANGED <<registry, count, marked, trees, forcing, survivors, history>>

\* Where an entry stands: which chain, which place in it.
Places == UNION {{c} \X DOMAIN Chains[c] : c \in DOMAIN Chains}
Holds(p, e) == Chains[p[1]][p[2]] = e
NoLater(p, q) == p[1] < q[1] \/ (p[1] = q[1] /\ p[2] <= q[2])

\* The entry after e, in whichever chain has it.
NextAfterAny(e) ==
    {Chains[p[1]][p[2] + 1] : p \in {p \in Places : /\ Holds(p, e)
                                                  /\ p[2] + 1 \in DOMAIN Chains[p[1]]}}

\* next_after: the first chain that has e, the first place of e in it, and one
\* entry on; none at the end of that chain.
FirstPlace(e) ==
    {p \in Places : Holds(p, e) /\ \A q \in Places : Holds(q, e) => NoLater(p, q)}
NextAfter(e) ==
    {Chains[p[1]][p[2] + 1] : p \in {p \in FirstPlace(e) :
                                        p[2] + 1 \in DOMAIN Chains[p[1]]}}

LooksLimited(t) ==
    \/ job[t].outcome = "limited"
    \/ job[t].entry \in Named \cap marked

\* maybe_fail_over: the next entry, on a new row that is not registered, with
\* the flag of the job.  Marking the account may fail without stopping it.
Hop(t) ==
    /\ At(t, "failover")
    /\ LooksLimited(t)
    /\ Len(task) < MaxTasks
    /\ \E next \in NextAfter(job[t].entry) :
         /\ task' = Append(task, NewRow(next, job[t].row))
         /\ job' = [job EXCEPT ![t].pc = "setup", ![t].row = Len(task) + 1,
                               ![t].entry = next]
    /\ marked' \in {marked, marked \cup ({job[t].entry} \cap Named)}
    /\ UNCHANGED <<registry, count, trees, forcing, survivors, history>>

\* Not rate limited, no next entry, or the next agent is not installed; or the
\* account is marked and then the row cannot be created.
NoHop(t) ==
    /\ At(t, "failover")
    /\ Goto(t, "return")
    /\ \/ UNCHANGED marked
       \/ /\ LooksLimited(t) /\ NextAfter(job[t].entry) # {}
          /\ marked' = marked \cup ({job[t].entry} \cap Named)
    /\ UNCHANGED <<task, registry, count, trees, forcing, survivors, history>>

\* Back in run or in the thread of run_background.
Return(t) ==
    /\ At(t, "return")
    /\ registry' = registry \ {t}
    /\ job' = [job EXCEPT ![t] = NoJob]
    /\ UNCHANGED <<task, count, marked, trees, forcing, survivors, history>>

-----------------------------------------------------------------------------
(* Client requests. *)

\* TaskCancel on a registered id.
Cancel(k) ==
    /\ "cancel" \in Requests
    /\ k \in registry
    /\ job' = [job EXCEPT ![k].cancel = TRUE]
    /\ UNCHANGED <<task, registry, count, marked, trees, forcing, survivors, history>>

IsLive(k) == k \in DOMAIN task /\ task[k].status \in Live

\* force_fail, its read: by TaskCancel --force on an id that is not registered
\* (a flag that appears in between is the case of the cleanup), by TaskCleanup
\* --force on any.
ForceRead(k) ==
    /\ \/ "force" \in Requests /\ k \notin registry
       \/ "cleanup" \in Requests
    /\ IsLive(k)
    /\ forcing' = forcing \cup {[id |-> k, tree |-> task[k].tree]}
    /\ forced' = forced \cup {k}
    /\ UNCHANGED <<task, job, registry, count, marked, trees, survivors, lost, restarts>>

\* force_fail, its write, which puts back the worktree_path it has read.
ForceWrite(read) ==
    /\ read \in forcing
    /\ forcing' = forcing \ {read}
    /\ task' = [task EXCEPT ![read.id].status = "failed",
                            ![read.id].limited = FALSE,
                            ![read.id].tree = read.tree]
    /\ UNCHANGED <<job, registry, count, marked, trees, survivors, history>>

\* TaskCleanup on a row that has ended: the worktree its column names.
Cleanup(k) ==
    /\ "cleanup" \in Requests
    /\ k \in DOMAIN task /\ task[k].status \in Ended
    /\ task[k].tree
    /\ trees' = trees \ {k}
    /\ UNCHANGED <<task, job, registry, count, marked, forcing, survivors, history>>

\* AccountSetStatus, to the status rate_limited or to another.
AccountSetStatus(e) ==
    /\ "account" \in Requests
    /\ e \in Named
    /\ marked' \in {marked \cup {e}, marked \ {e}}
    /\ UNCHANGED <<task, job, registry, count, trees, forcing, survivors, history>>

-----------------------------------------------------------------------------
(* Restart of the daemon. *)

ReconciledAll(k) == [task[k] EXCEPT !.status = "failed"]
\* reconcile_orphaned_tasks.
ReconciledRow(k) ==
    IF task[k].status \in Live THEN [task[k] EXCEPT !.status = "failed"] ELSE task[k]

\* Threads, flags and counters are gone.  The agents' processes are not: each
\* has a process group of its own and nothing kills it.
Restart ==
    /\ restarts < MaxRestarts
    /\ restarts' = restarts + 1
    /\ task' = [k \in DOMAIN task |-> ReconciledRow(k)]
    /\ job' = [t \in TaskIds |-> NoJob]
    /\ registry' = {}
    /\ count' = [a \in Slotted |-> 0]
    /\ forcing' = {}
    /\ survivors' = [a \in Agents |->
                       IF a = PoolAgent THEN survivors[a]
                       ELSE survivors[a] + Cardinality(Processes(a))]
    /\ UNCHANGED <<marked, trees, forced, lost>>

SurvivorEnds(a) ==
    /\ survivors[a] > 0
    /\ survivors' = [survivors EXCEPT ![a] = @ - 1]
    /\ UNCHANGED <<task, job, registry, count, marked, trees, forcing, history>>

-----------------------------------------------------------------------------

Slot(t) ==
    \/ Unslotted(t)
    \/ Acquire(t)
    \/ Wait(t)
    \/ ProcessEnds(t)
    \/ UnslottedEnds(t)

Step(t) ==
    \/ Launch(t)
    \/ LaunchBreaks(t)
    \/ Setup(t)
    \/ SetupFails(t)
    \/ Prepare(t)
    \/ PrepareFails(t)
    \/ Breaks(t)
    \/ Slot(t)
    \/ Finish(t)
    \/ Hop(t)
    \/ NoHop(t)
    \/ Return(t)

Request ==
    \/ \E e \in Starts, background \in BOOLEAN, use_tree \in TreeChoices,
          failover \in FailoverChoices : Run(e, background, use_tree, failover)
    \/ \E k \in TaskIds : Cancel(k) \/ ForceRead(k) \/ Cleanup(k)
    \/ \E read \in forcing : ForceWrite(read)
    \/ \E e \in Entries : AccountSetStatus(e)

World ==
    \/ \E t \in TaskIds : SpuriousWakeup(t) \/ HelperHolds(t)
    \/ \E a \in Agents : SurvivorEnds(a)
    \/ Restart

Next ==
    \/ \E t \in TaskIds : Step(t)
    \/ Request
    \/ World

Spec == Init /\ [][Next]_vars

-----------------------------------------------------------------------------
(* What the execution of tasks promises. *)

\* Every table, thread and counter holds values of its columns.
TypeOK ==
    /\ task \in Seq(Row)
    /\ job \in [TaskIds -> Job]
    /\ registry \subseteq TaskIds
    /\ count \in [Slotted -> Nat]
    /\ marked \subseteq Entries
    /\ trees \subseteq Nat
    /\ forcing \subseteq [id : TaskIds, tree : BOOLEAN]
    /\ survivors \in [Agents -> Nat]
    /\ forced \subseteq TaskIds /\ lost \subseteq Nat
    /\ restarts \in Nat

-----------------------------------------------------------------------------
(* Slots. *)

\* The daemon never runs more processes of an agent than its max_concurrency,
\* whichever threads wait, are woken, or come in between.
SlotCap == \A a \in Slotted : Cardinality(Processes(a)) <= Limit[a]

\* A thread only sleeps on while every slot is taken, or promised to a thread
\* that has been woken: no wakeup is lost and nobody sleeps beside a free slot.
NoLostWakeup ==
    \A a \in Slotted :
        Sleepers(a) # {} => count[a] + Cardinality(Woken(a)) >= Limit[a]

\* The inductive form of both: the counter is the number of processes, and an
\* id without a row has no thread.
SlotsExact == \A a \in Slotted : count[a] = Cardinality(Processes(a))
Unused == \A t \in TaskIds : t > Len(task) => At(t, "none")
SlotInv == TypeOK /\ Unused /\ SlotsExact /\ SlotCap /\ NoLostWakeup

-----------------------------------------------------------------------------
(* Rows, threads and worktrees. *)

WorkersOn(k) == {t \in TaskIds : ~At(t, "none") /\ job[t].row = k}

\* A row that is created or running has a thread that works on it, and only
\* one, unless its thread broke off.  (That thread may itself wait for ever.)
WorkedOn ==
    \A k \in DOMAIN task \ lost :
        task[k].status \in Live => Cardinality(WorkersOn(k)) = 1

AtWork == {"prepare", "acquire", "asleep", "woken", "process", "finish"}

\* No cleanup, forced or not, takes the worktree from under a thread that is
\* at work in it.
TreeKept ==
    \A t \in TaskIds :
        job[t].pc \in AtWork /\ job[t].use_tree => job[t].row \in trees

-----------------------------------------------------------------------------
(* Fallback. *)

\* The rows a row follows, from hop to hop: those that every set of rows has
\* that has the parent of the row, and of each of its members the parent.
Parents(k) == {task[k].parent} \cap DOMAIN task
ClosedUnderParents(S) == \A q \in S : Parents(q) \subseteq S
Ancestors(k) ==
    {p \in DOMAIN task :
        \A S \in SUBSET DOMAIN task :
            Parents(k) \subseteq S /\ ClosedUnderParents(S) => p \in S}

DistinctChains ==
    \A c \in DOMAIN Chains : \A i, j \in DOMAIN Chains[c] :
        Chains[c][i] = Chains[c][j] => i = j

\* When no chain repeats an entry, a job never comes back to one it has tried,
\* whatever chains share entries and in whatever order they are saved.
NoEntryTwice ==
    DistinctChains =>
        \A k \in DOMAIN task : \A p \in Ancestors(k) : task[p].entry # task[k].entry

\* NOT TRUE.  fallback.rs: "a chain that happens to repeat an entry can't loop: each call
\* only ever looks at the single chain containing `current`, and advances
\* exactly one step along it".  So there are fewer hops than saved entries.
HopsBounded ==
    \A k \in DOMAIN task : Cardinality(Ancestors(k)) < Cardinality(Places)

\* NOT TRUE.  registry.rs: "at most `n` instances of this agent may run concurrently".
InstancesCapped ==
    \A a \in Slotted : survivors[a] + Cardinality(Processes(a)) <= Limit[a]

-----------------------------------------------------------------------------
(* The contract, and the fairness it is kept under: each thread goes on and  *)
(* a process ends, as it is killed at its deadline, unless a helper holds    *)
(* its pipes: the threads that read them are joined without a deadline.      *)

FairSpec == Spec /\ \A t \in TaskIds : WF_vars(~HeldUp(t) /\ Step(t))

\* Rows whose end nobody can promise for now: those that are held up, and those
\* that wait for a slot of the same agent.
Delayed ==
    {job[t].row : t \in {t \in TaskIds :
        \/ HeldUp(t)
        \/ /\ WaitsForSlot(t) \/ At(t, "asleep")
           /\ \E u \in TaskIds : HeldUp(u) /\ Agent(u) = Agent(t)}}

OutcomeOf(k) ==
    IF k \notin DOMAIN task THEN "none"
    ELSE IF k \in forced THEN "forced"
    ELSE IF IsLive(k) THEN IF k \in lost THEN "lost" ELSE "running"
    ELSE IF task[k].limited THEN "limited" ELSE task[k].status

Contract == INSTANCE TaskContract WITH
                Ids <- TaskIds, outcome <- [k \in TaskIds |-> OutcomeOf(k)],
                delayed <- Delayed

\* A task keeps its contract: it starts once, it ends unless a helper of an agent
\* that is in its way holds it up for good, and its result is final for every row
\* that nobody has forced.
KeepsContract == Contract!FairSpec

\* NOT TRUE.  adapter.rs:55-56: a run is killed "if it runs past `timeout`", so that a
\* task ends.
EveryTaskEnds == \A k \in TaskIds : OutcomeOf(k) = "running" ~> OutcomeOf(k) # "running"

-----------------------------------------------------------------------------
(* What makes WorkedOn, TreeKept, NoEntryTwice and the contract inductive:   *)
(* how rows and threads belong together.                                     *)

Leaving == {"failover", "return"}
Busy(t) == ~At(t, "none")
Working(t) == Busy(t) /\ job[t].pc \notin Leaving

\* A thread works on a row of its own, a new thread on its first, and on the entry
\* that the row names.
OwnRows ==
    /\ \A t \in TaskIds : Busy(t) =>
          /\ job[t].row \in DOMAIN task
          /\ task[job[t].row].entry = job[t].entry
          /\ At(t, "launch") => job[t].row = t
    /\ \A t, u \in TaskIds : Busy(t) /\ Busy(u) /\ job[t].row = job[u].row => t = u

\* Until its thread leaves, a row has not ended unless it was forced, and it is not
\* given up, nor marked rate limited; then it has ended or is given up.
EndedByThread ==
    \A t \in TaskIds :
        /\ Working(t) => /\ job[t].row \notin lost /\ ~task[job[t].row].limited
                         /\ IsLive(job[t].row) \/ job[t].row \in forced
        /\ job[t].pc \in Leaving =>
              task[job[t].row].status \in Ended \/ job[t].row \in lost

\* What has neither ended nor been given up has somebody.
SomebodyWorks ==
    \A k \in DOMAIN task \ lost :
        task[k].status \in Live => \E t \in TaskIds : Busy(t) /\ job[t].row = k

\* While a thread works, neither its row names a worktree nor the copy of it that a
\* force_fail will write back.
TreeUnnamed ==
    \A t \in TaskIds : Working(t) =>
        /\ ~task[job[t].row].tree
        /\ \A read \in forcing : read.id = job[t].row => ~read.tree

\* What is remembered of rows is about rows that are there; what is in flight is
\* not marked rate limited.
OfRows ==
    /\ DOMAIN task \subseteq TaskIds
    /\ lost \subseteq DOMAIN task /\ forced \subseteq DOMAIN task
    /\ \A read \in forcing : read.id \in forced
    /\ \A k \in DOMAIN task : task[k].status \in Live => ~task[k].limited

\* A hop goes on with the next entry.
Follows ==
    \A k \in DOMAIN task :
        task[k].parent # 0 =>
            /\ task[k].parent \in DOMAIN task
            /\ task[k].entry \in NextAfter(task[task[k].parent].entry)

WorkInv ==
    /\ SlotInv
    /\ OwnRows /\ EndedByThread /\ SomebodyWorks
    /\ TreeUnnamed /\ TreeKept
    /\ OfRows /\ Follows
=============================================================================
