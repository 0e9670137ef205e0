----------------------------- MODULE Coordinator -----------------------------
(***************************************************************************)
(* The goal coordinator of the daemon: coordinator/{mod,goal,scheduler}.rs, *)
(* the goal handlers of handlers.rs, the start-up sequence and the threads  *)
(* of server.rs, and self_heal/coordinator.rs.                              *)
(*                                                                          *)
(* Every thread works on its own SQLite connection, every statement commits *)
(* on its own, and no lock orders one pass with another: what a thread has  *)
(* read lives on in its record of `thread` while the tables move on.  Steps *)
(* of one thread are split where another thread or a long call (an agent    *)
(* that plans, supervises, integrates, a task that is started) can come in  *)
(* between; adjacent UPDATEs with nothing in between are one step.          *)
(***************************************************************************)
EXTENDS TaskGraph, SequencesExt

CONSTANTS
    NumGoals,       \* goals, numbered in the order of created_at
    Careful,        \* the goals submitted in careful mode (`single loop`)
    Preplanned,     \* the goals that are planned and running at the start
    AutoMerge,      \* those of them a client has amended with auto-merge=true
    Handlers,       \* connections that serve a client request
    Plans,          \* graphs the planner may answer with
    Routes,         \* agents the routing table may yield for an unpinned node
    AgentCap,       \* max_concurrency of each agent
    MaxParallel,    \* CoordinatorConfig::max_parallel
    MaxDispatches,  \* max_dispatches a goal is submitted with
    DefaultDispatches,  \* CoordinatorConfig::max_dispatches_per_goal
    MaxPatches,     \* CoordinatorConfig::default().max_supervisor_patches
    MaxWaits,       \* max_capacity_waits_per_goal
    MaxReevals,     \* max_auto_reevals_per_goal
    ReevalAge,      \* blocked_reeval_minutes, counted in timer ticks
    PatchScope,     \* nodes a patch op may name; {} for the failing node only
    Asks,           \* client requests that may arrive beside GoalSubmit
    Caps,           \* values a client may give to budget= and capacity-budget=
    Results,        \* how a task may end
    Clocks,         \* which wall-clock limits may expire
    MaxTasks,       \* bound: task rows
    MaxRequests,    \* bound: client requests beside GoalSubmit
    MaxCrashes,     \* bound: restarts of the daemon
    MaxHeals,       \* bound: periodic self-heal passes, or Unbounded
    MaxOps          \* bound: ops in one supervisor patch

Timer == "timer"        \* coordinator_tick_loop
Healer == "healer"      \* resume_interrupted, then self_heal_tick_loop
Unbounded == -1
Goals == 1..NumGoals
Threads == {Timer, Healer} \cup Handlers
TaskIds == 1..MaxTasks

ASSUME CoordinatorAssumption ==
    /\ NumGoals \in Nat \ {0}
    /\ Careful \subseteq Goals
    /\ AutoMerge \subseteq Preplanned /\ Preplanned \subseteq Goals
    /\ {Timer, Healer} \cap Handlers = {} /\ IsFiniteSet(Handlers)
    /\ \A plan \in Plans : Fresh(plan)
    /\ Routes \subseteq Agents
    /\ AgentCap \in [Agents -> Nat]
    /\ {MaxParallel, MaxDispatches, DefaultDispatches, MaxPatches, MaxWaits, MaxReevals,
        ReevalAge, MaxTasks, MaxRequests, MaxCrashes, MaxOps} \subseteq Nat
    /\ MaxHeals \in Nat \cup {Unbounded}
    /\ Caps \subseteq Nat /\ IsFiniteSet(Caps)
    /\ Results \subseteq {"completed", "said_done", "failed", "failed_done",
                          "cancelled", "limited", "exhausted"}
    /\ PatchScope \subseteq NodeIds

VARIABLES
    goal,       \* table goals
    node,       \* table graph_nodes, one graph per goal
    task,       \* table tasks: the i-th row has id i
    merge,      \* table pending_merges, in the order of insertion
    thread,     \* what each thread is doing and what it has read
    spent       \* client requests, restarts and periodic heal passes so far

vars == <<goal, node, task, merge, thread, spent>>

-----------------------------------------------------------------------------
(* Rows. *)

Completed == {"completed", "said_done"}
SaysDone == {"said_done", "failed_done"}    \* the artifact has a DONE line
Limited == {"limited", "exhausted"}         \* rate_limited; exhausted has an ETA

GoalStatus == {"absent", "planning", "running", "waiting_on_capacity", "blocked",
               "paused", "done", "failed", "cancelled"}
Active == {"planning", "running", "waiting_on_capacity"}

\* late and wait_late: the goal is older than max_minutes, than
\* max_capacity_wait_minutes.  human: amended within the last hour.
\* age: timer ticks since updated_at, counted while the goal is blocked.
GoalRow ==
    [status : GoalStatus,
     blocked_reason : {"none", "budget", "capacity", "supervisor", "other"},
     dispatches : Nat, max_dispatches : Nat, supervisor_patches : Nat,
     capacity_waits : Nat, capacity_budget : Nat, auto_reevals : Nat,
     auto_merge : BOOLEAN, human : BOOLEAN, late : BOOLEAN, wait_late : BOOLEAN,
     age : Nat]

NoGoal ==
    [status |-> "absent", blocked_reason |-> "none",
     dispatches |-> 0, max_dispatches |-> 0, supervisor_patches |-> 0,
     capacity_waits |-> 0, capacity_budget |-> 0, auto_reevals |-> 0,
     auto_merge |-> FALSE, human |-> FALSE, late |-> FALSE, wait_late |-> FALSE,
     age |-> 0]

NewGoal ==
    [NoGoal EXCEPT !.status = "planning", !.max_dispatches = MaxDispatches,
                   !.capacity_budget = MaxWaits]

NoRows == [g \in Goals |-> NoGoal]
Listed(rows) == {g \in Goals : rows[g].status # "absent"}
FirstListed(rows) == CHOOSE g \in Listed(rows) : \A h \in Listed(rows) : g <= h
Without(rows, g) == [rows EXCEPT ![g] = NoGoal]
SelectStatus(S) == [g \in Goals |-> IF goal[g].status \in S THEN goal[g] ELSE NoGoal]

SetStatus(r, s) == [r EXCEPT !.status = s, !.age = 0]
SetBlocked(r, why) ==
    [r EXCEPT !.status = "blocked", !.blocked_reason = why, !.age = 0]
SetWaitingOnCapacity(r) ==
    [r EXCEPT !.status = "waiting_on_capacity", !.capacity_waits = @ + 1, !.age = 0]
ResumeStatus(r) ==
    [r EXCEPT !.status = "running", !.blocked_reason = "none", !.age = 0]
ReevaluateBlocked(r) ==
    [r EXCEPT !.status = "running", !.blocked_reason = "none",
              !.auto_reevals = @ + 1, !.age = 0]
Reopened(r) ==
    [r EXCEPT !.status = IF @ = "blocked" THEN "running" ELSE @,
              !.blocked_reason = "none", !.age = 0]
BumpNothing(r) == [r EXCEPT !.age = 0]
BumpDispatches(r) == [r EXCEPT !.dispatches = @ + 1, !.age = 0]
BumpPatches(r) == [r EXCEPT !.supervisor_patches = @ + 1, !.age = 0]

\* UPDATE graph_nodes ... WHERE goal_id = g AND id = n: nothing without a row.
UpdateNode(g, n, row) ==
    IF node[g][n].status = "absent" THEN node ELSE [node EXCEPT ![g][n] = row]
UpdateGoal(g, row) == [goal EXCEPT ![g] = row]

UnfinishedOrDone ==
    {gn \in Goals \X NodeIds : node[gn[1]][gn[2]].status \in {"running", "done"}}
RunningNodes == {gn \in Goals \X NodeIds : node[gn[1]][gn[2]].status = "running"}
RunningOn(a) == {gn \in RunningNodes : node[gn[1]][gn[2]].agent = a}
Minus(a, b) == IF a > b THEN a - b ELSE 0

\* What build_capacity leaves for a tick: the running nodes of every goal count,
\* and per agent those whose `agent` column names it.
RoomOfGoal(g) == Minus(MaxParallel, Cardinality({gn \in RunningNodes : gn[1] = g}))
Room(g) == Minus(MaxParallel, Cardinality(RunningNodes))
Slots == [a \in Agents |-> Minus(AgentCap[a], Cardinality(RunningOn(a)))]

-----------------------------------------------------------------------------
(* Threads. *)

PCs == {"idle", "drive", "settle", "settling", "supervising", "tick", "dispatch",
        "record", "integrating", "planning", "resume_list", "resume", "heal",
        "reeval", "reroute"}

\* finished: task ids still to settle; rows: goals still to visit, as read;
\* g, n, k, row, graph: the goal, node, task and what was read of them;
\* ready, room, slots: admission state of a tick; tries: attempts as read, or
\* ops of a patch so far.
Local ==
    [pc : PCs, finished : SUBSET Nat, rows : [Goals -> GoalRow],
     g : Goals, n : NodeIds, k : Nat, row : GoalRow, graph : Graphs,
     ready : SUBSET NodeIds, room : Nat, slots : [Agents -> Nat], tries : Nat]

Rest ==
    [pc |-> "idle", finished |-> {}, rows |-> NoRows,
     g |-> 1, n |-> 1, k |-> 0, row |-> NoGoal, graph |-> NoGraph,
     ready |-> {}, room |-> 0, slots |-> [a \in Agents |-> 0], tries |-> 0]

Goto(t, local) == thread' = [thread EXCEPT ![t] = local]

\* Where a thread goes after a settled task, after a visited goal, after a plan.
Settled(t) == [Rest EXCEPT !.pc = "settle", !.finished = thread[t].finished]
Visited(t, pc, g) == [Rest EXCEPT !.pc = pc, !.rows = Without(thread[t].rows, g)]
Planned(t) ==
    IF t = Healer THEN Visited(t, "resume", thread[t].g)
    ELSE [Rest EXCEPT !.pc = "drive"]

\* What plan_goal may save: for a careful goal one node, pinned if it can be.
PlansOf(g) ==
    IF g \in Careful
    THEN {[NoGraph EXCEPT ![1] = NewNode({}, a, "code", 1)] :
             a \in Routes \cup {Unpinned}}
    ELSE Plans

SomeGraphs == {NoGraph} \cup UNION {PlansOf(g) : g \in Goals}

Init ==
    /\ goal = [g \in Goals |->
                 IF g \in Preplanned
                 THEN [NewGoal EXCEPT !.status = "running", !.auto_merge = g \in AutoMerge]
                 ELSE NoGoal]
    /\ node \in {nd \in [Goals -> SomeGraphs] :
                   \A g \in Goals : IF g \in Preplanned THEN nd[g] \in PlansOf(g)
                                    ELSE nd[g] = NoGraph}
    /\ task = <<>>
    /\ merge = <<>>
    /\ thread = [t \in Threads |-> Rest]
    /\ spent = [requests |-> 0, crashes |-> 0, heals |-> 0]

-----------------------------------------------------------------------------
(* scheduler::tick, first half: settle the nodes whose task has ended. *)

FinishedIfCompleted ==
    {k \in DOMAIN task : /\ task[k].result \in Completed
                         /\ \E gn \in RunningNodes : node[gn[1]][gn[2]].task = k}

Finished ==
    {k \in DOMAIN task : /\ task[k].result # "running"
                         /\ \E gn \in RunningNodes : node[gn[1]][gn[2]].task = k}

AgeBlocked ==
    [g \in Goals |-> IF goal[g].status = "blocked" /\ goal[g].age < ReevalAge
                     THEN [goal[g] EXCEPT !.age = @ + 1] ELSE goal[g]]

\* drive: by the timer every tick interval, by a handler after its request.
TickBegin(t) ==
    /\ \/ t = Timer /\ thread[t].pc = "idle"
       \/ thread[t].pc = "drive"
    /\ Goto(t, [Rest EXCEPT !.pc = "settle", !.finished = Finished])
    /\ goal' = IF t = Timer THEN AgeBlocked ELSE goal
    /\ UNCHANGED <<node, task, merge, spent>>

\* settle_finished_node up to the goal::get: what the rest of it works on.
SettleRead(t) ==
    /\ thread[t].pc = "settle"
    /\ \E k \in thread[t].finished :
         LET left == thread[t].finished \ {k}
             hits == {gn \in RunningNodes : node[gn[1]][gn[2]].task = k}
         IN  \/ /\ hits = {}
                /\ Goto(t, [thread[t] EXCEPT !.finished = left])
             \/ \E gn \in hits :
                  Goto(t, [Rest EXCEPT
                             !.pc = "settling", !.finished = left, !.k = k,
                             !.g = gn[1], !.n = gn[2], !.row = goal[gn[1]],
                             !.tries = node[gn[1]][gn[2]].attempts])
    /\ UNCHANGED <<goal, node, task, merge, spent>>

Settling(t) == thread[t].pc = "settling"
OfCareful(t) == thread[t].g \in Careful
ResultOf(t) == task[thread[t].k].result

\* A DONE line ends the loop, whatever the task's own status.
SettleCarefulDone(t) ==
    LET g == thread[t].g  n == thread[t].n
    IN  /\ Settling(t) /\ OfCareful(t)
        /\ \/ ResultOf(t) \in SaysDone
           \/ thread[t].row.dispatches >= thread[t].row.max_dispatches
        /\ node' = UpdateNode(g, n, [node[g][n] EXCEPT !.status = "done"])
        /\ goal' = UpdateGoal(g, SetStatus(goal[g], "done"))
        /\ Goto(t, Settled(t))
        /\ UNCHANGED <<task, merge, spent>>

\* The next iteration: `attempts` holds the iteration number.
SettleCarefulNext(t) ==
    LET g == thread[t].g  n == thread[t].n  iter == thread[t].row.dispatches
    IN  /\ Settling(t) /\ OfCareful(t)
        /\ ResultOf(t) \notin SaysDone
        /\ iter < thread[t].row.max_dispatches
        /\ node' = UpdateNode(g, n, [node[g][n] EXCEPT !.status = "pending",
                                                       !.task = 0,
                                                       !.attempts = iter + 1])
        /\ Goto(t, Settled(t))
        /\ UNCHANGED <<goal, task, merge, spent>>

\* maybe_auto_merge: one pending row per worktree-backed dependency of a
\* review that passed; it reads the graph again, after the review is done.
Offers(n, gr, row) ==
    IF ~row.auto_merge \/ gr[n].kind # "review" THEN {}
    ELSE {d \in gr[n].deps : /\ gr[d].worktree
                             /\ gr[d].status = "done"
                             /\ gr[d].task # 0}

\* One pending row for each node of S.
OfferRows(g, n, gr, S) ==
    LET offered == SetToSeq(S)
    IN  [i \in DOMAIN offered |->
            [goal |-> g, review |-> n, dep |-> offered[i],
             task |-> gr[offered[i]].task, status |-> "pending", landed |-> FALSE]]

SettleDone(t) ==
    LET g == thread[t].g  n == thread[t].n
        node1 == UpdateNode(g, n, [node[g][n] EXCEPT !.status = "done"])
        S == Offers(n, node1[g], thread[t].row)
    IN  /\ Settling(t) /\ ~OfCareful(t)
        /\ ResultOf(t) \in Completed
        /\ node' = node1
        /\ merge' = merge \o OfferRows(g, n, node1[g], S)
        /\ Goto(t, Settled(t))
        /\ UNCHANGED <<goal, task, spent>>

\* handle_capacity_exhaustion, given up: the node keeps its row as it is.
SettleGiveUp(t) ==
    LET g == thread[t].g  row == thread[t].row
    IN  /\ Settling(t) /\ ~OfCareful(t)
        /\ ResultOf(t) \in Limited
        /\ row.capacity_waits >= row.capacity_budget \/ row.wait_late
        /\ goal' = UpdateGoal(g, SetBlocked(goal[g], "capacity"))
        /\ Goto(t, Settled(t))
        /\ UNCHANGED <<node, task, merge, spent>>

\* handle_capacity_exhaustion, held: without an ETA the pin is cleared too.
SettleWait(t) ==
    LET g == thread[t].g  n == thread[t].n  row == thread[t].row
    IN  /\ Settling(t) /\ ~OfCareful(t)
        /\ ResultOf(t) \in Limited
        /\ row.capacity_waits < row.capacity_budget /\ ~row.wait_late
        /\ node' = UpdateNode(g, n,
                     [node[g][n] EXCEPT
                        !.status = "pending", !.held = TRUE,
                        !.agent = IF ResultOf(t) = "exhausted" THEN @ ELSE Unpinned])
        /\ goal' = UpdateGoal(g, SetWaitingOnCapacity(goal[g]))
        /\ Goto(t, Settled(t))
        /\ UNCHANGED <<task, merge, spent>>

RetryOffByOne(tries) == tries <= 2
\* retry_decision: RetrySameNextAgent, or else Supervisor.
Retry(tries) == tries <= 1

Broken(t) == ResultOf(t) \notin Completed \cup Limited

SettleRetry(t) ==
    LET g == thread[t].g  n == thread[t].n
    IN  /\ Settling(t) /\ ~OfCareful(t) /\ Broken(t)
        /\ Retry(thread[t].tries)
        /\ node' = UpdateNode(g, n, [node[g][n] EXCEPT
                                       !.status = "pending",
                                       !.attempts = thread[t].tries + 1])
        /\ Goto(t, Settled(t))
        /\ UNCHANGED <<goal, task, merge, spent>>

PatchLeftOffByOne(row) == row.supervisor_patches <= MaxPatches
PatchLeft(row) == row.supervisor_patches < MaxPatches

\* Retries exhausted; run_supervisor_or_block compares the count read before.
SettleExhausted(t) ==
    LET g == thread[t].g  n == thread[t].n
        node1 == UpdateNode(g, n, [node[g][n] EXCEPT !.status = "failed"])
    IN  /\ Settling(t) /\ ~OfCareful(t) /\ Broken(t)
        /\ ~Retry(thread[t].tries)
        /\ node' = node1
        /\ \/ /\ ~PatchLeft(thread[t].row)
              /\ goal' = UpdateGoal(g, SetBlocked(goal[g], "supervisor"))
              /\ Goto(t, Settled(t))
           \/ /\ PatchLeft(thread[t].row)
              /\ Goto(t, [Settled(t) EXCEPT !.pc = "supervising", !.g = g, !.n = n,
                                            !.graph = node1[g]])
              /\ UNCHANGED goal
        /\ UNCHANGED <<task, merge, spent>>

SettleWrite(t) ==
    \/ SettleCarefulDone(t)
    \/ SettleCarefulNext(t)
    \/ SettleDone(t)
    \/ SettleGiveUp(t)
    \/ SettleWait(t)
    \/ SettleRetry(t)
    \/ SettleExhausted(t)

Supervising(t) == thread[t].pc = "supervising"
Scope(t) == IF PatchScope = {} THEN {thread[t].n} ELSE PatchScope

\* apply_patch works on the graph loaded before the supervisor was asked.
SupervisorOp(t) ==
    /\ Supervising(t) /\ thread[t].tries < MaxOps
    /\ \E gr \in Edits(thread[t].graph, Scope(t)) :
         Goto(t, [thread[t] EXCEPT !.graph = gr, !.tries = @ + 1])
    /\ UNCHANGED <<goal, node, task, merge, spent>>

\* save_graph replaces every row of the goal by the patched copy.
SupervisorSave(t) ==
    LET g == thread[t].g
    IN  /\ Supervising(t)
        /\ node' = [node EXCEPT ![g] = thread[t].graph]
        /\ goal' = UpdateGoal(g, BumpPatches(goal[g]))
        /\ Goto(t, Settled(t))
        /\ UNCHANGED <<task, merge, spent>>

\* A split whose ids clash: save_graph rolls back and the error ends the pass.
SupervisorClash(t) ==
    /\ Supervising(t) /\ thread[t].tries < MaxOps
    /\ \E n \in Scope(t) \cap Members(thread[t].graph), piece \in Pieces :
         SplitClash(thread[t].graph, n, piece)
    /\ Goto(t, Rest)
    /\ UNCHANGED <<goal, node, task, merge, spent>>

\* An abort op, or an op on a missing node.
SupervisorAbort(t) ==
    /\ Supervising(t)
    /\ goal' = UpdateGoal(thread[t].g, SetStatus(goal[thread[t].g], "failed"))
    /\ Goto(t, Settled(t))
    /\ UNCHANGED <<node, task, merge, spent>>

\* The supervisor gave no usable answer.
SupervisorError(t) ==
    /\ Supervising(t)
    /\ goal' = UpdateGoal(thread[t].g, SetBlocked(goal[thread[t].g], "supervisor"))
    /\ Goto(t, Settled(t))
    /\ UNCHANGED <<node, task, merge, spent>>

Supervise(t) ==
    \/ SupervisorOp(t)
    \/ SupervisorSave(t)
    \/ SupervisorClash(t)
    \/ SupervisorAbort(t)
    \/ SupervisorError(t)

-----------------------------------------------------------------------------
(* scheduler::tick, second half: visit every active goal, as listed once. *)

TickList(t) ==
    /\ thread[t].pc = "settle" /\ thread[t].finished = {}
    /\ Goto(t, [Rest EXCEPT !.pc = "tick", !.rows = SelectStatus(Active)])
    /\ UNCHANGED <<goal, node, task, merge, spent>>

TickEnd(t) ==
    /\ thread[t].pc = "tick" /\ Listed(thread[t].rows) = {}
    /\ Goto(t, Rest)
    /\ UNCHANGED <<goal, node, task, merge, spent>>

Visiting(t) == thread[t].pc = "tick" /\ Listed(thread[t].rows) # {}
VisitedGoal(t) == FirstListed(thread[t].rows)

\* GoalBudget::exhausted, on the goal row as listed; a cap of 0 is the default one.
BudgetOf(row) == IF row.max_dispatches > 0 THEN row.max_dispatches ELSE DefaultDispatches
Exhausted(row) == row.dispatches >= BudgetOf(row) \/ row.late

\* A planned goal still marked planning is moved on before it is scheduled.
Admitted(g, row) ==
    IF row.status = "planning" THEN SetStatus(goal[g], "running") ELSE goal[g]

\* No rows yet: the planner's job.
TickUnplanned(t) ==
    LET g == VisitedGoal(t)
    IN  /\ Visiting(t)
        /\ Members(node[g]) = {}
        /\ Goto(t, Visited(t, "tick", g))
        /\ UNCHANGED <<goal, node, task, merge, spent>>

TickBlock(t) ==
    LET g == VisitedGoal(t)  row == thread[t].rows[g]
    IN  /\ Visiting(t)
        /\ Members(node[g]) # {}
        /\ Exhausted(row) /\ ~AllTerminal(node[g])
        /\ goal' = UpdateGoal(g, SetBlocked(goal[g], "budget"))
        /\ Goto(t, Visited(t, "tick", g))
        /\ UNCHANGED <<node, task, merge, spent>>

TickFail(t) ==
    LET g == VisitedGoal(t)
    IN  /\ Visiting(t)
        /\ Members(node[g]) # {}
        /\ AllTerminal(node[g]) /\ HasFailure(node[g]) /\ ~AnyDone(node[g])
        /\ goal' = UpdateGoal(g, SetStatus(goal[g], "failed"))
        /\ Goto(t, Visited(t, "tick", g))
        /\ UNCHANGED <<node, task, merge, spent>>

\* The integrator works on the graph as loaded; it answers in IntegratorEnd.
TickIntegrate(t) ==
    LET g == VisitedGoal(t)
    IN  /\ Visiting(t)
        /\ Members(node[g]) # {}
        /\ AllTerminal(node[g]) /\ (~HasFailure(node[g]) \/ AnyDone(node[g]))
        /\ goal' = UpdateGoal(g, Admitted(g, thread[t].rows[g]))
        /\ Goto(t, [Rest EXCEPT !.pc = "integrating", !.g = g,
                                !.rows = thread[t].rows])
        /\ UNCHANGED <<node, task, merge, spent>>

TickDispatch(t) ==
    LET g == VisitedGoal(t)
    IN  /\ Visiting(t)
        /\ Members(node[g]) # {}
        /\ ~AllTerminal(node[g]) /\ ~Exhausted(thread[t].rows[g])
        /\ goal' = UpdateGoal(g, Admitted(g, thread[t].rows[g]))
        /\ Goto(t, [Rest EXCEPT
                      !.pc = "dispatch", !.g = g, !.rows = thread[t].rows,
                      !.graph = node[g], !.ready = ReadySet(node[g]),
                      !.room = Room(g), !.slots = Slots])
        /\ UNCHANGED <<node, task, merge, spent>>

TickGoal(t) ==
    \/ TickUnplanned(t)
    \/ TickBlock(t)
    \/ TickFail(t)
    \/ TickIntegrate(t)
    \/ TickDispatch(t)

IntegratorEnd(t) ==
    LET g == thread[t].g
    IN  /\ thread[t].pc = "integrating"
        /\ \/ goal' = UpdateGoal(g, SetStatus(goal[g], "done"))
           \/ goal' = UpdateGoal(g, SetStatus(goal[g], "failed"))   \* unrecoverable
           \/ goal' = UpdateGoal(g, SetBlocked(goal[g], "other"))   \* no answer
        /\ Goto(t, Visited(t, "tick", g))
        /\ UNCHANGED <<node, task, merge, spent>>

-----------------------------------------------------------------------------
(* Admission of ready nodes, one after the other, against what was read. *)

Dispatching(t) == thread[t].pc = "dispatch"
Candidates(t) == thread[t].ready # {} /\ thread[t].room > 0
NextReady(t) == FirstOf(thread[t].graph, thread[t].ready)

\* A pinned node keeps its agent; for another the routing table and the health
\* of the agents decide, which is left open here.
AgentsFor(gr, n) == IF gr[n].agent = Unpinned THEN Routes ELSE {gr[n].agent}

DispatchEnd(t) ==
    /\ Dispatching(t) /\ ~Candidates(t)
    /\ Goto(t, Visited(t, "tick", thread[t].g))
    /\ UNCHANGED <<goal, node, task, merge, spent>>

\* No agent for the node now (unpinned only), or its agent is at its cap.
DispatchSkip(t) ==
    /\ Dispatching(t) /\ Candidates(t)
    /\ \E n \in NextReady(t) :
         /\ \/ thread[t].graph[n].agent = Unpinned
            \/ \E a \in AgentsFor(thread[t].graph, n) : thread[t].slots[a] = 0
         /\ Goto(t, [thread[t] EXCEPT !.ready = @ \ {n}])
    /\ UNCHANGED <<goal, node, task, merge, spent>>

\* The hold is cleared on the status listed, before the task is started.
Released(t) ==
    LET g == thread[t].g
    IN  IF thread[t].rows[g].status = "waiting_on_capacity"
        THEN SetStatus(goal[g], "running") ELSE goal[g]

Charged(t, n, a) ==
    [thread[t] EXCEPT !.ready = @ \ {n}, !.room = @ - 1, !.slots[a] = @ - 1]

\* dispatcher.dispatch: run_background inserts the task row and starts it.
DispatchStart(t) ==
    LET g == thread[t].g
    IN  /\ Dispatching(t) /\ Candidates(t)
        /\ Len(task) < MaxTasks
        /\ \E n \in NextReady(t) :
             /\ \E a \in AgentsFor(thread[t].graph, n) :
                  /\ thread[t].slots[a] > 0
                  /\ Goto(t, [Charged(t, n, a) EXCEPT !.pc = "record", !.n = n,
                                                      !.k = Len(task) + 1])
             /\ task' = Append(task, [goal |-> g, node |-> n, result |-> "running"])
        /\ goal' = UpdateGoal(g, Released(t))
        /\ UNCHANGED <<node, merge, spent>>

\* The task could not be started: the node fails, with no retry.
DispatchError(t) ==
    LET g == thread[t].g
    IN  /\ Dispatching(t) /\ Candidates(t)
        /\ \E n \in NextReady(t) :
             /\ \E a \in AgentsFor(thread[t].graph, n) :
                  thread[t].slots[a] > 0 /\ Goto(t, Charged(t, n, a))
             /\ node' = UpdateNode(g, n, [node[g][n] EXCEPT !.status = "failed"])
        /\ goal' = UpdateGoal(g, Released(t))
        /\ UNCHANGED <<task, merge, spent>>

DispatchRecordUnbound(t) ==
    LET g == thread[t].g  n == thread[t].n
    IN  /\ thread[t].pc = "record"
        /\ node' = UpdateNode(g, n, [node[g][n] EXCEPT !.status = "running"])
        /\ goal' = UpdateGoal(g, BumpDispatches(goal[g]))
        /\ Goto(t, [thread[t] EXCEPT !.pc = "dispatch", !.n = 1, !.k = 0])
        /\ UNCHANGED <<task, merge, spent>>

\* Started: the node is bound to its task and the goal is charged.
DispatchRecord(t) ==
    LET g == thread[t].g  n == thread[t].n
    IN  /\ thread[t].pc = "record"
        /\ node' = UpdateNode(g, n, [node[g][n] EXCEPT !.status = "running",
                                                       !.task = thread[t].k])
        /\ goal' = UpdateGoal(g, BumpDispatches(goal[g]))
        /\ Goto(t, [thread[t] EXCEPT !.pc = "dispatch", !.n = 1, !.k = 0])
        /\ UNCHANGED <<task, merge, spent>>

Dispatch(t) ==
    \/ DispatchEnd(t)
    \/ DispatchSkip(t)
    \/ DispatchStart(t)
    \/ DispatchError(t)
    \/ DispatchRecord(t)

-----------------------------------------------------------------------------
(* Client requests (handlers.rs).  GoalAmend and GoalResume end in a drive. *)

Asked(kind) ==
    /\ kind \in Asks
    /\ spent.requests < MaxRequests
    /\ spent' = [spent EXCEPT !.requests = @ + 1]

\* GoalSubmit: create, then plan_goal.  An ask that overlaps an active goal only
\* returns that goal's id.
Submit(t, g) ==
    /\ t \in Handlers /\ thread[t].pc = "idle"
    /\ goal[g].status = "absent"
    /\ \A h \in Goals : h < g => goal[h].status # "absent"
    /\ goal' = UpdateGoal(g, NewGoal)
    /\ Goto(t, [Rest EXCEPT !.pc = "planning", !.g = g])
    /\ UNCHANGED <<node, task, merge, spent>>

\* plan_goal: save_graph replaces whatever rows there are by now, and the goal
\* is running whatever its status is by now.
PlanDone(t) ==
    LET g == thread[t].g
    IN  /\ thread[t].pc = "planning"
        /\ \E gr \in PlansOf(g) : node' = [node EXCEPT ![g] = gr]
        /\ goal' = UpdateGoal(g, SetStatus(goal[g], "running"))
        /\ Goto(t, Planned(t))
        /\ UNCHANGED <<task, merge, spent>>

\* The careful plan needs no planner, so only another goal's plan can fail.
PlanError(t) ==
    LET g == thread[t].g
    IN  /\ thread[t].pc = "planning" /\ g \notin Careful
        /\ goal' = UpdateGoal(g, SetBlocked(goal[g], "other"))
        /\ Goto(t, IF t = Healer THEN Planned(t) ELSE Rest)
        /\ UNCHANGED <<node, task, merge, spent>>

\* GoalAmend: one of the five key=value forms, or a note.
Amended(r, kind, cap) ==
    CASE kind = "budget" -> [Reopened(r) EXCEPT !.max_dispatches = cap]
      [] kind = "minutes" -> [Reopened(r) EXCEPT !.late = FALSE]
      [] kind = "capacity_budget" -> [r EXCEPT !.capacity_budget = cap, !.age = 0]
      [] kind = "capacity_minutes" -> [Reopened(r) EXCEPT !.wait_late = FALSE]
      [] kind = "auto_merge" -> [r EXCEPT !.auto_merge = ~@, !.age = 0]
      [] OTHER -> r

Amend(t, g) ==
    /\ t \in Handlers /\ thread[t].pc = "idle"
    /\ goal[g].status # "absent"
    /\ \E kind \in {"budget", "minutes", "capacity_budget", "capacity_minutes",
                    "auto_merge", "note"}, cap \in Caps :
         /\ Asked(kind)
         /\ goal' = UpdateGoal(g, [Amended(goal[g], kind, cap) EXCEPT !.human = TRUE])
    /\ Goto(t, [Rest EXCEPT !.pc = "drive"])
    /\ UNCHANGED <<node, task, merge>>

\* GoalCancel writes the status, of the goal as of its tasks nothing else.
Cancel(g) ==
    /\ Asked("cancel")
    /\ goal[g].status # "absent"
    /\ goal' = UpdateGoal(g, SetStatus(goal[g], "cancelled"))
    /\ UNCHANGED <<node, task, merge, thread>>

\* resume_goal: any status but absent; every hold is dropped, an empty graph
\* is planned.
Resume(t, g) ==
    /\ t \in Handlers /\ thread[t].pc = "idle"
    /\ Asked("resume")
    /\ goal[g].status # "absent"
    /\ goal' = UpdateGoal(g, ResumeStatus(goal[g]))
    /\ node' = [node EXCEPT ![g] = [n \in NodeIds |-> [@[n] EXCEPT !.held = FALSE]]]
    /\ Goto(t, IF Members(node[g]) = {}
               THEN [Rest EXCEPT !.pc = "planning", !.g = g]
               ELSE [Rest EXCEPT !.pc = "drive"])
    /\ UNCHANGED <<task, merge>>

\* GoalMergeResolve: resolve() only moves a pending row, the merge follows from
\* `allow` alone.  A merge that fails leaves only the row resolved.
Resolved(row, status, clean) ==
    [row EXCEPT !.status = IF @ = "pending" THEN status ELSE @,
                !.landed = @ \/ (status = "confirmed" /\ clean)]

ResolveMerge(i) ==
    /\ Asked("merge")
    /\ i \in DOMAIN merge
    /\ \E status \in {"confirmed", "rejected"}, clean \in BOOLEAN :
         merge' = [merge EXCEPT ![i] = Resolved(@, status, clean)]
    /\ UNCHANGED <<goal, node, task, thread>>

-----------------------------------------------------------------------------
(* Start of the daemon.  A crash loses every thread; a clean stop pauses the *)
(* active goals first (Shutdown).  The new daemon fails the tasks that were  *)
(* live, reconciles the running nodes, and starts its threads.               *)

Reconciled(nd) ==
    IF nd.status # "running" THEN nd
    ELSE IF nd.task \in DOMAIN task /\ task[nd.task].result \in Completed
    THEN [nd EXCEPT !.status = "done"]
    ELSE IF Retry(nd.attempts)
    THEN [nd EXCEPT !.status = "pending", !.attempts = @ + 1]
    ELSE [nd EXCEPT !.status = "failed"]

PauseActive ==
    [g \in Goals |-> IF goal[g].status \in Active
                     THEN SetStatus(goal[g], "paused") ELSE goal[g]]

Restart ==
    /\ spent.crashes < MaxCrashes
    /\ spent' = [spent EXCEPT !.crashes = @ + 1]
    /\ \/ goal' = PauseActive
       \/ UNCHANGED goal
    /\ task' = [k \in DOMAIN task |->
                  [task[k] EXCEPT !.result = IF @ = "running" THEN "failed" ELSE @]]
    /\ node' = [g \in Goals |-> [n \in NodeIds |-> Reconciled(node[g][n])]]
    /\ thread' = [t \in Threads |->
                    IF t = Healer THEN [Rest EXCEPT !.pc = "resume_list"] ELSE Rest]
    /\ UNCHANGED merge

\* The statuses resume_interrupted looks for.
InterruptedActive == Active
Interrupted == Active \cup {"paused"}

ResumeList(t) ==
    /\ thread[t].pc = "resume_list"
    /\ Goto(t, [Rest EXCEPT !.pc = "resume",
                            !.rows = SelectStatus(Interrupted)])
    /\ UNCHANGED <<goal, node, task, merge, spent>>

\* resume_interrupted, one goal: plan an empty graph, un-pause another.
ResumeGoal(t) ==
    LET g == FirstListed(thread[t].rows)
        row == thread[t].rows[g]
    IN  /\ thread[t].pc = "resume" /\ Listed(thread[t].rows) # {}
        /\ \/ /\ Members(node[g]) = {}
              /\ Goto(t, [Rest EXCEPT !.pc = "planning", !.g = g,
                                      !.rows = thread[t].rows])
              /\ UNCHANGED goal
           \/ /\ Members(node[g]) # {}
              /\ Goto(t, Visited(t, "resume", g))
              /\ goal' = IF row.status = "paused"
                         THEN UpdateGoal(g, SetStatus(goal[g], "running")) ELSE goal
        /\ UNCHANGED <<node, task, merge, spent>>

ResumeEnd(t) ==
    /\ thread[t].pc = "resume" /\ Listed(thread[t].rows) = {}
    /\ Goto(t, [Rest EXCEPT !.pc = "heal"])
    /\ UNCHANGED <<goal, node, task, merge, spent>>

-----------------------------------------------------------------------------
(* The coordinator part of a self-heal pass (self_heal/coordinator.rs). *)

\* By the healer every interval and after the start, by `doctor --fix`.
HealBegin(t) ==
    /\ \/ /\ t = Healer /\ thread[t].pc = "idle"
          /\ spent.heals # MaxHeals
          /\ spent' = [spent EXCEPT !.heals = IF MaxHeals = Unbounded THEN @ ELSE @ + 1]
       \/ thread[t].pc = "heal" /\ UNCHANGED spent
       \/ t \in Handlers /\ thread[t].pc = "idle" /\ Asked("doctor")
    /\ Goto(t, [Rest EXCEPT !.pc = "reeval", !.rows = SelectStatus({"blocked"})])
    /\ UNCHANGED <<goal, node, task, merge>>

ReevaluableOffByOne(row) ==
    /\ row.blocked_reason \in {"capacity", "supervisor"}
    /\ row.age >= ReevalAge
    /\ ~row.human
    /\ row.auto_reevals <= MaxReevals

Reevaluable(row) ==
    /\ row.blocked_reason \in {"capacity", "supervisor"}
    /\ row.age >= ReevalAge
    /\ ~row.human
    /\ row.auto_reevals < MaxReevals

\* reeval_blocked_goals, one goal: judged by the row as listed.
ReevalGoal(t) ==
    LET g == FirstListed(thread[t].rows)
    IN  /\ thread[t].pc = "reeval" /\ Listed(thread[t].rows) # {}
        /\ goal' = IF Reevaluable(thread[t].rows[g])
                   THEN UpdateGoal(g, ReevaluateBlocked(goal[g])) ELSE goal
        /\ Goto(t, Visited(t, "reeval", g))
        /\ UNCHANGED <<node, task, merge, spent>>

ReevalEnd(t) ==
    /\ thread[t].pc = "reeval" /\ Listed(thread[t].rows) = {}
    /\ Goto(t, [Rest EXCEPT !.pc = "reroute",
                            !.rows = SelectStatus(Active \cup {"blocked"})])
    /\ UNCHANGED <<goal, node, task, merge, spent>>

Worn(nd) == nd.status = "failed" /\ nd.attempts >= 2

\* reroute_repeated_failures, one goal: worn nodes lose their pin and go back
\* to pending; attempts and stamp stay.
RerouteGoal(t) ==
    LET g == FirstListed(thread[t].rows)
    IN  /\ thread[t].pc = "reroute" /\ Listed(thread[t].rows) # {}
        /\ node' = IF thread[t].rows[g].human THEN node
                   ELSE [node EXCEPT ![g] = [n \in NodeIds |->
                           IF Worn(@[n]) THEN [@[n] EXCEPT !.agent = Unpinned,
                                                           !.status = "pending"]
                           ELSE @[n]]]
        /\ Goto(t, Visited(t, "reroute", g))
        /\ UNCHANGED <<goal, task, merge, spent>>

RerouteEnd(t) ==
    /\ thread[t].pc = "reroute" /\ Listed(thread[t].rows) = {}
    /\ Goto(t, Rest)
    /\ UNCHANGED <<goal, node, task, merge, spent>>

Heal(t) ==
    \/ HealBegin(t)
    \/ ReevalGoal(t)
    \/ ReevalEnd(t)
    \/ RerouteGoal(t)
    \/ RerouteEnd(t)

-----------------------------------------------------------------------------
(* The world: tasks end, stamps pass, limits expire. *)

TaskEnd(k) ==
    /\ k \in DOMAIN task /\ task[k].result = "running"
    /\ \E result \in Results : task' = [task EXCEPT ![k].result = result]
    /\ UNCHANGED <<goal, node, merge, thread, spent>>

StampPasses(g, n) ==
    /\ node[g][n].held
    /\ node' = [node EXCEPT ![g][n].held = FALSE]
    /\ UNCHANGED <<goal, task, merge, thread, spent>>

\* max_minutes and max_capacity_wait_minutes since created_at, and the hour
\* after an amendment.
ClockPasses(g) ==
    /\ goal[g].status # "absent"
    /\ \/ /\ "late" \in Clocks /\ ~goal[g].late
          /\ goal' = [goal EXCEPT ![g].late = TRUE]
       \/ /\ "wait_late" \in Clocks /\ ~goal[g].wait_late
          /\ goal' = [goal EXCEPT ![g].wait_late = TRUE]
       \/ /\ "human" \in Clocks /\ goal[g].human
          /\ goal' = [goal EXCEPT ![g].human = FALSE]
    /\ UNCHANGED <<node, task, merge, thread, spent>>

Pass(t) ==
    \/ TickBegin(t)
    \/ SettleRead(t)
    \/ SettleWrite(t)
    \/ Supervise(t)
    \/ TickList(t)
    \/ TickEnd(t)
    \/ TickGoal(t)
    \/ IntegratorEnd(t)
    \/ Dispatch(t)
    \/ PlanDone(t)
    \/ PlanError(t)
    \/ ResumeList(t)
    \/ ResumeGoal(t)
    \/ ResumeEnd(t)

Request ==
    \/ \E t \in Handlers, g \in Goals : Submit(t, g) \/ Amend(t, g) \/ Resume(t, g)
    \/ \E g \in Goals : Cancel(g)
    \/ \E i \in 1..MaxTasks : ResolveMerge(i)

World ==
    \/ \E k \in TaskIds : TaskEnd(k)
    \/ \E g \in Goals, n \in NodeIds : StampPasses(g, n)
    \/ \E g \in Goals : ClockPasses(g)
    \/ Restart

Next ==
    \/ \E t \in Threads : Pass(t) \/ Heal(t)
    \/ Request
    \/ World

Spec == Init /\ [][Next]_vars
=============================================================================
