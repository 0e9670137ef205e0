--------------------------- MODULE CoordinatorProps ---------------------------
(***************************************************************************)
(* What the coordinator promises, stated over Coordinator.tla.              *)
(***************************************************************************)
EXTENDS Coordinator

TaskRow == [goal : Goals, node : NodeIds, result : {"running", "failed"} \cup Results]
MergeRow == [goal : Goals, review : NodeIds, dep : NodeIds, task : Nat,
             status : {"pending", "confirmed", "rejected"}, landed : BOOLEAN]

\* Every table and every thread holds values of its columns.
TypeOK ==
    /\ goal \in [Goals -> GoalRow]
    /\ node \in [Goals -> Graphs]
    /\ task \in Seq(TaskRow)
    /\ merge \in Seq(MergeRow)
    /\ thread \in [Threads -> Local]
    /\ spent \in [requests : Nat, crashes : Nat, heals : Nat]

-----------------------------------------------------------------------------
(* What holds however passes overlap. *)

TaskOf(k, g, n) ==
    /\ k \in DOMAIN task
    /\ task[k].goal = g
    /\ task[k].node = n

BoundTo(gr, g) ==
    \A n \in NodeIds : gr[n].status = "running" => TaskOf(gr[n].task, g, n) \/ Given(gr[n], n)

\* A node that is marked running points at a task row started for that very
\* node: no node waits for a task that does not exist or is another node's,
\* although graphs are saved from copies read before an agent was asked; only the
\* supervisor itself can write such a row, into a split.
RunningHasTask == \A g \in Goals : BoundTo(node[g], g)

Tried(row, n) == row.attempts <= 2 \/ \E piece \in Pieces : row.attempts = piece[n].attempts

\* Outside careful mode a node's attempts are never counted above 2, whoever counts
\* them: the settle of a failed task, or the reconcile after a restart.  A row of a
\* split that the supervisor wrote with more keeps what it has.
AttemptsBounded ==
    \A g \in Goals \ Careful, n \in NodeIds : Tried(node[g][n], n)

Supervisors == {t \in Threads : thread[t].pc = "supervising"}
Recorders == {t \in Threads : thread[t].pc = "record"}

\* The inductive form of RunningHasTask: the copies that will be saved point at
\* their tasks too, and a task that was started waits for its own node.
BoundInv ==
    /\ TypeOK
    /\ RunningHasTask
    /\ \A t \in Supervisors : BoundTo(thread[t].graph, thread[t].g)
    /\ \A t \in Recorders : TaskOf(thread[t].k, thread[t].g, thread[t].n)

\* The inductive form of AttemptsBounded.
AttemptsInv ==
    /\ TypeOK
    /\ AttemptsBounded
    /\ \A t \in Supervisors :
          /\ thread[t].g \notin Careful
          /\ \A n \in NodeIds : Tried(thread[t].graph[n], n)

Drivers == {Timer} \cup Handlers

\* The supervisor cap is compared with a count read earlier, so passes that
\* overlap can exceed it, by at most one patch for each further driver.
PatchOvershoot ==
    \A g \in Goals : goal[g].supervisor_patches <= MaxPatches + Cardinality(Drivers) - 1

AllCaps == Caps \cup {MaxDispatches, DefaultDispatches}
HighestCap == CHOOSE c \in AllCaps : \A d \in AllCaps : d <= c

\* Likewise the dispatch budget: it can be exceeded by what the drivers admit
\* against it at once.
DispatchOvershoot ==
    \A g \in Goals :
        goal[g].dispatches <= HighestCap - 1 + MaxParallel * Cardinality(Drivers)

\* The counted caps of a goal, on patches and on dispatches, hold up to what
\* overlapping drivers can add, and no further.
CapsOvershoot == PatchOvershoot /\ DispatchOvershoot

Started(g) == {k \in DOMAIN task : task[k].goal = g}
Recording(g) == {t \in Recorders : thread[t].g = g}

\* Every task the coordinator starts is charged to its goal: what is not yet
\* counted is being recorded, or was lost with a thread in a crash.
StartsCharged ==
    \A g \in Goals :
        LET uncounted == Cardinality(Started(g)) - goal[g].dispatches
        IN  /\ uncounted >= Cardinality(Recording(g))
            /\ uncounted <= Cardinality(Recording(g))
                            + spent.crashes * Cardinality(Drivers)

\* What a goal spends is known and bounded: its caps are exceeded by overlapping
\* drivers only, and no start of a task goes uncharged.
SpendingBounded == CapsOvershoot /\ StartsCharged

Healers == {Healer} \cup Handlers

\* The cap on automatic re-evaluations is compared with the row as listed, so
\* passes that overlap can exceed it by one for each further healing thread.
ReevalOvershoot ==
    \A g \in Goals : goal[g].auto_reevals <= MaxReevals + Cardinality(Healers) - 1

\* A goal that a clean stop has paused is one the new daemon has yet to visit:
\* no goal stays paused once interrupted work has been resumed, although clients
\* and the timer change goals at the same time.
PausedIsResumed ==
    \A g \in Goals : goal[g].status = "paused" =>
        LET local == thread[Healer]
        IN  \/ local.pc = "resume_list"
           \/ /\ local.pc \in {"resume", "planning"}
              /\ g \in Listed(local.rows)

-----------------------------------------------------------------------------
(* What holds while only the timer drives: no request is in a drive. *)

\* Nodes the dispatcher has set running; a split may bring others.
OwnRunning == {gn \in RunningNodes : ~Given(node[gn[1]][gn[2]], gn[2])}

\* The global ceiling on running nodes, across all goals: the dispatcher never adds
\* one above it, whatever a split has brought.
ParallelCap == Cardinality(OwnRunning) <= MaxParallel

Live(g, n) == {k \in DOMAIN task : /\ task[k].result = "running"
                                   /\ task[k].goal = g /\ task[k].node = n}

\* No node is worked on by two agents at once.
OneAgentPerNode == \A g \in Goals, n \in NodeIds : Cardinality(Live(g, n)) <= 1

\* A node runs only when all it depends on is done or skipped, unless the supervisor
\* wrote it as running.
DepsBeforeNode ==
    \A g \in Goals, n \in NodeIds :
        node[g][n].status = "running" => DepsMet(node[g], n) \/ Given(node[g][n], n)

EndedWell(k) == k \in DOMAIN task /\ task[k].result \in Completed

\* A node is done only by a task that completed, unless the supervisor wrote it as done.
DoneByCompletedTask ==
    \A g \in Goals \ Careful, n \in NodeIds :
        node[g][n].status = "done" => EndedWell(node[g][n].task) \/ Given(node[g][n], n)

\* The result of a completed task is kept: its node is done, or about to be.
ResultKept ==
    \A k \in DOMAIN task :
        LET nd == node[task[k].goal][task[k].node]
        IN  /\ task[k].result \in Completed
            /\ task[k].goal \notin Careful
            /\ spent.crashes = 0
            => \/ nd.task = k /\ nd.status \in {"running", "done"}
               \/ \E t \in Recording(task[k].goal) : thread[t].k = k

\* The node a merge is offered for came from a split, with its task written there.
GivenWork(row) ==
    \E piece \in Pieces : /\ piece[row.dep].status \in {"running", "done"}
                           /\ piece[row.dep].task = row.task

\* A merge is only offered for work that completed, and a review that passed
\* offers each branch once, however often the tick comes back to its goal.
OffersSound ==
    /\ \A i \in DOMAIN merge :
          \/ EndedWell(merge[i].task) /\ task[merge[i].task].node = merge[i].dep
          \/ GivenWork(merge[i])
    /\ \A i, j \in DOMAIN merge :
          /\ merge[i].review = merge[j].review
          /\ merge[i].task = merge[j].task
          => i = j \/ GivenWork(merge[i]) \/ GivenWork(merge[j])

\* No work is done twice and none is lost between the start of a task and the
\* writes that record it.
NoWorkTwiceOrLost == OneAgentPerNode /\ ResultKept

\* What counts as done, and what is offered for a merge, is the work of a task
\* that completed, once.
OnlyCompletedCounts == DoneByCompletedTask /\ OffersSound

\* A goal is done only when nothing of it is left: no node still to run or
\* running, and no agent still at work, whichever goals were settled meanwhile.
DoneMeansFinished ==
    \A g \in Goals : goal[g].status = "done" =>
        \A n \in NodeIds : /\ node[g][n].status \notin {"pending", "running"}
                            /\ Live(g, n) = {}

-----------------------------------------------------------------------------
(* What must happen, under the condition that every task ends and every      *)
(* agent that plans, supervises or integrates comes back.  The timeout of a  *)
(* run brings that about unless a helper of the agent keeps its pipes open   *)
(* (TaskRunner: Delayed; AgentRun: EndsByDeadline).  Besides, each thread    *)
(* keeps taking steps, a stamp passes, and a node that is considered again   *)
(* and again finds an agent some time.                                       *)

FairSpec ==
    /\ Spec
    /\ \A t \in Threads : WF_vars(Pass(t)) /\ WF_vars(Heal(t))
    /\ SF_vars(DispatchStart(Timer))
    /\ \A k \in TaskIds : WF_vars(TaskEnd(k))
    /\ \A g \in Goals, n \in NodeIds : WF_vars(StampPasses(g, n))

\* Nothing runs, nothing is ready or held, and yet not every node is terminal:
\* what is pending waits for a node that failed or was blocked.
Stuck(g) ==
    /\ ~AllTerminal(node[g])
    /\ \A n \in NodeIds :
         /\ node[g][n].status # "running"
         /\ node[g][n].status = "pending" => ~DepsMet(node[g], n)

\* A planned goal comes to an end, or asks for a decision, or is stuck behind
\* a node that will not complete: it is never left with work it could do.
GoalSettles ==
    \A g \in Preplanned :
        <>[](goal[g].status \in {"done", "failed", "blocked", "cancelled"} \/ Stuck(g))

\* A running node whose task has ended does not stay running, unless its goal
\* has given up on capacity.
EndedTaskSettled ==
    \A g \in Goals, n \in NodeIds :
        /\ node[g][n].status = "running"
        /\ task[node[g][n].task].result # "running"
        ~> \/ node[g][n].status # "running"
           \/ goal[g].blocked_reason = "capacity"

\* Nothing waits for ever that could go on, neither a goal nor a node, as long as
\* the tasks themselves come to an end.
NothingWaits == GoalSettles /\ EndedTaskSettled

-----------------------------------------------------------------------------
(* What comments of the code say and the code does not do. *)

\* NOT TRUE.  scheduler.rs: "a goal whose nodes are all terminal should integrate, not
\* block".
BudgetBlockHasWork ==
    \A g \in Goals :
        goal[g].status = "blocked" /\ goal[g].blocked_reason = "budget"
            => ~AllTerminal(node[g])

\* NOT TRUE.  GoalCancel sets the goal cancelled; no client asks for anything else here.
CancelSticks ==
    [][\A g \in Goals : goal[g].status = "cancelled" => goal'[g].status = "cancelled"]_vars

\* NOT TRUE.  self_heal/coordinator.rs: a goal blocked for capacity or by the supervisor for
\* longer than blocked_reeval_minutes "is moved back to `Running`".
BlockedIsReevaluated ==
    \A g \in Goals :
        /\ goal[g].status = "blocked"
        /\ goal[g].blocked_reason \in {"capacity", "supervisor"}
        /\ goal[g].auto_reevals < MaxReevals
        ~> goal[g].status # "blocked"

\* NOT TRUE.  self_heal/coordinator.rs: a node reset to pending is routed again by "the next
\* tick's `select_agent`" instead of "sitting dead forever".  A pass that listed the goal
\* before it was done resets the node of a goal that nobody visits any more.
ReroutedIsTried ==
    \A g \in Goals : goal[g].status = "done" => \A n \in NodeIds : node[g][n].status # "pending"
=============================================================================
