------------------------------ MODULE Orchestrate ------------------------------
(***************************************************************************)
(* Several agents on one request: crates/single-runtime/src/orchestrate.rs   *)
(* (a relay in one worktree, a parallel batch) and orchestrate_graph.rs      *)
(* (waves of a dependency graph, given or made by a planning agent).  Each   *)
(* step is a foreground task run, see TaskRunner.tla, of which only the row  *)
(* and the answer of its thread are kept.                                    *)
(***************************************************************************)
EXTENDS Integers, FiniteSets, Sequences

CONSTANTS
    Nodes,          \* steps of a relay, tasks of a batch, nodes of a graph
    Missing,        \* an id that no node has
    Order,          \* the sequence of the nodes in the request
    Graphs,         \* graphs that may be asked for: depends_on and run_if
    Modes           \* relay, parallel, fixed, planned

VARIABLES
    mode, graph,    \* the request
    at,             \* where the request's thread is
    task,           \* each node's row, none before it exists
    worker,         \* each node's thread; held: a helper of its agent keeps it,
                    \* or of another that has the slot, see TaskRunner.tla
    completed,      \* nodes whose record the request's thread has
    joining         \* nodes of the wave it has yet to join

orchVars == <<mode, graph, at, task, worker, completed, joining>>

Ended == {"completed", "failed", "cancelled"}

Init ==
    /\ mode \in Modes
    /\ graph \in (IF mode \in {"fixed", "planned"} THEN Graphs
                  ELSE {[n \in Nodes |-> [depends_on |-> {}, run_if |-> "always"]]})
    /\ at = IF mode = "planned" THEN "plan" ELSE "start"
    /\ task = [n \in Nodes |-> "none"]
    /\ worker = [n \in Nodes |-> "none"]
    /\ completed = {}
    /\ joining = {}

Request == <<mode, graph>>
Goes(to) == at' = to
Unmet(n) == graph[n].depends_on \ completed
Remaining == {n \in Nodes : task[n] = "none" /\ worker[n] = "none"}

-----------------------------------------------------------------------------
(* Before anything is started. *)

\* plan_and_run: the first installed candidate plans, and must answer in time
\* with an array of nodes for the other candidates.
Plan ==
    /\ at \in {"plan", "held"}
    /\ \E to \in {"start", "error"} : Goes(to)
    /\ UNCHANGED <<Request, task, worker, completed, joining>>

PlanHeld ==
    /\ at = "plan"
    /\ Goes("held")
    /\ UNCHANGED <<Request, task, worker, completed, joining>>

\* visit: depth first, a node that is on the stack closes a cycle.
Reaches[n \in Nodes, depth \in 0..Cardinality(Nodes)] ==
    IF depth = 0 THEN {}
    ELSE LET deps == graph[n].depends_on \cap Nodes
         IN  deps \cup UNION {Reaches[d, depth - 1] : d \in deps}
Cyclic == \E n \in Nodes : n \in Reaches[n, Cardinality(Nodes)]
Valid == (\A n \in Nodes : Missing \notin graph[n].depends_on) /\ ~Cyclic

\* Not a repository, or a graph that is none: no row, no worktree.
Refused ==
    /\ at = "start"
    /\ Goes("error")
    /\ UNCHANGED <<Request, task, worker, completed, joining>>

Started ==
    /\ at = "start" /\ (mode \in {"fixed", "planned"} => Valid)
    /\ Goes(IF mode = "relay" THEN "step" ELSE "wave")
    /\ UNCHANGED <<Request, task, worker, completed, joining>>

-----------------------------------------------------------------------------
(* The relay: one after the other, in the request's thread. *)

Place(n) == CHOOSE i \in DOMAIN Order : Order[i] = n
Turn(n, among) == n \in among /\ \A m \in among : Place(n) <= Place(m)

Relay(n) ==
    /\ at = "step" /\ Turn(n, Nodes \ completed)
    /\ worker' = [worker EXCEPT ![n] = "busy"]
    /\ Goes("relaying")
    /\ UNCHANGED <<Request, task, completed, joining>>

\* A failed step stops the relay, a cancelled one does not.
Relayed(n) ==
    /\ at = "relaying" /\ n \notin completed /\ worker[n] = "ok"
    /\ completed' = completed \cup {n}
    /\ Goes(IF task[n] = "failed" THEN "done" ELSE "step")
    /\ UNCHANGED <<Request, task, worker, joining>>

RelayBreaks(n) ==
    /\ at = "relaying" /\ n \notin completed /\ worker[n] = "err"
    /\ Goes("error")
    /\ UNCHANGED <<Request, task, worker, completed, joining>>

\* An event that cannot be written, before a step of the relay, behind it or at the
\* end of it, or at the end of a batch.
EventFails ==
    /\ \/ at = "step"
       \/ at = "relaying" /\ \E n \in Nodes \ completed : worker[n] = "ok"
       \/ at = "finish" /\ mode = "parallel"
    /\ Goes("error")
    /\ UNCHANGED <<Request, task, worker, completed, joining>>

-----------------------------------------------------------------------------
(* The graph, and the batch, which is a graph of one wave. *)

ReadyOrNot == Remaining
Ready == {n \in Remaining : Unmet(n) = {}}

ShouldRun(n) ==
    LET statuses == {task[d] : d \in graph[n].depends_on}
    IN  \/ graph[n].run_if = "always"
        \/ graph[n].run_if = "on_success" /\ statuses \subseteq {"completed"}
        \/ graph[n].run_if = "on_failure" /\ "failed" \in statuses

\* Ready nodes are skipped, as cancelled rows, or get a thread each.  A wave of
\* none is an error of its own.
Wave ==
    /\ at = "wave"
    /\ LET runnable == {n \in Ready : ShouldRun(n)}
       IN  /\ task' = [n \in Nodes |-> IF n \in Ready \ runnable THEN "cancelled"
                                       ELSE task[n]]
           /\ worker' = [n \in Nodes |-> IF n \in runnable THEN "busy" ELSE worker[n]]
           /\ completed' = completed \cup (Ready \ runnable)
           /\ joining' = runnable
    /\ Goes(IF Ready = {} THEN "no runnable nodes" ELSE "join")
    /\ UNCHANGED Request

\* The row of a skipped node cannot be written: some others have theirs, and
\* nothing of the wave is started.
WaveBreaks ==
    /\ at = "wave"
    /\ LET skipped == {n \in Ready : ~ShouldRun(n)}
       IN  /\ skipped # {}
           /\ \E some \in SUBSET skipped :
                  task' = [n \in Nodes |-> IF n \in some THEN "cancelled" ELSE task[n]]
    /\ Goes("error")
    /\ UNCHANGED <<Request, worker, completed, joining>>

\* Threads are joined in the order of the request.
Join(n) ==
    /\ at = "join" /\ Turn(n, joining) /\ worker[n] = "ok"
    /\ completed' = completed \cup {n}
    /\ joining' = joining \ {n}
    /\ UNCHANGED <<Request, at, task, worker>>

\* A graph ends with the first error that is met; a batch goes on.
JoinFails(n) ==
    /\ at = "join" /\ Turn(n, joining) /\ worker[n] = "err"
    /\ IF mode = "parallel" THEN joining' = joining \ {n} /\ UNCHANGED at
       ELSE Goes("error") /\ UNCHANGED joining
    /\ UNCHANGED <<Request, task, worker, completed>>

Joined ==
    /\ at = "join" /\ joining = {}
    /\ Goes(IF Remaining = {} THEN "finish" ELSE "wave")
    /\ UNCHANGED <<Request, task, worker, completed, joining>>

Finish ==
    /\ \/ at = "finish"
       \/ at = "step" /\ completed = Nodes
    /\ Goes(IF completed = {} THEN "error" ELSE "done")
    /\ UNCHANGED <<Request, task, worker, completed, joining>>

-----------------------------------------------------------------------------
(* The threads: task::run, see TaskRunner.tla. *)

\* Unknown agent, not installed, the database is locked: no row.
NoRow(n) ==
    /\ worker[n] = "busy" /\ task[n] = "none"
    /\ worker' = [worker EXCEPT ![n] = "err"]
    /\ UNCHANGED <<Request, at, task, completed, joining>>

Row(n) ==
    /\ worker[n] = "busy" /\ task[n] = "none"
    /\ task' = [task EXCEPT ![n] = "running"]
    /\ UNCHANGED <<Request, at, worker, completed, joining>>

\* The row stays running when the thread breaks after it was written.
TaskEnds(n) ==
    /\ worker[n] \in {"busy", "held"} /\ task[n] = "running"
    /\ \/ /\ \E s \in Ended : task' = [task EXCEPT ![n] = s]
          /\ worker' = [worker EXCEPT ![n] = "ok"]
       \/ /\ worker' = [worker EXCEPT ![n] = "err"]
          /\ UNCHANGED task
    /\ UNCHANGED <<Request, at, completed, joining>>

TaskHeld(n) ==
    /\ worker[n] = "busy" /\ task[n] = "running"
    /\ worker' = [worker EXCEPT ![n] = "held"]
    /\ UNCHANGED <<Request, at, task, completed, joining>>

Coordinates == \/ Plan \/ Refused \/ Started \/ Wave \/ WaveBreaks \/ Joined
               \/ Finish \/ EventFails
               \/ \E n \in Nodes : \/ Relay(n) \/ Relayed(n) \/ RelayBreaks(n)
                                  \/ Join(n) \/ JoinFails(n)
Works(n) == NoRow(n) \/ Row(n) \/ TaskEnds(n)
Next == Coordinates \/ PlanHeld \/ \E n \in Nodes : Works(n) \/ TaskHeld(n)

\* An agent ends by itself or by its timeout, unless it is held up.
PlansOn == at # "held" /\ Coordinates
WorksOn(n) == worker[n] # "held" /\ Works(n)
Fairness == WF_orchVars(PlansOn) /\ \A n \in Nodes : WF_orchVars(WorksOn(n))
Spec == Init /\ [][Next]_orchVars /\ Fairness

-----------------------------------------------------------------------------
(* Properties. *)

\* A graph that was let through never comes to a point where nodes remain and
\* none is ready, whatever is skipped, fails or is cancelled on the way (the
\* guard in run, retained against later edits), and every request ends that is
\* not held up for ever by an agent it has started.
HeldUp == at = "held" \/ \E n \in Nodes : worker[n] = "held"
RequestEnds == []<>(at \in {"done", "error"} \/ HeldUp)

\* A request that returns records returns them for settled work: nothing it has
\* started is still going, a graph has one record for each node, and whether a
\* node ran or was skipped agrees with how what it depends on has ended.
Settled ==
    at = "done" =>
        /\ \A n \in Nodes : worker[n] \notin {"busy", "held"}
        /\ mode \in {"fixed", "planned"} => completed = Nodes
        /\ mode \in {"fixed", "planned"} =>
               \A n \in Nodes : worker[n] = "ok" <=> ShouldRun(n)
        /\ \A n \in completed : task[n] \in Ended

\* NOT TRUE.  The batch "runs the pieces at the same time and reports what happened"
\* (orchestrate.rs): an answer that is no error has all its pieces.
BatchReported == at = "done" /\ mode = "parallel" => completed = Nodes
=============================================================================
