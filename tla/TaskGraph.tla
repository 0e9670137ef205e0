------------------------------ MODULE TaskGraph ------------------------------
(***************************************************************************)
(* The task graph of a goal: crates/single-runtime/src/coordinator/graph.rs *)
(* A graph maps every possible node id to a node row; an id without a row  *)
(* has status "absent".  Ids are numbered in the order of the ids in the   *)
(* code ("s1" < "s2" < ...), which is what the scheduler's tie-break uses. *)
(***************************************************************************)
EXTENDS Integers, FiniteSets

CONSTANTS
    NumNodes,   \* ids a graph may use (the planner is asked for 2 to 8)
    Agents,     \* agent names a node can be pinned to
    Pieces      \* rows the supervisor may put in place of a split node

Unpinned == "unpinned"                  \* the empty `agent` column
NodeIds == 1..NumNodes

ASSUME TaskGraphAssumption ==
    /\ NumNodes \in Nat \ {0}
    /\ Unpinned \notin Agents

NodeStatus ==
    {"absent", "pending", "running", "done", "failed", "skipped", "blocked"}

\* `kind` keeps only what the coordinator tells apart (a review or not), and
\* `held` stands for an earliest_retry_at_ms that lies in the future.
Node ==
    [status : NodeStatus, deps : SUBSET NodeIds, agent : Agents \cup {Unpinned},
     kind : {"code", "review"}, effort : 0..2, worktree : BOOLEAN,
     task : Nat, attempts : Nat, held : BOOLEAN]

Graphs == [NodeIds -> Node]

\* A graph as the planner answers with: nothing has run yet.
Fresh(gr) ==
    gr \in Graphs /\ \A n \in NodeIds : /\ gr[n].status \in {"absent", "pending"}
                                       /\ gr[n].attempts = 0

\* The rows of a split are taken as the supervisor wrote them, with any status, task
\* and attempts.
ASSUME PiecesAssumption == Pieces \subseteq Graphs

\* Row n may be one of a split: it has the status and the task that were written.
Given(row, n) ==
    \E piece \in Pieces : piece[n].status = row.status /\ piece[n].task = row.task

\* A node as specs_to_graph builds it.
NewNode(deps, agent, kind, effort) ==
    [status |-> "pending", deps |-> deps, agent |-> agent, kind |-> kind,
     effort |-> effort, worktree |-> kind = "code",
     task |-> 0, attempts |-> 0, held |-> FALSE]

NoNode == [NewNode({}, Unpinned, "code", 0) EXCEPT !.status = "absent"]
\* The graph whose i-th row is rows[i].
GraphOf(rows) == [n \in NodeIds |-> IF n \in DOMAIN rows THEN rows[n] ELSE NoNode]
NoGraph == GraphOf(<<>>)

Members(gr) == {n \in NodeIds : gr[n].status # "absent"}

-----------------------------------------------------------------------------
(* Readiness and ordering. *)

\* A dependency without a row is never met.
DepsMet(gr, n) == \A d \in gr[n].deps : gr[d].status \in {"done", "skipped"}

ReadySetIgnoringDeps(gr) ==
    {n \in NodeIds : gr[n].status = "pending" /\ ~gr[n].held}

ReadySetWithRunning(gr) ==
    {n \in NodeIds : /\ gr[n].status \in {"pending", "running"}
                     /\ ~gr[n].held /\ DepsMet(gr, n)}

ReadySet(gr) ==
    {n \in NodeIds : gr[n].status = "pending" /\ ~gr[n].held /\ DepsMet(gr, n)}

Terminal == {"done", "failed", "skipped", "blocked"}

NonePending(gr) == \A n \in Members(gr) : gr[n].status # "pending"

AllTerminal(gr) == \A n \in Members(gr) : gr[n].status \in Terminal

HasFailure(gr) == \E n \in NodeIds : gr[n].status = "failed"
AnyDone(gr) == \E n \in NodeIds : gr[n].status = "done"

\* Chains(gr)[k]: the nodes that head a chain of k dependents.
Chains(gr) ==
    LET f[k \in 0..NumNodes] ==
            IF k = 0 THEN Members(gr)
            ELSE {n \in Members(gr) : \E m \in f[k - 1] : n \in gr[m].deps}
    IN  f

\* The longest chain of dependents rooted at n.  On a dependency cycle the
\* code's recursion does not return; here the depth stops at NumNodes.
CriticalPathDepth(gr, n) ==
    LET on == {k \in 0..NumNodes : n \in Chains(gr)[k]}
    IN  CHOOSE k \in on : \A j \in on : j <= k

\* Admission order: longest chain first, then the cheaper effort, then the id.
Before(gr, a, b) ==
    LET da == CriticalPathDepth(gr, a)
        db == CriticalPathDepth(gr, b)
    IN  \/ da > db
        \/ da = db /\ gr[a].effort < gr[b].effort
        \/ da = db /\ gr[a].effort = gr[b].effort /\ a < b

\* The one node of S that is admitted first.
FirstOf(gr, S) == {a \in S : \A b \in S \ {a} : Before(gr, a, b)}

-----------------------------------------------------------------------------
(* Supervisor edits (apply_patch).  Each is partial: an op that names a node *)
(* without a row makes the whole patch fail.                                *)

Retarget(gr, n, kind, agent) ==
    [gr EXCEPT ![n] = [@ EXCEPT !.status = "pending", !.task = 0,
                                !.kind = kind, !.agent = agent]]

Rewired(deps, n, piece) ==
    IF n \in deps THEN (deps \ {n}) \cup Members(piece) ELSE deps

\* The new rows may clash with rows that stay: save_graph's INSERT then fails.
SplitClash(gr, n, piece) == (Members(piece) \cap Members(gr)) \ {n} # {}

Split(gr, n, piece) ==
    [m \in NodeIds |->
        IF m \in Members(piece) THEN piece[m]
        ELSE IF m = n THEN NoNode
        ELSE [gr[m] EXCEPT !.deps = Rewired(@, n, piece)]]

MarkOptionalAsDone(gr, n) ==
    IF gr[n].status = "running" THEN gr ELSE [gr EXCEPT ![n].status = "done"]

MarkOptional(gr, n) ==
    IF gr[n].status \in {"done", "running"} THEN gr
    ELSE [gr EXCEPT ![n].status = "skipped"]

AddDependency(gr, n, on) == [gr EXCEPT ![n].deps = @ \cup {on}]

BlockNode(gr, n) == [gr EXCEPT ![n].status = "blocked"]

\* The graphs that one patch op on a node of S turns gr into.
Retargets(gr, S) ==
    UNION {{Retarget(gr, n, kind, agent) : kind \in {"code", "review"},
                                           agent \in Agents \cup {gr[n].agent}} : n \in S}
Splits(gr, S) ==
    {Split(gr, np[1], np[2]) : np \in {np \in S \X Pieces : ~SplitClash(gr, np[1], np[2])}}
Optionals(gr, S) == {MarkOptional(gr, n) : n \in S}
Dependents(gr, S) == {AddDependency(gr, n, on) : n \in S, on \in Members(gr)}
Blocks(gr, S) == {BlockNode(gr, n) : n \in S}

Edits(gr, scope) ==
    LET S == Members(gr) \cap scope
    IN  Retargets(gr, S) \cup Splits(gr, S) \cup Optionals(gr, S)
        \cup Dependents(gr, S) \cup Blocks(gr, S)
=============================================================================
