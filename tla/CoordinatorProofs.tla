--------------------------- MODULE CoordinatorProofs ---------------------------
(***************************************************************************)
(* Proofs about the coordinator: for any number of goals, nodes, agents,    *)
(* connections, for every plan and every bound.                             *)
(***************************************************************************)
EXTENDS CoordinatorProps, FiniteSetTheorems, SequenceTheorems,
        WellFoundedInduction, TLAPS

-----------------------------------------------------------------------------
(* Rows: what each UPDATE leaves is a row of its table again. *)

LEMMA GoalRowOps ==
    ASSUME NEW r \in GoalRow
    PROVE  /\ \A s \in GoalStatus : SetStatus(r, s) \in GoalRow
           /\ \A why \in {"budget", "capacity", "supervisor", "other"} :
                 SetBlocked(r, why) \in GoalRow
           /\ SetWaitingOnCapacity(r) \in GoalRow
           /\ ResumeStatus(r) \in GoalRow
           /\ ReevaluateBlocked(r) \in GoalRow
           /\ BumpDispatches(r) \in GoalRow
           /\ BumpPatches(r) \in GoalRow
           /\ [r EXCEPT !.age = @ + 1] \in GoalRow
<1>1. \A s \in GoalStatus : SetStatus(r, s) \in GoalRow
      BY DEF GoalRow, SetStatus
<1>2. \A why \in {"budget", "capacity", "supervisor", "other"} :
         SetBlocked(r, why) \in GoalRow
      BY DEF GoalRow, SetBlocked, GoalStatus
<1>. /\ r.capacity_waits + 1 \in Nat
     /\ r.auto_reevals + 1 \in Nat
     /\ r.dispatches + 1 \in Nat
     /\ r.supervisor_patches + 1 \in Nat
     /\ r.age + 1 \in Nat
      BY DEF GoalRow
<1>3. SetWaitingOnCapacity(r) \in GoalRow
      BY ZenonT(30) DEF GoalRow, SetWaitingOnCapacity, GoalStatus
<1>4. ResumeStatus(r) \in GoalRow /\ ReevaluateBlocked(r) \in GoalRow
      BY ZenonT(30) DEF GoalRow, ResumeStatus, ReevaluateBlocked, GoalStatus
<1>5. BumpDispatches(r) \in GoalRow /\ BumpPatches(r) \in GoalRow
      BY ZenonT(30) DEF GoalRow, BumpDispatches, BumpPatches
<1>6. [r EXCEPT !.age = @ + 1] \in GoalRow
      BY SMTT(30) DEF GoalRow
<1>. QED  BY <1>1, <1>2, <1>3, <1>4, <1>5, <1>6

LEMMA NewGoalRows == NoGoal \in GoalRow /\ NewGoal \in GoalRow
  BY CoordinatorAssumption DEF NoGoal, NewGoal, GoalRow, GoalStatus

LEMMA AmendedRow ==
    ASSUME NEW r \in GoalRow, NEW kind, NEW cap \in Nat
    PROVE  Amended(r, kind, cap) \in GoalRow
<1>1. Reopened(r) \in GoalRow
      BY DEF GoalRow, Reopened, GoalStatus
<1>2. ASSUME NEW q \in GoalRow
      PROVE  /\ [q EXCEPT !.max_dispatches = cap] \in GoalRow
             /\ [q EXCEPT !.late = FALSE] \in GoalRow
             /\ [q EXCEPT !.capacity_budget = cap, !.age = 0] \in GoalRow
             /\ [q EXCEPT !.wait_late = FALSE] \in GoalRow
             /\ [q EXCEPT !.auto_merge = ~@, !.age = 0] \in GoalRow
      BY DEF GoalRow
<1>. QED  BY <1>1, <1>2 DEF Amended

LEMMA FreshNodes ==
    /\ NoNode \in Node
    /\ \A deps \in SUBSET NodeIds, agent \in Agents \cup {Unpinned},
          kind \in {"code", "review"}, effort \in 0..2 :
             NewNode(deps, agent, kind, effort) \in Node
<1>1. ASSUME NEW deps \in SUBSET NodeIds, NEW agent \in Agents \cup {Unpinned},
             NEW kind \in {"code", "review"}, NEW effort \in 0..2
      PROVE  NewNode(deps, agent, kind, effort) \in Node
  <2>. (kind = "code") \in BOOLEAN /\ 0 \in Nat
       OBVIOUS
  <2>. QED  BY Zenon DEF NewNode, Node, NodeStatus
<1>2. NewNode({}, Unpinned, "code", 0) \in Node
      BY <1>1, 0 \in 0..2
<1>3. NoNode \in Node
      BY <1>2, Zenon DEF NoNode, Node, NodeStatus
<1>. QED  BY <1>1, <1>3

LEMMA FreshNoGraph == Fresh(NoGraph)
  BY FreshNodes DEF Fresh, NoGraph, GraphOf, Graphs, NoNode, NewNode

LEMMA FreshPlans == \A g \in Goals : \A gr \in PlansOf(g) : Fresh(gr)
<1> SUFFICES ASSUME NEW g \in Goals, NEW gr \in PlansOf(g) PROVE Fresh(gr)
    OBVIOUS
<1>1. CASE g \notin Careful
      BY <1>1, CoordinatorAssumption DEF PlansOf
<1>2. CASE g \in Careful
  <2>1. PICK a \in Routes \cup {Unpinned} :
           gr = [NoGraph EXCEPT ![1] = NewNode({}, a, "code", 1)]
        BY <1>2 DEF PlansOf
  <2>2. NewNode({}, a, "code", 1) \in Node
        BY FreshNodes, CoordinatorAssumption
  <2>3. /\ NewNode({}, a, "code", 1).status = "pending"
        /\ NewNode({}, a, "code", 1).attempts = 0
        BY DEF NewNode
  <2>. QED  BY <2>1, <2>2, <2>3, FreshNoGraph DEF Fresh, Graphs
<1>. QED  BY <1>1, <1>2

-----------------------------------------------------------------------------
(* Threads: what a thread holds is typed wherever it goes. *)

LEMMA LocalFields ==
    ASSUME NEW l \in Local
    PROVE  /\ l.finished \in SUBSET Nat /\ l.rows \in [Goals -> GoalRow]
           /\ l.g \in Goals /\ l.n \in NodeIds /\ l.k \in Nat
           /\ l.row \in GoalRow /\ l.graph \in Graphs
           /\ l.ready \in SUBSET NodeIds /\ l.room \in Nat
           /\ l.slots \in [Agents -> Nat] /\ l.tries \in Nat
  BY DEF Local

LEMMA OnesAreIds == 1 \in Goals /\ 1 \in NodeIds
  BY CoordinatorAssumption, TaskGraphAssumption DEF Goals, NodeIds

LEMMA RestLocal == Rest \in Local
<1>1. NoRows \in [Goals -> GoalRow] /\ NoGoal \in GoalRow
      BY NewGoalRows DEF NoRows
<1>2. NoGraph \in Graphs
      BY FreshNoGraph DEF Fresh
<1>3. [a \in Agents |-> 0] \in [Agents -> Nat] /\ 0 \in Nat
      OBVIOUS
<1>4. {} \in SUBSET Nat /\ {} \in SUBSET NodeIds /\ "idle" \in PCs
      BY DEF PCs
<1>. QED  BY <1>1, <1>2, <1>3, <1>4, OnesAreIds, Zenon DEF Rest, Local

LEMMA WithoutRows ==
    ASSUME NEW rows \in [Goals -> GoalRow], NEW g
    PROVE  Without(rows, g) \in [Goals -> GoalRow]
  BY NewGoalRows DEF Without

LEMMA Continuations ==
    ASSUME TypeOK, NEW t \in Threads
    PROVE  /\ thread[t] \in Local
           /\ Settled(t) \in Local
           /\ \A pc \in PCs, g \in Goals : Visited(t, pc, g) \in Local
           /\ Planned(t) \in Local
<1>1. thread[t] \in Local
      BY DEF TypeOK
<1>2. Settled(t) \in Local
  <2>1. thread[t].finished \in SUBSET Nat /\ "settle" \in PCs
        BY <1>1, LocalFields DEF PCs
  <2>. QED  BY <2>1, RestLocal, Zenon DEF Settled, Local
<1>3. ASSUME NEW pc \in PCs, NEW g \in Goals
      PROVE  Visited(t, pc, g) \in Local
  <2>1. Without(thread[t].rows, g) \in [Goals -> GoalRow]
        BY <1>1, LocalFields, WithoutRows
  <2>. QED  BY <2>1, RestLocal, Zenon DEF Visited, Local
<1>4. Planned(t) \in Local
  <2>1. "resume" \in PCs /\ "drive" \in PCs /\ thread[t].g \in Goals
        BY <1>1, LocalFields DEF PCs
  <2>2. [Rest EXCEPT !.pc = "drive"] \in Local
        BY <2>1, RestLocal, Zenon DEF Local
  <2>. QED  BY <1>3, <2>1, <2>2 DEF Planned
<1>. QED  BY <1>1, <1>2, <1>3, <1>4

LEMMA ThreadStep ==
    ASSUME TypeOK, NEW t \in Threads, NEW l \in Local, Goto(t, l)
    PROVE  thread' \in [Threads -> Local]
  BY DEF TypeOK, Goto

LEMMA TableSteps ==
    ASSUME TypeOK, NEW g \in Goals
    PROVE  /\ \A row \in GoalRow : UpdateGoal(g, row) \in [Goals -> GoalRow]
           /\ \A n \in NodeIds, row \in Node :
                 UpdateNode(g, n, row) \in [Goals -> Graphs]
           /\ \A gr \in Graphs : [node EXCEPT ![g] = gr] \in [Goals -> Graphs]
<1>1. goal \in [Goals -> GoalRow] /\ node \in [Goals -> Graphs]
      BY DEF TypeOK
<1>2. \A row \in GoalRow : UpdateGoal(g, row) \in [Goals -> GoalRow]
      BY <1>1 DEF UpdateGoal
<1>3. \A gr \in Graphs : [node EXCEPT ![g] = gr] \in [Goals -> Graphs]
      BY <1>1
<1>4. ASSUME NEW n \in NodeIds, NEW row \in Node
      PROVE  UpdateNode(g, n, row) \in [Goals -> Graphs]
  <2>1. [node[g] EXCEPT ![n] = row] \in Graphs
        BY <1>1 DEF Graphs
  <2>2. [node EXCEPT ![g][n] = row] = [node EXCEPT ![g] = [node[g] EXCEPT ![n] = row]]
        BY <1>1
  <2>. QED  BY <1>1, <1>3, <2>1, <2>2 DEF UpdateNode
<1>. QED  BY <1>2, <1>3, <1>4

LEMMA SelectedRows ==
    ASSUME TypeOK, NEW S
    PROVE  SelectStatus(S) \in [Goals -> GoalRow]
  BY NewGoalRows DEF TypeOK, SelectStatus

\* Goals are numbered, so a non-empty listing has a first one.
LEMMA FirstIsGoal ==
    ASSUME NEW rows, Listed(rows) # {}
    PROVE  FirstListed(rows) \in Listed(rows) /\ FirstListed(rows) \in Goals
<1>1. Listed(rows) \subseteq Nat /\ Listed(rows) \subseteq Goals
      BY CoordinatorAssumption DEF Listed, Goals
<1>. DEFINE less == {gh \in Nat \X Nat : gh[1] < gh[2]}
<1>2. IsWellFoundedOn(less, Nat)
      BY NatLessThanWellFounded DEF OpToRel
<1>3. \E g \in Listed(rows) : \A h \in Listed(rows) : <<h, g>> \notin less
  <2>. HIDE DEF less
  <2>. QED  BY <1>1, <1>2, WFMin
<1>4. \E g \in Listed(rows) : \A h \in Listed(rows) : g <= h
  <2>1. PICK g \in Listed(rows) : \A h \in Listed(rows) : <<h, g>> \notin less
        BY <1>3
  <2>2. ASSUME NEW h \in Listed(rows) PROVE g <= h
    <3>1. g \in Nat /\ h \in Nat
          BY <1>1
    <3>2. ~(h < g)
          BY <2>1, <3>1
    <3>. QED  BY <3>1, <3>2
  <2>. QED  BY <2>2
<1>. QED  BY <1>1, <1>4 DEF FirstListed

LEMMA CapacityTypes ==
    ASSUME NEW g \in Goals
    PROVE  Room(g) \in Nat /\ Slots \in [Agents -> Nat]
<1>1. IsFiniteSet(Goals) /\ IsFiniteSet(NodeIds)
  <2>1. 1 \in Int /\ NumGoals \in Int /\ NumNodes \in Int
        BY CoordinatorAssumption, TaskGraphAssumption
  <2>2. \A a \in Int, b \in Int : IsFiniteSet(a .. b)
        BY FS_Interval
  <2>. QED  BY <2>1, <2>2 DEF Goals, NodeIds
<1>2. IsFiniteSet(Goals \X NodeIds)
      BY <1>1, FS_Product
<1>3. IsFiniteSet(RunningNodes)
      BY <1>2, FS_Subset DEF RunningNodes
<1>4. \A a : IsFiniteSet(RunningOn(a))
      BY <1>3, FS_Subset DEF RunningOn
<1>5. /\ Cardinality(RunningNodes) \in Nat
      /\ \A a : Cardinality(RunningOn(a)) \in Nat
      BY <1>3, <1>4, FS_CardinalityType
<1>6. \A a \in Nat, b \in Nat : Minus(a, b) \in Nat
      BY DEF Minus
<1>. QED  BY <1>5, <1>6, CoordinatorAssumption DEF Room, Slots

-----------------------------------------------------------------------------
(* Graphs: what an edit of the supervisor returns. *)

LEMMA GivenAlike ==
    ASSUME NEW a, NEW b, NEW n, a.status = b.status, a.task = b.task, Given(b, n)
    PROVE  Given(a, n)
  BY DEF Given

\* Every edit yields a graph, and whatever it leaves running it leaves on the
\* same task, unless a split brings it; no edit raises the attempts of a node
\* above those of a split's row.
LEMMA EditedGraphs ==
    ASSUME NEW gr \in Graphs, NEW scope, NEW ed \in Edits(gr, scope)
    PROVE  /\ ed \in Graphs
           /\ \A n \in NodeIds : ed[n].status = "running" =>
                 \/ gr[n].status = "running" /\ ed[n].task = gr[n].task
                 \/ Given(ed[n], n)
           /\ \A n \in NodeIds : \/ ed[n].attempts \in {0, gr[n].attempts}
                                 \/ \E piece \in Pieces : ed[n].attempts = piece[n].attempts
<1>. DEFINE Good(e) ==
        /\ e \in Graphs
        /\ \A n \in NodeIds : e[n].status = "running" =>
              \/ gr[n].status = "running" /\ e[n].task = gr[n].task
              \/ Given(e[n], n)
        /\ \A n \in NodeIds : \/ e[n].attempts \in {0, gr[n].attempts}
                              \/ \E piece \in Pieces : e[n].attempts = piece[n].attempts
<1>. \A n \in NodeIds : gr[n] \in Node
     BY DEF Graphs
<1>1. ASSUME NEW n \in Members(gr), NEW kind \in {"code", "review"},
             NEW agent \in Agents \cup {gr[n].agent}
      PROVE  Good(Retarget(gr, n, kind, agent))
  <2>. DEFINE row == [gr[n] EXCEPT !.status = "pending", !.task = 0,
                                   !.kind = kind, !.agent = agent]
  <2>. n \in NodeIds
       BY DEF Members
  <2>0. gr[n] \in Node
        OBVIOUS
  <2>1. n \in NodeIds /\ agent \in Agents \cup {Unpinned}
        BY <1>1, <2>0 DEF Node
  <2>2. row \in Node
        BY <2>1, 0 \in Nat, Zenon DEF Node, NodeStatus
  <2>3. row.status = "pending" /\ row.attempts = gr[n].attempts
        BY <2>1 DEF Node
  <2>4. Retarget(gr, n, kind, agent) = [gr EXCEPT ![n] = row]
        BY DEF Retarget
  <2>. HIDE DEF row
  <2>. QED  BY <2>1, <2>2, <2>3, <2>4 DEF Graphs
<1>2. ASSUME NEW n \in Members(gr), NEW piece \in Pieces
      PROVE  Good(Split(gr, n, piece))
  <2>1. piece \in Graphs
        BY PiecesAssumption
  <2>2. Members(piece) \subseteq NodeIds /\ n \in NodeIds
        BY DEF Members
  <2>3. \A m \in NodeIds : Rewired(gr[m].deps, n, piece) \in SUBSET NodeIds
        BY <2>2 DEF Rewired, Node
  <2>4. \A m \in NodeIds :
           [gr[m] EXCEPT !.deps = Rewired(@, n, piece)] \in Node
        BY <2>3 DEF Node
  <2>5. Split(gr, n, piece) \in Graphs
        BY <2>1, <2>2, <2>4, FreshNodes DEF Split, Graphs
  <2>6. ASSUME NEW m \in NodeIds
        PROVE  LET e == Split(gr, n, piece) IN
               /\ e[m].status = "running" =>
                     \/ gr[m].status = "running" /\ e[m].task = gr[m].task
                     \/ Given(e[m], m)
               /\ \/ e[m].attempts \in {0, gr[m].attempts}
                  \/ \E given \in Pieces : e[m].attempts = given[m].attempts
    <3>1. CASE m \in Members(piece)
      <4>1. Split(gr, n, piece)[m] = piece[m]
            BY <3>1 DEF Split
      <4>. QED  BY <4>1 DEF Given
    <3>2. CASE m \notin Members(piece) /\ m = n
          BY <3>2 DEF Split, NoNode, NewNode
    <3>3. CASE m \notin Members(piece) /\ m # n
          BY <3>3 DEF Split, Node
    <3>. QED  BY <3>1, <3>2, <3>3
  <2>. QED  BY <2>5, <2>6
<1>3. ASSUME NEW n \in Members(gr) PROVE Good(MarkOptional(gr, n))
      BY <1>3 DEF MarkOptional, Graphs, Node, NodeStatus, Members
<1>4. ASSUME NEW n \in Members(gr), NEW on \in Members(gr)
      PROVE  Good(AddDependency(gr, n, on))
      BY <1>4 DEF AddDependency, Graphs, Node, Members
<1>5. ASSUME NEW n \in Members(gr) PROVE Good(BlockNode(gr, n))
      BY <1>5 DEF BlockNode, Graphs, Node, NodeStatus, Members
<1>6. Good(ed)
  <2>. HIDE DEF Good
  <2>. DEFINE S == Members(gr) \cap scope
  <2>0. /\ S \subseteq Members(gr)
        /\ ed \in Retargets(gr, S) \cup Splits(gr, S) \cup Optionals(gr, S)
                   \cup Dependents(gr, S) \cup Blocks(gr, S)
        BY DEF Edits
  <2>. HIDE DEF S
  <2>1. CASE ed \in Retargets(gr, S)
        BY <2>0, <2>1, <1>1 DEF Retargets
  <2>2. CASE ed \in Splits(gr, S)
    <3>1. PICK np \in S \X Pieces : ed = Split(gr, np[1], np[2])
          BY <2>2 DEF Splits
    <3>2. np[1] \in Members(gr) /\ np[2] \in Pieces
          BY <2>0, <3>1
    <3>. QED  BY <3>1, <3>2, <1>2
  <2>3. CASE ed \in Optionals(gr, S)
        BY <2>0, <2>3, <1>3 DEF Optionals
  <2>4. CASE ed \in Dependents(gr, S)
        BY <2>0, <2>4, <1>4 DEF Dependents
  <2>5. CASE ed \in Blocks(gr, S)
        BY <2>0, <2>5, <1>5 DEF Blocks
  <2>. QED  BY <2>0, <2>1, <2>2, <2>3, <2>4, <2>5
<1>. QED  BY <1>6

LEMMA NodeRowOps ==
    ASSUME NEW nd \in Node
    PROVE  /\ \A s \in NodeStatus : [nd EXCEPT !.status = s] \in Node
           /\ \A i \in Nat : [nd EXCEPT !.status = "pending", !.attempts = i] \in Node
           /\ \A i \in Nat :
                 [nd EXCEPT !.status = "pending", !.task = 0, !.attempts = i] \in Node
           /\ \A a \in Agents \cup {Unpinned} :
                 [nd EXCEPT !.status = "pending", !.held = TRUE, !.agent = a] \in Node
           /\ \A k \in Nat : [nd EXCEPT !.status = "running", !.task = k] \in Node
           /\ [nd EXCEPT !.agent = Unpinned, !.status = "pending"] \in Node
           /\ [nd EXCEPT !.held = FALSE] \in Node
<1>1. {"pending", "running"} \subseteq NodeStatus /\ 0 \in Nat
      BY DEF NodeStatus
<1>. QED  BY <1>1, Zenon DEF Node

LEMMA OfferedRows ==
    ASSUME NEW g \in Goals, NEW n \in NodeIds, NEW gr \in Graphs, NEW row \in GoalRow
    PROVE  OfferRows(g, n, gr, Offers(n, gr, row)) \in Seq(MergeRow)
<1>. DEFINE S == Offers(n, gr, row)
            offered == SetToSeq(S)
<1>1. S \subseteq NodeIds
      BY DEF Offers, Graphs, Node
<1>2. IsFiniteSet(S)
  <2>1. IsFiniteSet(NodeIds)
        BY FS_Interval, TaskGraphAssumption DEF NodeIds
  <2>. QED  BY <1>1, <2>1, FS_Subset
<1>3. Cardinality(S) \in Nat /\ ExistsBijection(1..Cardinality(S), S)
      BY <1>2, FS_CardinalityType
<1>4. offered \in [1..Cardinality(S) -> S]
      BY <1>3 DEF SetToSeq, ExistsBijection, Bijection, Injection, IsInjective
<1>. HIDE DEF S, offered
<1>5. DOMAIN offered = 1..Cardinality(S)
      BY <1>4
<1>6. \A i \in 1..Cardinality(S) :
         /\ offered[i] \in NodeIds
         /\ gr[offered[i]].task \in Nat
      BY <1>1, <1>4 DEF Graphs, Node
<1>7. OfferRows(g, n, gr, S) \in [1..Cardinality(S) -> MergeRow]
      BY <1>5, <1>6 DEF OfferRows, MergeRow, offered
<1>8. OfferRows(g, n, gr, S) \in Seq(MergeRow)
      BY <1>3, <1>7, SeqDef
<1>. QED  BY <1>8 DEF S

-----------------------------------------------------------------------------
(* TypeOK, one lemma for each group of actions. *)

LEMMA SettleWriteTypes ==
    ASSUME TypeOK, NEW t \in Threads, SettleWrite(t)
    PROVE  TypeOK'
<1>. DEFINE g == thread[t].g
            n == thread[t].n
            nd == node[g][n]
<1>1. /\ g \in Goals /\ n \in NodeIds /\ thread[t].row \in GoalRow
      /\ thread[t].tries \in Nat /\ thread[t].finished \in SUBSET Nat
      /\ thread[t].k \in Nat
      BY LocalFields, Continuations
<1>2. goal[g] \in GoalRow /\ node[g] \in Graphs /\ nd \in Node
      BY <1>1 DEF TypeOK, Graphs
<1>3. /\ nd.agent \in Agents \cup {Unpinned} /\ nd.task \in Nat
      /\ thread[t].row.dispatches + 1 \in Nat /\ thread[t].tries + 1 \in Nat
      BY <1>1, <1>2 DEF Node, GoalRow
<1>. USE <1>1, <1>2, <1>3
<1>4. ASSUME NEW row \in Node, node' = UpdateNode(g, n, row)
      PROVE  node' \in [Goals -> Graphs]
      BY <1>4, TableSteps
<1>5. ASSUME NEW row \in GoalRow, goal' = UpdateGoal(g, row)
      PROVE  goal' \in [Goals -> GoalRow]
      BY <1>5, TableSteps
<1>6. Goto(t, Settled(t)) => thread' \in [Threads -> Local]
      BY ThreadStep, Continuations
<1>7. {"done", "failed", "pending"} \subseteq NodeStatus /\ "done" \in GoalStatus
      BY DEF NodeStatus, GoalStatus
<1>. HIDE DEF nd
<1>8. CASE SettleCarefulDone(t)
  <2>1. SetStatus(goal[g], "done") \in GoalRow /\ [nd EXCEPT !.status = "done"] \in Node
        BY <1>7, GoalRowOps, NodeRowOps
  <2>. QED  BY <2>1, <1>4, <1>5, <1>6, <1>8 DEF SettleCarefulDone, TypeOK, nd
<1>9. CASE SettleCarefulNext(t)
  <2>1. [nd EXCEPT !.status = "pending", !.task = 0,
                   !.attempts = thread[t].row.dispatches + 1] \in Node
        BY NodeRowOps
  <2>. QED  BY <2>1, <1>4, <1>6, <1>9 DEF SettleCarefulNext, TypeOK, nd
<1>11. CASE SettleGiveUp(t)
  <2>1. SetBlocked(goal[g], "capacity") \in GoalRow
        BY GoalRowOps
  <2>. QED  BY <2>1, <1>5, <1>6, <1>11 DEF SettleGiveUp, TypeOK
<1>12. CASE SettleWait(t)
  <2>1. SetWaitingOnCapacity(goal[g]) \in GoalRow
        BY GoalRowOps
  <2>2. \A a \in Agents \cup {Unpinned} :
           [nd EXCEPT !.status = "pending", !.held = TRUE, !.agent = a] \in Node
        BY NodeRowOps
  <2>3. [nd EXCEPT !.status = "pending", !.held = TRUE,
                   !.agent = IF ResultOf(t) = "exhausted" THEN @ ELSE Unpinned] \in Node
        BY <2>2
  <2>. QED  BY <2>1, <2>3, <1>4, <1>5, <1>6, <1>12 DEF SettleWait, TypeOK, nd
<1>13. CASE SettleRetry(t)
  <2>1. [nd EXCEPT !.status = "pending", !.attempts = thread[t].tries + 1] \in Node
        BY NodeRowOps
  <2>. QED  BY <2>1, <1>4, <1>6, <1>13 DEF SettleRetry, TypeOK, nd
<1>14. CASE SettleExhausted(t)
  <2>. DEFINE node1 == UpdateNode(g, n, [nd EXCEPT !.status = "failed"])
  <2>1. [nd EXCEPT !.status = "failed"] \in Node
        BY <1>7, NodeRowOps
  <2>2. node1 \in [Goals -> Graphs]
        BY <2>1, TableSteps
  <2>3. SetBlocked(goal[g], "supervisor") \in GoalRow
        BY GoalRowOps
  <2>4. [Settled(t) EXCEPT !.pc = "supervising", !.g = g, !.n = n,
                           !.graph = node1[g]] \in Local
    <3>1. node1[g] \in Graphs /\ "supervising" \in PCs /\ Settled(t) \in Local
          BY <2>2, Continuations DEF PCs
    <3>. HIDE DEF node1
    <3>. QED  BY <3>1, Zenon DEF Local
  <2>5. thread' \in [Threads -> Local]
        BY <1>6, <1>14, <2>4, ThreadStep DEF SettleExhausted, nd
  <2>6. goal' \in [Goals -> GoalRow]
        BY <1>5, <1>14, <2>3 DEF SettleExhausted, TypeOK
  <2>. QED  BY <2>2, <2>5, <2>6, <1>14 DEF SettleExhausted, TypeOK, nd
<1>10. CASE SettleDone(t)
  <2>. DEFINE node1 == UpdateNode(g, n, [nd EXCEPT !.status = "done"])
              S == Offers(n, node1[g], thread[t].row)
  <2>1. [nd EXCEPT !.status = "done"] \in Node
        BY <1>7, NodeRowOps
  <2>2. node1 \in [Goals -> Graphs]
        BY <2>1, TableSteps
  <2>3. OfferRows(g, n, node1[g], S) \in Seq(MergeRow)
        BY <2>2, OfferedRows
  <2>4. merge' \in Seq(MergeRow)
        BY <2>3, <1>10, ConcatProperties DEF SettleDone, TypeOK, nd
  <2>. QED  BY <2>2, <2>4, <1>6, <1>10 DEF SettleDone, TypeOK, nd
<1>. QED  BY <1>8, <1>9, <1>10, <1>11, <1>12, <1>13, <1>14 DEF SettleWrite

LEMMA SettleReadTypes ==
    ASSUME TypeOK, NEW t \in Threads, TickBegin(t) \/ SettleRead(t)
    PROVE  TypeOK'
<1>1. thread[t] \in Local /\ thread[t].finished \in SUBSET Nat
      BY Continuations, LocalFields
<1>2. {"settle", "settling"} \subseteq PCs
      BY DEF PCs
<1>3. CASE TickBegin(t)
  <2>1. AgeBlocked \in [Goals -> GoalRow]
        BY GoalRowOps DEF AgeBlocked, TypeOK
  <2>2. Finished \in SUBSET Nat
        BY DEF Finished, TypeOK
  <2>3. [Rest EXCEPT !.pc = "settle", !.finished = Finished] \in Local
        BY <1>2, <2>2, RestLocal, Zenon DEF Local
  <2>. QED  BY <1>3, <2>1, <2>3, ThreadStep DEF TickBegin, TypeOK
<1>4. CASE SettleRead(t)
  <2>1. PICK k \in thread[t].finished :
           \/ Goto(t, [thread[t] EXCEPT !.finished = thread[t].finished \ {k}])
           \/ \E gn \in RunningNodes :
                Goto(t, [Rest EXCEPT
                           !.pc = "settling", !.finished = thread[t].finished \ {k},
                           !.k = k, !.g = gn[1], !.n = gn[2], !.row = goal[gn[1]],
                           !.tries = node[gn[1]][gn[2]].attempts])
        BY <1>4 DEF SettleRead
  <2>2. thread[t].finished \ {k} \in SUBSET Nat /\ k \in Nat
        BY <1>1
  <2>3. [thread[t] EXCEPT !.finished = thread[t].finished \ {k}] \in Local
        BY <1>1, <2>2, Zenon DEF Local
  <2>4. ASSUME NEW gn \in RunningNodes
        PROVE  [Rest EXCEPT
                  !.pc = "settling", !.finished = thread[t].finished \ {k},
                  !.k = k, !.g = gn[1], !.n = gn[2], !.row = goal[gn[1]],
                  !.tries = node[gn[1]][gn[2]].attempts] \in Local
    <3>1. gn[1] \in Goals /\ gn[2] \in NodeIds
          BY DEF RunningNodes
    <3>2. goal[gn[1]] \in GoalRow /\ node[gn[1]][gn[2]].attempts \in Nat
          BY <3>1 DEF TypeOK, Graphs, Node
    <3>. QED  BY <1>2, <2>2, <3>1, <3>2, RestLocal, Zenon DEF Local
  <2>5. thread' \in [Threads -> Local]
        BY <2>1, <2>3, <2>4, ThreadStep
  <2>. QED  BY <1>4, <2>5 DEF SettleRead, TypeOK
<1>. QED  BY <1>3, <1>4

LEMMA SuperviseTypes ==
    ASSUME TypeOK, NEW t \in Threads, Supervise(t)
    PROVE  TypeOK'
<1>. DEFINE g == thread[t].g
<1>1. /\ thread[t] \in Local /\ g \in Goals
      /\ thread[t].graph \in Graphs /\ thread[t].tries + 1 \in Nat
      BY Continuations, LocalFields
<1>2. goal[g] \in GoalRow
      BY <1>1 DEF TypeOK
<1>3. Goto(t, Settled(t)) \/ Goto(t, Rest) => thread' \in [Threads -> Local]
      BY ThreadStep, Continuations, RestLocal
<1>4. \A row \in GoalRow : UpdateGoal(g, row) \in [Goals -> GoalRow]
      BY <1>1, TableSteps
<1>5. CASE SupervisorOp(t)
  <2>1. PICK gr \in Edits(thread[t].graph, Scope(t)) :
           Goto(t, [thread[t] EXCEPT !.graph = gr, !.tries = @ + 1])
        BY <1>5 DEF SupervisorOp
  <2>2. gr \in Graphs
        BY <1>1, EditedGraphs
  <2>3. [thread[t] EXCEPT !.graph = gr, !.tries = @ + 1] \in Local
        BY <1>1, <2>2, Zenon DEF Local
  <2>. QED  BY <1>5, <2>1, <2>3, ThreadStep DEF SupervisorOp, TypeOK
<1>6. CASE SupervisorSave(t)
  <2>1. [node EXCEPT ![g] = thread[t].graph] \in [Goals -> Graphs]
        BY <1>1, TableSteps
  <2>2. BumpPatches(goal[g]) \in GoalRow
        BY <1>2, GoalRowOps
  <2>. QED  BY <1>3, <1>4, <1>6, <2>1, <2>2 DEF SupervisorSave, TypeOK
<1>7. CASE SupervisorClash(t)
      BY <1>3, <1>7 DEF SupervisorClash, TypeOK
<1>8. CASE SupervisorAbort(t)
  <2>1. SetStatus(goal[g], "failed") \in GoalRow
        BY <1>2, GoalRowOps DEF GoalStatus
  <2>. QED  BY <1>3, <1>4, <1>8, <2>1 DEF SupervisorAbort, TypeOK
<1>9. CASE SupervisorError(t)
  <2>1. SetBlocked(goal[g], "supervisor") \in GoalRow
        BY <1>2, GoalRowOps
  <2>. QED  BY <1>3, <1>4, <1>9, <2>1 DEF SupervisorError, TypeOK
<1>. QED  BY <1>5, <1>6, <1>7, <1>8, <1>9 DEF Supervise

LEMMA TickTypes ==
    ASSUME TypeOK, NEW t \in Threads, TickList(t) \/ TickEnd(t) \/ TickGoal(t)
    PROVE  TypeOK'
<1>. DEFINE g == VisitedGoal(t)
            row == thread[t].rows[g]
<1>1. {"tick", "integrating", "dispatch"} \subseteq PCs
      BY DEF PCs
<1>2. CASE TickList(t)
  <2>1. [Rest EXCEPT !.pc = "tick", !.rows = SelectStatus(Active)] \in Local
        BY <1>1, SelectedRows, RestLocal, Zenon DEF Local
  <2>. QED  BY <1>2, <2>1, ThreadStep DEF TickList, TypeOK
<1>3. CASE TickEnd(t)
      BY <1>3, RestLocal, ThreadStep DEF TickEnd, TypeOK
<1>4. CASE TickGoal(t)
  <2>1. g \in Goals
        BY <1>4, FirstIsGoal
           DEF TickGoal, TickUnplanned, TickBlock, TickFail, TickIntegrate,
               TickDispatch, Visiting, VisitedGoal
  <2>2. /\ goal[g] \in GoalRow /\ node[g] \in Graphs
        /\ thread[t].rows \in [Goals -> GoalRow]
        BY <2>1, Continuations, LocalFields DEF TypeOK
  <2>3. Goto(t, Visited(t, "tick", g)) => thread' \in [Threads -> Local]
        BY <1>1, <2>1, Continuations, ThreadStep
  <2>4. \A r \in GoalRow : UpdateGoal(g, r) \in [Goals -> GoalRow]
        BY <2>1, TableSteps
  <2>5. /\ SetBlocked(goal[g], "budget") \in GoalRow
        /\ SetStatus(goal[g], "failed") \in GoalRow
        /\ Admitted(g, row) \in GoalRow
        BY <2>2, GoalRowOps DEF GoalStatus, Admitted
  <2>. HIDE DEF g
  <2>6. CASE TickUnplanned(t)
        BY <2>3, <2>6 DEF TickUnplanned, TypeOK, g
  <2>7. CASE TickBlock(t)
        BY <2>3, <2>4, <2>5, <2>7 DEF TickBlock, TypeOK, g
  <2>8. CASE TickFail(t)
        BY <2>3, <2>4, <2>5, <2>8 DEF TickFail, TypeOK, g
  <2>9. CASE TickIntegrate(t)
    <3>1. [Rest EXCEPT !.pc = "integrating", !.g = g, !.rows = thread[t].rows] \in Local
          BY <1>1, <2>1, <2>2, RestLocal, Zenon DEF Local
    <3>. QED  BY <2>4, <2>5, <2>9, <3>1, ThreadStep DEF TickIntegrate, TypeOK, g
  <2>10. CASE TickDispatch(t)
    <3>1. ReadySet(node[g]) \in SUBSET NodeIds
          BY DEF ReadySet
    <3>2. Room(g) \in Nat /\ Slots \in [Agents -> Nat]
          BY <2>1, CapacityTypes
    <3>3. [Rest EXCEPT !.pc = "dispatch", !.g = g, !.rows = thread[t].rows,
                       !.graph = node[g], !.ready = ReadySet(node[g]),
                       !.room = Room(g), !.slots = Slots] \in Local
          BY <1>1, <2>1, <2>2, <3>1, <3>2, RestLocal, Zenon DEF Local
    <3>. QED  BY <2>4, <2>5, <2>10, <3>3, ThreadStep DEF TickDispatch, TypeOK, g
  <2>. QED  BY <1>4, <2>6, <2>7, <2>8, <2>9, <2>10 DEF TickGoal
<1>. QED  BY <1>2, <1>3, <1>4

LEMMA IntegratorTypes ==
    ASSUME TypeOK, NEW t \in Threads, IntegratorEnd(t)
    PROVE  TypeOK'
<1>. DEFINE g == thread[t].g
<1>1. g \in Goals /\ goal[g] \in GoalRow
      BY Continuations, LocalFields DEF TypeOK
<1>2. /\ SetStatus(goal[g], "done") \in GoalRow
      /\ SetStatus(goal[g], "failed") \in GoalRow
      /\ SetBlocked(goal[g], "other") \in GoalRow
      BY <1>1, GoalRowOps DEF GoalStatus
<1>3. goal' \in [Goals -> GoalRow]
      BY <1>1, <1>2, TableSteps DEF IntegratorEnd
<1>4. thread' \in [Threads -> Local]
      BY <1>1, Continuations, ThreadStep DEF IntegratorEnd, PCs
<1>. QED  BY <1>3, <1>4 DEF IntegratorEnd, TypeOK

LEMMA DispatchTypes ==
    ASSUME TypeOK, NEW t \in Threads, Dispatch(t)
    PROVE  TypeOK'
<1>. DEFINE g == thread[t].g
            l == thread[t]
<1>1. /\ l \in Local /\ g \in Goals /\ l.rows \in [Goals -> GoalRow]
      /\ l.graph \in Graphs /\ l.ready \in SUBSET NodeIds /\ l.room \in Nat
      /\ l.slots \in [Agents -> Nat] /\ l.k \in Nat /\ l.n \in NodeIds
      BY Continuations, LocalFields
<1>2. goal[g] \in GoalRow /\ node[g] \in Graphs /\ task \in Seq(TaskRow)
      BY <1>1 DEF TypeOK
<1>3. {"tick", "dispatch", "record"} \subseteq PCs
      BY DEF PCs
<1>4. \A n \in NextReady(t) : n \in NodeIds /\ n \in l.ready
      BY <1>1 DEF NextReady, FirstOf
<1>5. ASSUME NEW n \in NextReady(t), NEW a \in AgentsFor(l.graph, n)
      PROVE  a \in Agents \cup {Unpinned}
      BY <1>1, <1>4, CoordinatorAssumption DEF AgentsFor, Graphs, Node
<1>6. ASSUME NEW n \in NextReady(t), NEW a \in AgentsFor(l.graph, n)
      PROVE  a \in Agents
  <2>1. CASE l.graph[n].agent = Unpinned
        BY <2>1, CoordinatorAssumption DEF AgentsFor
  <2>2. CASE l.graph[n].agent # Unpinned
        BY <2>2, <1>5 DEF AgentsFor
  <2>. QED  BY <2>1, <2>2
<1>7. ASSUME NEW n \in NextReady(t), NEW a \in Agents, l.slots[a] > 0, l.room > 0
      PROVE  Charged(t, n, a) \in Local
  <2>1. l.ready \ {n} \in SUBSET NodeIds /\ l.room - 1 \in Nat
        BY <1>1, <1>7
  <2>2. [l.slots EXCEPT ![a] = @ - 1] \in [Agents -> Nat]
        BY <1>1, <1>7
  <2>3. Charged(t, n, a) = [l EXCEPT !.ready = l.ready \ {n}, !.room = l.room - 1,
                                     !.slots = [l.slots EXCEPT ![a] = @ - 1]]
        BY <1>1, Zenon DEF Charged, Local
  <2>. QED  BY <1>1, <2>1, <2>2, <2>3, Zenon DEF Local
<1>8. UpdateGoal(g, Released(t)) \in [Goals -> GoalRow]
  <2>1. Released(t) \in GoalRow
        BY <1>2, GoalRowOps DEF Released, GoalStatus
  <2>. QED  BY <1>1, <2>1, TableSteps
<1>9. CASE DispatchEnd(t)
      BY <1>1, <1>3, <1>9, Continuations, ThreadStep DEF DispatchEnd, TypeOK
<1>10. CASE DispatchSkip(t)
  <2>1. PICK n \in NextReady(t) : Goto(t, [l EXCEPT !.ready = @ \ {n}])
        BY <1>10 DEF DispatchSkip
  <2>2. l.ready \ {n} \in SUBSET NodeIds
        BY <1>1
  <2>3. [l EXCEPT !.ready = @ \ {n}] \in Local
        BY <1>1, <2>2, Zenon DEF Local
  <2>. QED  BY <1>10, <2>1, <2>3, ThreadStep DEF DispatchSkip, TypeOK
<1>11. CASE DispatchStart(t)
  <2>0. PICK n \in NextReady(t) :
           /\ \E a \in AgentsFor(l.graph, n) :
                /\ l.slots[a] > 0
                /\ Goto(t, [Charged(t, n, a) EXCEPT !.pc = "record", !.n = n,
                                                    !.k = Len(task) + 1])
           /\ task' = Append(task, [goal |-> g, node |-> n, result |-> "running"])
        BY <1>11 DEF DispatchStart
  <2>1. PICK a \in AgentsFor(l.graph, n) :
           /\ l.slots[a] > 0
           /\ Goto(t, [Charged(t, n, a) EXCEPT !.pc = "record", !.n = n,
                                               !.k = Len(task) + 1])
        BY <2>0
  <2>2. n \in NodeIds /\ Len(task) + 1 \in Nat /\ Charged(t, n, a) \in Local
        BY <1>2, <1>4, <1>6, <1>7, <1>11, <2>1 DEF DispatchStart, Candidates
  <2>3. [Charged(t, n, a) EXCEPT !.pc = "record", !.n = n, !.k = Len(task) + 1] \in Local
        BY <1>3, <2>2, Zenon DEF Local
  <2>4. [goal |-> g, node |-> n, result |-> "running"] \in TaskRow
        BY <1>1, <2>2 DEF TaskRow
  <2>5. task' \in Seq(TaskRow)
        BY <1>2, <2>0, <2>4, AppendProperties
  <2>6. thread' \in [Threads -> Local]
        BY <2>1, <2>3, ThreadStep
  <2>. QED  BY <1>8, <1>11, <2>5, <2>6 DEF DispatchStart, TypeOK
<1>12. CASE DispatchError(t)
  <2>0. PICK n \in NextReady(t) :
           /\ \E a \in AgentsFor(l.graph, n) :
                l.slots[a] > 0 /\ Goto(t, Charged(t, n, a))
           /\ node' = UpdateNode(g, n, [node[g][n] EXCEPT !.status = "failed"])
        BY <1>12 DEF DispatchError
  <2>1. PICK a \in AgentsFor(l.graph, n) :
           l.slots[a] > 0 /\ Goto(t, Charged(t, n, a))
        BY <2>0
  <2>2. n \in NodeIds /\ Charged(t, n, a) \in Local
        BY <1>4, <1>6, <1>7, <1>12, <2>1 DEF DispatchError, Candidates
  <2>3. [node[g][n] EXCEPT !.status = "failed"] \in Node
        BY <1>2, <2>2, NodeRowOps DEF Graphs, NodeStatus
  <2>4. node' \in [Goals -> Graphs]
        BY <1>1, <2>0, <2>2, <2>3, TableSteps
  <2>5. thread' \in [Threads -> Local]
        BY <2>1, <2>2, ThreadStep
  <2>. QED  BY <1>8, <1>12, <2>4, <2>5 DEF DispatchError, TypeOK
<1>13. CASE DispatchRecord(t)
  <2>1. [node[g][l.n] EXCEPT !.status = "running", !.task = l.k] \in Node
        BY <1>1, <1>2, NodeRowOps DEF Graphs
  <2>2. node' \in [Goals -> Graphs]
        BY <1>1, <1>13, <2>1, TableSteps DEF DispatchRecord
  <2>3. BumpDispatches(goal[g]) \in GoalRow
        BY <1>2, GoalRowOps
  <2>4. goal' \in [Goals -> GoalRow]
        BY <1>1, <1>13, <2>3, TableSteps DEF DispatchRecord
  <2>5. [l EXCEPT !.pc = "dispatch", !.n = 1, !.k = 0] \in Local
        BY <1>1, <1>3, OnesAreIds, 0 \in Nat, Zenon DEF Local
  <2>. QED  BY <1>13, <2>2, <2>4, <2>5, ThreadStep DEF DispatchRecord, TypeOK
<1>. QED  BY <1>9, <1>10, <1>11, <1>12, <1>13 DEF Dispatch

LEMMA PlanTypes ==
    ASSUME TypeOK, NEW t \in Threads, PlanDone(t) \/ PlanError(t)
    PROVE  TypeOK'
<1>. DEFINE g == thread[t].g
<1>1. g \in Goals /\ goal[g] \in GoalRow
      BY Continuations, LocalFields DEF TypeOK
<1>2. /\ SetStatus(goal[g], "running") \in GoalRow
      /\ SetBlocked(goal[g], "other") \in GoalRow
      BY <1>1, GoalRowOps DEF GoalStatus
<1>3. Planned(t) \in Local /\ Rest \in Local
      BY Continuations, RestLocal
<1>4. goal' \in [Goals -> GoalRow]
      BY <1>1, <1>2, TableSteps DEF PlanDone, PlanError
<1>5. thread' \in [Threads -> Local]
      BY <1>3, ThreadStep DEF PlanDone, PlanError
<1>6. node' \in [Goals -> Graphs]
  <2>1. CASE PlanDone(t)
    <3>1. PICK gr \in PlansOf(g) : node' = [node EXCEPT ![g] = gr]
          BY <2>1 DEF PlanDone
    <3>2. gr \in Graphs
          BY <1>1, FreshPlans DEF Fresh
    <3>. QED  BY <1>1, <3>1, <3>2, TableSteps
  <2>2. CASE PlanError(t)
        BY <2>2 DEF PlanError, TypeOK
  <2>. QED  BY <2>1, <2>2
<1>. QED  BY <1>4, <1>5, <1>6 DEF PlanDone, PlanError, TypeOK

LEMMA ResumeTypes ==
    ASSUME TypeOK, NEW t \in Threads, ResumeList(t) \/ ResumeGoal(t) \/ ResumeEnd(t)
    PROVE  TypeOK'
<1>. DEFINE g == FirstListed(thread[t].rows)
<1>1. {"resume", "planning", "heal"} \subseteq PCs
      BY DEF PCs
<1>2. CASE ResumeList(t)
  <2>1. [Rest EXCEPT !.pc = "resume", !.rows = SelectStatus(Interrupted)] \in Local
        BY <1>1, SelectedRows, RestLocal, Zenon DEF Local
  <2>. QED  BY <1>2, <2>1, ThreadStep DEF ResumeList, TypeOK
<1>3. CASE ResumeGoal(t)
  <2>1. /\ g \in Goals /\ goal[g] \in GoalRow
        /\ thread[t].rows \in [Goals -> GoalRow]
        BY <1>3, FirstIsGoal, Continuations, LocalFields DEF ResumeGoal, TypeOK
  <2>2. /\ [Rest EXCEPT !.pc = "planning", !.g = g, !.rows = thread[t].rows] \in Local
        /\ Visited(t, "resume", g) \in Local
        BY <1>1, <2>1, RestLocal, Continuations, Zenon DEF Local
  <2>3. UpdateGoal(g, SetStatus(goal[g], "running")) \in [Goals -> GoalRow]
        BY <2>1, GoalRowOps, TableSteps DEF GoalStatus
  <2>. HIDE DEF g
  <2>4. goal' \in [Goals -> GoalRow]
        BY <1>3, <2>3 DEF ResumeGoal, TypeOK, g
  <2>5. thread' \in [Threads -> Local]
        BY <1>3, <2>2, ThreadStep DEF ResumeGoal, g
  <2>. QED  BY <1>3, <2>4, <2>5 DEF ResumeGoal, TypeOK
<1>4. CASE ResumeEnd(t)
  <2>1. [Rest EXCEPT !.pc = "heal"] \in Local
        BY <1>1, RestLocal, Zenon DEF Local
  <2>. QED  BY <1>4, <2>1, ThreadStep DEF ResumeEnd, TypeOK
<1>. QED  BY <1>2, <1>3, <1>4

LEMMA HealTypes ==
    ASSUME TypeOK, NEW t \in Threads, Heal(t)
    PROVE  TypeOK'
<1>. DEFINE g == FirstListed(thread[t].rows)
<1>1. {"reeval", "reroute"} \subseteq PCs
      BY DEF PCs
<1>2. CASE HealBegin(t)
  <2>1. [Rest EXCEPT !.pc = "reeval", !.rows = SelectStatus({"blocked"})] \in Local
        BY <1>1, SelectedRows, RestLocal, Zenon DEF Local
  <2>2. spent' \in [requests : Nat, crashes : Nat, heals : Nat]
        BY <1>2 DEF HealBegin, Asked, TypeOK
  <2>. QED  BY <1>2, <2>1, <2>2, ThreadStep DEF HealBegin, TypeOK
<1>3. CASE ReevalGoal(t)
  <2>1. g \in Goals /\ goal[g] \in GoalRow
        BY <1>3, FirstIsGoal DEF ReevalGoal, TypeOK
  <2>2. Visited(t, "reeval", g) \in Local
        BY <1>1, <2>1, Continuations
  <2>3. UpdateGoal(g, ReevaluateBlocked(goal[g])) \in [Goals -> GoalRow]
        BY <2>1, GoalRowOps, TableSteps
  <2>. HIDE DEF g
  <2>. QED  BY <1>3, <2>2, <2>3, ThreadStep DEF ReevalGoal, TypeOK, g
<1>4. CASE ReevalEnd(t)
  <2>1. [Rest EXCEPT !.pc = "reroute", !.rows = SelectStatus(Active \cup {"blocked"})]
           \in Local
        BY <1>1, SelectedRows, RestLocal, Zenon DEF Local
  <2>. QED  BY <1>4, <2>1, ThreadStep DEF ReevalEnd, TypeOK
<1>5. CASE RerouteGoal(t)
  <2>1. g \in Goals /\ node[g] \in Graphs
        BY <1>5, FirstIsGoal DEF RerouteGoal, TypeOK
  <2>2. Visited(t, "reroute", g) \in Local
        BY <1>1, <2>1, Continuations
  <2>. DEFINE gr == [n \in NodeIds |->
                       IF Worn(node[g][n])
                       THEN [node[g][n] EXCEPT !.agent = Unpinned, !.status = "pending"]
                       ELSE node[g][n]]
  <2>3. gr \in Graphs
        BY <2>1, NodeRowOps DEF Graphs
  <2>4. [node EXCEPT ![g] = gr] \in [Goals -> Graphs]
        BY <2>1, <2>3, TableSteps
  <2>. HIDE DEF g
  <2>. QED  BY <1>5, <2>2, <2>4, ThreadStep DEF RerouteGoal, TypeOK, g
<1>6. CASE RerouteEnd(t)
      BY <1>6, RestLocal, ThreadStep DEF RerouteEnd, TypeOK
<1>. QED  BY <1>2, <1>3, <1>4, <1>5, <1>6 DEF Heal

LEMMA RequestTypes ==
    ASSUME TypeOK, Request
    PROVE  TypeOK'
<1>1. {"planning", "drive"} \subseteq PCs
      BY DEF PCs
<1>2. ASSUME NEW kind, Asked(kind)
      PROVE  spent' \in [requests : Nat, crashes : Nat, heals : Nat]
      BY <1>2 DEF Asked, TypeOK
<1>3. \A g \in Goals : goal[g] \in GoalRow /\ node[g] \in Graphs
      BY DEF TypeOK
<1>4. [Rest EXCEPT !.pc = "drive"] \in Local
      BY <1>1, RestLocal, Zenon DEF Local
<1>5. \A g \in Goals : [Rest EXCEPT !.pc = "planning", !.g = g] \in Local
      BY <1>1, RestLocal, Zenon DEF Local
<1>6. Handlers \subseteq Threads
      BY DEF Threads
<1>7. ASSUME NEW t \in Handlers, NEW g \in Goals, Submit(t, g)
      PROVE  TypeOK'
  <2>1. goal' \in [Goals -> GoalRow]
        BY <1>7, NewGoalRows, TableSteps DEF Submit
  <2>2. thread' \in [Threads -> Local]
        BY <1>5, <1>6, <1>7, ThreadStep DEF Submit
  <2>. QED  BY <1>7, <2>1, <2>2 DEF Submit, TypeOK
<1>8. ASSUME NEW t \in Handlers, NEW g \in Goals, Amend(t, g)
      PROVE  TypeOK'
  <2>1. PICK kind \in {"budget", "minutes", "capacity_budget", "capacity_minutes",
                       "auto_merge", "note"} : \E cap \in Caps :
           /\ Asked(kind)
           /\ goal' = UpdateGoal(g, [Amended(goal[g], kind, cap) EXCEPT !.human = TRUE])
        BY <1>8 DEF Amend
  <2>2. PICK cap \in Caps :
           /\ Asked(kind)
           /\ goal' = UpdateGoal(g, [Amended(goal[g], kind, cap) EXCEPT !.human = TRUE])
        BY <2>1
  <2>3. Amended(goal[g], kind, cap) \in GoalRow
        BY <1>3, AmendedRow, CoordinatorAssumption
  <2>4. [Amended(goal[g], kind, cap) EXCEPT !.human = TRUE] \in GoalRow
        BY <2>3 DEF GoalRow
  <2>5. goal' \in [Goals -> GoalRow]
        BY <2>2, <2>4, TableSteps
  <2>6. thread' \in [Threads -> Local]
        BY <1>4, <1>6, <1>8, ThreadStep DEF Amend
  <2>. QED  BY <1>2, <1>8, <2>2, <2>5, <2>6 DEF Amend, TypeOK
<1>9. ASSUME NEW t \in Handlers, NEW g \in Goals, Resume(t, g)
      PROVE  TypeOK'
  <2>. DEFINE gr == [n \in NodeIds |-> [node[g][n] EXCEPT !.held = FALSE]]
  <2>1. gr \in Graphs
        BY <1>3, NodeRowOps DEF Graphs
  <2>2. [node EXCEPT ![g] = gr] \in [Goals -> Graphs]
        BY <2>1, TableSteps
  <2>3. node' \in [Goals -> Graphs]
        BY <1>9, <2>2 DEF Resume, TypeOK
  <2>4. goal' \in [Goals -> GoalRow]
        BY <1>3, <1>9, GoalRowOps, TableSteps DEF Resume
  <2>5. thread' \in [Threads -> Local]
        BY <1>4, <1>5, <1>6, <1>9, ThreadStep DEF Resume
  <2>. QED  BY <1>2, <1>9, <2>3, <2>4, <2>5 DEF Resume, TypeOK
<1>10. ASSUME NEW g \in Goals, Cancel(g)
       PROVE  TypeOK'
  <2>1. SetStatus(goal[g], "cancelled") \in GoalRow
        BY <1>3, GoalRowOps DEF GoalStatus
  <2>2. goal' \in [Goals -> GoalRow]
        BY <1>10, <2>1, TableSteps DEF Cancel
  <2>. QED  BY <1>2, <1>10, <2>2 DEF Cancel, TypeOK
<1>11. ASSUME NEW i, ResolveMerge(i)
       PROVE  TypeOK'
  <2>1. i \in 1 .. Len(merge) /\ merge \in Seq(MergeRow)
        BY <1>11 DEF ResolveMerge, TypeOK
  <2>2. merge[i] \in MergeRow
        BY <2>1, ElementOfSeq
  <2>3. \A row \in MergeRow : [merge EXCEPT ![i] = row] \in Seq(MergeRow)
        BY <2>1, ExceptSeq
  <2>4. ASSUME NEW status \in {"confirmed", "rejected"}, NEW clean \in BOOLEAN
        PROVE  Resolved(merge[i], status, clean) \in MergeRow
    <3>1. (merge[i].landed \/ (status = "confirmed" /\ clean)) \in BOOLEAN
          OBVIOUS
    <3>2. (IF merge[i].status = "pending" THEN status ELSE merge[i].status)
             \in {"pending", "confirmed", "rejected"}
          BY <2>2 DEF MergeRow
    <3>. QED  BY <2>2, <3>1, <3>2, Zenon DEF Resolved, MergeRow
  <2>5. merge' \in Seq(MergeRow)
        BY <1>11, <2>3, <2>4 DEF ResolveMerge
  <2>. QED  BY <1>2, <1>11, <2>5 DEF ResolveMerge, TypeOK
<1>. QED  BY <1>7, <1>8, <1>9, <1>10, <1>11 DEF Request

LEMMA WorldTypes ==
    ASSUME TypeOK, World
    PROVE  TypeOK'
<1>1. ASSUME NEW k, TaskEnd(k)
      PROVE  TypeOK'
  <2>1. PICK result \in Results : task' = [task EXCEPT ![k].result = result]
        BY <1>1 DEF TaskEnd
  <2>2. k \in 1 .. Len(task) /\ task \in Seq(TaskRow) /\ task[k] \in TaskRow
        BY <1>1, ElementOfSeq DEF TaskEnd, TypeOK
  <2>3. [task[k] EXCEPT !.result = result] \in TaskRow
        BY <2>2 DEF TaskRow
  <2>4. task' = [task EXCEPT ![k] = [task[k] EXCEPT !.result = result]]
        BY <2>1, <2>2
  <2>5. task' \in Seq(TaskRow)
        BY <2>2, <2>3, <2>4, ExceptSeq
  <2>. QED  BY <1>1, <2>5 DEF TaskEnd, TypeOK
<1>2. ASSUME NEW g \in Goals, NEW n \in NodeIds, StampPasses(g, n)
      PROVE  TypeOK'
  <2>0. node[g] \in Graphs /\ node[g][n] \in Node
        BY DEF TypeOK, Graphs
  <2>1. [node[g][n] EXCEPT !.held = FALSE] \in Node
        BY <2>0, NodeRowOps, Zenon
  <2>2. [node[g] EXCEPT ![n] = [node[g][n] EXCEPT !.held = FALSE]] \in Graphs
        BY <2>0, <2>1 DEF Graphs
  <2>3. node' = [node EXCEPT ![g] =
                    [node[g] EXCEPT ![n] = [node[g][n] EXCEPT !.held = FALSE]]]
        BY <1>2 DEF StampPasses, TypeOK, Graphs
  <2>4. node' \in [Goals -> Graphs]
        BY <2>2, <2>3, TableSteps
  <2>. QED  BY <1>2, <2>4 DEF StampPasses, TypeOK
<1>3. ASSUME NEW g \in Goals, ClockPasses(g)
      PROVE  TypeOK'
  <2>1. goal[g] \in GoalRow
        BY DEF TypeOK
  <2>2. /\ [goal[g] EXCEPT !.late = TRUE] \in GoalRow
        /\ [goal[g] EXCEPT !.wait_late = TRUE] \in GoalRow
        /\ [goal[g] EXCEPT !.human = FALSE] \in GoalRow
        BY <2>1 DEF GoalRow
  <2>3. goal' \in [Goals -> GoalRow]
        BY <1>3, <2>2 DEF ClockPasses, TypeOK
  <2>. QED  BY <1>3, <2>3 DEF ClockPasses, TypeOK
<1>4. ASSUME Restart
      PROVE  TypeOK'
  <2>1. goal' \in [Goals -> GoalRow]
        BY <1>4, GoalRowOps DEF Restart, PauseActive, GoalStatus, TypeOK
  <2>2. task' \in Seq(TaskRow)
    <3>1. task \in Seq(TaskRow) /\ Len(task) \in Nat /\ DOMAIN task = 1 .. Len(task)
          BY DEF TypeOK
    <3>2. \A k \in 1 .. Len(task) : task[k] \in TaskRow
          BY <3>1, ElementOfSeq
    <3>3. task' \in [1 .. Len(task) -> TaskRow]
          BY <1>4, <3>1, <3>2 DEF Restart, TaskRow
    <3>. QED  BY <3>1, <3>3, SeqDef
  <2>3. \A nd \in Node : Reconciled(nd) \in Node
    <3>. SUFFICES ASSUME NEW nd \in Node PROVE Reconciled(nd) \in Node
         OBVIOUS
    <3>1. nd.attempts + 1 \in Nat
          BY DEF Node
    <3>2. [nd EXCEPT !.status = "done"] \in Node
          BY NodeRowOps, Zenon DEF NodeStatus
    <3>3. [nd EXCEPT !.status = "failed"] \in Node
          BY NodeRowOps, Zenon DEF NodeStatus
    <3>4. [nd EXCEPT !.status = "pending", !.attempts = @ + 1] \in Node
          BY <3>1, NodeRowOps, Zenon
    <3>. QED  BY <3>2, <3>3, <3>4 DEF Reconciled
  <2>4. node' \in [Goals -> Graphs]
        BY <1>4, <2>3 DEF Restart, TypeOK, Graphs
  <2>5. [Rest EXCEPT !.pc = "resume_list"] \in Local
        BY RestLocal, Zenon DEF Local, PCs
  <2>6. thread' \in [Threads -> Local]
        BY <1>4, <2>5, RestLocal DEF Restart
  <2>7. spent' \in [requests : Nat, crashes : Nat, heals : Nat]
        BY <1>4 DEF Restart, TypeOK
  <2>. QED  BY <1>4, <2>1, <2>2, <2>4, <2>6, <2>7 DEF Restart, TypeOK
<1>. QED  BY <1>1, <1>2, <1>3, <1>4 DEF World

LEMMA InitTypes == Init => TypeOK
<1>. SUFFICES ASSUME Init PROVE TypeOK
     OBVIOUS
<1>1. goal \in [Goals -> GoalRow]
  <2>1. \A b \in BOOLEAN :
           [NewGoal EXCEPT !.status = "running", !.auto_merge = b] \in GoalRow
        BY NewGoalRows DEF GoalRow, GoalStatus
  <2>2. \A g \in Goals : (g \in AutoMerge) \in BOOLEAN
        OBVIOUS
  <2>3. \A g \in Goals :
           (IF g \in Preplanned
            THEN [NewGoal EXCEPT !.status = "running", !.auto_merge = g \in AutoMerge]
            ELSE NoGoal) \in GoalRow
        BY <2>1, <2>2, NewGoalRows, Zenon
  <2>. QED  BY <2>3, Zenon DEF Init
<1>2. node \in [Goals -> Graphs]
  <2>1. \A gr \in SomeGraphs : gr \in Graphs
        BY FreshPlans, FreshNoGraph DEF SomeGraphs, Fresh
  <2>. QED  BY <2>1 DEF Init
<1>3. thread \in [Threads -> Local]
      BY RestLocal DEF Init
<1>4. task \in Seq(TaskRow) /\ merge \in Seq(MergeRow)
      BY EmptySeq DEF Init
<1>5. spent \in [requests : Nat, crashes : Nat, heals : Nat]
      BY DEF Init
<1>. QED  BY <1>1, <1>2, <1>3, <1>4, <1>5 DEF TypeOK

LEMMA TypeNext == TypeOK /\ [Next]_vars => TypeOK'
<1>. SUFFICES ASSUME TypeOK, [Next]_vars PROVE TypeOK'
     OBVIOUS
<1>1. ASSUME NEW t \in Threads, Pass(t)
      PROVE  TypeOK'
      BY <1>1, SettleReadTypes, SettleWriteTypes, SuperviseTypes, TickTypes,
         IntegratorTypes, DispatchTypes, PlanTypes, ResumeTypes DEF Pass
<1>2. ASSUME NEW t \in Threads, Heal(t)
      PROVE  TypeOK'
      BY <1>2, HealTypes
<1>3. CASE UNCHANGED vars
      BY <1>3 DEF vars, TypeOK
<1>. QED  BY <1>1, <1>2, <1>3, RequestTypes, WorldTypes DEF Next

\* Whatever the plans, the patches, the amendments, the crashes and the order of
\* the threads' steps, every table and every thread holds values of its columns:
\* no count goes below zero, no status leaves the enumeration, no thread is left
\* with a goal, a node or an agent that does not exist.
THEOREM TypeCorrect == Spec => []TypeOK
  BY InitTypes, TypeNext, PTL DEF Spec

-----------------------------------------------------------------------------
(* Safety.  Most actions bind no node to a task, save no copy of a graph and  *)
(* keep the tasks there are; the lemmas below say so once for all of them, and *)
(* each theorem goes through the actions that do more one by one.             *)

\* No task is taken away or given to another node.
TasksKept ==
    \A k, g, n : TaskOf(k, g, n) => TaskOf(k, g, n)'

\* Whatever runs was running before, on the same task.
NoneStarted ==
    \A g \in Goals, n \in NodeIds :
        node'[g][n].status = "running" =>
            node[g][n].status = "running" /\ node'[g][n].task = node[g][n].task

\* No thread starts to supervise or to record.
NoneEnters ==
    \A t \in Threads :
        \/ thread'[t] = thread[t]
        \/ thread'[t].pc \notin {"supervising", "record"}

LEMMA TasksSame == UNCHANGED task => TasksKept
  BY DEF TasksKept, TaskOf

LEMMA RunningKept ==
    ASSUME BoundInv, TasksKept, NoneStarted
    PROVE  RunningHasTask'
<1>. SUFFICES ASSUME NEW g \in Goals, NEW n \in NodeIds,
                     node'[g][n].status = "running"
              PROVE  TaskOf(node[g][n].task, g, n)' \/ Given(node'[g][n], n)
     BY DEF RunningHasTask, BoundTo, TaskOf, Given
<1>1. TaskOf(node[g][n].task, g, n) \/ Given(node[g][n], n)
      BY DEF NoneStarted, BoundInv, RunningHasTask, BoundTo
<1>2. \A k : TaskOf(k, g, n) => k \in DOMAIN task' /\ task'[k].goal = g
                                                 /\ task'[k].node = n
      BY DEF TasksKept, TaskOf
<1>3. node'[g][n].task = node[g][n].task /\ node'[g][n].status = node[g][n].status
      BY DEF NoneStarted
<1>. QED  BY <1>1, <1>2, <1>3, GivenAlike DEF TaskOf

\* A thread that stands where it stood keeps a sound copy; the others must
\* have read one.
LEMMA CopiesKept ==
    ASSUME BoundInv, TypeOK', TasksKept, RunningHasTask',
           \A t \in Threads :
              \/ thread'[t] = thread[t]
              \/ /\ thread'[t].pc = "supervising" => BoundTo(thread[t].graph, thread[t].g)'
                 /\ thread'[t].pc = "record" =>
                       TaskOf(thread[t].k, thread[t].g, thread[t].n)'
    PROVE  BoundInv'
<1>1. (\A t \in Supervisors : BoundTo(thread[t].graph, thread[t].g))'
  <2>. SUFFICES ASSUME NEW t \in Threads, thread'[t].pc = "supervising"
                PROVE  BoundTo(thread[t].graph, thread[t].g)'
       BY DEF Supervisors
  <2>. SUFFICES ASSUME thread'[t] = thread[t]
                PROVE  BoundTo(thread[t].graph, thread[t].g)'
       OBVIOUS
  <2>1. BoundTo(thread[t].graph, thread[t].g)
        BY DEF BoundInv, Supervisors
  <2>. QED  BY <2>1 DEF TasksKept, TaskOf, BoundTo, Given
<1>2. (\A t \in Recorders : TaskOf(thread[t].k, thread[t].g, thread[t].n))'
  <2>. SUFFICES ASSUME NEW t \in Threads, thread'[t].pc = "record"
                PROVE  TaskOf(thread[t].k, thread[t].g, thread[t].n)'
       BY DEF Recorders
  <2>. SUFFICES ASSUME thread'[t] = thread[t]
                PROVE  TaskOf(thread[t].k, thread[t].g, thread[t].n)'
       OBVIOUS
  <2>1. TaskOf(thread[t].k, thread[t].g, thread[t].n)
        BY DEF BoundInv, Recorders
  <2>. QED  BY <2>1 DEF TasksKept, TaskOf
<1>. QED  BY <1>1, <1>2 DEF BoundInv

LEMMA QuietStep ==
    ASSUME BoundInv, TypeOK', TasksKept, NoneStarted, NoneEnters
    PROVE  BoundInv'
<1>1. RunningHasTask'
      BY RunningKept
<1>. QED  BY <1>1, CopiesKept DEF NoneEnters

LEMMA NodeWrite ==
    ASSUME TypeOK, NEW g \in Goals, NEW n \in NodeIds, NEW row \in Node,
           row.status # "running", node' = UpdateNode(g, n, row)
    PROVE  NoneStarted
<1>1. node[g] \in Graphs /\ node \in [Goals -> Graphs]
      BY DEF TypeOK
<1>2. ASSUME NEW h \in Goals, NEW m \in NodeIds
      PROVE  \/ node'[h][m] = node[h][m]
             \/ node'[h][m] = row
      BY <1>1 DEF UpdateNode, Graphs
<1>. QED  BY <1>2 DEF NoneStarted

LEMMA NodesSame == UNCHANGED node => NoneStarted
  BY DEF NoneStarted

LEMMA ThreadWrite ==
    ASSUME TypeOK, NEW t \in Threads, NEW l,
           l.pc \notin {"supervising", "record"}, Goto(t, l)
    PROVE  NoneEnters
<1>1. \A u \in Threads : thread'[u] = thread[u] \/ thread'[u] = l
      BY DEF TypeOK, Goto
<1>. QED  BY <1>1 DEF NoneEnters

LEMMA ThreadsSame == UNCHANGED thread => NoneEnters
  BY DEF NoneEnters

LEMMA WhereTo ==
    ASSUME NEW t
    PROVE  /\ Rest.pc = "idle" /\ Settled(t).pc = "settle"
           /\ \A pc, g : Visited(t, pc, g).pc = pc
           /\ Planned(t).pc \in {"resume", "drive"}
  BY DEF Rest, Settled, Visited, Planned

\* Settling a task leaves no node running that was not, and only the exhausted
\* retries call for the supervisor.
LEMMA SettleWriteQuiet ==
    ASSUME TypeOK, NEW t \in Threads, SettleWrite(t)
    PROVE  /\ TasksKept
           /\ NoneStarted
           /\ SettleExhausted(t) \/ NoneEnters
<1>. DEFINE g == thread[t].g
            n == thread[t].n
            nd == node[g][n]
<1>0. /\ g \in Goals /\ n \in NodeIds /\ thread[t].row \in GoalRow
      /\ thread[t].tries \in Nat
      BY LocalFields, Continuations
<1>1. /\ g \in Goals /\ n \in NodeIds /\ nd \in Node
      /\ thread[t].row.dispatches + 1 \in Nat /\ thread[t].tries + 1 \in Nat
  <2>1. nd \in Node
        BY <1>0 DEF TypeOK, Graphs
  <2>2. thread[t].row.dispatches + 1 \in Nat /\ thread[t].tries + 1 \in Nat
        BY <1>0 DEF GoalRow
  <2>. QED  BY <1>0, <2>1, <2>2
<1>2. TasksKept
      BY TasksSame DEF SettleWrite, SettleCarefulDone, SettleCarefulNext, SettleDone,
         SettleGiveUp, SettleWait, SettleRetry, SettleExhausted
<1>3. SettleExhausted(t) \/ NoneEnters
  <2>1. Goto(t, Settled(t)) => NoneEnters
        BY Continuations, WhereTo, ThreadWrite
  <2>. QED  BY <2>1 DEF SettleWrite, SettleCarefulDone, SettleCarefulNext, SettleDone,
            SettleGiveUp, SettleWait, SettleRetry
<1>4. NoneStarted
  <2>1. \/ UNCHANGED node
        \/ \E row \in Node : /\ row.status # "running"
                              /\ node' = UpdateNode(g, n, row)
    <3>1. CASE SettleCarefulDone(t) \/ SettleDone(t)
      <4>1. node' = UpdateNode(g, n, [nd EXCEPT !.status = "done"])
            BY <3>1 DEF SettleCarefulDone, SettleDone
      <4>2. [nd EXCEPT !.status = "done"] \in Node
            BY <1>1, NodeRowOps DEF NodeStatus
      <4>. QED  BY <1>1, <4>1, <4>2 DEF Node
    <3>2. CASE SettleCarefulNext(t)
      <4>. DEFINE row == [nd EXCEPT !.status = "pending", !.task = 0,
                                    !.attempts = thread[t].row.dispatches + 1]
      <4>1. node' = UpdateNode(g, n, row)
            BY <3>2 DEF SettleCarefulNext
      <4>2. row \in Node
            BY <1>1, NodeRowOps
      <4>. QED  BY <1>1, <4>1, <4>2 DEF Node
    <3>3. CASE SettleGiveUp(t)
          BY <3>3 DEF SettleGiveUp
    <3>4. CASE SettleWait(t)
      <4>. DEFINE row == [nd EXCEPT !.status = "pending", !.held = TRUE,
                            !.agent = IF ResultOf(t) = "exhausted" THEN @ ELSE Unpinned]
      <4>1. node' = UpdateNode(g, n, row)
            BY <3>4 DEF SettleWait
      <4>2. nd.agent \in Agents \cup {Unpinned}
            BY <1>1 DEF Node
      <4>3. \A a \in Agents \cup {Unpinned} :
               [nd EXCEPT !.status = "pending", !.held = TRUE, !.agent = a] \in Node
            BY <1>1, NodeRowOps
      <4>4. row \in Node
            BY <4>2, <4>3
      <4>. QED  BY <1>1, <4>1, <4>4 DEF Node
    <3>5. CASE SettleRetry(t)
      <4>. DEFINE row == [nd EXCEPT !.status = "pending",
                                    !.attempts = thread[t].tries + 1]
      <4>1. node' = UpdateNode(g, n, row)
            BY <3>5 DEF SettleRetry
      <4>2. row \in Node
            BY <1>1, NodeRowOps
      <4>. QED  BY <1>1, <4>1, <4>2 DEF Node
    <3>6. CASE SettleExhausted(t)
      <4>1. node' = UpdateNode(g, n, [nd EXCEPT !.status = "failed"])
            BY <3>6 DEF SettleExhausted
      <4>2. [nd EXCEPT !.status = "failed"] \in Node
            BY <1>1, NodeRowOps DEF NodeStatus
      <4>. QED  BY <1>1, <4>1, <4>2 DEF Node
    <3>. QED  BY <3>1, <3>2, <3>3, <3>4, <3>5, <3>6 DEF SettleWrite
  <2>. QED  BY <1>1, <2>1, NodeWrite, NodesSame
<1>. QED  BY <1>2, <1>3, <1>4

\* So do the actions of a pass that neither settle, supervise nor start a task.
LEMMA PassQuiet ==
    ASSUME TypeOK, NEW t \in Threads,
           \/ TickBegin(t) \/ SettleRead(t) \/ TickList(t) \/ TickEnd(t)
           \/ TickGoal(t) \/ IntegratorEnd(t) \/ DispatchEnd(t) \/ DispatchSkip(t)
           \/ PlanError(t) \/ ResumeList(t) \/ ResumeGoal(t) \/ ResumeEnd(t)
    PROVE  UNCHANGED <<node, task>> /\ NoneEnters
<1>1. UNCHANGED <<node, task>>
      BY DEF TickBegin, SettleRead, TickList, TickEnd, TickGoal, TickUnplanned,
         TickBlock, TickFail, TickIntegrate, TickDispatch, IntegratorEnd, DispatchEnd,
         DispatchSkip, PlanError, ResumeList, ResumeGoal, ResumeEnd
<1>. SUFFICES NoneEnters
     BY <1>1
<1>2. Goto(t, Rest) => NoneEnters
      BY WhereTo, ThreadWrite
<1>3. ASSUME NEW pc \in PCs \ {"supervising", "record"}, NEW g
      PROVE  Goto(t, Visited(t, pc, g)) => NoneEnters
  <2>1. Visited(t, pc, g).pc = pc
        BY WhereTo, ZenonT(40)
  <2>. QED  BY <2>1, ThreadWrite
<1>4. {"tick", "resume"} \subseteq PCs \ {"supervising", "record"}
      BY DEF PCs
<1>. DEFINE OnlyMoves == thread' = [thread EXCEPT ![t] = thread'[t]]
<1>5. thread[t] \in Local /\ \A l : Goto(t, l) => thread'[t] = l /\ OnlyMoves
      BY DEF TypeOK, Goto
<1>6. ASSUME OnlyMoves, thread'[t].pc \notin {"supervising", "record"}
      PROVE  NoneEnters
      BY <1>6 DEF NoneEnters, TypeOK
<1>. HIDE DEF OnlyMoves
<1>7. CASE TickBegin(t)
  <2>1. thread'[t] = [Rest EXCEPT !.pc = "settle", !.finished = Finished] /\ OnlyMoves
        BY <1>5, <1>7 DEF TickBegin
  <2>2. thread'[t].pc = "settle"
        BY <2>1 DEF Rest
  <2>. QED  BY <1>6, <2>1, <2>2
<1>8. CASE SettleRead(t)
  <2>1. PICK k \in thread[t].finished :
           \/ Goto(t, [thread[t] EXCEPT !.finished = thread[t].finished \ {k}])
           \/ \E gn \in RunningNodes :
                Goto(t, [Rest EXCEPT
                           !.pc = "settling", !.finished = thread[t].finished \ {k},
                           !.k = k, !.g = gn[1], !.n = gn[2], !.row = goal[gn[1]],
                           !.tries = node[gn[1]][gn[2]].attempts])
        BY <1>8 DEF SettleRead
  <2>2. thread[t].pc = "settle"
        BY <1>8 DEF SettleRead
  <2>3. CASE Goto(t, [thread[t] EXCEPT !.finished = thread[t].finished \ {k}])
    <3>1. [thread[t] EXCEPT !.finished = thread[t].finished \ {k}].pc = "settle"
          BY <1>5, <2>2 DEF Local
    <3>. QED  BY <2>3, <3>1, ThreadWrite
  <2>4. ASSUME NEW gn \in RunningNodes,
               Goto(t, [Rest EXCEPT
                          !.pc = "settling", !.finished = thread[t].finished \ {k},
                          !.k = k, !.g = gn[1], !.n = gn[2], !.row = goal[gn[1]],
                          !.tries = node[gn[1]][gn[2]].attempts])
        PROVE  NoneEnters
    <3>1. [Rest EXCEPT
             !.pc = "settling", !.finished = thread[t].finished \ {k},
             !.k = k, !.g = gn[1], !.n = gn[2], !.row = goal[gn[1]],
             !.tries = node[gn[1]][gn[2]].attempts].pc = "settling"
          BY DEF Rest
    <3>. QED  BY <2>4, <3>1, ThreadWrite
  <2>. QED  BY <2>1, <2>3, <2>4
<1>9. CASE TickList(t) \/ TickEnd(t)
  <2>1. [Rest EXCEPT !.pc = "tick", !.rows = SelectStatus(Active)].pc = "tick"
        BY DEF Rest
  <2>. QED  BY <1>2, <1>9, <2>1, ThreadWrite DEF TickList, TickEnd
<1>10. CASE TickGoal(t)
  <2>1. CASE TickIntegrate(t) \/ TickDispatch(t)
    <3>. DEFINE g == VisitedGoal(t)
    <3>1. /\ OnlyMoves
          /\ \/ thread'[t] = [Rest EXCEPT !.pc = "integrating", !.g = g,
                                          !.rows = thread[t].rows]
             \/ thread'[t] = [Rest EXCEPT
                      !.pc = "dispatch", !.g = g, !.rows = thread[t].rows,
                      !.graph = node[g], !.ready = ReadySet(node[g]),
                      !.room = Room(g), !.slots = Slots]
          BY <1>5, <2>1 DEF TickIntegrate, TickDispatch
    <3>2. thread'[t].pc \in {"integrating", "dispatch"}
          BY <3>1 DEF Rest
    <3>. QED  BY <1>6, <3>1, <3>2
  <2>2. CASE TickUnplanned(t) \/ TickBlock(t) \/ TickFail(t)
        BY <1>3, <1>4, <2>2 DEF TickUnplanned, TickBlock, TickFail
  <2>. QED  BY <1>10, <2>1, <2>2 DEF TickGoal
<1>11. CASE IntegratorEnd(t) \/ DispatchEnd(t)
       BY <1>3, <1>4, <1>11 DEF IntegratorEnd, DispatchEnd
<1>12. CASE DispatchSkip(t)
  <2>1. thread[t].pc = "dispatch" /\ OnlyMoves
        BY <1>5, <1>12 DEF DispatchSkip, Dispatching
  <2>2. thread'[t].pc = thread[t].pc
        BY <1>5, <1>12 DEF DispatchSkip, Local
  <2>. QED  BY <1>6, <2>1, <2>2
<1>13. CASE PlanError(t)
       BY <1>2, <1>13, WhereTo, ThreadWrite DEF PlanError
<1>14. CASE ResumeList(t) \/ ResumeEnd(t)
  <2>1. /\ [Rest EXCEPT !.pc = "heal"].pc = "heal"
        /\ [Rest EXCEPT !.pc = "resume", !.rows = SelectStatus(Interrupted)].pc
              = "resume"
        BY DEF Rest
  <2>. QED  BY <1>14, <2>1, ThreadWrite DEF ResumeList, ResumeEnd
<1>15. CASE ResumeGoal(t)
  <2>. DEFINE g == FirstListed(thread[t].rows)
  <2>1. CASE Goto(t, Visited(t, "resume", g))
        BY <1>3, <1>4, <2>1
  <2>2. CASE Goto(t, [Rest EXCEPT !.pc = "planning", !.g = g, !.rows = thread[t].rows])
    <3>1. [Rest EXCEPT !.pc = "planning", !.g = g, !.rows = thread[t].rows].pc
             = "planning"
          BY DEF Rest
    <3>. QED  BY <2>2, <3>1, ThreadWrite
  <2>. QED  BY <1>15, <2>1, <2>2 DEF ResumeGoal
<1>. QED  BY <1>7, <1>8, <1>9, <1>10, <1>11, <1>12, <1>13, <1>14, <1>15

\* A dispatch that fails, a plan, and a supervisor that gives no patch.
LEMMA DispatchErrorQuiet ==
    ASSUME TypeOK, NEW t \in Threads, DispatchError(t)
    PROVE  UNCHANGED task /\ NoneStarted /\ NoneEnters
<1>. DEFINE g == thread[t].g
<1>1. thread[t] \in Local /\ g \in Goals /\ UNCHANGED task
      BY Continuations, LocalFields DEF DispatchError
<1>2. thread[t].pc = "dispatch"
      BY DEF DispatchError, Dispatching
<1>3. PICK n \in NextReady(t) :
         /\ \E a \in AgentsFor(thread[t].graph, n) : Goto(t, Charged(t, n, a))
         /\ node' = UpdateNode(g, n, [node[g][n] EXCEPT !.status = "failed"])
      BY DEF DispatchError
<1>4. n \in NodeIds
      BY <1>1, LocalFields DEF NextReady, FirstOf
<1>5. NoneStarted
  <2>1. node[g][n] \in Node
        BY <1>1, <1>4 DEF TypeOK, Graphs
  <2>2. [node[g][n] EXCEPT !.status = "failed"] \in Node
        BY <2>1, NodeRowOps DEF NodeStatus
  <2>3. [node[g][n] EXCEPT !.status = "failed"].status # "running"
        BY <2>1 DEF Node
  <2>. QED  BY <1>1, <1>3, <1>4, <2>2, <2>3, NodeWrite
<1>6. NoneEnters
  <2>1. PICK a \in AgentsFor(thread[t].graph, n) : Goto(t, Charged(t, n, a))
        BY <1>3
  <2>2. Charged(t, n, a).pc = "dispatch"
        BY <1>1, <1>2 DEF Charged, Local
  <2>. QED  BY <2>1, <2>2, ThreadWrite
<1>. QED  BY <1>1, <1>5, <1>6

LEMMA PlanDoneQuiet ==
    ASSUME TypeOK, NEW t \in Threads, PlanDone(t)
    PROVE  UNCHANGED task /\ NoneStarted /\ NoneEnters
<1>1. thread[t].g \in Goals
      BY Continuations, LocalFields
<1>2. PICK gr \in PlansOf(thread[t].g) : node' = [node EXCEPT ![thread[t].g] = gr]
      BY DEF PlanDone
<1>3. \A n \in NodeIds : gr[n].status # "running"
      BY <1>1, <1>2, FreshPlans DEF Fresh
<1>4. NoneStarted
  <2>1. \A n \in NodeIds : gr[n].status = "running" =>
           node[thread[t].g][n].status = "running"
           /\ gr[n].task = node[thread[t].g][n].task
        BY <1>3
  <2>2. \A h \in Goals : node'[h] = IF h = thread[t].g THEN gr ELSE node[h]
        BY <1>1, <1>2 DEF TypeOK
  <2>. QED  BY <1>1, <2>1, <2>2 DEF NoneStarted
<1>5. NoneEnters
  <2>1. Planned(t).pc \notin {"supervising", "record"} /\ Goto(t, Planned(t))
        BY WhereTo DEF PlanDone
  <2>. QED  BY <2>1, ThreadWrite
<1>. QED  BY <1>4, <1>5 DEF PlanDone

LEMMA NoPatchQuiet ==
    ASSUME TypeOK, NEW t \in Threads,
           SupervisorClash(t) \/ SupervisorAbort(t) \/ SupervisorError(t)
    PROVE  UNCHANGED <<node, task>> /\ NoneEnters
<1>1. Goto(t, Rest) \/ Goto(t, Settled(t))
      BY DEF SupervisorClash, SupervisorAbort, SupervisorError
<1>2. NoneEnters
      BY <1>1, WhereTo, ThreadWrite
<1>. QED  BY <1>2 DEF SupervisorClash, SupervisorAbort, SupervisorError

\* Self-healing sends nodes back to pending, and no further.
LEMMA HealQuiet ==
    ASSUME TypeOK, NEW t \in Threads, Heal(t)
    PROVE  UNCHANGED task /\ NoneStarted /\ NoneEnters
<1>. DEFINE g == FirstListed(thread[t].rows)
<1>1. UNCHANGED task
      BY DEF Heal, HealBegin, ReevalGoal, ReevalEnd, RerouteGoal, RerouteEnd
<1>2. NoneEnters
  <2>1. CASE HealBegin(t)
    <3>1. [Rest EXCEPT !.pc = "reeval", !.rows = SelectStatus({"blocked"})].pc = "reeval"
          BY DEF Rest
    <3>. QED  BY <2>1, <3>1, ThreadWrite DEF HealBegin
  <2>2. CASE ReevalEnd(t)
    <3>1. [Rest EXCEPT !.pc = "reroute",
                       !.rows = SelectStatus(Active \cup {"blocked"})].pc = "reroute"
          BY DEF Rest
    <3>. QED  BY <2>2, <3>1, ThreadWrite DEF ReevalEnd
  <2>3. CASE ReevalGoal(t) \/ RerouteGoal(t)
        BY <2>3, WhereTo, ThreadWrite DEF ReevalGoal, RerouteGoal
  <2>4. CASE RerouteEnd(t)
        BY <2>4, WhereTo, ThreadWrite DEF RerouteEnd
  <2>. QED  BY <2>1, <2>2, <2>3, <2>4 DEF Heal
<1>3. NoneStarted
  <2>1. CASE UNCHANGED node
        BY <2>1, NodesSame
  <2>2. CASE RerouteGoal(t) /\ ~UNCHANGED node
    <3>. DEFINE gr == [n \in NodeIds |->
                        IF Worn(node[g][n])
                        THEN [node[g][n] EXCEPT !.agent = Unpinned, !.status = "pending"]
                        ELSE node[g][n]]
    <3>1. g \in Goals
          BY <2>2, FirstIsGoal DEF RerouteGoal
    <3>2. node' = [node EXCEPT ![g] = gr]
          BY <2>2 DEF RerouteGoal
    <3>3. ASSUME NEW n \in NodeIds, gr[n].status = "running"
          PROVE  node[g][n].status = "running" /\ gr[n].task = node[g][n].task
      <4>1. node[g][n] \in Node
            BY <3>1 DEF TypeOK, Graphs
      <4>. QED  BY <3>3, <4>1 DEF Node
    <3>. HIDE DEF gr
    <3>4. \A h \in Goals : node'[h] = IF h = g THEN gr ELSE node[h]
          BY <3>1, <3>2 DEF TypeOK
    <3>. QED  BY <3>1, <3>3, <3>4 DEF NoneStarted
  <2>. QED  BY <2>1, <2>2 DEF Heal, HealBegin, ReevalGoal, ReevalEnd, RerouteEnd
<1>. QED  BY <1>1, <1>2, <1>3

\* A client's request binds nothing either.
LEMMA RequestQuiet ==
    ASSUME TypeOK, Request
    PROVE  UNCHANGED task /\ NoneStarted /\ NoneEnters
<1>1. [Rest EXCEPT !.pc = "drive"].pc = "drive"
      BY DEF Rest
<1>2. \A g : [Rest EXCEPT !.pc = "planning", !.g = g].pc = "planning"
      BY DEF Rest
<1>3. ASSUME NEW t \in Handlers, NEW g \in Goals, Submit(t, g)
      PROVE  UNCHANGED <<node, task>> /\ NoneEnters
      BY <1>2, <1>3, ThreadWrite DEF Submit, Threads
<1>4. ASSUME NEW t \in Handlers, NEW g \in Goals, Amend(t, g)
      PROVE  UNCHANGED <<node, task>> /\ NoneEnters
      BY <1>1, <1>4, ThreadWrite DEF Amend, Threads
<1>5. ASSUME NEW t \in Handlers, NEW g \in Goals, Resume(t, g)
      PROVE  UNCHANGED task /\ NoneStarted /\ NoneEnters
  <2>1. NoneEnters
    <3>1. t \in Threads
          BY DEF Threads
    <3>2. CASE Goto(t, [Rest EXCEPT !.pc = "planning", !.g = g])
          BY <1>2, <3>1, <3>2, ThreadWrite
    <3>3. CASE Goto(t, [Rest EXCEPT !.pc = "drive"])
          BY <1>1, <3>1, <3>3, ThreadWrite
    <3>. QED  BY <1>5, <3>2, <3>3 DEF Resume
  <2>2. NoneStarted
    <3>. DEFINE gr == [n \in NodeIds |-> [node[g][n] EXCEPT !.held = FALSE]]
    <3>1. node' = [node EXCEPT ![g] = gr]
          BY <1>5 DEF Resume
    <3>2. ASSUME NEW n \in NodeIds, gr[n].status = "running"
          PROVE  node[g][n].status = "running" /\ gr[n].task = node[g][n].task
      <4>1. node[g][n] \in Node
            BY DEF TypeOK, Graphs
      <4>. QED  BY <3>2, <4>1 DEF Node
    <3>. HIDE DEF gr
    <3>3. \A h \in Goals : node'[h] = IF h = g THEN gr ELSE node[h]
          BY <3>1 DEF TypeOK
    <3>. QED  BY <3>2, <3>3 DEF NoneStarted
  <2>. QED  BY <1>5, <2>1, <2>2 DEF Resume
<1>6. ASSUME NEW g \in Goals, Cancel(g)
      PROVE  UNCHANGED <<node, task, thread>>
      BY <1>6 DEF Cancel
<1>7. ASSUME NEW i, ResolveMerge(i)
      PROVE  UNCHANGED <<node, task, thread>>
      BY <1>7 DEF ResolveMerge
<1>. QED  BY <1>3, <1>4, <1>5, <1>6, <1>7, NodesSame, ThreadsSame DEF Request

\* A task that ends keeps its node; a restart leaves no node running.
LEMMA WorldQuiet ==
    ASSUME TypeOK, World
    PROVE  TasksKept /\ NoneStarted /\ NoneEnters
<1>1. ASSUME NEW k, TaskEnd(k)
      PROVE  TasksKept /\ UNCHANGED <<node, thread>>
  <2>1. PICK result : task' = [task EXCEPT ![k].result = result]
        BY <1>1 DEF TaskEnd
  <2>2. \A i \in DOMAIN task : task[i] \in TaskRow
        BY ElementOfSeq DEF TypeOK
  <2>3. DOMAIN task' = DOMAIN task
        BY <2>1
  <2>4. \A i \in DOMAIN task : task'[i].goal = task[i].goal /\ task'[i].node = task[i].node
        BY <2>1, <2>2 DEF TaskRow
  <2>. QED  BY <1>1, <2>3, <2>4 DEF TaskEnd, TasksKept, TaskOf
<1>2. ASSUME NEW g \in Goals, NEW n \in NodeIds, StampPasses(g, n)
      PROVE  UNCHANGED <<task, thread>> /\ NoneStarted
  <2>1. node[g] \in Graphs /\ node[g][n] \in Node
        BY DEF TypeOK, Graphs
  <2>2. \A h \in Goals, m \in NodeIds :
           node'[h][m] = IF h = g /\ m = n THEN [node[g][n] EXCEPT !.held = FALSE]
                         ELSE node[h][m]
        BY <1>2, <2>1 DEF StampPasses, TypeOK, Graphs
  <2>3. /\ [node[g][n] EXCEPT !.held = FALSE].status = node[g][n].status
        /\ [node[g][n] EXCEPT !.held = FALSE].task = node[g][n].task
        BY <2>1 DEF Node
  <2>. QED  BY <1>2, <2>2, <2>3 DEF StampPasses, NoneStarted
<1>3. ASSUME NEW g \in Goals, ClockPasses(g)
      PROVE  UNCHANGED <<node, task, thread>>
      BY <1>3 DEF ClockPasses
<1>4. ASSUME Restart
      PROVE  TasksKept /\ NoneStarted /\ NoneEnters
  <2>1. TasksKept
    <3>1. \A i \in DOMAIN task : task[i] \in TaskRow
          BY ElementOfSeq DEF TypeOK
    <3>2. DOMAIN task' = DOMAIN task
          BY <1>4 DEF Restart
    <3>3. \A i \in DOMAIN task : task'[i].goal = task[i].goal /\ task'[i].node = task[i].node
          BY <1>4, <3>1 DEF Restart, TaskRow
    <3>. QED  BY <3>2, <3>3 DEF TasksKept, TaskOf
  <2>2. NoneStarted
    <3>1. ASSUME NEW nd \in Node
          PROVE  Reconciled(nd).status # "running"
          BY DEF Reconciled, Node
    <3>2. \A g \in Goals, n \in NodeIds : node[g][n] \in Node
          BY DEF TypeOK, Graphs
    <3>3. \A g \in Goals, n \in NodeIds : node'[g][n] = Reconciled(node[g][n])
          BY <1>4 DEF Restart
    <3>. QED  BY <3>1, <3>2, <3>3 DEF NoneStarted
  <2>3. NoneEnters
    <3>1. /\ Rest.pc = "idle"
          /\ [Rest EXCEPT !.pc = "resume_list"].pc = "resume_list"
          BY DEF Rest
    <3>. QED  BY <1>4, <3>1 DEF Restart, NoneEnters
  <2>. QED  BY <2>1, <2>2, <2>3
<1>. QED  BY <1>1, <1>2, <1>3, <1>4, TasksSame, NodesSame, ThreadsSame DEF World

-----------------------------------------------------------------------------
(* The steps that are not quiet. *)

\* What the node's task is called for is read after the node has failed.
LEMMA ExhaustedBound ==
    ASSUME BoundInv, TypeOK', NEW t \in Threads, SettleExhausted(t)
    PROVE  BoundInv'
<1>. DEFINE g == thread[t].g
            n == thread[t].n
            node1 == UpdateNode(g, n, [node[g][n] EXCEPT !.status = "failed"])
<1>0. TypeOK
      BY DEF BoundInv
<1>1. TasksKept /\ NoneStarted
      BY <1>0, SettleWriteQuiet DEF SettleWrite
<1>2. RunningHasTask'
      BY <1>1, RunningKept
<1>3. g \in Goals /\ node' = node1
      BY <1>0, Continuations, LocalFields DEF SettleExhausted
<1>4. CASE Goto(t, Settled(t))
  <2>1. NoneEnters
        BY <1>0, <1>4, WhereTo, ThreadWrite
  <2>. QED  BY <1>1, <2>1, QuietStep
<1>5. CASE Goto(t, [Settled(t) EXCEPT !.pc = "supervising", !.g = g, !.n = n,
                                      !.graph = node1[g]])
  <2>. DEFINE l == [Settled(t) EXCEPT !.pc = "supervising", !.g = g, !.n = n,
                                      !.graph = node1[g]]
  <2>1. l.pc = "supervising" /\ l.g = g /\ l.graph = node1[g]
        BY DEF Settled, Rest
  <2>. HIDE DEF l
  <2>2. \A u \in Threads : thread'[u] = IF u = t THEN l ELSE thread[u]
        BY <1>0, <1>5 DEF Goto, TypeOK, l
  <2>3. BoundTo(thread[t].graph, thread[t].g)'
    <3>1. thread'[t].graph = node'[g] /\ thread'[t].g = g
          BY <1>3, <2>1, <2>2
    <3>2. \A h \in Goals, m \in NodeIds :
             node'[h][m].status = "running" =>
                TaskOf(node[h][m].task, h, m)' \/ Given(node'[h][m], m)
          BY <1>2 DEF RunningHasTask, BoundTo, TaskOf, Given
    <3>. HIDE DEF node1
    <3>. QED  BY <1>3, <3>1, <3>2 DEF BoundTo, TaskOf, Given
  <2>. QED  BY <1>1, <1>2, <2>1, <2>2, <2>3, CopiesKept
<1>. QED  BY <1>4, <1>5 DEF SettleExhausted

\* An op keeps what runs in the copy, and the copy is what is saved.
LEMMA PatchBound ==
    ASSUME BoundInv, TypeOK', NEW t \in Threads, SupervisorOp(t) \/ SupervisorSave(t)
    PROVE  BoundInv'
<1>. DEFINE g == thread[t].g
<1>1. /\ TypeOK /\ g \in Goals /\ thread[t] \in Local /\ thread[t].graph \in Graphs
      BY Continuations, LocalFields DEF BoundInv
<1>2. TasksKept
      BY TasksSame DEF SupervisorOp, SupervisorSave
<1>3. BoundTo(thread[t].graph, g)
      BY DEF BoundInv, Supervisors, SupervisorOp, SupervisorSave, Supervising
<1>4. CASE SupervisorOp(t)
  <2>1. PICK gr \in Edits(thread[t].graph, Scope(t)) :
           Goto(t, [thread[t] EXCEPT !.graph = gr, !.tries = @ + 1])
        BY <1>4 DEF SupervisorOp
  <2>. DEFINE l == [thread[t] EXCEPT !.graph = gr, !.tries = @ + 1]
  <2>2. l.graph = gr /\ l.g = g /\ l.pc = "supervising"
        BY <1>1, <1>4 DEF Local, SupervisorOp, Supervising
  <2>. HIDE DEF l
  <2>3. \A u \in Threads : thread'[u] = IF u = t THEN l ELSE thread[u]
        BY <1>1, <2>1 DEF Goto, TypeOK, l
  <2>4. ASSUME NEW n \in NodeIds, gr[n].status = "running"
        PROVE  TaskOf(gr[n].task, g, n) \/ Given(gr[n], n)
    <3>1. \/ /\ thread[t].graph[n].status = "running"
             /\ gr[n].task = thread[t].graph[n].task
          \/ Given(gr[n], n)
          BY <1>1, <2>1, <2>4, EditedGraphs
    <3>. QED  BY <1>3, <2>4, <3>1, GivenAlike DEF BoundTo
  <2>5. BoundTo(thread[t].graph, thread[t].g)'
    <3>1. thread'[t].graph = gr /\ thread'[t].g = g
          BY <2>2, <2>3
    <3>. QED  BY <1>2, <2>4, <3>1 DEF TasksKept, BoundTo, TaskOf, Given
  <2>6. NoneStarted
        BY <1>4, NodesSame DEF SupervisorOp
  <2>. QED  BY <1>2, <2>2, <2>3, <2>5, <2>6, RunningKept, CopiesKept
<1>5. CASE SupervisorSave(t)
  <2>1. \A h \in Goals : node'[h] = IF h = g THEN thread[t].graph ELSE node[h]
        BY <1>1, <1>5 DEF SupervisorSave, TypeOK
  <2>2. UNCHANGED task
        BY <1>5 DEF SupervisorSave
  <2>3. RunningHasTask'
        BY <1>3, <2>1, <2>2 DEF RunningHasTask, BoundTo, TaskOf, Given, BoundInv
  <2>4. NoneEnters
        BY <1>1, <1>5, WhereTo, ThreadWrite DEF SupervisorSave
  <2>. QED  BY <1>2, <2>3, <2>4, CopiesKept DEF NoneEnters
<1>. QED  BY <1>4, <1>5

\* The task that is started is its node's, and is what the node is bound to.
LEMMA StartBound ==
    ASSUME BoundInv, TypeOK', NEW t \in Threads, DispatchStart(t)
    PROVE  BoundInv'
<1>. DEFINE g == thread[t].g
            k == Len(task) + 1
<1>1. TypeOK /\ thread[t] \in Local /\ g \in Goals
      BY Continuations, LocalFields DEF BoundInv
<1>2. PICK n \in NextReady(t) :
         /\ \E a \in AgentsFor(thread[t].graph, n) :
               Goto(t, [Charged(t, n, a) EXCEPT !.pc = "record", !.n = n, !.k = k])
         /\ task' = Append(task, [goal |-> g, node |-> n, result |-> "running"])
      BY DEF DispatchStart
<1>3. PICK a \in AgentsFor(thread[t].graph, n) :
         Goto(t, [Charged(t, n, a) EXCEPT !.pc = "record", !.n = n, !.k = k])
      BY <1>2
<1>. DEFINE l == [Charged(t, n, a) EXCEPT !.pc = "record", !.n = n, !.k = k]
<1>4. l.pc = "record" /\ l.g = g /\ l.n = n /\ l.k = k
      BY <1>1 DEF Charged, Local
<1>5. /\ task \in Seq(TaskRow) /\ Len(task) \in Nat /\ DOMAIN task = 1 .. Len(task)
      BY <1>1 DEF TypeOK
<1>6. /\ DOMAIN task' = 1 .. k
      /\ \A i \in DOMAIN task : task'[i] = task[i]
      /\ task'[k] = [goal |-> g, node |-> n, result |-> "running"]
      BY <1>2, <1>5
<1>7. TasksKept
      BY <1>5, <1>6 DEF TasksKept, TaskOf
<1>8. RunningHasTask'
      BY <1>7, NodesSame, RunningKept DEF DispatchStart
<1>9. \A u \in Threads : thread'[u] = IF u = t THEN l ELSE thread[u]
      BY <1>1, <1>3 DEF Goto, TypeOK
<1>. HIDE DEF l
<1>10. TaskOf(thread[t].k, thread[t].g, thread[t].n)'
  <2>1. thread'[t].k = k /\ thread'[t].g = g /\ thread'[t].n = n
        BY <1>4, <1>9
  <2>2. k \in 1 .. k /\ task'[k].goal = g /\ task'[k].node = n
        BY <1>5, <1>6
  <2>. QED  BY <1>6, <2>1, <2>2 DEF TaskOf
<1>. QED  BY <1>4, <1>7, <1>8, <1>9, <1>10, CopiesKept

LEMMA RecordBound ==
    ASSUME BoundInv, TypeOK', NEW t \in Threads, DispatchRecord(t)
    PROVE  BoundInv'
<1>. DEFINE g == thread[t].g
            n == thread[t].n
            k == thread[t].k
            row == [node[g][n] EXCEPT !.status = "running", !.task = k]
<1>1. TypeOK /\ thread[t] \in Local /\ g \in Goals /\ n \in NodeIds
      BY Continuations, LocalFields DEF BoundInv
<1>2. UNCHANGED task /\ TasksKept
      BY TasksSame DEF DispatchRecord
<1>3. TaskOf(k, g, n)
      BY DEF BoundInv, Recorders, DispatchRecord
<1>4. row.task = k
  <2>1. node[g] \in Graphs
        BY <1>1 DEF TypeOK
  <2>2. node[g][n] \in Node
        BY <1>1, <2>1 DEF Graphs
  <2>. QED  BY <2>2 DEF Node
<1>. HIDE DEF row
<1>5. ASSUME NEW h \in Goals, NEW m \in NodeIds
      PROVE  \/ node'[h][m] = node[h][m]
             \/ h = g /\ m = n /\ node'[h][m] = row
      BY <1>1 DEF DispatchRecord, UpdateNode, TypeOK, Graphs, row
<1>6. RunningHasTask'
      BY <1>2, <1>3, <1>4, <1>5 DEF RunningHasTask, BoundTo, TaskOf, Given, BoundInv
<1>7. NoneEnters
  <2>1. [thread[t] EXCEPT !.pc = "dispatch", !.n = 1, !.k = 0].pc = "dispatch"
        BY <1>1 DEF Local
  <2>. QED  BY <1>1, <2>1, ThreadWrite DEF DispatchRecord
<1>. QED  BY <1>2, <1>6, <1>7, CopiesKept DEF NoneEnters

-----------------------------------------------------------------------------
LEMMA BoundInit == Init => BoundInv
<1>. SUFFICES ASSUME Init PROVE BoundInv
     OBVIOUS
<1>1. TypeOK
      BY InitTypes
<1>2. \A g \in Goals, n \in NodeIds : node[g][n].status # "running"
  <2>1. \A g \in Goals : node[g] = NoGraph \/ node[g] \in PlansOf(g)
        BY DEF Init
  <2>. QED  BY <2>1, FreshPlans, FreshNoGraph DEF Fresh
<1>3. Supervisors = {} /\ Recorders = {}
      BY DEF Init, Rest, Supervisors, Recorders
<1>. QED  BY <1>1, <1>2, <1>3 DEF BoundInv, RunningHasTask, BoundTo

LEMMA BoundNext == BoundInv /\ [Next]_vars => BoundInv'
<1>. SUFFICES ASSUME BoundInv, [Next]_vars PROVE BoundInv'
     OBVIOUS
<1>0. TypeOK /\ TypeOK'
      BY TypeNext DEF BoundInv
<1>1. ASSUME NEW t \in Threads, SettleWrite(t)
      PROVE  BoundInv'
      BY <1>0, <1>1, SettleWriteQuiet, QuietStep, ExhaustedBound
<1>2. ASSUME NEW t \in Threads, Supervise(t)
      PROVE  BoundInv'
      BY <1>0, <1>2, PatchBound, NoPatchQuiet, TasksSame, NodesSame, QuietStep
         DEF Supervise
<1>3. ASSUME NEW t \in Threads, Dispatch(t)
      PROVE  BoundInv'
      BY <1>0, <1>3, StartBound, RecordBound, DispatchErrorQuiet, PassQuiet,
         TasksSame, NodesSame, QuietStep DEF Dispatch
<1>4. ASSUME NEW t \in Threads, Pass(t) \/ Heal(t)
      PROVE  BoundInv'
      BY <1>0, <1>1, <1>2, <1>3, <1>4, PassQuiet, PlanDoneQuiet, HealQuiet, TasksSame,
         NodesSame, QuietStep DEF Pass
<1>5. CASE Request
      BY <1>0, <1>5, RequestQuiet, TasksSame, QuietStep
<1>6. CASE World
      BY <1>0, <1>6, WorldQuiet, QuietStep
<1>7. CASE UNCHANGED vars
      BY <1>0, <1>7, TasksSame, NodesSame, ThreadsSame, QuietStep DEF vars
<1>. QED  BY <1>4, <1>5, <1>6, <1>7 DEF Next

\* Every node that is marked running points at a task row that was started for
\* it, unless a split brought it with that very status and task, whatever passes,
\* requests and restarts come between the read of a graph and its save
\* (scheduler.rs, goal.rs save_graph, graph.rs apply_patch).
THEOREM RunningNodesHaveTasks == Spec => []RunningHasTask
<1>1. BoundInv => RunningHasTask
      BY DEF BoundInv
<1>. QED  BY <1>1, BoundInit, BoundNext, PTL DEF Spec

-----------------------------------------------------------------------------
(* Attempts. *)

LEMMA TriedAlike ==
    ASSUME NEW a, NEW b, NEW n, a.attempts = b.attempts, Tried(b, n)
    PROVE  Tried(a, n)
  BY DEF Tried

LEMMA RowAttempts ==
    ASSUME TypeOK, AttemptsBounded, NEW g \in Goals, NEW n \in NodeIds, NEW row,
           Tried(row, n) \/ g \in Careful, node' = UpdateNode(g, n, row)
    PROVE  AttemptsBounded'
<1>1. ASSUME NEW h \in Goals, NEW m \in NodeIds
      PROVE  \/ node'[h][m] = node[h][m]
             \/ h = g /\ m = n /\ node'[h][m] = row
      BY DEF UpdateNode, TypeOK, Graphs
<1>. QED  BY <1>1 DEF AttemptsBounded, Tried

\* Only a retry counts up, and only from 0 or 1.
LEMMA SettleAttempts ==
    ASSUME TypeOK, AttemptsBounded, NEW t \in Threads, SettleWrite(t)
    PROVE  AttemptsBounded'
<1>. DEFINE g == thread[t].g
            n == thread[t].n
            nd == node[g][n]
<1>1. g \in Goals /\ n \in NodeIds /\ thread[t].tries \in Nat
      BY LocalFields, Continuations
<1>2. nd \in Node
      BY <1>1 DEF TypeOK, Graphs
<1>3. Tried(nd, n) \/ g \in Careful
      BY <1>1 DEF AttemptsBounded
<1>4. CASE SettleCarefulDone(t) \/ SettleCarefulNext(t)
      BY <1>1, <1>4, RowAttempts DEF SettleCarefulDone, SettleCarefulNext, OfCareful
<1>5. CASE SettleDone(t)
  <2>1. [nd EXCEPT !.status = "done"].attempts = nd.attempts
        BY <1>2 DEF Node
  <2>. QED  BY <1>1, <1>3, <1>5, <2>1, TriedAlike, RowAttempts DEF SettleDone
<1>6. CASE SettleGiveUp(t)
      BY <1>6 DEF SettleGiveUp, AttemptsBounded, Tried
<1>7. CASE SettleWait(t)
  <2>. DEFINE row == [nd EXCEPT !.status = "pending", !.held = TRUE,
                        !.agent = IF ResultOf(t) = "exhausted" THEN @ ELSE Unpinned]
  <2>1. row.attempts = nd.attempts
        BY <1>2 DEF Node
  <2>2. node' = UpdateNode(g, n, row)
        BY <1>7 DEF SettleWait
  <2>. HIDE DEF row
  <2>. QED  BY <1>1, <1>3, <2>1, <2>2, TriedAlike, RowAttempts
<1>8. CASE SettleRetry(t)
  <2>. DEFINE row == [nd EXCEPT !.status = "pending", !.attempts = thread[t].tries + 1]
  <2>1. row.attempts = thread[t].tries + 1
        BY <1>2 DEF Node
  <2>2. thread[t].tries + 1 <= 2
        BY <1>1, <1>8 DEF SettleRetry, Retry
  <2>3. node' = UpdateNode(g, n, row)
        BY <1>8 DEF SettleRetry
  <2>. HIDE DEF row
  <2>4. Tried(row, n)
        BY <2>1, <2>2 DEF Tried
  <2>. QED  BY <1>1, <2>3, <2>4, RowAttempts
<1>9. CASE SettleExhausted(t)
  <2>1. [nd EXCEPT !.status = "failed"].attempts = nd.attempts
        BY <1>2 DEF Node
  <2>. QED  BY <1>1, <1>3, <1>9, <2>1, TriedAlike, RowAttempts DEF SettleExhausted
<1>. QED  BY <1>4, <1>5, <1>6, <1>7, <1>8, <1>9 DEF SettleWrite

LEMMA DispatchAttempts ==
    ASSUME TypeOK, AttemptsBounded, NEW t \in Threads,
           DispatchError(t) \/ DispatchRecord(t)
    PROVE  AttemptsBounded'
<1>. DEFINE g == thread[t].g
<1>1. thread[t] \in Local /\ g \in Goals /\ node[g] \in Graphs
      BY Continuations, LocalFields DEF TypeOK
<1>2. ASSUME NEW n \in NodeIds
      PROVE  /\ node[g][n] \in Node
             /\ Tried(node[g][n], n) \/ g \in Careful
      BY <1>1 DEF AttemptsBounded, Graphs
<1>3. CASE DispatchError(t)
  <2>1. PICK n \in NextReady(t) :
           node' = UpdateNode(g, n, [node[g][n] EXCEPT !.status = "failed"])
        BY <1>3 DEF DispatchError
  <2>2. n \in NodeIds
        BY <1>1, LocalFields DEF NextReady, FirstOf
  <2>. DEFINE row == [node[g][n] EXCEPT !.status = "failed"]
  <2>3. row.attempts = node[g][n].attempts /\ node' = UpdateNode(g, n, row)
        BY <1>2, <2>1, <2>2 DEF Node
  <2>. HIDE DEF row
  <2>4. Tried(row, n) \/ g \in Careful
        BY <1>2, <2>2, <2>3, TriedAlike
  <2>. QED  BY <1>1, <2>2, <2>3, <2>4, RowAttempts
<1>4. CASE DispatchRecord(t)
  <2>. DEFINE n == thread[t].n
              row == [node[g][n] EXCEPT !.status = "running", !.task = thread[t].k]
  <2>1. n \in NodeIds /\ node' = UpdateNode(g, n, row)
        BY <1>1, <1>4, LocalFields DEF DispatchRecord
  <2>2. row.attempts = node[g][n].attempts
        BY <1>2, <2>1 DEF Node
  <2>. HIDE DEF row
  <2>. QED  BY <1>1, <1>2, <2>1, <2>2, TriedAlike, RowAttempts
<1>. QED  BY <1>3, <1>4

\* A whole graph is written by a plan, a patch, a resume and the re-route.
LEMMA GraphAttempts ==
    ASSUME TypeOK, AttemptsInv, NEW t \in Threads, NEW h \in Goals,
           PlanDone(t) \/ SupervisorSave(t) \/ Resume(t, h) \/ RerouteGoal(t)
    PROVE  AttemptsBounded'
<1>1. \A g \in Goals, n \in NodeIds :
         node[g][n] \in Node /\ (Tried(node[g][n], n) \/ g \in Careful)
      BY DEF TypeOK, Graphs, AttemptsInv, AttemptsBounded
<1>2. thread[t].g \in Goals
      BY Continuations, LocalFields
<1>3. CASE PlanDone(t)
  <2>1. PICK gr \in PlansOf(thread[t].g) : node' = [node EXCEPT ![thread[t].g] = gr]
        BY <1>3 DEF PlanDone
  <2>2. \A n \in NodeIds : gr[n].attempts = 0
        BY <1>2, <2>1, FreshPlans DEF Fresh
  <2>3. \A g \in Goals : node'[g] = node[g] \/ node'[g] = gr
        BY <2>1 DEF TypeOK
  <2>. QED  BY <1>1, <2>2, <2>3 DEF AttemptsBounded, Tried
<1>4. CASE SupervisorSave(t)
  <2>1. \A n \in NodeIds : Tried(thread[t].graph[n], n)
        BY <1>4 DEF AttemptsInv, Supervisors, SupervisorSave, Supervising
  <2>2. \A g \in Goals : node'[g] = node[g] \/ node'[g] = thread[t].graph
        BY <1>4 DEF SupervisorSave, TypeOK
  <2>. QED  BY <1>1, <2>1, <2>2 DEF AttemptsBounded, Tried
<1>5. CASE Resume(t, h)
  <2>. DEFINE gr == [n \in NodeIds |-> [node[h][n] EXCEPT !.held = FALSE]]
  <2>1. \A n \in NodeIds : gr[n].attempts = node[h][n].attempts
        BY <1>1 DEF Node
  <2>2. node' = [node EXCEPT ![h] = gr]
        BY <1>5 DEF Resume
  <2>. HIDE DEF gr
  <2>3. \A g \in Goals : node'[g] = IF g = h THEN gr ELSE node[g]
        BY <2>2 DEF TypeOK
  <2>. QED  BY <1>1, <2>1, <2>3 DEF AttemptsBounded, Tried
<1>6. CASE RerouteGoal(t)
  <2>. DEFINE g == FirstListed(thread[t].rows)
              gr == [n \in NodeIds |->
                       IF Worn(node[g][n])
                       THEN [node[g][n] EXCEPT !.agent = Unpinned, !.status = "pending"]
                       ELSE node[g][n]]
  <2>1. g \in Goals
        BY <1>6, FirstIsGoal DEF RerouteGoal
  <2>2. \A n \in NodeIds : gr[n].attempts = node[g][n].attempts
        BY <1>1, <2>1 DEF Node
  <2>3. node' = node \/ node' = [node EXCEPT ![g] = gr]
        BY <1>6 DEF RerouteGoal
  <2>. HIDE DEF gr
  <2>4. \A i \in Goals : node'[i] = node[i] \/ (i = g /\ node'[i] = gr)
        BY <2>1, <2>3 DEF TypeOK
  <2>. QED  BY <1>1, <2>2, <2>4 DEF AttemptsBounded, Tried
<1>. QED  BY <1>3, <1>4, <1>5, <1>6

LEMMA WorldAttempts ==
    ASSUME TypeOK, AttemptsBounded, World
    PROVE  AttemptsBounded'
<1>1. \A g \in Goals, n \in NodeIds :
         node[g][n] \in Node /\ (Tried(node[g][n], n) \/ g \in Careful)
      BY DEF TypeOK, Graphs, AttemptsBounded
<1>2. ASSUME NEW g \in Goals, NEW n \in NodeIds, StampPasses(g, n)
      PROVE  AttemptsBounded'
  <2>1. \A h \in Goals, m \in NodeIds :
           node'[h][m] = IF h = g /\ m = n THEN [node[g][n] EXCEPT !.held = FALSE]
                         ELSE node[h][m]
        BY <1>2 DEF StampPasses, TypeOK, Graphs
  <2>2. [node[g][n] EXCEPT !.held = FALSE].attempts = node[g][n].attempts
        BY <1>1 DEF Node
  <2>3. ASSUME NEW h \in Goals \ Careful, NEW m \in NodeIds
        PROVE  Tried(node'[h][m], m)
    <3>1. node'[h][m].attempts = node[h][m].attempts
          BY <2>1, <2>2
    <3>. QED  BY <1>1, <3>1, TriedAlike
  <2>. QED  BY <2>3 DEF AttemptsBounded, Tried
<1>3. ASSUME Restart
      PROVE  AttemptsBounded'
  <2>1. ASSUME NEW nd \in Node, NEW n, Tried(nd, n)
        PROVE  Tried(Reconciled(nd), n)
    <3>1. \/ Reconciled(nd).attempts = nd.attempts
          \/ Reconciled(nd).attempts <= 2
          BY DEF Reconciled, Retry, Node
    <3>. QED  BY <2>1, <3>1 DEF Tried
  <2>2. \A g \in Goals, n \in NodeIds : node'[g][n] = Reconciled(node[g][n])
        BY <1>3 DEF Restart
  <2>3. \A g \in Goals \ Careful, n \in NodeIds : Tried(node'[g][n], n)
        BY <1>1, <2>1, <2>2
  <2>. QED  BY <2>3 DEF AttemptsBounded, Tried
<1>. QED  BY <1>2, <1>3 DEF World, TaskEnd, ClockPasses, AttemptsBounded, Tried

LEMMA CopiesBounded ==
    ASSUME AttemptsInv, TypeOK', AttemptsBounded',
           \A t \in Threads : thread'[t] = thread[t] \/ thread'[t].pc # "supervising"
    PROVE  AttemptsInv'
  BY DEF AttemptsInv, Supervisors, Tried

LEMMA QuietAttempts ==
    ASSUME AttemptsInv, TypeOK', AttemptsBounded', NoneEnters
    PROVE  AttemptsInv'
  BY CopiesBounded DEF NoneEnters

\* The copy a supervisor is given is the graph as just written.
LEMMA ExhaustedAttempts ==
    ASSUME AttemptsInv, TypeOK', NEW t \in Threads, SettleExhausted(t)
    PROVE  AttemptsInv'
<1>. DEFINE g == thread[t].g
            n == thread[t].n
            node1 == UpdateNode(g, n, [node[g][n] EXCEPT !.status = "failed"])
<1>1. TypeOK /\ AttemptsBounded /\ g \in Goals /\ node' = node1 /\ g \notin Careful
      BY Continuations, LocalFields DEF AttemptsInv, SettleExhausted, OfCareful
<1>2. AttemptsBounded'
      BY <1>1, SettleAttempts DEF SettleWrite
<1>3. CASE Goto(t, Settled(t))
  <2>1. NoneEnters
        BY <1>1, <1>3, WhereTo, ThreadWrite
  <2>. QED  BY <1>2, <2>1, QuietAttempts
<1>4. CASE Goto(t, [Settled(t) EXCEPT !.pc = "supervising", !.g = g, !.n = n,
                                      !.graph = node1[g]])
  <2>. DEFINE l == [Settled(t) EXCEPT !.pc = "supervising", !.g = g, !.n = n,
                                      !.graph = node1[g]]
  <2>1. l.g = g /\ l.graph = node1[g]
        BY DEF Settled, Rest
  <2>. HIDE DEF l
  <2>2. \A u \in Threads : thread'[u] = IF u = t THEN l ELSE thread[u]
        BY <1>1, <1>4 DEF Goto, TypeOK, l
  <2>3. \A m \in NodeIds : Tried(l.graph[m], m)
    <3>1. \A m \in NodeIds : Tried(node'[g][m], m)
          BY <1>1, <1>2 DEF AttemptsBounded, Tried
    <3>. QED  BY <1>1, <2>1, <3>1
  <2>4. ASSUME NEW u \in Threads, thread'[u].pc = "supervising"
        PROVE  /\ thread'[u].g \notin Careful
               /\ \A m \in NodeIds : Tried(thread'[u].graph[m], m)
    <3>1. CASE u = t
          BY <1>1, <2>1, <2>2, <2>3, <3>1
    <3>2. CASE u # t
          BY <2>2, <2>4, <3>2 DEF AttemptsInv, Supervisors
    <3>. QED  BY <3>1, <3>2
  <2>. QED  BY <1>2, <2>4 DEF AttemptsInv, Supervisors, Tried
<1>. QED  BY <1>3, <1>4 DEF SettleExhausted

LEMMA OpAttempts ==
    ASSUME AttemptsInv, TypeOK', NEW t \in Threads, SupervisorOp(t)
    PROVE  AttemptsInv'
<1>. DEFINE g == thread[t].g
<1>1. /\ TypeOK /\ AttemptsBounded' /\ thread[t] \in Local
      /\ thread[t].graph \in Graphs
      BY Continuations, LocalFields DEF AttemptsInv, AttemptsBounded, Tried, SupervisorOp
<1>2. g \notin Careful /\ \A n \in NodeIds : Tried(thread[t].graph[n], n)
      BY DEF AttemptsInv, Supervisors, SupervisorOp, Supervising
<1>3. PICK gr \in Edits(thread[t].graph, Scope(t)) :
         Goto(t, [thread[t] EXCEPT !.graph = gr, !.tries = @ + 1])
      BY DEF SupervisorOp
<1>. DEFINE l == [thread[t] EXCEPT !.graph = gr, !.tries = @ + 1]
<1>4. l.graph = gr /\ l.g = g
      BY <1>1 DEF Local
<1>. HIDE DEF l
<1>5. \A u \in Threads : thread'[u] = IF u = t THEN l ELSE thread[u]
      BY <1>1, <1>3 DEF Goto, TypeOK, l
<1>6. ASSUME NEW n \in NodeIds PROVE Tried(gr[n], n)
  <2>1. \/ gr[n].attempts \in {0, thread[t].graph[n].attempts}
        \/ \E piece \in Pieces : gr[n].attempts = piece[n].attempts
        BY <1>1, <1>3, EditedGraphs
  <2>. QED  BY <1>2, <2>1 DEF Tried
<1>. QED  BY <1>1, <1>2, <1>4, <1>5, <1>6 DEF AttemptsInv, Supervisors, Tried

LEMMA AttemptsInit == Init => AttemptsInv
<1>. SUFFICES ASSUME Init PROVE AttemptsInv
     OBVIOUS
<1>1. \A g \in Goals, n \in NodeIds : node[g][n].attempts = 0
  <2>1. \A g \in Goals : node[g] = NoGraph \/ node[g] \in PlansOf(g)
        BY DEF Init
  <2>. QED  BY <2>1, FreshPlans, FreshNoGraph DEF Fresh
<1>2. Supervisors = {}
      BY DEF Init, Rest, Supervisors
<1>. QED  BY <1>1, <1>2, InitTypes DEF AttemptsInv, AttemptsBounded, Tried

LEMMA AttemptsNext == AttemptsInv /\ [Next]_vars => AttemptsInv'
<1>. SUFFICES ASSUME AttemptsInv, [Next]_vars PROVE AttemptsInv'
     OBVIOUS
<1>0. TypeOK /\ AttemptsBounded /\ TypeOK'
      BY TypeNext DEF AttemptsInv
<1>1. UNCHANGED node => AttemptsBounded'
      BY <1>0 DEF AttemptsBounded, Tried
<1>2. ASSUME NEW t \in Threads, SettleWrite(t)
      PROVE  AttemptsInv'
      BY <1>0, <1>2, SettleWriteQuiet, SettleAttempts, QuietAttempts, ExhaustedAttempts
<1>3. ASSUME NEW t \in Threads, Supervise(t)
      PROVE  AttemptsInv'
  <2>1. CASE SupervisorSave(t)
    <3>1. NoneEnters
          BY <1>0, <2>1, WhereTo, ThreadWrite DEF SupervisorSave
    <3>. QED  BY <1>0, <2>1, <3>1, GraphAttempts, QuietAttempts, OnesAreIds
  <2>2. CASE SupervisorClash(t) \/ SupervisorAbort(t) \/ SupervisorError(t)
        BY <1>0, <1>1, <2>2, NoPatchQuiet, QuietAttempts
  <2>. QED  BY <1>0, <1>3, <2>1, <2>2, OpAttempts DEF Supervise
<1>4. ASSUME NEW t \in Threads, Dispatch(t)
      PROVE  AttemptsInv'
  <2>1. CASE DispatchStart(t)
    <3>1. PICK n, a :
             Goto(t, [Charged(t, n, a) EXCEPT !.pc = "record", !.n = n,
                                              !.k = Len(task) + 1])
          BY <2>1 DEF DispatchStart
    <3>2. [Charged(t, n, a) EXCEPT !.pc = "record", !.n = n,
                                   !.k = Len(task) + 1].pc = "record"
          BY <1>0, Continuations DEF Charged, Local
    <3>3. thread'[t].pc = "record" /\ \A u \in Threads \ {t} : thread'[u] = thread[u]
          BY <1>0, <3>1, <3>2 DEF Goto, TypeOK
    <3>. QED  BY <1>0, <1>1, <2>1, <3>3, CopiesBounded DEF DispatchStart
  <2>2. CASE DispatchRecord(t)
    <3>1. [thread[t] EXCEPT !.pc = "dispatch", !.n = 1, !.k = 0].pc = "dispatch"
          BY <1>0, Continuations DEF Local
    <3>2. NoneEnters
          BY <1>0, <2>2, <3>1, ThreadWrite DEF DispatchRecord
    <3>. QED  BY <1>0, <2>2, <3>2, DispatchAttempts, QuietAttempts
  <2>3. CASE DispatchError(t)
        BY <1>0, <2>3, DispatchErrorQuiet, DispatchAttempts, QuietAttempts
  <2>4. CASE DispatchEnd(t) \/ DispatchSkip(t)
        BY <1>0, <1>1, <2>4, PassQuiet, QuietAttempts
  <2>. QED  BY <1>4, <2>1, <2>2, <2>3, <2>4 DEF Dispatch
<1>5. ASSUME NEW t \in Threads, Heal(t)
      PROVE  AttemptsInv'
  <2>1. AttemptsBounded'
        BY <1>0, <1>1, <1>5, GraphAttempts, OnesAreIds
           DEF Heal, HealBegin, ReevalGoal, ReevalEnd, RerouteEnd
  <2>. QED  BY <1>0, <1>5, <2>1, HealQuiet, QuietAttempts
<1>6. ASSUME NEW t \in Threads, Pass(t)
      PROVE  AttemptsInv'
  <2>1. CASE PlanDone(t)
        BY <1>0, <2>1, GraphAttempts, PlanDoneQuiet, QuietAttempts, OnesAreIds
  <2>. QED  BY <1>0, <1>1, <1>2, <1>3, <1>4, <1>6, <2>1, PassQuiet, QuietAttempts
            DEF Pass
<1>7. CASE Request
  <2>1. AttemptsBounded'
        BY <1>0, <1>1, <1>7, GraphAttempts
           DEF Request, Submit, Amend, Cancel, ResolveMerge, Threads
  <2>. QED  BY <1>0, <1>7, <2>1, RequestQuiet, QuietAttempts
<1>8. CASE World
      BY <1>0, <1>8, WorldAttempts, WorldQuiet, QuietAttempts
<1>9. CASE UNCHANGED vars
      BY <1>0, <1>1, <1>9, ThreadsSame, QuietAttempts DEF vars
<1>. QED  BY <1>5, <1>6, <1>7, <1>8, <1>9 DEF Next

\* Outside careful mode a node's attempts are never counted above two, whether a
\* settle or a reconcile after a crash writes the count (scheduler.rs
\* retry_decision, reconcile); more are only those the supervisor wrote into a row
\* of a split (graph.rs apply_patch).
THEOREM AttemptsNeverExceedTwo == Spec => []AttemptsBounded
<1>1. AttemptsInv => AttemptsBounded
      BY DEF AttemptsInv
<1>. QED  BY <1>1, AttemptsInit, AttemptsNext, PTL DEF Spec

(***************************************************************************)
(* The caps of a goal hold as far as they can: how far threads that compare  *)
(* a copy with a cap can take the count beyond it, that what is started is   *)
(* charged, and that what a clean stop has paused is resumed.                *)
(***************************************************************************)

-----------------------------------------------------------------------------
(* Where each action takes its thread, and what the thread holds there.      *)

OnlyMoves(t) == \A u \in Threads \ {t} : thread'[u] = thread[u]
From(t, pc) == thread[t].pc = pc
To(t, pc) == thread'[t].pc = pc /\ OnlyMoves(t)
KeepsPlace(t) == thread'[t].g = thread[t].g /\ thread'[t].rows = thread[t].rows
Leaves(t, g) == thread'[t].rows = Without(thread[t].rows, g)

LEMMA GotoIs ==
    ASSUME TypeOK, NEW t \in Threads, NEW l, Goto(t, l)
    PROVE  thread'[t] = l /\ OnlyMoves(t)
  BY DEF TypeOK, Goto, OnlyMoves

LEMMA RestFields ==
    /\ Rest.pc = "idle"
    /\ \A t : Settled(t).pc = "settle"
    /\ \A t, pc, g : /\ Visited(t, pc, g).pc = pc
                     /\ Visited(t, pc, g).rows = Without(thread[t].rows, g)
  BY DEF Rest, Settled, Visited

LEMMA SettleMoves ==
    ASSUME TypeOK, NEW t \in Threads
    PROVE  /\ TickBegin(t) =>
                 /\ To(t, "settle")
                 /\ From(t, "drive") \/ (t = Timer /\ From(t, "idle"))
           /\ SettleRead(t) =>
                 /\ From(t, "settle")
                 /\ \/ To(t, "settle")
                    \/ /\ To(t, "settling") /\ thread'[t].g \in Goals
                       /\ thread'[t].row = goal[thread'[t].g]
           /\ SettleWrite(t) =>
                 /\ From(t, "settling")
                 /\ \/ To(t, "settle")
                    \/ /\ To(t, "supervising") /\ PatchLeft(thread[t].row)
                       /\ thread'[t].g = thread[t].g
           /\ SupervisorOp(t) =>
                 From(t, "supervising") /\ To(t, "supervising") /\ KeepsPlace(t)
           /\ SupervisorSave(t) \/ SupervisorAbort(t) \/ SupervisorError(t) =>
                 From(t, "supervising") /\ To(t, "settle")
           /\ SupervisorClash(t) => From(t, "supervising") /\ To(t, "idle")
<1>0. thread[t] \in Local
      BY Continuations
<1>1. TickBegin(t) => /\ To(t, "settle")
                      /\ From(t, "drive") \/ (t = Timer /\ From(t, "idle"))
  <2>1. [Rest EXCEPT !.pc = "settle", !.finished = Finished].pc = "settle"
        BY DEF Rest
  <2>. QED  BY <2>1, GotoIs DEF TickBegin, To, From
<1>2. ASSUME SettleRead(t)
      PROVE  /\ From(t, "settle")
             /\ \/ To(t, "settle")
                \/ /\ To(t, "settling") /\ thread'[t].g \in Goals
                   /\ thread'[t].row = goal[thread'[t].g]
  <2>1. PICK k \in thread[t].finished :
           \/ Goto(t, [thread[t] EXCEPT !.finished = thread[t].finished \ {k}])
           \/ \E gn \in RunningNodes :
                Goto(t, [Rest EXCEPT
                           !.pc = "settling", !.finished = thread[t].finished \ {k},
                           !.k = k, !.g = gn[1], !.n = gn[2], !.row = goal[gn[1]],
                           !.tries = node[gn[1]][gn[2]].attempts])
        BY <1>2 DEF SettleRead
  <2>2. From(t, "settle")
        BY <1>2 DEF SettleRead, From
  <2>3. CASE Goto(t, [thread[t] EXCEPT !.finished = thread[t].finished \ {k}])
    <3>. DEFINE l == [thread[t] EXCEPT !.finished = thread[t].finished \ {k}]
    <3>1. l.pc = "settle"
          BY <1>0, <2>2 DEF Local, From
    <3>2. Goto(t, l)
          BY <2>3
    <3>. HIDE DEF l
    <3>. QED  BY <2>2, <3>1, <3>2, GotoIs DEF To
  <2>4. ASSUME NEW gn \in RunningNodes,
               Goto(t, [Rest EXCEPT
                          !.pc = "settling", !.finished = thread[t].finished \ {k},
                          !.k = k, !.g = gn[1], !.n = gn[2], !.row = goal[gn[1]],
                          !.tries = node[gn[1]][gn[2]].attempts])
        PROVE  /\ To(t, "settling") /\ thread'[t].g \in Goals
               /\ thread'[t].row = goal[thread'[t].g]
    <3>. DEFINE l == [Rest EXCEPT
                        !.pc = "settling", !.finished = thread[t].finished \ {k},
                        !.k = k, !.g = gn[1], !.n = gn[2], !.row = goal[gn[1]],
                        !.tries = node[gn[1]][gn[2]].attempts]
    <3>1. l.pc = "settling" /\ l.g = gn[1] /\ l.row = goal[gn[1]] /\ gn[1] \in Goals
          BY DEF Rest, RunningNodes
    <3>2. Goto(t, l)
          BY <2>4
    <3>. HIDE DEF l
    <3>. QED  BY <3>1, <3>2, GotoIs DEF To
  <2>. QED  BY <2>1, <2>2, <2>3, <2>4, Zenon
<1>3. ASSUME SettleWrite(t)
      PROVE  /\ From(t, "settling")
             /\ \/ To(t, "settle")
                \/ /\ To(t, "supervising") /\ PatchLeft(thread[t].row)
                   /\ thread'[t].g = thread[t].g
  <2>. DEFINE g == thread[t].g
              l(gr) == [Settled(t) EXCEPT !.pc = "supervising", !.g = g,
                                          !.n = thread[t].n, !.graph = gr]
  <2>1. From(t, "settling")
        BY <1>3 DEF SettleWrite, SettleCarefulDone, SettleCarefulNext, SettleDone,
           SettleGiveUp, SettleWait, SettleRetry, SettleExhausted, Settling, From
  <2>2. \/ Goto(t, Settled(t))
        \/ PatchLeft(thread[t].row) /\ \E gr : Goto(t, l(gr))
        BY <1>3 DEF SettleWrite, SettleCarefulDone, SettleCarefulNext, SettleDone,
           SettleGiveUp, SettleWait, SettleRetry, SettleExhausted
  <2>3. \A gr : l(gr).pc = "supervising" /\ l(gr).g = g
        BY DEF Settled, Rest
  <2>. HIDE DEF l
  <2>. QED  BY <2>1, <2>2, <2>3, GotoIs, RestFields DEF To
<1>4. ASSUME SupervisorOp(t)
      PROVE  From(t, "supervising") /\ To(t, "supervising") /\ KeepsPlace(t)
  <2>1. \E gr \in Edits(thread[t].graph, Scope(t)) :
           Goto(t, [thread[t] EXCEPT !.graph = gr, !.tries = @ + 1])
        BY <1>4, Zenon DEF SupervisorOp
  <2>2. PICK gr : Goto(t, [thread[t] EXCEPT !.graph = gr, !.tries = @ + 1])
        BY <2>1, Zenon
  <2>. DEFINE l == [thread[t] EXCEPT !.graph = gr, !.tries = @ + 1]
  <2>3. l.pc = thread[t].pc /\ l.g = thread[t].g /\ l.rows = thread[t].rows
        BY <1>0 DEF Local
  <2>4. Goto(t, l)
        BY <2>2
  <2>. HIDE DEF l
  <2>5. From(t, "supervising")
        BY <1>4 DEF SupervisorOp, Supervising, From
  <2>. QED  BY <2>3, <2>4, <2>5, GotoIs DEF To, From, KeepsPlace
<1>5. /\ SupervisorSave(t) \/ SupervisorAbort(t) \/ SupervisorError(t) =>
            From(t, "supervising") /\ To(t, "settle")
      /\ SupervisorClash(t) => From(t, "supervising") /\ To(t, "idle")
      BY RestFields, GotoIs DEF SupervisorSave, SupervisorAbort, SupervisorError,
         SupervisorClash, Supervising, To, From
<1>. QED  BY <1>1, <1>2, <1>3, <1>4, <1>5

LEMMA TickMoves ==
    ASSUME TypeOK, NEW t \in Threads
    PROVE  /\ TickList(t) => /\ From(t, "settle") /\ To(t, "tick")
                             /\ thread'[t].rows = SelectStatus(Active)
           /\ TickEnd(t) => From(t, "tick") /\ To(t, "idle")
           /\ TickUnplanned(t) \/ TickBlock(t) \/ TickFail(t) =>
                 From(t, "tick") /\ To(t, "tick") /\ Leaves(t, VisitedGoal(t))
           /\ TickIntegrate(t) =>
                 /\ From(t, "tick") /\ To(t, "integrating")
                 /\ thread'[t].g = VisitedGoal(t) /\ thread'[t].rows = thread[t].rows
           /\ TickDispatch(t) =>
                 /\ From(t, "tick") /\ To(t, "dispatch")
                 /\ thread'[t].g = VisitedGoal(t) /\ thread'[t].rows = thread[t].rows
                 /\ thread'[t].room = Room(VisitedGoal(t))
                 /\ thread'[t].graph = node[VisitedGoal(t)]
                 /\ thread'[t].ready = ReadySet(node[VisitedGoal(t)])
           /\ IntegratorEnd(t) =>
                 From(t, "integrating") /\ To(t, "tick") /\ Leaves(t, thread[t].g)
<1>1. TickList(t) => /\ From(t, "settle") /\ To(t, "tick")
                     /\ thread'[t].rows = SelectStatus(Active)
  <2>. DEFINE l == [Rest EXCEPT !.pc = "tick", !.rows = SelectStatus(Active)]
  <2>1. l.pc = "tick" /\ l.rows = SelectStatus(Active)
        BY DEF Rest
  <2>2. TickList(t) => From(t, "settle") /\ Goto(t, l)
        BY DEF TickList, From
  <2>. HIDE DEF l
  <2>. QED  BY <2>1, <2>2, GotoIs DEF To
<1>2. TickEnd(t) => From(t, "tick") /\ To(t, "idle")
      BY RestFields, GotoIs DEF TickEnd, From, To
<1>3. TickUnplanned(t) \/ TickBlock(t) \/ TickFail(t) =>
         From(t, "tick") /\ To(t, "tick") /\ Leaves(t, VisitedGoal(t))
      BY RestFields, GotoIs DEF TickUnplanned, TickBlock, TickFail, Visiting, From, To,
                                Leaves
<1>4. TickIntegrate(t) =>
         /\ From(t, "tick") /\ To(t, "integrating")
         /\ thread'[t].g = VisitedGoal(t) /\ thread'[t].rows = thread[t].rows
  <2>. DEFINE l == [Rest EXCEPT !.pc = "integrating", !.g = VisitedGoal(t),
                                !.rows = thread[t].rows]
  <2>1. l.pc = "integrating" /\ l.g = VisitedGoal(t) /\ l.rows = thread[t].rows
        BY DEF Rest
  <2>2. TickIntegrate(t) => From(t, "tick") /\ Goto(t, l)
        BY DEF TickIntegrate, Visiting, From
  <2>. HIDE DEF l
  <2>. QED  BY <2>1, <2>2, GotoIs DEF To
<1>5. TickDispatch(t) =>
         /\ From(t, "tick") /\ To(t, "dispatch")
         /\ thread'[t].g = VisitedGoal(t) /\ thread'[t].rows = thread[t].rows
         /\ thread'[t].room = Room(VisitedGoal(t))
         /\ thread'[t].graph = node[VisitedGoal(t)]
         /\ thread'[t].ready = ReadySet(node[VisitedGoal(t)])
  <2>. DEFINE g == VisitedGoal(t)
              l == [Rest EXCEPT
                      !.pc = "dispatch", !.g = g, !.rows = thread[t].rows,
                      !.graph = node[g], !.ready = ReadySet(node[g]),
                      !.room = Room(g), !.slots = Slots]
  <2>1. /\ l.pc = "dispatch" /\ l.g = g /\ l.rows = thread[t].rows
        /\ l.room = Room(g) /\ l.graph = node[g] /\ l.ready = ReadySet(node[g])
        BY DEF Rest
  <2>2. TickDispatch(t) => From(t, "tick") /\ Goto(t, l)
        BY DEF TickDispatch, Visiting, From
  <2>. HIDE DEF l
  <2>. QED  BY <2>1, <2>2, GotoIs DEF To
<1>6. IntegratorEnd(t) =>
         From(t, "integrating") /\ To(t, "tick") /\ Leaves(t, thread[t].g)
      BY RestFields, GotoIs DEF IntegratorEnd, From, To, Leaves
<1>. QED  BY <1>1, <1>2, <1>3, <1>4, <1>5, <1>6

LEMMA DispatchMoves ==
    ASSUME TypeOK, NEW t \in Threads
    PROVE  /\ DispatchEnd(t) =>
                 From(t, "dispatch") /\ To(t, "tick") /\ Leaves(t, thread[t].g)
           /\ DispatchSkip(t) =>
                 /\ From(t, "dispatch") /\ To(t, "dispatch") /\ KeepsPlace(t)
                 /\ thread'[t].room = thread[t].room
                 /\ thread'[t].graph = thread[t].graph
                 /\ thread'[t].ready \subseteq thread[t].ready
           /\ DispatchError(t) =>
                 /\ From(t, "dispatch") /\ To(t, "dispatch") /\ KeepsPlace(t)
                 /\ thread[t].room > 0 /\ thread'[t].room = thread[t].room - 1
                 /\ thread'[t].graph = thread[t].graph
                 /\ \E n \in thread[t].ready :
                       /\ thread'[t].ready = thread[t].ready \ {n}
                       /\ node' = UpdateNode(thread[t].g, n,
                                     [node[thread[t].g][n] EXCEPT !.status = "failed"])
           /\ DispatchStart(t) =>
                 /\ From(t, "dispatch") /\ To(t, "record") /\ KeepsPlace(t)
                 /\ thread[t].room > 0 /\ thread'[t].room = thread[t].room - 1
                 /\ thread'[t].k = Len(task) + 1
                 /\ thread'[t].graph = thread[t].graph
                 /\ thread'[t].n \in thread[t].ready
                 /\ thread'[t].ready = thread[t].ready \ {thread'[t].n}
                 /\ task' = Append(task, [goal |-> thread[t].g, node |-> thread'[t].n,
                                          result |-> "running"])
           /\ DispatchRecord(t) =>
                 /\ From(t, "record") /\ To(t, "dispatch") /\ KeepsPlace(t)
                 /\ thread'[t].room = thread[t].room
                 /\ thread'[t].graph = thread[t].graph
                 /\ thread'[t].ready = thread[t].ready
<1>0. thread[t] \in Local /\ thread[t].room \in Nat
      BY Continuations, LocalFields
<1>1. DispatchEnd(t) => From(t, "dispatch") /\ To(t, "tick") /\ Leaves(t, thread[t].g)
      BY RestFields, GotoIs DEF DispatchEnd, Dispatching, From, To, Leaves
<1>2. ASSUME DispatchSkip(t)
      PROVE  /\ From(t, "dispatch") /\ To(t, "dispatch") /\ KeepsPlace(t)
             /\ thread'[t].room = thread[t].room
             /\ thread'[t].graph = thread[t].graph
             /\ thread'[t].ready \subseteq thread[t].ready
  <2>1. PICK n \in NextReady(t) : Goto(t, [thread[t] EXCEPT !.ready = @ \ {n}])
        BY <1>2 DEF DispatchSkip
  <2>. DEFINE l == [thread[t] EXCEPT !.ready = @ \ {n}]
  <2>2. /\ l.pc = thread[t].pc /\ l.g = thread[t].g /\ l.rows = thread[t].rows
        /\ l.room = thread[t].room /\ l.graph = thread[t].graph
        /\ l.ready = thread[t].ready \ {n}
        BY <1>0 DEF Local
  <2>3. From(t, "dispatch") /\ Goto(t, l)
        BY <1>2, <2>1 DEF DispatchSkip, Dispatching, From
  <2>. HIDE DEF l
  <2>. QED  BY <2>2, <2>3, GotoIs DEF From, To, KeepsPlace
<1>3. ASSUME NEW n, NEW a
      PROVE  LET l == Charged(t, n, a)
             IN  /\ l.pc = thread[t].pc /\ l.g = thread[t].g /\ l.rows = thread[t].rows
                 /\ l.room = thread[t].room - 1 /\ l.graph = thread[t].graph
                 /\ l.ready = thread[t].ready \ {n}
      BY <1>0 DEF Charged, Local
<1>4. Candidates(t) => thread[t].room > 0
      BY DEF Candidates
<1>5. NextReady(t) \subseteq thread[t].ready
      BY DEF NextReady, FirstOf
<1>6. ASSUME DispatchError(t)
      PROVE  /\ From(t, "dispatch") /\ To(t, "dispatch") /\ KeepsPlace(t)
             /\ thread'[t].room = thread[t].room - 1
             /\ thread'[t].graph = thread[t].graph
             /\ \E n \in thread[t].ready :
                   /\ thread'[t].ready = thread[t].ready \ {n}
                   /\ node' = UpdateNode(thread[t].g, n,
                                 [node[thread[t].g][n] EXCEPT !.status = "failed"])
  <2>1. PICK n \in NextReady(t) :
           /\ \E a : Goto(t, Charged(t, n, a))
           /\ node' = UpdateNode(thread[t].g, n,
                                 [node[thread[t].g][n] EXCEPT !.status = "failed"])
        BY <1>6 DEF DispatchError
  <2>2. PICK a : Goto(t, Charged(t, n, a))
        BY <2>1
  <2>3. thread'[t] = Charged(t, n, a) /\ OnlyMoves(t)
        BY <2>2, GotoIs
  <2>4. From(t, "dispatch")
        BY <1>6 DEF DispatchError, Dispatching, From
  <2>. QED  BY <1>3, <1>5, <2>1, <2>3, <2>4 DEF From, To, KeepsPlace
<1>7. ASSUME DispatchStart(t)
      PROVE  /\ From(t, "dispatch") /\ To(t, "record") /\ KeepsPlace(t)
             /\ thread'[t].room = thread[t].room - 1
             /\ thread'[t].k = Len(task) + 1
             /\ thread'[t].graph = thread[t].graph
             /\ thread'[t].n \in thread[t].ready
             /\ thread'[t].ready = thread[t].ready \ {thread'[t].n}
             /\ task' = Append(task, [goal |-> thread[t].g, node |-> thread'[t].n,
                                      result |-> "running"])
  <2>1. PICK n \in NextReady(t) :
           /\ \E a \in AgentsFor(thread[t].graph, n) :
                /\ thread[t].slots[a] > 0
                /\ Goto(t, [Charged(t, n, a) EXCEPT !.pc = "record", !.n = n,
                                                    !.k = Len(task) + 1])
           /\ task' = Append(task, [goal |-> thread[t].g, node |-> n,
                                    result |-> "running"])
        BY <1>7, Zenon DEF DispatchStart
  <2>2. PICK a \in AgentsFor(thread[t].graph, n) :
           Goto(t, [Charged(t, n, a) EXCEPT !.pc = "record", !.n = n,
                                            !.k = Len(task) + 1])
        BY <2>1, Zenon
  <2>. DEFINE l == [Charged(t, n, a) EXCEPT !.pc = "record", !.n = n, !.k = Len(task) + 1]
  <2>3. /\ l.pc = "record" /\ l.g = thread[t].g /\ l.rows = thread[t].rows
        /\ l.room = thread[t].room - 1 /\ l.graph = thread[t].graph
        /\ l.ready = thread[t].ready \ {n} /\ l.n = n /\ l.k = Len(task) + 1
        BY <1>0 DEF Charged, Local
  <2>4. From(t, "dispatch") /\ Goto(t, l)
        BY <1>7, <2>2 DEF DispatchStart, Dispatching, From
  <2>. HIDE DEF l
  <2>5. thread'[t] = l /\ OnlyMoves(t)
        BY <2>4, GotoIs
  <2>. QED  BY <1>5, <2>1, <2>3, <2>4, <2>5 DEF To, KeepsPlace
<1>8. ASSUME DispatchRecord(t)
      PROVE  /\ From(t, "record") /\ To(t, "dispatch") /\ KeepsPlace(t)
             /\ thread'[t].room = thread[t].room
             /\ thread'[t].graph = thread[t].graph
             /\ thread'[t].ready = thread[t].ready
  <2>. DEFINE l == [thread[t] EXCEPT !.pc = "dispatch", !.n = 1, !.k = 0]
  <2>1. /\ l.pc = "dispatch" /\ l.g = thread[t].g /\ l.rows = thread[t].rows
        /\ l.room = thread[t].room /\ l.graph = thread[t].graph
        /\ l.ready = thread[t].ready
        BY <1>0 DEF Local
  <2>2. From(t, "record") /\ Goto(t, l)
        BY <1>8 DEF DispatchRecord, From
  <2>. HIDE DEF l
  <2>. QED  BY <2>1, <2>2, GotoIs DEF To, KeepsPlace
<1>9. DispatchStart(t) \/ DispatchError(t) => thread[t].room > 0
  <2>1. DispatchStart(t) \/ DispatchError(t) => Candidates(t)
        BY Zenon DEF DispatchStart, DispatchError
  <2>. QED  BY <1>4, <2>1
<1>. QED  BY <1>1, <1>2, <1>6, <1>7, <1>8, <1>9, Zenon

LEMMA ResumeMoves ==
    ASSUME TypeOK, NEW t \in Threads
    PROVE  /\ PlanDone(t) \/ PlanError(t) =>
                 /\ From(t, "planning")
                 /\ \/ t = Healer /\ To(t, "resume") /\ Leaves(t, thread[t].g)
                    \/ t # Healer /\ (To(t, "drive") \/ To(t, "idle"))
           /\ ResumeList(t) => /\ From(t, "resume_list") /\ To(t, "resume")
                               /\ thread'[t].rows = SelectStatus(Interrupted)
           /\ ResumeGoal(t) =>
                 /\ From(t, "resume")
                 /\ \/ To(t, "resume") /\ Leaves(t, FirstListed(thread[t].rows))
                    \/ /\ To(t, "planning") /\ thread'[t].rows = thread[t].rows
                       /\ thread'[t].g = FirstListed(thread[t].rows)
                       /\ UNCHANGED goal
                       /\ Members(node[FirstListed(thread[t].rows)]) = {}
           /\ ResumeEnd(t) => From(t, "resume") /\ To(t, "heal")
<1>1. /\ [Rest EXCEPT !.pc = "drive"].pc = "drive"
      /\ [Rest EXCEPT !.pc = "heal"].pc = "heal"
      BY DEF Rest
<1>2. ASSUME PlanDone(t) \/ PlanError(t)
      PROVE  /\ From(t, "planning")
             /\ \/ t = Healer /\ To(t, "resume") /\ Leaves(t, thread[t].g)
                \/ t # Healer /\ (To(t, "drive") \/ To(t, "idle"))
  <2>1. From(t, "planning") /\ (Goto(t, Planned(t)) \/ (t # Healer /\ Goto(t, Rest)))
        BY <1>2 DEF PlanDone, PlanError, From
  <2>2. CASE t = Healer
    <3>1. Goto(t, Visited(t, "resume", thread[t].g))
          BY <2>1, <2>2 DEF Planned
    <3>. QED  BY <2>1, <2>2, <3>1, RestFields, GotoIs DEF To, Leaves
  <2>3. CASE t # Healer
    <3>. DEFINE l == [Rest EXCEPT !.pc = "drive"]
    <3>1. Goto(t, l) \/ Goto(t, Rest)
          BY <2>1, <2>3 DEF Planned
    <3>2. l.pc = "drive"
          BY <1>1
    <3>. HIDE DEF l
    <3>. QED  BY <2>1, <2>3, <3>1, <3>2, RestFields, GotoIs DEF To
  <2>. QED  BY <2>2, <2>3
<1>3. ResumeList(t) => /\ From(t, "resume_list") /\ To(t, "resume")
                       /\ thread'[t].rows = SelectStatus(Interrupted)
  <2>. DEFINE l == [Rest EXCEPT !.pc = "resume", !.rows = SelectStatus(Interrupted)]
  <2>1. l.pc = "resume" /\ l.rows = SelectStatus(Interrupted)
        BY DEF Rest
  <2>2. ResumeList(t) => From(t, "resume_list") /\ Goto(t, l)
        BY DEF ResumeList, From
  <2>. HIDE DEF l
  <2>. QED  BY <2>1, <2>2, GotoIs DEF To
<1>4. ResumeGoal(t) =>
         /\ From(t, "resume")
         /\ \/ To(t, "resume") /\ Leaves(t, FirstListed(thread[t].rows))
            \/ /\ To(t, "planning") /\ thread'[t].rows = thread[t].rows
               /\ thread'[t].g = FirstListed(thread[t].rows)
               /\ UNCHANGED goal
               /\ Members(node[FirstListed(thread[t].rows)]) = {}
  <2>. DEFINE g == FirstListed(thread[t].rows)
              l == [Rest EXCEPT !.pc = "planning", !.g = g, !.rows = thread[t].rows]
  <2>1. l.pc = "planning" /\ l.g = g /\ l.rows = thread[t].rows
        BY DEF Rest
  <2>2. ResumeGoal(t) =>
           /\ From(t, "resume")
           /\ \/ Goto(t, Visited(t, "resume", g))
              \/ Goto(t, l) /\ UNCHANGED goal /\ Members(node[g]) = {}
        BY DEF ResumeGoal, From
  <2>. HIDE DEF l
  <2>. QED  BY <2>1, <2>2, RestFields, GotoIs DEF To, Leaves
<1>5. ResumeEnd(t) => From(t, "resume") /\ To(t, "heal")
      BY <1>1, GotoIs DEF ResumeEnd, From, To
<1>. QED  BY <1>2, <1>3, <1>4, <1>5

LEMMA HealMoves ==
    ASSUME TypeOK, NEW t \in Threads
    PROVE  /\ HealBegin(t) =>
                 /\ From(t, "heal") \/ (t \in Healers /\ From(t, "idle"))
                 /\ To(t, "reeval") /\ thread'[t].rows = SelectStatus({"blocked"})
           /\ ReevalGoal(t) => /\ From(t, "reeval") /\ To(t, "reeval")
                               /\ Leaves(t, FirstListed(thread[t].rows))
           /\ ReevalEnd(t) => From(t, "reeval") /\ To(t, "reroute")
           /\ RerouteGoal(t) => From(t, "reroute") /\ To(t, "reroute")
           /\ RerouteEnd(t) => From(t, "reroute") /\ To(t, "idle")
<1>1. HealBegin(t) =>
         /\ From(t, "heal") \/ (t \in Healers /\ From(t, "idle"))
         /\ To(t, "reeval") /\ thread'[t].rows = SelectStatus({"blocked"})
  <2>. DEFINE l == [Rest EXCEPT !.pc = "reeval", !.rows = SelectStatus({"blocked"})]
  <2>1. l.pc = "reeval" /\ l.rows = SelectStatus({"blocked"})
        BY DEF Rest
  <2>2. HealBegin(t) =>
           Goto(t, l) /\ (From(t, "heal") \/ (t \in Healers /\ From(t, "idle")))
        BY DEF HealBegin, From, Healers
  <2>. HIDE DEF l
  <2>. QED  BY <2>1, <2>2, GotoIs DEF To
<1>2. ReevalEnd(t) => From(t, "reeval") /\ To(t, "reroute")
  <2>1. [Rest EXCEPT !.pc = "reroute",
                     !.rows = SelectStatus(Active \cup {"blocked"})].pc = "reroute"
        BY DEF Rest
  <2>. QED  BY <2>1, GotoIs DEF ReevalEnd, From, To
<1>3. ReevalGoal(t) => /\ From(t, "reeval") /\ To(t, "reeval")
                       /\ Leaves(t, FirstListed(thread[t].rows))
  <2>1. ReevalGoal(t) =>
           /\ From(t, "reeval")
           /\ Goto(t, Visited(t, "reeval", FirstListed(thread[t].rows)))
        BY DEF ReevalGoal, From
  <2>. QED  BY <2>1, RestFields, GotoIs DEF To, Leaves
<1>4. /\ RerouteGoal(t) => From(t, "reroute") /\ To(t, "reroute")
      /\ RerouteEnd(t) => From(t, "reroute") /\ To(t, "idle")
  <2>1. /\ RerouteGoal(t) =>
              /\ From(t, "reroute")
              /\ Goto(t, Visited(t, "reroute", FirstListed(thread[t].rows)))
        /\ RerouteEnd(t) => From(t, "reroute") /\ Goto(t, Rest)
        BY Zenon DEF RerouteGoal, RerouteEnd, From
  <2>. QED  BY <2>1, RestFields, GotoIs DEF To
<1>. QED  BY <1>1, <1>2, <1>3, <1>4

LEMMA RequestMoves ==
    ASSUME TypeOK, NEW t \in Threads, NEW g,
           Submit(t, g) \/ Amend(t, g) \/ Resume(t, g)
    PROVE  /\ t \in Handlers /\ From(t, "idle")
           /\ To(t, "planning") \/ To(t, "drive")
<1>. DEFINE d == [Rest EXCEPT !.pc = "drive"]
            p == [Rest EXCEPT !.pc = "planning", !.g = g]
<1>1. d.pc = "drive" /\ p.pc = "planning"
      BY DEF Rest
<1>2. t \in Handlers /\ From(t, "idle") /\ (Goto(t, d) \/ Goto(t, p))
      BY DEF Submit, Amend, Resume, From
<1>. HIDE DEF d, p
<1>. QED  BY <1>1, <1>2, GotoIs DEF To

-----------------------------------------------------------------------------
(* The counts of a goal: only three actions raise one, and only a submission *)
(* begins anew, with a goal there was not.                                   *)

Counts(r) == <<r.dispatches, r.supervisor_patches, r.auto_reevals>>

\* Row r written over row s: no count is changed, none is paused by it.
Follows(r, s) ==
    /\ Counts(r) = Counts(s)
    /\ r.status = "absent" => s.status = "absent"
    /\ r.status = "paused" => s.status = "paused"
    /\ r.max_dispatches \in {s.max_dispatches} \cup Caps

Begins(r, s) ==
    /\ s.status = "absent" /\ r = NewGoal

CountsKept == \A g \in Goals : Follows(goal'[g], goal[g]) \/ Begins(goal'[g], goal[g])

LEMMA FollowingRows ==
    ASSUME NEW r \in GoalRow
    PROVE  /\ Follows(r, r)
           /\ \A s : s \notin {"absent", "paused"} => Follows(SetStatus(r, s), r)
           /\ \A why : Follows(SetBlocked(r, why), r)
           /\ Follows(SetWaitingOnCapacity(r), r)
           /\ Follows(ResumeStatus(r), r)
           /\ Follows(Reopened(r), r)
           /\ Follows(BumpNothing(r), r)
           /\ Follows([r EXCEPT !.late = TRUE], r)
           /\ Follows([r EXCEPT !.wait_late = TRUE], r)
           /\ Follows([r EXCEPT !.human = FALSE], r)
  BY DEF Follows, Counts, GoalRow, SetStatus, SetBlocked, SetWaitingOnCapacity,
         ResumeStatus, Reopened, BumpNothing

LEMMA AmendedFollows ==
    ASSUME NEW r \in GoalRow, NEW kind, NEW cap \in Caps
    PROVE  Follows([Amended(r, kind, cap) EXCEPT !.human = TRUE], r)
  BY DEF Follows, Counts, GoalRow, Amended, Reopened

LEMMA GoalWrite ==
    ASSUME TypeOK, NEW g, NEW row, goal' = UpdateGoal(g, row),
           g \in Goals => Follows(row, goal[g])
    PROVE  CountsKept
<1>1. \A h \in Goals : goal[h] \in GoalRow
      BY DEF TypeOK
<1>2. \A h \in Goals : goal'[h] = IF h = g THEN row ELSE goal[h]
      BY DEF TypeOK, UpdateGoal
<1>. QED  BY <1>1, <1>2, FollowingRows DEF CountsKept

LEMMA GoalsSame == ASSUME TypeOK, UNCHANGED goal PROVE CountsKept
  BY FollowingRows DEF CountsKept, TypeOK

LEMMA SettleCounts ==
    ASSUME TypeOK, NEW t \in Threads, SettleWrite(t)
    PROVE  CountsKept
<1>. DEFINE g == thread[t].g
<1>1. g \in Goals /\ goal[g] \in GoalRow
      BY LocalFields, Continuations DEF TypeOK
<1>2. \/ UNCHANGED goal
      \/ goal' = UpdateGoal(g, SetStatus(goal[g], "done"))
      \/ goal' = UpdateGoal(g, SetBlocked(goal[g], "capacity"))
      \/ goal' = UpdateGoal(g, SetBlocked(goal[g], "supervisor"))
      \/ goal' = UpdateGoal(g, SetWaitingOnCapacity(goal[g]))
      BY Zenon DEF SettleWrite, SettleCarefulDone, SettleCarefulNext, SettleDone,
         SettleGiveUp, SettleWait, SettleRetry, SettleExhausted
<1>. QED  BY <1>1, <1>2, FollowingRows, GoalWrite, GoalsSame

LEMMA PassCounts ==
    ASSUME TypeOK, NEW t \in Threads, Pass(t),
           ~SupervisorSave(t), ~DispatchRecord(t)
    PROVE  CountsKept
<1>. DEFINE g == thread[t].g
            first == FirstListed(thread[t].rows)
            Writes(h) == \/ goal' = UpdateGoal(h, goal[h])
                         \/ \E s : /\ goal' = UpdateGoal(h, SetStatus(goal[h], s))
                                   /\ s \notin {"absent", "paused"}
                         \/ \E why : goal' = UpdateGoal(h, SetBlocked(goal[h], why))
<1>1. \A h \in Goals : goal[h] \in GoalRow
      BY DEF TypeOK
<1>2. ASSUME NEW h, Writes(h)
      PROVE  CountsKept
      BY <1>1, <1>2, FollowingRows, GoalWrite
<1>3. CASE TickBegin(t)
  <2>1. UNCHANGED goal \/ goal' = AgeBlocked
        BY <1>3 DEF TickBegin
  <2>2. CASE goal' = AgeBlocked
    <3>1. \A h \in Goals : goal'[h] = goal[h] \/ goal'[h] = [goal[h] EXCEPT !.age = @ + 1]
          BY <2>2 DEF AgeBlocked
    <3>. QED  BY <1>1, <3>1 DEF CountsKept, Follows, Counts, GoalRow
  <2>. QED  BY <2>1, <2>2, GoalsSame
<1>4. CASE SettleWrite(t)
      BY <1>4, SettleCounts
<1>5. CASE Supervise(t)
  <2>1. \/ UNCHANGED goal
        \/ goal' = UpdateGoal(g, SetStatus(goal[g], "failed"))
        \/ goal' = UpdateGoal(g, SetBlocked(goal[g], "supervisor"))
        BY <1>5, Zenon DEF Supervise, SupervisorOp, SupervisorClash, SupervisorAbort,
                           SupervisorError
  <2>2. UNCHANGED goal \/ Writes(g)
        BY <2>1
  <2>. HIDE DEF Writes
  <2>. QED  BY <1>2, <2>2, GoalsSame
<1>6. CASE TickGoal(t) \/ IntegratorEnd(t)
  <2>1. UNCHANGED goal \/ Writes(first) \/ Writes(g)
        BY <1>6 DEF TickGoal, TickUnplanned, TickBlock, TickFail, TickIntegrate,
                    TickDispatch, IntegratorEnd, Admitted, VisitedGoal
  <2>. HIDE DEF Writes
  <2>. QED  BY <1>2, <2>1, GoalsSame
<1>7. CASE Dispatch(t)
  <2>1. UNCHANGED goal \/ goal' = UpdateGoal(g, Released(t))
        BY <1>7, Zenon DEF Dispatch, DispatchEnd, DispatchSkip, DispatchStart,
                           DispatchError
  <2>2. goal' = UpdateGoal(g, Released(t)) => Writes(g)
        BY DEF Released
  <2>. HIDE DEF Writes
  <2>. QED  BY <1>2, <2>1, <2>2, GoalsSame
<1>8. CASE PlanDone(t) \/ PlanError(t)
  <2>1. Writes(g)
        BY <1>8 DEF PlanDone, PlanError
  <2>. HIDE DEF Writes
  <2>. QED  BY <1>2, <2>1
<1>9. CASE ResumeGoal(t)
  <2>1. UNCHANGED goal \/ Writes(first)
        BY <1>9 DEF ResumeGoal
  <2>. HIDE DEF Writes
  <2>. QED  BY <1>2, <2>1, GoalsSame
<1>10. CASE SettleRead(t) \/ TickList(t) \/ TickEnd(t) \/ ResumeList(t) \/ ResumeEnd(t)
       BY <1>10, GoalsSame, Zenon DEF SettleRead, TickList, TickEnd, ResumeList, ResumeEnd
<1>. QED  BY <1>3, <1>4, <1>5, <1>6, <1>7, <1>8, <1>9, <1>10 DEF Pass

LEMMA HealCounts ==
    ASSUME TypeOK, NEW t \in Threads, Heal(t), ~ReevalGoal(t)
    PROVE  CountsKept
  BY GoalsSame, Zenon DEF Heal, HealBegin, ReevalEnd, RerouteGoal, RerouteEnd

LEMMA RequestCounts ==
    ASSUME TypeOK, Request
    PROVE  CountsKept
<1>1. \A h \in Goals : goal[h] \in GoalRow
      BY DEF TypeOK
<1>2. ASSUME NEW t, NEW g \in Goals, Submit(t, g)
      PROVE  CountsKept
  <2>1. /\ goal[g].status = "absent"
        /\ \A h \in Goals : goal'[h] = IF h = g THEN NewGoal ELSE goal[h]
        BY <1>2 DEF Submit, UpdateGoal, TypeOK
  <2>. QED  BY <1>1, <2>1, FollowingRows DEF CountsKept, Begins
<1>3. ASSUME NEW t, NEW g \in Goals, Amend(t, g)
      PROVE  CountsKept
  <2>1. PICK kind \in {"budget", "minutes", "capacity_budget", "capacity_minutes",
                       "auto_merge", "note"}, cap \in Caps :
           /\ Asked(kind)
           /\ goal' = UpdateGoal(g, [Amended(goal[g], kind, cap) EXCEPT !.human = TRUE])
        BY <1>3, Zenon DEF Amend
  <2>. QED  BY <1>1, <2>1, AmendedFollows, GoalWrite
<1>4. ASSUME NEW t, NEW g \in Goals, Resume(t, g)
      PROVE  CountsKept
  <2>1. goal' = UpdateGoal(g, ResumeStatus(goal[g]))
        BY <1>4, Zenon DEF Resume
  <2>. QED  BY <1>1, <2>1, FollowingRows, GoalWrite
<1>5. ASSUME NEW g \in Goals, Cancel(g)
      PROVE  CountsKept
      BY <1>1, <1>5, FollowingRows, GoalWrite DEF Cancel
<1>6. ASSUME NEW i, ResolveMerge(i)
      PROVE  CountsKept
      BY <1>6, GoalsSame DEF ResolveMerge
<1>. QED  BY <1>2, <1>3, <1>4, <1>5, <1>6 DEF Request

LEMMA WorldCounts ==
    ASSUME TypeOK, World, ~Restart
    PROVE  CountsKept
<1>1. \A h \in Goals : goal[h] \in GoalRow
      BY DEF TypeOK
<1>2. ASSUME NEW g \in Goals, ClockPasses(g)
      PROVE  CountsKept
  <2>1. \/ goal' = [goal EXCEPT ![g].late = TRUE]
        \/ goal' = [goal EXCEPT ![g].wait_late = TRUE]
        \/ goal' = [goal EXCEPT ![g].human = FALSE]
        BY <1>2, Zenon DEF ClockPasses
  <2>2. \A h \in Goals : \/ goal'[h] = goal[h]
                         \/ goal'[h] = [goal[h] EXCEPT !.late = TRUE]
                         \/ goal'[h] = [goal[h] EXCEPT !.wait_late = TRUE]
                         \/ goal'[h] = [goal[h] EXCEPT !.human = FALSE]
        BY <2>1 DEF TypeOK
  <2>. QED  BY <1>1, <2>2, FollowingRows DEF CountsKept
<1>3. CASE UNCHANGED goal
      BY <1>3, GoalsSame
<1>4. \/ UNCHANGED goal
      \/ \E g \in Goals : ClockPasses(g)
      BY Zenon DEF World, TaskEnd, StampPasses
<1>. QED  BY <1>2, <1>3, <1>4

LEMMA RestartCounts ==
    ASSUME TypeOK, Restart, NEW g \in Goals
    PROVE  /\ Counts(goal'[g]) = Counts(goal[g])
           /\ goal'[g].status = "absent" => goal[g].status = "absent"
           /\ goal'[g].max_dispatches = goal[g].max_dispatches
<1>1. goal[g] \in GoalRow
      BY DEF TypeOK
<1>2. goal'[g] = goal[g] \/ goal'[g] = SetStatus(goal[g], "paused")
      BY DEF Restart, PauseActive
<1>. QED  BY <1>1, <1>2 DEF SetStatus, GoalRow, Counts

\* Every other step of the coordinator leaves the counts alone.
LEMMA CountsStep ==
    ASSUME TypeOK, [Next]_vars
    PROVE  \/ CountsKept
           \/ \E t \in Threads : SupervisorSave(t) \/ DispatchRecord(t) \/ ReevalGoal(t)
           \/ Restart
<1>1. CASE UNCHANGED vars
      BY <1>1, GoalsSame DEF vars
<1>. QED  BY <1>1, PassCounts, HealCounts, RequestCounts, WorldCounts DEF Next

-----------------------------------------------------------------------------
(* Who does what: only drivers pass over goals, only the healer resumes.     *)

DriverPCs == {"drive", "settle", "settling", "supervising", "tick", "dispatch",
              "record", "integrating"}

Role(t, pc) ==
    /\ pc \in DriverPCs => t \in Drivers
    /\ pc \in {"resume_list", "resume", "heal"} => t = Healer
    /\ pc \in {"reeval", "reroute"} => t \in Healers
    /\ pc = "planning" => t # Timer

RolesInv == TypeOK /\ \A t \in Threads : Role(t, thread[t].pc)

LEMMA ThreeKinds ==
    /\ Timer # Healer /\ Timer \notin Handlers /\ Healer \notin Handlers
    /\ Drivers \subseteq Threads /\ Healers \subseteq Threads
    /\ Timer \in Threads /\ Healer \in Threads
    /\ Handlers \subseteq Threads
  BY CoordinatorAssumption DEF Timer, Healer, Drivers, Healers, Threads

LEMMA RolesMove ==
    ASSUME RolesInv, TypeOK', NEW t \in Threads, OnlyMoves(t), Role(t, thread'[t].pc)
    PROVE  RolesInv'
  BY DEF RolesInv, OnlyMoves, Role

LEMMA RolesPass ==
    ASSUME RolesInv, NEW t \in Threads, Pass(t)
    PROVE  OnlyMoves(t) /\ Role(t, thread'[t].pc)
<1>1. TypeOK /\ Role(t, thread[t].pc)
      BY DEF RolesInv
<1>2. CASE TickBegin(t) \/ SettleRead(t) \/ SettleWrite(t) \/ Supervise(t)
      BY <1>1, <1>2, SettleMoves, ThreeKinds
         DEF Supervise, From, To, Role, DriverPCs, Drivers
<1>3. CASE TickList(t) \/ TickEnd(t) \/ TickGoal(t) \/ IntegratorEnd(t)
      BY <1>1, <1>3, TickMoves DEF TickGoal, From, To, Role, DriverPCs
<1>4. CASE Dispatch(t)
      BY <1>1, <1>4, DispatchMoves DEF Dispatch, From, To, Role, DriverPCs
<1>5. CASE PlanDone(t) \/ PlanError(t) \/ ResumeList(t) \/ ResumeGoal(t) \/ ResumeEnd(t)
      BY <1>1, <1>5, ResumeMoves, ThreeKinds
         DEF From, To, Role, DriverPCs, Drivers, Healers, Threads
<1>. QED  BY <1>2, <1>3, <1>4, <1>5 DEF Pass

LEMMA RolesHeal ==
    ASSUME RolesInv, NEW t \in Threads, Heal(t)
    PROVE  OnlyMoves(t) /\ Role(t, thread'[t].pc)
<1>1. TypeOK /\ Role(t, thread[t].pc)
      BY DEF RolesInv
<1>. QED  BY <1>1, HealMoves, ThreeKinds DEF Heal, From, To, Role, DriverPCs, Healers

LEMMA RolesRequest ==
    ASSUME RolesInv, NEW t \in Handlers, NEW g,
           Submit(t, g) \/ Amend(t, g) \/ Resume(t, g)
    PROVE  OnlyMoves(t) /\ Role(t, thread'[t].pc)
<1>1. TypeOK /\ t \in Threads
      BY ThreeKinds DEF RolesInv
<1>2. OnlyMoves(t) /\ thread'[t].pc \in {"planning", "drive"}
      BY <1>1, RequestMoves DEF To
<1>. QED  BY <1>2, ThreeKinds DEF Role, DriverPCs, Drivers

LEMMA RestartThreads ==
    ASSUME TypeOK, Restart
    PROVE  /\ thread'[Healer].pc = "resume_list"
           /\ \A t \in Threads \ {Healer} : thread'[t].pc = "idle"
<1>1. /\ [Rest EXCEPT !.pc = "resume_list"].pc = "resume_list"
      /\ Rest.pc = "idle"
      BY DEF Rest
<1>2. \A t \in Threads : thread'[t] = IF t = Healer
                                     THEN [Rest EXCEPT !.pc = "resume_list"] ELSE Rest
      BY DEF Restart
<1>. QED  BY <1>1, <1>2, ThreeKinds

\* What a step may be, by the thread that takes it.
LEMMA NextMoves ==
    ASSUME [Next]_vars
    PROVE  \/ \E t \in Threads : Pass(t) \/ Heal(t)
           \/ \E t \in Handlers, g \in Goals : Submit(t, g) \/ Amend(t, g) \/ Resume(t, g)
           \/ UNCHANGED thread /\ ~Restart
           \/ Restart
<1>1. CASE UNCHANGED vars
      BY <1>1 DEF vars
<1>2. CASE World
      BY <1>2, Zenon DEF World, TaskEnd, StampPasses, ClockPasses
<1>3. CASE Request
      BY <1>3, Zenon DEF Request, Cancel, ResolveMerge
<1>. QED  BY <1>1, <1>2, <1>3 DEF Next

LEMMA IdleAtFirst == Init => \A t \in Threads : thread[t].pc = "idle"
<1>1. Init => thread = [t \in Threads |-> Rest]
      BY Zenon DEF Init
<1>. QED  BY <1>1, RestFields

LEMMA FirstGoals ==
    ASSUME Init, NEW g \in Goals
    PROVE  /\ goal[g].status \in {"absent", "running"}
           /\ Counts(goal[g]) = <<0, 0, 0>>
           /\ goal[g].max_dispatches \in {0, MaxDispatches}
<1>1. goal[g] = IF g \in Preplanned
                THEN [NewGoal EXCEPT !.status = "running", !.auto_merge = g \in AutoMerge]
                ELSE NoGoal
  <2>1. goal = [h \in Goals |->
                  IF h \in Preplanned
                  THEN [NewGoal EXCEPT !.status = "running",
                                       !.auto_merge = h \in AutoMerge]
                  ELSE NoGoal]
        BY Zenon DEF Init
  <2>. QED  BY <2>1, Zenon
<1>. DEFINE row == [NewGoal EXCEPT !.status = "running", !.auto_merge = g \in AutoMerge]
<1>2. /\ row.status = "running" /\ Counts(row) = <<0, 0, 0>>
      /\ row.max_dispatches = MaxDispatches
      BY DEF NewGoal, NoGoal, Counts
<1>3. /\ NoGoal.status = "absent" /\ Counts(NoGoal) = <<0, 0, 0>>
      /\ NoGoal.max_dispatches = 0
      BY DEF NoGoal, Counts
<1>4. goal[g] = row \/ goal[g] = NoGoal
      BY <1>1
<1>. HIDE DEF row
<1>. QED  BY <1>2, <1>3, <1>4

LEMMA RolesInit == Init => RolesInv
  BY InitTypes, IdleAtFirst DEF RolesInv, Role, DriverPCs

LEMMA RolesNext == RolesInv /\ [Next]_vars => RolesInv'
<1>. SUFFICES ASSUME RolesInv, [Next]_vars PROVE RolesInv'
     OBVIOUS
<1>1. TypeOK /\ TypeOK'
      BY TypeNext DEF RolesInv
<1>2. ASSUME NEW t \in Threads, Pass(t) \/ Heal(t)
      PROVE  RolesInv'
      BY <1>1, <1>2, RolesPass, RolesHeal, RolesMove
<1>3. ASSUME NEW t \in Handlers, NEW g \in Goals,
             Submit(t, g) \/ Amend(t, g) \/ Resume(t, g)
      PROVE  RolesInv'
      BY <1>1, <1>3, RolesRequest, RolesMove, ThreeKinds
<1>4. CASE UNCHANGED thread
      BY <1>1, <1>4 DEF RolesInv, Role
<1>5. CASE Restart
      BY <1>1, <1>5, RestartThreads DEF RolesInv, Role, DriverPCs
<1>. QED  BY <1>2, <1>3, <1>4, <1>5, NextMoves

-----------------------------------------------------------------------------
(* Interrupted goals.                                                        *)

\* A paused goal is still to be listed by the healer, or listed as paused.
ToBeResumed(g) ==
    \/ thread[Healer].pc = "resume_list"
    \/ /\ thread[Healer].pc \in {"resume", "planning"}
       /\ thread[Healer].rows[g].status = "paused"

PausedInv ==
    /\ RolesInv
    /\ \A g \in Goals : goal[g].status = "paused" => ToBeResumed(g)

NonePaused ==
    \A g \in Goals : goal'[g].status = "paused" => goal[g].status = "paused"

LEMMA PausedKept ==
    ASSUME PausedInv, RolesInv', NonePaused,
           \/ thread'[Healer] = thread[Healer]
           \/ thread[Healer].pc \notin {"resume_list", "resume", "planning"}
    PROVE  PausedInv'
  BY DEF PausedInv, NonePaused, ToBeResumed

LEMMA NonePausedStep ==
    ASSUME TypeOK, [Next]_vars, ~Restart
    PROVE  NonePaused
<1>1. \A g \in Goals : goal[g] \in GoalRow
      BY DEF TypeOK
<1>2. CASE CountsKept
      BY <1>2, NewGoalRows DEF CountsKept, Follows, Begins, NonePaused, NewGoal, NoGoal
<1>3. \A g \in Goals : /\ BumpPatches(goal[g]).status = goal[g].status
                      /\ BumpDispatches(goal[g]).status = goal[g].status
                      /\ ReevaluateBlocked(goal[g]).status = "running"
      BY <1>1 DEF BumpPatches, BumpDispatches, ReevaluateBlocked, GoalRow
<1>4. ASSUME NEW g, NEW row, goal' = UpdateGoal(g, row),
             g \in Goals => row.status = goal[g].status \/ row.status = "running"
      PROVE  NonePaused
      BY <1>4 DEF UpdateGoal, TypeOK, NonePaused
<1>5. ASSUME NEW t \in Threads, SupervisorSave(t) \/ DispatchRecord(t) \/ ReevalGoal(t)
      PROVE  NonePaused
  <2>1. \/ goal' = UpdateGoal(thread[t].g, BumpPatches(goal[thread[t].g]))
        \/ goal' = UpdateGoal(thread[t].g, BumpDispatches(goal[thread[t].g]))
        \/ goal' = UpdateGoal(FirstListed(thread[t].rows),
                             ReevaluateBlocked(goal[FirstListed(thread[t].rows)]))
        \/ goal' = goal
        BY <1>5, Zenon DEF SupervisorSave, DispatchRecord, ReevalGoal
  <2>. QED  BY <1>3, <1>4, <2>1 DEF NonePaused
<1>. QED  BY <1>2, <1>5, CountsStep

\* The steps of the healer that resume: each goal it leaves behind is not paused.
LEMMA PausedResume ==
    ASSUME PausedInv, RolesInv', NonePaused, NEW t \in Threads,
           PlanDone(t) \/ PlanError(t) \/ ResumeList(t) \/ ResumeGoal(t) \/ ResumeEnd(t)
    PROVE  PausedInv'
<1>1. TypeOK /\ Role(t, thread[t].pc) /\ OnlyMoves(t)
      BY RolesPass DEF PausedInv, RolesInv, Pass
<1>2. \A g \in Goals : goal[g] \in GoalRow
      BY DEF PausedInv, RolesInv, TypeOK
<1>3. CASE t # Healer
      BY <1>1, <1>3, PausedKept, ThreeKinds DEF OnlyMoves
<1>4. CASE t = Healer /\ (PlanDone(t) \/ PlanError(t))
  <2>. DEFINE g == thread[t].g
  <2>1. g \in Goals /\ thread[t].rows \in [Goals -> GoalRow]
        BY <1>1, Continuations, LocalFields
  <2>2. goal'[g].status # "paused"
    <3>1. \/ goal' = UpdateGoal(g, SetStatus(goal[g], "running"))
          \/ goal' = UpdateGoal(g, SetBlocked(goal[g], "other"))
          BY <1>4 DEF PlanDone, PlanError
    <3>2. /\ SetStatus(goal[g], "running").status = "running"
          /\ SetBlocked(goal[g], "other").status = "blocked"
          BY <1>2, <2>1 DEF SetStatus, SetBlocked, GoalRow
    <3>. QED  BY <1>1, <2>1, <3>1, <3>2 DEF UpdateGoal, TypeOK
  <2>3. /\ thread[Healer].pc = "planning" /\ thread'[Healer].pc = "resume"
        /\ thread'[Healer].rows = Without(thread[Healer].rows, g)
        BY <1>1, <1>4, ResumeMoves DEF From, To, Leaves
  <2>4. \A h \in Goals \ {g} : thread'[Healer].rows[h] = thread[Healer].rows[h]
        BY <1>4, <2>1, <2>3 DEF Without
  <2>. QED  BY <2>2, <2>3, <2>4 DEF PausedInv, NonePaused, ToBeResumed
<1>5. CASE t = Healer /\ ResumeList(t)
  <2>1. thread'[Healer].pc = "resume" /\ thread'[Healer].rows = SelectStatus(Interrupted)
        BY <1>1, <1>5, ResumeMoves DEF To
  <2>2. UNCHANGED goal
        BY <1>5 DEF ResumeList
  <2>. QED  BY <2>1, <2>2 DEF PausedInv, ToBeResumed, SelectStatus, Interrupted
<1>6. CASE t = Healer /\ ResumeGoal(t)
  <2>. DEFINE g == FirstListed(thread[t].rows)
  <2>1. g \in Goals /\ thread[t].rows \in [Goals -> GoalRow] /\ From(t, "resume")
        BY <1>1, <1>6, Continuations, LocalFields, FirstIsGoal DEF ResumeGoal, From
  <2>2. CASE To(t, "planning") /\ thread'[t].rows = thread[t].rows
        BY <1>6, <2>1, <2>2 DEF From, To, PausedInv, NonePaused, ToBeResumed
  <2>3. CASE To(t, "resume") /\ Leaves(t, g)
    <3>1. thread'[t].pc # "planning"
          BY <2>3 DEF To
    <3>2. goal[g].status = "paused" => thread[Healer].rows[g].status = "paused"
          BY <1>6, <2>1 DEF PausedInv, ToBeResumed, From
    <3>3. goal' = IF thread[t].rows[g].status = "paused"
                  THEN UpdateGoal(g, SetStatus(goal[g], "running")) ELSE goal
      <4>. DEFINE l == [Rest EXCEPT !.pc = "planning", !.g = g, !.rows = thread[t].rows]
      <4>1. l.pc = "planning"
            BY DEF Rest
      <4>2. \/ Goto(t, l)
            \/ goal' = IF thread[t].rows[g].status = "paused"
                       THEN UpdateGoal(g, SetStatus(goal[g], "running")) ELSE goal
            BY <1>6, Zenon DEF ResumeGoal
      <4>. HIDE DEF l
      <4>. QED  BY <1>1, <3>1, <4>1, <4>2, GotoIs
    <3>4. SetStatus(goal[g], "running").status = "running"
          BY <1>2, <2>1 DEF SetStatus, GoalRow
    <3>5. goal'[g].status # "paused"
          BY <1>1, <1>6, <2>1, <3>2, <3>3, <3>4 DEF UpdateGoal, TypeOK
    <3>6. \A h \in Goals \ {g} : thread'[t].rows[h] = thread[t].rows[h]
          BY <2>1, <2>3 DEF Leaves, Without
    <3>. QED  BY <1>6, <2>1, <2>3, <3>5, <3>6
              DEF To, From, PausedInv, NonePaused, ToBeResumed
  <2>. QED  BY <1>1, <1>6, <2>2, <2>3, ResumeMoves
<1>7. CASE t = Healer /\ ResumeEnd(t)
  <2>1. thread[Healer].pc = "resume" /\ Listed(thread[Healer].rows) = {}
        BY <1>7 DEF ResumeEnd
  <2>. QED  BY <2>1 DEF PausedInv, NonePaused, ToBeResumed, Listed
<1>. QED  BY <1>3, <1>4, <1>5, <1>6, <1>7

LEMMA PausedInit == Init => PausedInv
  BY RolesInit, FirstGoals DEF PausedInv

LEMMA PausedNext == PausedInv /\ [Next]_vars => PausedInv'
<1>. SUFFICES ASSUME PausedInv, [Next]_vars PROVE PausedInv'
     OBVIOUS
<1>1. TypeOK /\ RolesInv /\ RolesInv'
      BY RolesNext DEF PausedInv, RolesInv
<1>2. CASE Restart
      BY <1>1, <1>2, RestartThreads DEF PausedInv, ToBeResumed
<1>. SUFFICES ASSUME ~Restart PROVE PausedInv'
     BY <1>2
<1>3. NonePaused
      BY <1>1, NonePausedStep
<1>4. ASSUME NEW t \in Threads, OnlyMoves(t),
             thread[t].pc \notin {"resume_list", "resume", "planning"} \/ t # Healer
      PROVE  PausedInv'
      BY <1>1, <1>3, <1>4, PausedKept, ThreeKinds DEF OnlyMoves
<1>5. ASSUME NEW t \in Threads, Pass(t)
      PROVE  PausedInv'
  <2>1. CASE TickBegin(t) \/ SettleRead(t) \/ SettleWrite(t) \/ Supervise(t)
        BY <1>1, <1>4, <2>1, SettleMoves, ThreeKinds DEF Supervise, From, To
  <2>2. CASE TickList(t) \/ TickEnd(t) \/ TickGoal(t) \/ IntegratorEnd(t)
        BY <1>1, <1>4, <2>2, TickMoves DEF TickGoal, From, To
  <2>3. CASE Dispatch(t)
        BY <1>1, <1>4, <2>3, DispatchMoves DEF Dispatch, From, To
  <2>. QED  BY <1>1, <1>3, <1>5, <2>1, <2>2, <2>3, PausedResume DEF Pass
<1>6. ASSUME NEW t \in Threads, Heal(t)
      PROVE  PausedInv'
      BY <1>1, <1>4, <1>6, HealMoves, ThreeKinds DEF Heal, From, To
<1>7. ASSUME NEW t \in Handlers, NEW g \in Goals,
             Submit(t, g) \/ Amend(t, g) \/ Resume(t, g)
      PROVE  PausedInv'
      BY <1>1, <1>4, <1>7, RequestMoves, ThreeKinds DEF From, To
<1>8. CASE UNCHANGED thread
      BY <1>1, <1>3, <1>8, PausedKept
<1>. QED  BY <1>5, <1>6, <1>7, <1>8, NextMoves

\* A goal that a clean stop has paused is one the new daemon has yet to visit,
\* whatever clients and the timer do to it and to other goals meanwhile.
THEOREM PausedGoalsAreResumed == Spec => []PausedIsResumed
<1>1. PausedInv => PausedIsResumed
  <2>1. NoGoal.status = "absent"
        BY DEF NoGoal
  <2>. QED  BY DEF PausedInv, PausedIsResumed, ToBeResumed, Listed
<1>. QED  BY <1>1, PausedInit, PausedNext, PTL DEF Spec

-----------------------------------------------------------------------------
(* A count that several threads compare with a cap before they raise it: how *)
(* often it has been raised and how many are about to raise it are together  *)
(* below the cap and one for each thread.                                    *)

LEMMA FiniteThreads ==
    /\ IsFiniteSet(Threads) /\ IsFiniteSet(Drivers) /\ IsFiniteSet(Healers)
    /\ Cardinality(Drivers) \in Nat \ {0} /\ Cardinality(Healers) \in Nat \ {0}
<1>1. IsFiniteSet({Timer} \cup Handlers) /\ IsFiniteSet({Healer} \cup Handlers)
  <2>1. IsFiniteSet(Handlers)
        BY CoordinatorAssumption
  <2>2. \A x : {x} \cup Handlers = Handlers \cup {x}
        OBVIOUS
  <2>. QED  BY <2>1, <2>2, FS_AddElement
<1>2. IsFiniteSet(Threads)
  <2>1. Threads = ({Timer} \cup Handlers) \cup {Healer}
        BY DEF Threads
  <2>. QED  BY <1>1, <2>1, FS_AddElement
<1>. QED  BY <1>1, <1>2, FS_CardinalityType, FS_EmptySet DEF Drivers, Healers

\* One more is about to; one of them has; or nothing of the kind.
LEMMA Overshoot ==
    ASSUME NEW All, IsFiniteSet(All), NEW A \in SUBSET All, NEW B \in SUBSET All,
           NEW cap \in Nat, NEW c \in Nat, NEW d \in Nat,
           c + Cardinality(A) <= cap + Cardinality(All) - 1,
           \/ d < cap
           \/ d <= c /\ B \subseteq A
           \/ d <= c + 1 /\ \E x \in A : B \subseteq A \ {x}
    PROVE  d + Cardinality(B) <= cap + Cardinality(All) - 1
<1>1. /\ Cardinality(All) \in Nat /\ Cardinality(A) \in Nat /\ Cardinality(B) \in Nat
      /\ Cardinality(B) <= Cardinality(All)
      /\ IsFiniteSet(A) /\ IsFiniteSet(B)
      BY FS_Subset, FS_CardinalityType
<1>2. CASE d < cap
      BY <1>1, <1>2, CoordinatorAssumption
<1>3. CASE d <= c /\ B \subseteq A
  <2>1. Cardinality(B) <= Cardinality(A)
        BY <1>1, <1>3, FS_Subset
  <2>. QED  BY <1>1, <1>3, <2>1
<1>4. CASE d <= c + 1 /\ \E x \in A : B \subseteq A \ {x}
  <2>1. PICK x \in A : B \subseteq A \ {x}
        BY <1>4
  <2>2. IsFiniteSet(A \ {x}) /\ Cardinality(A \ {x}) = Cardinality(A) - 1
        BY <1>1, FS_RemoveElement
  <2>3. Cardinality(B) <= Cardinality(A) - 1
        BY <2>1, <2>2, FS_Subset
  <2>. QED  BY <1>1, <1>4, <2>3
<1>. QED  BY <1>2, <1>3, <1>4

-----------------------------------------------------------------------------
(* Automatic re-evaluations.                                                 *)

Reevaluators(g) ==
    {t \in Threads : thread[t].pc = "reeval" /\ Reevaluable(thread[t].rows[g])}

ReevalInv ==
    /\ RolesInv
    /\ \A g \in Goals :
          goal[g].auto_reevals + Cardinality(Reevaluators(g))
             <= MaxReevals + Cardinality(Healers) - 1

LEMMA ReevalKept ==
    ASSUME ReevalInv, RolesInv',
           \A g \in Goals :
              \/ goal'[g].auto_reevals < MaxReevals
              \/ /\ goal'[g].auto_reevals <= goal[g].auto_reevals
                 /\ Reevaluators(g)' \subseteq Reevaluators(g)
              \/ /\ goal'[g].auto_reevals <= goal[g].auto_reevals + 1
                 /\ \E t \in Reevaluators(g) :
                       Reevaluators(g)' \subseteq Reevaluators(g) \ {t}
    PROVE  ReevalInv'
<1>. SUFFICES ASSUME NEW g \in Goals
              PROVE  goal'[g].auto_reevals + Cardinality(Reevaluators(g)')
                        <= MaxReevals + Cardinality(Healers) - 1
     BY DEF ReevalInv
<1>1. goal[g].auto_reevals \in Nat /\ goal'[g].auto_reevals \in Nat /\ MaxReevals \in Nat
      BY CoordinatorAssumption DEF ReevalInv, RolesInv, TypeOK, GoalRow
<1>2. Reevaluators(g) \in SUBSET Healers /\ Reevaluators(g)' \in SUBSET Healers
      BY DEF ReevalInv, RolesInv, Reevaluators, Role
<1>3. goal[g].auto_reevals + Cardinality(Reevaluators(g))
         <= MaxReevals + Cardinality(Healers) - 1
      BY DEF ReevalInv
<1>. DEFINE c == goal[g].auto_reevals
            d == goal'[g].auto_reevals
            A == Reevaluators(g)
            B == Reevaluators(g)'
<1>4. \/ d < MaxReevals
      \/ d <= c /\ B \subseteq A
      \/ d <= c + 1 /\ \E x \in A : B \subseteq A \ {x}
      OBVIOUS
<1>5. c \in Nat /\ d \in Nat /\ A \in SUBSET Healers /\ B \in SUBSET Healers
      /\ c + Cardinality(A) <= MaxReevals + Cardinality(Healers) - 1
      BY <1>1, <1>2, <1>3
<1>. HIDE DEF A, B, c, d
<1>6. d + Cardinality(B) <= MaxReevals + Cardinality(Healers) - 1
      BY <1>1, <1>4, <1>5, FiniteThreads, Overshoot
<1>. QED  BY <1>6 DEF B, d

LEMMA ReevalElsewhere ==
    ASSUME ReevalInv, RolesInv', CountsKept,
           \A t \in Threads : thread'[t] = thread[t] \/ thread'[t].pc # "reeval"
    PROVE  ReevalInv'
<1>1. \A g \in Goals : Reevaluators(g)' \subseteq Reevaluators(g)
      BY DEF Reevaluators
<1>2. \A g \in Goals : goal'[g].auto_reevals <= goal[g].auto_reevals
  <2>1. NewGoal.auto_reevals = 0
        BY DEF NewGoal, NoGoal
  <2>2. \A g \in Goals : goal[g].auto_reevals \in Nat
        BY DEF ReevalInv, RolesInv, TypeOK, GoalRow
  <2>. QED  BY <2>1, <2>2 DEF CountsKept, Follows, Begins, Counts
<1>. QED  BY <1>1, <1>2, ReevalKept

LEMMA ReevalBegins ==
    ASSUME ReevalInv, RolesInv', NEW t \in Threads, HealBegin(t)
    PROVE  ReevalInv'
<1>1. TypeOK /\ UNCHANGED goal
      BY DEF ReevalInv, RolesInv, HealBegin
<1>2. OnlyMoves(t) /\ thread'[t].rows = SelectStatus({"blocked"})
      BY <1>1, HealMoves DEF To
<1>3. ASSUME NEW g \in Goals, Reevaluable(thread'[t].rows[g])
      PROVE  goal'[g].auto_reevals < MaxReevals
  <2>1. ~Reevaluable(NoGoal)
        BY DEF Reevaluable, NoGoal
  <2>2. thread'[t].rows[g] = goal[g]
        BY <1>2, <1>3, <2>1 DEF SelectStatus
  <2>. QED  BY <1>1, <1>3, <2>2 DEF Reevaluable
<1>4. \A g \in Goals : /\ goal[g].auto_reevals \in Nat
                      /\ \/ goal'[g].auto_reevals < MaxReevals
                         \/ Reevaluators(g)' \subseteq Reevaluators(g)
  <2>1. \A g \in Goals : goal[g].auto_reevals \in Nat
        BY <1>1 DEF TypeOK, GoalRow
  <2>2. ASSUME NEW g \in Goals, ~(goal'[g].auto_reevals < MaxReevals)
        PROVE  Reevaluators(g)' \subseteq Reevaluators(g)
        BY <1>2, <1>3, <2>2 DEF Reevaluators, OnlyMoves
  <2>. QED  BY <2>1, <2>2
<1>. QED  BY <1>1, <1>4, ReevalKept

LEMMA ReevalRaises ==
    ASSUME ReevalInv, RolesInv', NEW t \in Threads, ReevalGoal(t)
    PROVE  ReevalInv'
<1>. PICK g : g = FirstListed(thread[t].rows)
     OBVIOUS
<1>1. TypeOK /\ g \in Goals /\ thread[t].rows \in [Goals -> GoalRow]
      BY FirstIsGoal, Continuations, LocalFields
         DEF ReevalInv, RolesInv, ReevalGoal
<1>2. /\ thread[t].pc = "reeval" /\ OnlyMoves(t)
      /\ thread'[t].rows = Without(thread[t].rows, g)
      BY <1>1, HealMoves DEF From, To, Leaves
<1>3. goal' = IF Reevaluable(thread[t].rows[g])
              THEN UpdateGoal(g, ReevaluateBlocked(goal[g])) ELSE goal
      BY DEF ReevalGoal
<1>4. \A h \in Goals : goal[h].auto_reevals \in Nat
      BY <1>1 DEF TypeOK, GoalRow
<1>5. /\ ~Reevaluable(thread'[t].rows[g])
      /\ \A h \in Goals \ {g} : thread'[t].rows[h] = thread[t].rows[h]
  <2>1. ~Reevaluable(NoGoal)
        BY DEF Reevaluable, NoGoal
  <2>2. \A h \in Goals : thread'[t].rows[h] = IF h = g THEN NoGoal ELSE thread[t].rows[h]
        BY <1>1, <1>2 DEF Without
  <2>. QED  BY <1>1, <2>1, <2>2
<1>6. \A h \in Goals : Reevaluators(h)' \subseteq Reevaluators(h)
      BY <1>2, <1>5 DEF Reevaluators, OnlyMoves
<1>7. CASE ~Reevaluable(thread[t].rows[g])
      BY <1>3, <1>4, <1>6, <1>7, ReevalKept
<1>8. CASE Reevaluable(thread[t].rows[g])
  <2>1. t \in Reevaluators(g) /\ t \notin Reevaluators(g)'
        BY <1>2, <1>5, <1>8 DEF Reevaluators
  <2>2. \A h \in Goals : goal'[h] = IF h = g THEN ReevaluateBlocked(goal[g]) ELSE goal[h]
        BY <1>1, <1>3, <1>8 DEF UpdateGoal, TypeOK
  <2>3. ReevaluateBlocked(goal[g]).auto_reevals = goal[g].auto_reevals + 1
        BY <1>1 DEF ReevaluateBlocked, TypeOK, GoalRow
  <2>4. Reevaluators(g)' \subseteq Reevaluators(g) \ {t}
        BY <1>1, <1>6, <2>1
  <2>5. goal'[g].auto_reevals <= goal[g].auto_reevals + 1
        BY <1>1, <1>4, <2>2, <2>3
  <2>6. \A h \in Goals \ {g} : goal'[h].auto_reevals <= goal[h].auto_reevals
        BY <1>4, <2>2
  <2>. QED  BY <1>6, <2>1, <2>4, <2>5, <2>6, ReevalKept
<1>. QED  BY <1>7, <1>8

LEMMA ReevalInit == Init => ReevalInv
<1>. SUFFICES ASSUME Init PROVE ReevalInv
     OBVIOUS
<1>1. RolesInv /\ \A t \in Threads : thread[t].pc = "idle"
      BY RolesInit, IdleAtFirst
<1>2. \A g \in Goals : Reevaluators(g) = {} /\ goal[g].auto_reevals = 0
      BY <1>1, FirstGoals DEF Reevaluators, Counts
<1>3. Cardinality({}) = 0 /\ MaxReevals \in Nat
      BY FS_EmptySet, CoordinatorAssumption
<1>4. 0 + 0 <= MaxReevals + Cardinality(Healers) - 1
      BY <1>3, FiniteThreads
<1>5. \A g \in Goals : goal[g].auto_reevals + Cardinality(Reevaluators(g)) = 0 + 0
      BY <1>2, <1>3
<1>. QED  BY <1>1, <1>4, <1>5 DEF ReevalInv

LEMMA ReevalNext == ReevalInv /\ [Next]_vars => ReevalInv'
<1>. SUFFICES ASSUME ReevalInv, [Next]_vars PROVE ReevalInv'
     OBVIOUS
<1>1. TypeOK /\ RolesInv /\ RolesInv'
      BY RolesNext DEF ReevalInv, RolesInv
<1>2. CASE Restart
  <2>1. \A g \in Goals : Counts(goal'[g]) = Counts(goal[g])
        BY <1>1, <1>2, RestartCounts
  <2>2. \A g \in Goals : Reevaluators(g)' = {}
        BY <1>1, <1>2, RestartThreads DEF Reevaluators
  <2>3. \A g \in Goals : goal'[g].auto_reevals <= goal[g].auto_reevals
        BY <1>1, <2>1 DEF Counts, TypeOK, GoalRow
  <2>. QED  BY <1>1, <2>2, <2>3, ReevalKept
<1>3. ASSUME NEW t \in Threads, Pass(t)
      PROVE  \A u \in Threads : thread'[u] = thread[u] \/ thread'[u].pc # "reeval"
  <2>1. CASE TickBegin(t) \/ SettleRead(t) \/ SettleWrite(t) \/ Supervise(t)
        BY <1>1, <2>1, SettleMoves DEF Supervise, To, OnlyMoves
  <2>2. CASE TickList(t) \/ TickEnd(t) \/ TickGoal(t) \/ IntegratorEnd(t)
        BY <1>1, <2>2, TickMoves DEF TickGoal, To, OnlyMoves
  <2>3. CASE Dispatch(t)
        BY <1>1, <2>3, DispatchMoves DEF Dispatch, To, OnlyMoves
  <2>4. CASE PlanDone(t) \/ PlanError(t) \/ ResumeList(t) \/ ResumeGoal(t) \/ ResumeEnd(t)
        BY <1>1, <2>4, ResumeMoves DEF To, OnlyMoves
  <2>. QED  BY <1>3, <2>1, <2>2, <2>3, <2>4 DEF Pass
<1>4. ASSUME NEW t \in Threads, ReevalEnd(t) \/ RerouteGoal(t) \/ RerouteEnd(t)
      PROVE  /\ \A u \in Threads : thread'[u] = thread[u] \/ thread'[u].pc # "reeval"
             /\ CountsKept
  <2>1. CountsKept
        BY <1>1, <1>4, GoalsSame, Zenon DEF ReevalEnd, RerouteGoal, RerouteEnd
  <2>. QED  BY <1>1, <1>4, <2>1, HealMoves DEF To, OnlyMoves
<1>5. ASSUME NEW t \in Handlers, NEW g \in Goals,
             Submit(t, g) \/ Amend(t, g) \/ Resume(t, g)
      PROVE  \A u \in Threads : thread'[u] = thread[u] \/ thread'[u].pc # "reeval"
      BY <1>1, <1>5, RequestMoves, ThreeKinds DEF To, OnlyMoves
<1>6. ASSUME NEW t \in Threads, SupervisorSave(t) \/ DispatchRecord(t)
      PROVE  ReevalInv'
  <2>. DEFINE g == thread[t].g
  <2>1. g \in Goals /\ \A h \in Goals : goal[h] \in GoalRow
        BY <1>1, Continuations, LocalFields DEF TypeOK
  <2>2. goal' = UpdateGoal(g, BumpPatches(goal[g])) \/ goal' = UpdateGoal(g, BumpDispatches(goal[g]))
        BY <1>6, Zenon DEF SupervisorSave, DispatchRecord
  <2>3. /\ BumpPatches(goal[g]).auto_reevals = goal[g].auto_reevals
        /\ BumpDispatches(goal[g]).auto_reevals = goal[g].auto_reevals
        BY <2>1 DEF BumpPatches, BumpDispatches, GoalRow
  <2>4. \A h \in Goals : goal'[h].auto_reevals = goal[h].auto_reevals
        BY <1>1, <2>1, <2>2, <2>3 DEF UpdateGoal, TypeOK
  <2>5. \A h \in Goals : goal'[h].auto_reevals <= goal[h].auto_reevals
        BY <2>1, <2>4 DEF GoalRow
  <2>6. Pass(t)
        BY <1>6 DEF Pass, Supervise, Dispatch
  <2>7. \A h \in Goals : Reevaluators(h)' \subseteq Reevaluators(h)
        BY <1>3, <2>6 DEF Reevaluators
  <2>. QED  BY <1>1, <2>5, <2>7, ReevalKept
<1>7. ASSUME NEW t \in Threads, Pass(t)
      PROVE  ReevalInv'
      BY <1>1, <1>3, <1>6, <1>7, PassCounts, ReevalElsewhere
<1>8. ASSUME NEW t \in Threads, Heal(t)
      PROVE  ReevalInv'
      BY <1>1, <1>4, <1>8, ReevalBegins, ReevalRaises, ReevalElsewhere DEF Heal
<1>9. ASSUME NEW t \in Handlers, NEW g \in Goals,
             Submit(t, g) \/ Amend(t, g) \/ Resume(t, g)
      PROVE  ReevalInv'
  <2>1. Request
        BY <1>9 DEF Request
  <2>. QED  BY <1>1, <1>5, <1>9, <2>1, RequestCounts, ReevalElsewhere
<1>10. CASE UNCHANGED thread /\ ~Restart /\ CountsKept
       BY <1>1, <1>10, ReevalElsewhere
<1>11. UNCHANGED thread /\ ~Restart =>
          \/ CountsKept
          \/ \E t \in Threads : Pass(t) \/ Heal(t)
       BY <1>1, CountsStep DEF Pass, Heal, Supervise, Dispatch
<1>. QED  BY <1>2, <1>7, <1>8, <1>9, <1>10, <1>11, NextMoves

\* Threads that judge a blocked goal by the row they have listed take it beyond
\* its cap on automatic re-evaluations by at most one for each further one.
THEOREM ReevaluationsBounded == Spec => []ReevalOvershoot
<1>1. ReevalInv => ReevalOvershoot
  <2>1. ASSUME NEW g PROVE IsFiniteSet(Reevaluators(g))
        BY FiniteThreads, FS_Subset DEF Reevaluators
  <2>2. ASSUME NEW g PROVE Cardinality(Reevaluators(g)) \in Nat
        BY <2>1, FS_CardinalityType
  <2>3. ReevalInv => \A g \in Goals : goal[g].auto_reevals \in Nat
        BY DEF ReevalInv, RolesInv, TypeOK, GoalRow
  <2>. QED  BY <2>2, <2>3, FiniteThreads, CoordinatorAssumption
            DEF ReevalInv, ReevalOvershoot
<1>. QED  BY <1>1, ReevalInit, ReevalNext, PTL DEF Spec

-----------------------------------------------------------------------------
(* Patches of the supervisor.                                                *)

\* A thread that holds local will patch goal g, or may.
Patches(local, g) ==
    /\ local.g = g
    /\ \/ local.pc = "settling" /\ PatchLeft(local.row)
       \/ local.pc = "supervising"

Patchers(g) == {t \in Threads : Patches(thread[t], g)}

PatchInv ==
    /\ RolesInv
    /\ \A g \in Goals :
          goal[g].supervisor_patches + Cardinality(Patchers(g))
             <= MaxPatches + Cardinality(Drivers) - 1

LEMMA PatchKept ==
    ASSUME PatchInv, RolesInv',
           \A g \in Goals :
              \/ goal'[g].supervisor_patches < MaxPatches
              \/ /\ goal'[g].supervisor_patches <= goal[g].supervisor_patches
                 /\ Patchers(g)' \subseteq Patchers(g)
              \/ /\ goal'[g].supervisor_patches <= goal[g].supervisor_patches + 1
                 /\ \E t \in Patchers(g) : Patchers(g)' \subseteq Patchers(g) \ {t}
    PROVE  PatchInv'
<1>. SUFFICES ASSUME NEW g \in Goals
              PROVE  goal'[g].supervisor_patches + Cardinality(Patchers(g)')
                        <= MaxPatches + Cardinality(Drivers) - 1
     BY DEF PatchInv
<1>1. /\ goal[g].supervisor_patches \in Nat /\ goal'[g].supervisor_patches \in Nat
      /\ MaxPatches \in Nat
      BY CoordinatorAssumption DEF PatchInv, RolesInv, TypeOK, GoalRow
<1>2. Patchers(g) \in SUBSET Drivers /\ Patchers(g)' \in SUBSET Drivers
      BY DEF PatchInv, RolesInv, Patchers, Patches, Role, DriverPCs
<1>3. goal[g].supervisor_patches + Cardinality(Patchers(g))
         <= MaxPatches + Cardinality(Drivers) - 1
      BY DEF PatchInv
<1>. DEFINE c == goal[g].supervisor_patches
            d == goal'[g].supervisor_patches
            A == Patchers(g)
            B == Patchers(g)'
<1>4. \/ d < MaxPatches
      \/ d <= c /\ B \subseteq A
      \/ d <= c + 1 /\ \E x \in A : B \subseteq A \ {x}
      OBVIOUS
<1>5. c \in Nat /\ d \in Nat /\ A \in SUBSET Drivers /\ B \in SUBSET Drivers
      /\ c + Cardinality(A) <= MaxPatches + Cardinality(Drivers) - 1
      BY <1>1, <1>2, <1>3
<1>. HIDE DEF A, B, c, d
<1>6. d + Cardinality(B) <= MaxPatches + Cardinality(Drivers) - 1
      BY <1>1, <1>4, <1>5, FiniteThreads, Overshoot
<1>. QED  BY <1>6 DEF B, d

LEMMA PatchElsewhere ==
    ASSUME PatchInv, RolesInv', CountsKept,
           \A t \in Threads : \/ thread'[t] = thread[t]
                             \/ \A g \in Goals : Patches(thread'[t], g) =>
                                    \/ Patches(thread[t], g)
                                    \/ goal'[g].supervisor_patches < MaxPatches
    PROVE  PatchInv'
<1>1. \A g \in Goals : \/ goal'[g].supervisor_patches < MaxPatches
                      \/ Patchers(g)' \subseteq Patchers(g)
      BY DEF Patchers
<1>2. \A g \in Goals : goal'[g].supervisor_patches <= goal[g].supervisor_patches
  <2>1. NewGoal.supervisor_patches = 0
        BY DEF NewGoal, NoGoal
  <2>2. \A g \in Goals : goal[g].supervisor_patches \in Nat
        BY DEF PatchInv, RolesInv, TypeOK, GoalRow
  <2>. QED  BY <2>1, <2>2 DEF CountsKept, Follows, Begins, Counts
<1>. QED  BY <1>1, <1>2, PatchKept

\* Settling compares the row it has read, which is the row of that moment.
LEMMA PatchSettle ==
    ASSUME PatchInv, NEW t \in Threads, SettleRead(t) \/ SettleWrite(t) \/ SupervisorOp(t),
           NEW g \in Goals, Patches(thread'[t], g)
    PROVE  Patches(thread[t], g) \/ goal'[g].supervisor_patches < MaxPatches
<1>1. TypeOK
      BY DEF PatchInv, RolesInv
<1>2. CASE SettleRead(t)
  <2>1. UNCHANGED goal
        BY <1>2, Zenon DEF SettleRead
  <2>. QED  BY <1>1, <1>2, <2>1, SettleMoves DEF From, To, Patches, PatchLeft
<1>3. CASE SettleWrite(t) \/ SupervisorOp(t)
      BY <1>1, <1>3, SettleMoves DEF From, To, KeepsPlace, Patches
<1>. QED  BY <1>2, <1>3

LEMMA PatchSaved ==
    ASSUME PatchInv, RolesInv', NEW t \in Threads, SupervisorSave(t)
    PROVE  PatchInv'
<1>. PICK g : g = thread[t].g
     OBVIOUS
<1>1. TypeOK /\ g \in Goals
      BY LocalFields, Continuations DEF PatchInv, RolesInv
<1>2. thread[t].pc = "supervising" /\ thread'[t].pc = "settle" /\ OnlyMoves(t)
      BY <1>1, SettleMoves DEF From, To
<1>3. t \in Patchers(g) /\ \A h : Patchers(h)' \subseteq Patchers(h) \ {t}
      BY <1>2 DEF Patchers, Patches, OnlyMoves
<1>4. goal' = UpdateGoal(g, BumpPatches(goal[g]))
      BY DEF SupervisorSave
<1>5. \A h \in Goals : goal[h] \in GoalRow
      BY <1>1 DEF TypeOK
<1>6. BumpPatches(goal[g]).supervisor_patches = goal[g].supervisor_patches + 1
      BY <1>1, <1>5 DEF BumpPatches, GoalRow
<1>7. \A h \in Goals : goal'[h] = IF h = g THEN BumpPatches(goal[g]) ELSE goal[h]
      BY <1>1, <1>4 DEF UpdateGoal, TypeOK
<1>8. \A h \in Goals : goal[h].supervisor_patches \in Nat
      BY <1>5 DEF GoalRow
<1>9. \A h \in Goals \ {g} : /\ goal'[h].supervisor_patches <= goal[h].supervisor_patches
                            /\ Patchers(h)' \subseteq Patchers(h)
      BY <1>3, <1>7, <1>8
<1>10. goal'[g].supervisor_patches <= goal[g].supervisor_patches + 1
       BY <1>1, <1>6, <1>7, <1>8
<1>. QED  BY <1>3, <1>9, <1>10, PatchKept

LEMMA PatchInit == Init => PatchInv
<1>. SUFFICES ASSUME Init PROVE PatchInv
     OBVIOUS
<1>1. RolesInv /\ \A t \in Threads : thread[t].pc = "idle"
      BY RolesInit, IdleAtFirst
<1>2. \A g \in Goals : Patchers(g) = {} /\ goal[g].supervisor_patches = 0
      BY <1>1, FirstGoals DEF Patchers, Patches, Counts
<1>3. Cardinality({}) = 0 /\ MaxPatches \in Nat
      BY FS_EmptySet, CoordinatorAssumption
<1>4. 0 + 0 <= MaxPatches + Cardinality(Drivers) - 1
      BY <1>3, FiniteThreads
<1>5. \A g \in Goals : goal[g].supervisor_patches + Cardinality(Patchers(g)) = 0 + 0
      BY <1>2, <1>3
<1>. QED  BY <1>1, <1>4, <1>5 DEF PatchInv

LEMMA PatchNext == PatchInv /\ [Next]_vars => PatchInv'
<1>. SUFFICES ASSUME PatchInv, [Next]_vars PROVE PatchInv'
     OBVIOUS
<1>1. TypeOK /\ RolesInv /\ RolesInv'
      BY RolesNext DEF PatchInv, RolesInv
<1>. DEFINE Away == \A t \in Threads : \/ thread'[t] = thread[t]
                                      \/ \A g : ~Patches(thread'[t], g)
<1>2. ASSUME Away, CountsKept
      PROVE  PatchInv'
      BY <1>1, <1>2, PatchElsewhere
<1>3. CASE Restart
  <2>1. \A g \in Goals : Counts(goal'[g]) = Counts(goal[g])
        BY <1>1, <1>3, RestartCounts
  <2>2. \A g \in Goals : Patchers(g)' = {}
        BY <1>1, <1>3, RestartThreads DEF Patchers, Patches
  <2>3. \A g \in Goals : goal'[g].supervisor_patches <= goal[g].supervisor_patches
        BY <1>1, <2>1 DEF Counts, TypeOK, GoalRow
  <2>. QED  BY <1>1, <2>2, <2>3, PatchKept
<1>4. ASSUME NEW t \in Threads, Pass(t), ~SettleRead(t), ~SettleWrite(t), ~SupervisorOp(t)
      PROVE  Away
  <2>1. CASE TickBegin(t) \/ Supervise(t)
        BY <1>1, <1>4, <2>1, SettleMoves DEF Supervise, To, OnlyMoves, Patches
  <2>2. CASE TickList(t) \/ TickEnd(t) \/ TickGoal(t) \/ IntegratorEnd(t)
        BY <1>1, <2>2, TickMoves DEF TickGoal, To, OnlyMoves, Patches
  <2>3. CASE Dispatch(t)
        BY <1>1, <2>3, DispatchMoves DEF Dispatch, To, OnlyMoves, Patches
  <2>4. CASE PlanDone(t) \/ PlanError(t) \/ ResumeList(t) \/ ResumeGoal(t) \/ ResumeEnd(t)
        BY <1>1, <2>4, ResumeMoves DEF To, OnlyMoves, Patches
  <2>. QED  BY <1>4, <2>1, <2>2, <2>3, <2>4 DEF Pass
<1>5. ASSUME NEW t \in Threads, Heal(t)
      PROVE  Away
      BY <1>1, <1>5, HealMoves DEF Heal, To, OnlyMoves, Patches
<1>6. ASSUME NEW t \in Handlers, NEW g \in Goals,
             Submit(t, g) \/ Amend(t, g) \/ Resume(t, g)
      PROVE  Away
      BY <1>1, <1>6, RequestMoves, ThreeKinds DEF To, OnlyMoves, Patches
<1>. HIDE DEF Away
<1>7. ASSUME NEW t \in Threads, SettleRead(t) \/ SettleWrite(t) \/ SupervisorOp(t)
      PROVE  PatchInv'
  <2>1. CountsKept
        BY <1>1, <1>7, SettleCounts, GoalsSame, Zenon DEF SettleRead, SupervisorOp
  <2>2. OnlyMoves(t)
        BY <1>1, <1>7, SettleMoves DEF To
  <2>. QED  BY <1>1, <1>7, <2>1, <2>2, PatchSettle, PatchElsewhere DEF OnlyMoves
<1>8. ASSUME NEW t \in Threads, DispatchRecord(t) \/ ReevalGoal(t)
      PROVE  PatchInv'
  <2>. PICK g : g = IF DispatchRecord(t) THEN thread[t].g ELSE FirstListed(thread[t].rows)
       OBVIOUS
  <2>1. \A h \in Goals : goal[h] \in GoalRow
        BY <1>1 DEF TypeOK
  <2>2. \/ goal' = UpdateGoal(g, BumpDispatches(goal[g]))
        \/ goal' = UpdateGoal(g, ReevaluateBlocked(goal[g]))
        \/ goal' = goal
        BY <1>8, Zenon DEF DispatchRecord, ReevalGoal
  <2>3. g \in Goals => /\ BumpDispatches(goal[g]).supervisor_patches = goal[g].supervisor_patches
                      /\ ReevaluateBlocked(goal[g]).supervisor_patches = goal[g].supervisor_patches
        BY <2>1 DEF BumpDispatches, ReevaluateBlocked, GoalRow
  <2>4. \A h \in Goals : goal'[h].supervisor_patches = goal[h].supervisor_patches
        BY <1>1, <2>2, <2>3 DEF UpdateGoal, TypeOK
  <2>5. \A h \in Goals : goal'[h].supervisor_patches <= goal[h].supervisor_patches
        BY <2>1, <2>4 DEF GoalRow
  <2>6. \A h \in Goals : Patchers(h)' \subseteq Patchers(h)
    <3>1. OnlyMoves(t) /\ thread'[t].pc \notin {"settling", "supervising"}
          BY <1>1, <1>8, DispatchMoves, HealMoves DEF To
    <3>. QED  BY <3>1 DEF Patchers, Patches, OnlyMoves
  <2>. QED  BY <1>1, <2>5, <2>6, PatchKept
<1>9. ASSUME NEW t \in Threads, Pass(t) \/ Heal(t)
      PROVE  PatchInv'
      BY <1>1, <1>2, <1>4, <1>5, <1>7, <1>8, <1>9, PassCounts, HealCounts, PatchSaved
<1>10. ASSUME NEW t \in Handlers, NEW g \in Goals,
              Submit(t, g) \/ Amend(t, g) \/ Resume(t, g)
       PROVE  PatchInv'
  <2>1. Request
        BY <1>10 DEF Request
  <2>. QED  BY <1>1, <1>2, <1>6, <1>10, <2>1, RequestCounts
<1>11. CASE UNCHANGED thread /\ ~Restart /\ CountsKept
       BY <1>2, <1>11 DEF Away
<1>12. UNCHANGED thread /\ ~Restart =>
          \/ CountsKept
          \/ \E t \in Threads : Pass(t) \/ Heal(t)
       BY <1>1, CountsStep DEF Pass, Heal, Supervise, Dispatch
<1>. QED  BY <1>3, <1>9, <1>10, <1>11, <1>12, NextMoves

-----------------------------------------------------------------------------
(* Dispatches.                                                               *)

\* A finite set of numbers that is not empty has a highest one.
LEMMA HighestOf ==
    ASSUME NEW S \in SUBSET Nat, IsFiniteSet(S), S # {}
    PROVE  \E c \in S : \A d \in S : d <= c
<1>. DEFINE n == Cardinality(S)
<1>1. PICK f : f \in [1..n -> S] /\ \A s \in S : \E i \in 1..n : f[i] = s
      BY FS_CardinalityType DEF ExistsBijection, Bijection, Injection, Surjection
<1>2. n \in Nat \ {0}
      BY FS_CardinalityType, FS_EmptySet
<1>. DEFINE Highest(k) == \E i \in 1..k : \A j \in 1..k : f[j] <= f[i]
            None == {k \in 1..n : ~Highest(k)}
            less == {ab \in Nat \X Nat : ab[1] < ab[2]}
<1>3. IsWellFoundedOn(less, Nat)
      BY NatLessThanWellFounded DEF OpToRel
<1>4. None = {}
  <2>. SUFFICES ASSUME None # {} PROVE FALSE
       OBVIOUS
  <2>1. None \subseteq Nat
        OBVIOUS
  <2>2. PICK k \in None : \A j \in None : <<j, k>> \notin less
    <3>. HIDE DEF None, less
    <3>. QED  BY <1>3, <2>1, WFMin
  <2>3. k \in 1..n /\ k - 1 \notin None
    <3>1. k \in 1..n /\ k \in Nat
          BY <2>1
    <3>2. CASE k - 1 \in None
      <4>1. <<k - 1, k>> \in less
            BY <2>1, <3>1, <3>2
      <4>. QED  BY <2>2, <3>2, <4>1
    <3>. QED  BY <3>1, <3>2
  <2>4. CASE k = 1
    <3>1. 1 \in 1..1 /\ (\A j \in 1..1 : j = 1) /\ f[1] \in Nat
      <4>1. 1 \in 1..n
            BY <1>2
      <4>2. f[1] \in S
            BY <1>1, <4>1
      <4>3. f[1] \in Nat
            BY <4>2
      <4>4. 1 \in 1..1 /\ \A j \in 1..1 : j = 1
            BY SMT
      <4>. QED  BY <4>3, <4>4
    <3>2. Highest(1)
          BY <3>1
    <3>. QED  BY <2>2, <2>4, <3>2
  <2>5. CASE k # 1
    <3>1. k - 1 \in 1..n
          BY <1>2, <2>3, <2>5
    <3>2. PICK i \in 1..(k - 1) : \A j \in 1..(k - 1) : f[j] <= f[i]
          BY <2>3, <3>1
    <3>3. \A j \in 1..n : f[j] \in Nat
          BY <1>1
    <3>4. i \in 1..k /\ i \in 1..n /\ k \in 1..k
          BY <1>2, <2>3, <3>1, <3>2
    <3>5. \A j \in 1..k : j \in 1..(k - 1) \/ j = k
          BY <2>3
    <3>6. CASE f[k] <= f[i]
          BY <2>2, <3>2, <3>4, <3>5, <3>6
    <3>7. CASE f[i] <= f[k]
      <4>1. \A j \in 1..k : f[j] <= f[k]
            BY <1>2, <2>3, <3>2, <3>3, <3>4, <3>5, <3>7
      <4>. QED  BY <2>2, <3>4, <4>1
    <3>. QED  BY <2>3, <3>3, <3>4, <3>6, <3>7
  <2>. QED  BY <2>4, <2>5
<1>5. PICK i \in 1..n : \A j \in 1..n : f[j] <= f[i]
      BY <1>2, <1>4
<1>. QED  BY <1>1, <1>5

LEMMA HighestCapIs ==
    HighestCap \in Nat /\ \A c \in AllCaps : c <= HighestCap
<1>1. AllCaps \in SUBSET Nat /\ IsFiniteSet(AllCaps) /\ AllCaps # {}
  <2>1. AllCaps = (Caps \cup {MaxDispatches}) \cup {DefaultDispatches}
        BY DEF AllCaps
  <2>. QED  BY <2>1, CoordinatorAssumption, FS_AddElement
<1>2. \E c \in AllCaps : \A d \in AllCaps : d <= c
      BY <1>1, HighestOf
<1>. QED  BY <1>1, <1>2 DEF HighestCap

Unspent(row) == row.status # "absent" /\ ~Exhausted(row)

\* The dispatches of goal g that a thread which holds local may still make on
\* what it has read, numbered.
Reserves(local, g) ==
    {i \in 1..MaxParallel :
        \/ local.pc = "dispatch" /\ local.g = g /\ i <= local.room
        \/ local.pc = "record" /\ local.g = g /\ i <= local.room + 1
        \/ local.pc \in {"dispatch", "record"} /\ local.g # g /\ Unspent(local.rows[g])
        \/ local.pc \in {"tick", "integrating"} /\ Unspent(local.rows[g])}

Admissions == Drivers \X (1..MaxParallel)
Claims(g) == {a \in Admissions : a[2] \in Reserves(thread[a[1]], g)}

RoomFits ==
    \A t \in Threads : /\ thread[t].pc = "dispatch" => thread[t].room <= MaxParallel
                       /\ thread[t].pc = "record" => thread[t].room + 1 <= MaxParallel

CapsKnown == \A g \in Goals : goal[g].max_dispatches <= HighestCap

AdmitInv ==
    /\ RolesInv /\ CapsKnown /\ RoomFits
    /\ \A g \in Goals :
          goal[g].dispatches + Cardinality(Claims(g))
             <= HighestCap + Cardinality(Admissions) - 1

LEMMA RunningFinite == IsFiniteSet(RunningNodes) /\ Cardinality(RunningNodes) \in Nat
<1>1. IsFiniteSet(Goals) /\ IsFiniteSet(NodeIds)
  <2>1. 1 \in Int /\ NumGoals \in Int /\ NumNodes \in Int
        BY CoordinatorAssumption, TaskGraphAssumption
  <2>2. \A a \in Int, b \in Int : IsFiniteSet(a .. b)
        BY FS_Interval
  <2>. QED  BY <2>1, <2>2 DEF Goals, NodeIds
<1>2. IsFiniteSet(Goals \X NodeIds)
      BY <1>1, FS_Product
<1>. QED  BY <1>2, FS_Subset, FS_CardinalityType DEF RunningNodes

LEMMA FiniteAdmissions ==
    /\ IsFiniteSet(Admissions)
    /\ Cardinality(Admissions) = Cardinality(Drivers) * MaxParallel
    /\ Cardinality(Admissions) \in Nat
<1>1. MaxParallel \in Nat
      BY CoordinatorAssumption
<1>2. IsFiniteSet(1..MaxParallel) /\ Cardinality(1..MaxParallel) = MaxParallel
      BY <1>1, FS_Interval
<1>3. /\ IsFiniteSet(Admissions)
      /\ Cardinality(Admissions) = Cardinality(Drivers) * Cardinality(1..MaxParallel)
      BY <1>2, FiniteThreads, FS_Product DEF Admissions
<1>. QED  BY <1>2, <1>3, FS_CardinalityType

LEMMA AdmitKept ==
    ASSUME AdmitInv, RolesInv', CapsKnown', RoomFits',
           \A g \in Goals :
              \/ goal'[g].dispatches < HighestCap
              \/ /\ goal'[g].dispatches <= goal[g].dispatches
                 /\ Claims(g)' \subseteq Claims(g)
              \/ /\ goal'[g].dispatches <= goal[g].dispatches + 1
                 /\ \E a \in Claims(g) : Claims(g)' \subseteq Claims(g) \ {a}
    PROVE  AdmitInv'
<1>. SUFFICES ASSUME NEW g \in Goals
              PROVE  goal'[g].dispatches + Cardinality(Claims(g)')
                        <= HighestCap + Cardinality(Admissions) - 1
     BY DEF AdmitInv
<1>. DEFINE c == goal[g].dispatches
            d == goal'[g].dispatches
            A == Claims(g)
            B == Claims(g)'
<1>1. c \in Nat /\ d \in Nat
      BY DEF AdmitInv, RolesInv, TypeOK, GoalRow
<1>2. A \in SUBSET Admissions /\ B \in SUBSET Admissions
      BY DEF Claims
<1>3. c + Cardinality(A) <= HighestCap + Cardinality(Admissions) - 1
      BY DEF AdmitInv
<1>4. \/ d < HighestCap
      \/ d <= c /\ B \subseteq A
      \/ d <= c + 1 /\ \E x \in A : B \subseteq A \ {x}
      OBVIOUS
<1>. HIDE DEF A, B, c, d
<1>5. d + Cardinality(B) <= HighestCap + Cardinality(Admissions) - 1
      BY <1>1, <1>2, <1>3, <1>4, FiniteAdmissions, HighestCapIs, Overshoot
<1>. QED  BY <1>5 DEF B, d

LEMMA CapsStayKnown ==
    ASSUME CapsKnown, CountsKept
    PROVE  CapsKnown'
<1>1. NewGoal.max_dispatches = MaxDispatches
      BY DEF NewGoal, NoGoal
<1>. QED  BY <1>1, HighestCapIs DEF AllCaps, CapsKnown, CountsKept, Follows, Begins

LEMMA AdmitElsewhere ==
    ASSUME AdmitInv, RolesInv', CountsKept, RoomFits',
           \A t \in Threads : \/ thread'[t] = thread[t]
                             \/ \A g \in Goals :
                                    \/ Reserves(thread'[t], g) \subseteq Reserves(thread[t], g)
                                    \/ goal'[g].dispatches < HighestCap
    PROVE  AdmitInv'
<1>1. \A g \in Goals : \/ goal'[g].dispatches < HighestCap
                      \/ Claims(g)' \subseteq Claims(g)
      BY ThreeKinds DEF Claims, Admissions
<1>2. \A g \in Goals : goal'[g].dispatches <= goal[g].dispatches
  <2>1. NewGoal.dispatches = 0
        BY DEF NewGoal, NoGoal
  <2>2. \A g \in Goals : goal[g].dispatches \in Nat
        BY DEF AdmitInv, RolesInv, TypeOK, GoalRow
  <2>. QED  BY <2>1, <2>2 DEF CountsKept, Follows, Begins, Counts
<1>3. CapsKnown'
      BY CapsStayKnown DEF AdmitInv
<1>. QED  BY <1>1, <1>2, <1>3, AdmitKept

\* The rows that are left when a goal has been visited claim no more.
LEMMA LeftReserves ==
    ASSUME NEW local, NEW rows, local.rows \in [Goals -> GoalRow],
           NEW g \in Goals, rows = Without(local.rows, g),
           NEW h \in Goals, Unspent(rows[h])
    PROVE  h # g /\ Unspent(local.rows[h])
<1>1. ~Unspent(NoGoal)
      BY DEF Unspent, NoGoal
<1>2. rows[h] = IF h = g THEN NoGoal ELSE local.rows[h]
      BY DEF Without
<1>. QED  BY <1>1, <1>2

LEMMA TickReserves ==
    ASSUME AdmitInv, NEW t \in Threads,
           TickList(t) \/ TickEnd(t) \/ TickGoal(t) \/ IntegratorEnd(t)
    PROVE  /\ \A g \in Goals :
                 \/ Reserves(thread'[t], g) \subseteq Reserves(thread[t], g)
                 \/ goal'[g].dispatches < HighestCap
           /\ thread'[t].pc = "dispatch" => thread'[t].room <= MaxParallel
           /\ thread'[t].pc # "record"
<1>1. /\ TypeOK /\ thread[t] \in Local /\ thread[t].g \in Goals
      /\ thread[t].rows \in [Goals -> GoalRow] /\ MaxParallel \in Nat
      BY Continuations, LocalFields, CoordinatorAssumption DEF AdmitInv, RolesInv
<1>2. CASE TickList(t)
  <2>1. UNCHANGED goal /\ thread'[t].rows = SelectStatus(Active)
        BY <1>1, <1>2, TickMoves DEF TickList
  <2>2. thread'[t].pc = "tick"
        BY <1>1, <1>2, TickMoves DEF To
  <2>3. ASSUME NEW g \in Goals, Unspent(thread'[t].rows[g])
        PROVE  goal'[g].dispatches < HighestCap
    <3>1. ~Unspent(NoGoal)
          BY DEF Unspent, NoGoal
    <3>2. thread'[t].rows[g] = goal[g]
          BY <2>1, <2>3, <3>1 DEF SelectStatus
    <3>3. goal[g].dispatches \in Nat /\ goal[g].max_dispatches \in Nat
          BY <1>1 DEF TypeOK, GoalRow
    <3>4. BudgetOf(goal[g]) \in Nat /\ BudgetOf(goal[g]) <= HighestCap
          BY <3>3, HighestCapIs, CoordinatorAssumption
             DEF BudgetOf, AllCaps, AdmitInv, CapsKnown
    <3>5. ~(goal[g].dispatches >= BudgetOf(goal[g]))
          BY <2>3, <3>2 DEF Unspent, Exhausted
    <3>. QED  BY <2>1, <3>3, <3>4, <3>5, HighestCapIs
  <2>. QED  BY <2>2, <2>3 DEF Reserves
<1>3. CASE TickEnd(t)
      BY <1>1, <1>3, TickMoves DEF To, Reserves
<1>4. CASE TickUnplanned(t) \/ TickBlock(t) \/ TickFail(t) \/ IntegratorEnd(t)
  <2>1. PICK g \in Goals : /\ thread[t].pc \in {"tick", "integrating"} /\ thread'[t].pc = "tick"
                          /\ thread'[t].rows = Without(thread[t].rows, g)
    <3>1. Visiting(t) => VisitedGoal(t) \in Goals
          BY FirstIsGoal DEF Visiting, VisitedGoal
    <3>2. TickUnplanned(t) \/ TickBlock(t) \/ TickFail(t) => VisitedGoal(t) \in Goals
          BY <3>1 DEF TickUnplanned, TickBlock, TickFail
    <3>. QED  BY <1>1, <1>4, <3>2, TickMoves DEF From, To, Leaves
  <2>2. \A h \in Goals : Unspent(thread'[t].rows[h]) => Unspent(thread[t].rows[h])
        BY <1>1, <2>1, LeftReserves
  <2>. QED  BY <2>1, <2>2 DEF Reserves
<1>5. CASE TickIntegrate(t)
  <2>1. /\ thread[t].pc = "tick" /\ thread'[t].pc = "integrating"
        /\ thread'[t].rows = thread[t].rows
        BY <1>1, <1>5, TickMoves DEF From, To
  <2>. QED  BY <2>1 DEF Reserves
<1>6. CASE TickDispatch(t)
  <2>. PICK g : g = VisitedGoal(t)
       OBVIOUS
  <2>1. /\ thread[t].pc = "tick" /\ thread'[t].pc = "dispatch" /\ thread'[t].g = g
        /\ thread'[t].rows = thread[t].rows /\ thread'[t].room = Room(g)
        BY <1>1, <1>6, TickMoves DEF From, To
  <2>2. Unspent(thread[t].rows[g])
    <3>1. g \in Listed(thread[t].rows)
          BY <1>6, FirstIsGoal DEF TickDispatch, Visiting, VisitedGoal
    <3>2. ~Exhausted(thread[t].rows[g])
          BY <1>6, Zenon DEF TickDispatch
    <3>. QED  BY <3>1, <3>2 DEF Unspent, Listed
  <2>3. Room(g) <= MaxParallel
    <3>1. Cardinality(RunningNodes) \in Nat
          BY <1>1, RunningFinite
    <3>. QED  BY <1>1, <3>1 DEF Room, Minus
  <2>. QED  BY <2>1, <2>2, <2>3 DEF Reserves
<1>. QED  BY <1>2, <1>3, <1>4, <1>5, <1>6 DEF TickGoal

LEMMA DispatchReserves ==
    ASSUME AdmitInv, NEW t \in Threads, Dispatch(t)
    PROVE  /\ \A g \in Goals : Reserves(thread'[t], g) \subseteq Reserves(thread[t], g)
           /\ thread'[t].pc = "dispatch" => thread'[t].room <= MaxParallel
           /\ thread'[t].pc = "record" => thread'[t].room + 1 <= MaxParallel
<1>1. /\ TypeOK /\ thread[t] \in Local /\ thread[t].g \in Goals /\ thread[t].room \in Nat
      /\ thread[t].rows \in [Goals -> GoalRow] /\ MaxParallel \in Nat
      BY Continuations, LocalFields, CoordinatorAssumption DEF AdmitInv, RolesInv
<1>2. /\ thread[t].pc = "dispatch" => thread[t].room <= MaxParallel
      /\ thread[t].pc = "record" => thread[t].room + 1 <= MaxParallel
      BY DEF AdmitInv, RoomFits
<1>3. CASE DispatchEnd(t)
  <2>1. /\ thread[t].pc = "dispatch" /\ thread'[t].pc = "tick"
        /\ thread'[t].rows = Without(thread[t].rows, thread[t].g)
        BY <1>1, <1>3, DispatchMoves DEF From, To, Leaves
  <2>2. \A h \in Goals : Unspent(thread'[t].rows[h]) =>
                            h # thread[t].g /\ Unspent(thread[t].rows[h])
        BY <1>1, <2>1, LeftReserves
  <2>. QED  BY <2>1, <2>2 DEF Reserves
<1>4. CASE DispatchSkip(t)
      BY <1>1, <1>2, <1>4, DispatchMoves DEF From, To, KeepsPlace, Reserves
<1>5. CASE DispatchError(t)
  <2>1. /\ From(t, "dispatch") /\ To(t, "dispatch") /\ KeepsPlace(t)
        /\ thread'[t].room = thread[t].room - 1
        BY <1>1, <1>5, DispatchMoves
  <2>. QED  BY <1>1, <1>2, <2>1 DEF From, To, KeepsPlace, Reserves
<1>6. CASE DispatchStart(t)
  <2>1. /\ From(t, "dispatch") /\ To(t, "record") /\ KeepsPlace(t)
        /\ thread'[t].room = thread[t].room - 1
        BY <1>1, <1>6, DispatchMoves
  <2>. QED  BY <1>1, <1>2, <2>1 DEF From, To, KeepsPlace, Reserves
<1>7. CASE DispatchRecord(t)
  <2>1. /\ From(t, "record") /\ To(t, "dispatch") /\ KeepsPlace(t)
        /\ thread'[t].room = thread[t].room
        BY <1>1, <1>7, DispatchMoves
  <2>. QED  BY <1>1, <1>2, <2>1 DEF From, To, KeepsPlace, Reserves
<1>. QED  BY <1>3, <1>4, <1>5, <1>6, <1>7 DEF Dispatch

LEMMA AdmitRecorded ==
    ASSUME AdmitInv, RolesInv', NEW t \in Threads, DispatchRecord(t)
    PROVE  AdmitInv'
<1>. PICK g : g = thread[t].g
     OBVIOUS
<1>1. /\ TypeOK /\ g \in Goals /\ thread[t].room \in Nat /\ MaxParallel \in Nat
      BY Continuations, LocalFields, CoordinatorAssumption DEF AdmitInv, RolesInv
<1>2. /\ thread[t].pc = "record" /\ thread'[t].pc = "dispatch" /\ OnlyMoves(t)
      /\ thread'[t].g = g /\ thread'[t].room = thread[t].room
      BY <1>1, DispatchMoves DEF From, To, KeepsPlace
<1>3. thread[t].room + 1 <= MaxParallel /\ t \in Drivers
      BY <1>2 DEF AdmitInv, RoomFits, RolesInv, Role, DriverPCs
<1>4. Dispatch(t)
      BY DEF Dispatch
<1>5. \A h \in Goals : Claims(h)' \subseteq Claims(h)
      BY <1>2, <1>4, DispatchReserves, ThreeKinds DEF Claims, Admissions, OnlyMoves
<1>. DEFINE i == thread[t].room + 1
            a == <<t, i>>
<1>6. a \in Claims(g) /\ a \notin Claims(g)'
  <2>1. i \in 1..MaxParallel /\ a \in Admissions /\ a[1] = t /\ a[2] = i
        BY <1>1, <1>3 DEF Admissions
  <2>2. i \in Reserves(thread[t], g)
        BY <1>1, <1>2, <2>1 DEF Reserves
  <2>3. i \notin Reserves(thread'[t], g)
        BY <1>1, <1>2, <2>1 DEF Reserves
  <2>. HIDE DEF i
  <2>4. PICK b : b = a
        OBVIOUS
  <2>5. b \in Claims(g) /\ b \notin Claims(g)'
        BY <2>1, <2>2, <2>3, <2>4 DEF Claims
  <2>. QED  BY <2>4, <2>5
<1>. HIDE DEF a
<1>7. \A h \in Goals : goal[h] \in GoalRow
      BY <1>1 DEF TypeOK
<1>8. goal' = UpdateGoal(g, BumpDispatches(goal[g]))
      BY Zenon DEF DispatchRecord
<1>9. /\ BumpDispatches(goal[g]).dispatches = goal[g].dispatches + 1
      /\ BumpDispatches(goal[g]).max_dispatches = goal[g].max_dispatches
      BY <1>1, <1>7 DEF BumpDispatches, GoalRow
<1>10. \A h \in Goals : goal'[h] = IF h = g THEN BumpDispatches(goal[g]) ELSE goal[h]
       BY <1>1, <1>8 DEF UpdateGoal, TypeOK
<1>11. CapsKnown'
       BY <1>9, <1>10 DEF AdmitInv, CapsKnown
<1>12. RoomFits'
       BY <1>2, <1>4, DispatchReserves DEF AdmitInv, RoomFits, OnlyMoves
<1>13. \A h \in Goals : goal[h].dispatches \in Nat
       BY <1>7 DEF GoalRow
<1>14. \A h \in Goals \ {g} : goal'[h].dispatches <= goal[h].dispatches
       BY <1>10, <1>13
<1>15. goal'[g].dispatches <= goal[g].dispatches + 1
       BY <1>1, <1>9, <1>10, <1>13
<1>16. Claims(g)' \subseteq Claims(g) \ {a}
       BY <1>1, <1>5, <1>6
<1>. QED  BY <1>5, <1>6, <1>11, <1>12, <1>14, <1>15, <1>16, AdmitKept

\* What has listed nothing claims nothing.
LEMMA NoReserves ==
    ASSUME NEW local, local.pc \notin {"tick", "integrating", "dispatch", "record"}
    PROVE  \A g : Reserves(local, g) = {}
  BY DEF Reserves

LEMMA AdmitInit ==
    ASSUME MaxParallel > 0
    PROVE  Init => AdmitInv
<1>. SUFFICES ASSUME Init PROVE AdmitInv
     OBVIOUS
<1>1. RolesInv /\ \A t \in Threads : thread[t].pc = "idle"
      BY RolesInit, IdleAtFirst
<1>2. \A g \in Goals : Claims(g) = {}
      BY <1>1, NoReserves, ThreeKinds DEF Claims, Admissions
<1>3. Cardinality({}) = 0
      BY FS_EmptySet
<1>4. HighestCap \in Nat /\ MaxDispatches <= HighestCap /\ MaxDispatches \in Nat
      BY HighestCapIs, CoordinatorAssumption DEF AllCaps
<1>5. CapsKnown
      BY <1>4, FirstGoals DEF CapsKnown
<1>6. Cardinality(Admissions) >= 1
  <2>1. MaxParallel \in Nat \ {0}
        BY CoordinatorAssumption
  <2>2. \A x \in Nat \ {0}, y \in Nat \ {0} : x * y >= 1
        BY SMT
  <2>. QED  BY <2>1, <2>2, FiniteAdmissions, FiniteThreads
<1>7. 0 + 0 <= HighestCap + Cardinality(Admissions) - 1
      BY <1>4, <1>6, FiniteAdmissions
<1>8. \A g \in Goals : goal[g].dispatches + Cardinality(Claims(g)) = 0 + 0
      BY <1>2, <1>3, FirstGoals DEF Counts
<1>. QED  BY <1>1, <1>5, <1>7, <1>8 DEF AdmitInv, RoomFits

LEMMA AdmitNext == AdmitInv /\ [Next]_vars => AdmitInv'
<1>. SUFFICES ASSUME AdmitInv, [Next]_vars PROVE AdmitInv'
     OBVIOUS
<1>1. TypeOK /\ RolesInv /\ RolesInv' /\ RoomFits
      BY RolesNext DEF AdmitInv, RolesInv
<1>. DEFINE Away == \A t \in Threads :
                      \/ thread'[t] = thread[t]
                      \/ thread'[t].pc \notin {"tick", "integrating", "dispatch", "record"}
<1>2. ASSUME Away, CountsKept
      PROVE  AdmitInv'
  <2>1. RoomFits'
        BY <1>1, <1>2 DEF RoomFits
  <2>. QED  BY <1>1, <1>2, <2>1, NoReserves, AdmitElsewhere
<1>3. CASE Restart
  <2>1. \A g \in Goals : /\ Counts(goal'[g]) = Counts(goal[g])
                        /\ goal'[g].max_dispatches = goal[g].max_dispatches
        BY <1>1, <1>3, RestartCounts
  <2>2. \A g \in Goals : Claims(g)' = {}
        BY <1>1, <1>3, RestartThreads, NoReserves, ThreeKinds DEF Claims, Admissions
  <2>3. \A g \in Goals : goal'[g].dispatches <= goal[g].dispatches
        BY <1>1, <2>1 DEF Counts, TypeOK, GoalRow
  <2>4. CapsKnown' /\ RoomFits'
        BY <1>3, <1>1, <2>1, RestartThreads DEF AdmitInv, CapsKnown, RoomFits
  <2>. QED  BY <1>1, <2>2, <2>3, <2>4, AdmitKept
<1>4. ASSUME NEW t \in Threads,
             \/ TickBegin(t) \/ SettleRead(t) \/ SettleWrite(t) \/ Supervise(t)
             \/ PlanDone(t) \/ PlanError(t) \/ ResumeList(t) \/ ResumeGoal(t) \/ ResumeEnd(t)
      PROVE  Away
      BY <1>1, <1>4, SettleMoves, ResumeMoves DEF Supervise, To, OnlyMoves
<1>5. ASSUME NEW t \in Threads, Heal(t)
      PROVE  Away
      BY <1>1, <1>5, HealMoves DEF Heal, To, OnlyMoves
<1>6. ASSUME NEW t \in Handlers, NEW g \in Goals,
             Submit(t, g) \/ Amend(t, g) \/ Resume(t, g)
      PROVE  Away
      BY <1>1, <1>6, RequestMoves, ThreeKinds DEF To, OnlyMoves
<1>. HIDE DEF Away
<1>7. ASSUME NEW t \in Threads,
             \/ TickList(t) \/ TickEnd(t) \/ TickGoal(t) \/ IntegratorEnd(t)
             \/ Dispatch(t) /\ ~DispatchRecord(t)
      PROVE  AdmitInv'
  <2>1. Pass(t) /\ ~SupervisorSave(t) /\ ~DispatchRecord(t)
    <3>1. Pass(t)
          BY <1>7 DEF Pass
    <3>2. thread[t].pc \notin {"supervising", "record"}
          BY <1>1, <1>7, TickMoves, DispatchMoves DEF TickGoal, Dispatch, From
    <3>. QED  BY <3>1, <3>2 DEF SupervisorSave, Supervising, DispatchRecord
  <2>2. CountsKept /\ OnlyMoves(t)
        BY <1>1, <2>1, PassCounts, RolesPass
  <2>3. /\ \A g \in Goals :
              \/ Reserves(thread'[t], g) \subseteq Reserves(thread[t], g)
              \/ goal'[g].dispatches < HighestCap
        /\ thread'[t].pc = "dispatch" => thread'[t].room <= MaxParallel
        /\ thread'[t].pc = "record" => thread'[t].room + 1 <= MaxParallel
        BY <1>7, TickReserves, DispatchReserves
  <2>4. RoomFits'
        BY <1>1, <2>2, <2>3 DEF RoomFits, OnlyMoves
  <2>. QED  BY <1>1, <2>2, <2>3, <2>4, AdmitElsewhere DEF OnlyMoves
<1>8. ASSUME NEW t \in Threads, SupervisorSave(t) \/ ReevalGoal(t)
      PROVE  AdmitInv'
  <2>. PICK g : g = IF SupervisorSave(t) THEN thread[t].g ELSE FirstListed(thread[t].rows)
       OBVIOUS
  <2>1. \A h \in Goals : goal[h] \in GoalRow
        BY <1>1 DEF TypeOK
  <2>2. \/ goal' = UpdateGoal(g, BumpPatches(goal[g]))
        \/ goal' = UpdateGoal(g, ReevaluateBlocked(goal[g]))
        \/ goal' = goal
        BY <1>8, Zenon DEF SupervisorSave, ReevalGoal
  <2>3. g \in Goals => /\ BumpPatches(goal[g]).dispatches = goal[g].dispatches
                      /\ ReevaluateBlocked(goal[g]).dispatches = goal[g].dispatches
                      /\ BumpPatches(goal[g]).max_dispatches = goal[g].max_dispatches
                      /\ ReevaluateBlocked(goal[g]).max_dispatches = goal[g].max_dispatches
        BY <2>1 DEF BumpPatches, ReevaluateBlocked, GoalRow
  <2>4. \A h \in Goals : /\ goal'[h].dispatches = goal[h].dispatches
                        /\ goal'[h].max_dispatches = goal[h].max_dispatches
        BY <1>1, <2>2, <2>3 DEF UpdateGoal, TypeOK
  <2>5. \A h \in Goals : goal'[h].dispatches <= goal[h].dispatches
        BY <2>1, <2>4 DEF GoalRow
  <2>6. OnlyMoves(t) /\ thread'[t].pc \in {"settle", "reeval"}
        BY <1>1, <1>8, SettleMoves, HealMoves DEF To
  <2>7. \A h \in Goals : Claims(h)' \subseteq Claims(h)
        BY <2>6, NoReserves, ThreeKinds DEF Claims, Admissions, OnlyMoves
  <2>8. CapsKnown' /\ RoomFits'
        BY <1>1, <2>4, <2>6 DEF AdmitInv, CapsKnown, RoomFits, OnlyMoves
  <2>. QED  BY <1>1, <2>5, <2>7, <2>8, AdmitKept
<1>9. ASSUME NEW t \in Threads, Pass(t)
      PROVE  AdmitInv'
  <2>1. ASSUME ~SupervisorSave(t), ~DispatchRecord(t)
        PROVE  CountsKept
        BY <1>1, <1>9, <2>1, PassCounts
  <2>. QED  BY <1>1, <1>2, <1>4, <1>7, <1>8, <1>9, <2>1, AdmitRecorded DEF Pass
<1>10. ASSUME NEW t \in Threads, Heal(t)
       PROVE  AdmitInv'
       BY <1>1, <1>2, <1>5, <1>8, <1>10, HealCounts
<1>11. ASSUME NEW t \in Handlers, NEW g \in Goals,
              Submit(t, g) \/ Amend(t, g) \/ Resume(t, g)
       PROVE  AdmitInv'
  <2>1. Request
        BY <1>11 DEF Request
  <2>. QED  BY <1>1, <1>2, <1>6, <1>11, <2>1, RequestCounts
<1>12. CASE UNCHANGED thread /\ ~Restart /\ CountsKept
       BY <1>2, <1>12 DEF Away
<1>13. UNCHANGED thread /\ ~Restart =>
          \/ CountsKept
          \/ \E t \in Threads : Pass(t) \/ Heal(t)
       BY <1>1, CountsStep DEF Pass, Heal, Supervise, Dispatch
<1>. QED  BY <1>3, <1>9, <1>10, <1>11, <1>12, <1>13, NextMoves

-----------------------------------------------------------------------------
(* What is started is charged.                                               *)

\* A goal that is listed to be scheduled, or is being scheduled, exists.
GoalsExist ==
    \A t \in Threads :
        /\ thread[t].pc \in {"tick", "integrating", "dispatch", "record"} =>
              \A g \in Goals : thread[t].rows[g].status # "absent" =>
                                  goal[g].status # "absent"
        /\ thread[t].pc \in {"dispatch", "record"} =>
              goal[thread[t].g].status # "absent"

NewUncharged == \A g \in Goals : goal[g].status = "absent" => goal[g].dispatches = 0

Charges(starts, charged, recording, crashes) ==
    /\ charged + recording <= starts
    /\ starts <= charged + recording + crashes * Cardinality(Drivers)

ChargeInv ==
    /\ RolesInv /\ GoalsExist /\ NewUncharged
    /\ \A g \in Goals : Charges(Cardinality(Started(g)), goal[g].dispatches,
                                Cardinality(Recording(g)), spent.crashes)

StayThere == \A g \in Goals : goal[g].status # "absent" => goal'[g].status # "absent"

LEMMA FiniteStarts ==
    ASSUME TypeOK, NEW g
    PROVE  /\ IsFiniteSet(Started(g)) /\ Cardinality(Started(g)) \in Nat
           /\ IsFiniteSet(Recording(g)) /\ Cardinality(Recording(g)) \in Nat
           /\ spent.crashes \in Nat
<1>1. DOMAIN task = 1..Len(task) /\ Len(task) \in Nat
      BY DEF TypeOK
<1>2. IsFiniteSet(1..Len(task))
      BY <1>1, FS_Interval
<1>3. IsFiniteSet(Started(g))
      BY <1>1, <1>2, FS_Subset DEF Started
<1>4. IsFiniteSet(Recording(g))
      BY FiniteThreads, FS_Subset DEF Recording, Recorders
<1>. QED  BY <1>3, <1>4, FS_CardinalityType DEF TypeOK

LEMMA ChargeNumbers ==
    ASSUME TypeOK, NEW g \in Goals
    PROVE  /\ goal[g].dispatches \in Nat
           /\ spent.crashes * Cardinality(Drivers) \in Nat
<1>1. \A x \in Nat, y \in Nat : x * y \in Nat
      BY SMT
<1>2. spent.crashes \in Nat /\ Cardinality(Drivers) \in Nat
      BY FiniteStarts, FiniteThreads
<1>3. goal[g].dispatches \in Nat
      BY DEF TypeOK, GoalRow
<1>. QED  BY <1>1, <1>2, <1>3

\* Nothing but a start, a record and a crash changes what the sums are over.
LEMMA ChargesKept ==
    ASSUME ChargeInv, NewUncharged', NEW g \in Goals,
           Started(g)' = Started(g), Recording(g)' = Recording(g),
           goal'[g].dispatches = goal[g].dispatches, spent'.crashes = spent.crashes
    PROVE  Charges(Cardinality(Started(g)), goal[g].dispatches,
                   Cardinality(Recording(g)), spent.crashes)'
  BY DEF ChargeInv, Charges

LEMMA ThereOnce ==
    ASSUME TypeOK, CountsKept, NewUncharged
    PROVE  /\ StayThere /\ NewUncharged'
           /\ \A g \in Goals : goal'[g].dispatches = goal[g].dispatches
<1>1. NewGoal.status = "planning" /\ NewGoal.dispatches = 0
      BY DEF NewGoal, NoGoal
<1>. QED  BY <1>1 DEF CountsKept, Follows, Begins, Counts, StayThere, NewUncharged

LEMMA ThereOnceRaised ==
    ASSUME TypeOK, NEW t \in Threads, SupervisorSave(t) \/ DispatchRecord(t) \/ ReevalGoal(t)
    PROVE  /\ StayThere
           /\ \A g \in Goals : goal'[g].dispatches =
                 IF DispatchRecord(t) /\ g = thread[t].g THEN goal[g].dispatches + 1
                 ELSE goal[g].dispatches
<1>. PICK h : h = IF ReevalGoal(t) THEN FirstListed(thread[t].rows) ELSE thread[t].g
     OBVIOUS
<1>1. \A g \in Goals : goal[g] \in GoalRow
      BY DEF TypeOK
<1>2. h \in Goals
      BY Continuations, LocalFields, FirstIsGoal DEF ReevalGoal
<1>3. \/ goal' = UpdateGoal(h, BumpPatches(goal[h])) /\ ~DispatchRecord(t)
      \/ goal' = UpdateGoal(h, BumpDispatches(goal[h])) /\ DispatchRecord(t)
      \/ goal' = UpdateGoal(h, ReevaluateBlocked(goal[h])) /\ ~DispatchRecord(t)
      \/ goal' = goal /\ ~DispatchRecord(t)
  <2>1. CASE ReevalGoal(t)
    <3>1. ~DispatchRecord(t)
      <4>1. thread[t].pc = "reeval"
            BY <2>1, Zenon DEF ReevalGoal
      <4>. QED  BY <4>1 DEF DispatchRecord
    <3>. QED  BY <2>1, <3>1, Zenon DEF ReevalGoal
  <2>2. CASE SupervisorSave(t)
    <3>1. ~DispatchRecord(t) /\ ~ReevalGoal(t)
      <4>1. thread[t].pc = "supervising"
            BY <2>2, Zenon DEF SupervisorSave, Supervising
      <4>. QED  BY <4>1 DEF DispatchRecord, ReevalGoal
    <3>. QED  BY <2>2, <3>1, Zenon DEF SupervisorSave
  <2>3. CASE DispatchRecord(t)
    <3>1. ~ReevalGoal(t)
      <4>1. thread[t].pc = "record"
            BY <2>3, Zenon DEF DispatchRecord
      <4>. QED  BY <4>1 DEF ReevalGoal
    <3>. QED  BY <2>3, <3>1, Zenon DEF DispatchRecord
  <2>. QED  BY <2>1, <2>2, <2>3
<1>4. /\ BumpPatches(goal[h]).dispatches = goal[h].dispatches
      /\ ReevaluateBlocked(goal[h]).dispatches = goal[h].dispatches
      /\ BumpDispatches(goal[h]).dispatches = goal[h].dispatches + 1
      /\ BumpPatches(goal[h]).status = goal[h].status
      /\ BumpDispatches(goal[h]).status = goal[h].status
      /\ ReevaluateBlocked(goal[h]).status = "running"
      BY <1>1, <1>2 DEF BumpPatches, ReevaluateBlocked, BumpDispatches, GoalRow
<1>5. DispatchRecord(t) => h = thread[t].g
  <2>1. DispatchRecord(t) => thread[t].pc = "record"
        BY Zenon DEF DispatchRecord
  <2>2. ReevalGoal(t) => thread[t].pc = "reeval"
        BY Zenon DEF ReevalGoal
  <2>. QED  BY <2>1, <2>2
<1>6. \A g \in Goals : \A row : goal' = UpdateGoal(h, row) =>
                                  goal'[g] = IF g = h THEN row ELSE goal[g]
      BY <1>2 DEF UpdateGoal, TypeOK
<1>. QED  BY <1>2, <1>3, <1>4, <1>5, <1>6 DEF StayThere

LEMMA ExistMove ==
    ASSUME GoalsExist, StayThere, NEW t \in Threads, OnlyMoves(t),
           thread'[t].pc \in {"tick", "integrating", "dispatch", "record"} =>
              \A g \in Goals : thread'[t].rows[g].status # "absent" =>
                                  goal'[g].status # "absent",
           thread'[t].pc \in {"dispatch", "record"} =>
              goal'[thread'[t].g].status # "absent",
           \A u \in Threads : thread[u].g \in Goals
    PROVE  GoalsExist'
  BY DEF GoalsExist, StayThere, OnlyMoves

LEMMA ExistTick ==
    ASSUME ChargeInv, StayThere, NEW t \in Threads,
           TickList(t) \/ TickEnd(t) \/ TickGoal(t) \/ IntegratorEnd(t) \/ Dispatch(t)
    PROVE  GoalsExist'
<1>1. /\ TypeOK /\ thread[t] \in Local /\ thread[t].rows \in [Goals -> GoalRow]
      /\ \A u \in Threads : thread[u].g \in Goals
      BY Continuations, LocalFields DEF ChargeInv, RolesInv
<1>2. /\ GoalsExist
      /\ NoGoal.status = "absent"
      BY DEF ChargeInv, NoGoal
<1>3. CASE TickList(t)
  <2>1. UNCHANGED goal /\ thread'[t].rows = SelectStatus(Active) /\ To(t, "tick")
        BY <1>1, <1>3, TickMoves DEF TickList
  <2>2. "absent" \notin Active
        BY DEF Active
  <2>. QED  BY <1>1, <1>2, <2>1, <2>2, ExistMove DEF To, SelectStatus
<1>4. CASE TickEnd(t)
      BY <1>1, <1>2, <1>4, TickMoves, ExistMove DEF To
<1>5. CASE TickUnplanned(t) \/ TickBlock(t) \/ TickFail(t) \/ IntegratorEnd(t) \/ DispatchEnd(t)
  <2>1. /\ thread[t].pc \in {"tick", "integrating", "dispatch"}
        /\ To(t, "tick")
        /\ \E g : thread'[t].rows = Without(thread[t].rows, g)
    <3>1. CASE TickUnplanned(t) \/ TickBlock(t) \/ TickFail(t)
      <4>1. From(t, "tick") /\ To(t, "tick") /\ Leaves(t, VisitedGoal(t))
            BY <1>1, <3>1, TickMoves
      <4>. QED  BY <4>1 DEF From, Leaves
    <3>2. CASE IntegratorEnd(t)
      <4>1. From(t, "integrating") /\ To(t, "tick") /\ Leaves(t, thread[t].g)
            BY <1>1, <3>2, TickMoves
      <4>. QED  BY <4>1 DEF From, Leaves
    <3>3. CASE DispatchEnd(t)
      <4>1. From(t, "dispatch") /\ To(t, "tick") /\ Leaves(t, thread[t].g)
            BY <1>1, <3>3, DispatchMoves
      <4>. QED  BY <4>1 DEF From, Leaves
    <3>. QED  BY <1>5, <3>1, <3>2, <3>3
  <2>2. \A h \in Goals : thread'[t].rows[h] \in {NoGoal, thread[t].rows[h]}
        BY <1>1, <2>1 DEF Without
  <2>. QED  BY <1>1, <1>2, <2>1, <2>2, ExistMove DEF To, GoalsExist, StayThere
<1>6. CASE TickIntegrate(t) \/ TickDispatch(t)
  <2>1. /\ thread[t].pc = "tick" /\ OnlyMoves(t)
        /\ thread'[t].pc \in {"integrating", "dispatch"}
        /\ thread'[t].rows = thread[t].rows /\ thread'[t].g = VisitedGoal(t)
        BY <1>1, <1>6, TickMoves DEF From, To
  <2>2. VisitedGoal(t) \in Goals /\ thread[t].rows[VisitedGoal(t)].status # "absent"
    <3>1. Visiting(t)
          BY <1>6, Zenon DEF TickIntegrate, TickDispatch
    <3>. QED  BY <3>1, FirstIsGoal DEF Visiting, VisitedGoal, Listed
  <2>. QED  BY <1>1, <1>2, <2>1, <2>2, ExistMove DEF GoalsExist, StayThere
<1>7. CASE DispatchSkip(t) \/ DispatchStart(t) \/ DispatchError(t) \/ DispatchRecord(t)
  <2>1. /\ thread[t].pc \in {"dispatch", "record"} /\ OnlyMoves(t)
        /\ thread'[t].pc \in {"dispatch", "record"}
        /\ thread'[t].rows = thread[t].rows /\ thread'[t].g = thread[t].g
        BY <1>1, <1>7, DispatchMoves DEF From, To, KeepsPlace
  <2>. QED  BY <1>1, <1>2, <2>1, ExistMove DEF GoalsExist, StayThere
<1>. QED  BY <1>3, <1>4, <1>5, <1>6, <1>7 DEF TickGoal, Dispatch

\* The sums of a step that starts a task, and of one that records it.
LEMMA ChargeStarted ==
    ASSUME ChargeInv, NEW t \in Threads, DispatchStart(t), NEW g \in Goals
    PROVE  Charges(Cardinality(Started(g)), goal[g].dispatches,
                   Cardinality(Recording(g)), spent.crashes)'
<1>1. /\ TypeOK /\ thread[t].g \in Goals
      BY Continuations, LocalFields DEF ChargeInv, RolesInv
<1>2. /\ thread[t].pc = "dispatch" /\ thread'[t].pc = "record" /\ OnlyMoves(t)
      /\ thread'[t].g = thread[t].g
      /\ task' = Append(task, [goal |-> thread[t].g, node |-> thread'[t].n,
                               result |-> "running"])
      BY <1>1, DispatchMoves DEF From, To, KeepsPlace
<1>3. Pass(t) /\ UNCHANGED spent
      BY Zenon DEF Pass, Dispatch, DispatchStart
<1>4. goal'[g].dispatches = goal[g].dispatches
  <2>1. ~SupervisorSave(t) /\ ~DispatchRecord(t)
        BY <1>2 DEF SupervisorSave, Supervising, DispatchRecord
  <2>. QED  BY <1>1, <1>3, <2>1, PassCounts, ThereOnce DEF ChargeInv
<1>. DEFINE k == Len(task) + 1
<1>5. /\ task \in Seq(TaskRow) /\ DOMAIN task' = DOMAIN task \cup {k}
      /\ k \notin DOMAIN task /\ task'[k].goal = thread[t].g
      /\ \A i \in DOMAIN task : task'[i] = task[i]
  <2>1. task \in Seq(TaskRow) /\ Len(task) \in Nat /\ DOMAIN task = 1..Len(task)
        BY <1>1 DEF TypeOK
  <2>2. /\ Len(task') = Len(task) + 1 /\ DOMAIN task' = 1..Len(task')
        /\ task'[k] = [goal |-> thread[t].g, node |-> thread'[t].n, result |-> "running"]
        /\ \A i \in 1..Len(task) : task'[i] = task[i]
        BY <1>2, <2>1
  <2>. QED  BY <2>1, <2>2
<1>6. /\ Started(g)' = Started(g) \cup (IF g = thread[t].g THEN {k} ELSE {})
      /\ k \notin Started(g)
      BY <1>5 DEF Started
<1>7. /\ Recording(g)' = Recording(g) \cup (IF g = thread[t].g THEN {t} ELSE {})
      /\ t \notin Recording(g)
      BY <1>2 DEF Recording, Recorders, OnlyMoves
<1>8. CASE g # thread[t].g
      BY <1>3, <1>4, <1>6, <1>7, <1>8 DEF ChargeInv, Charges
<1>9. CASE g = thread[t].g
  <2>1. Cardinality(Started(g))' = Cardinality(Started(g)) + 1
        BY <1>1, <1>6, <1>9, FiniteStarts, FS_AddElement
  <2>2. Cardinality(Recording(g))' = Cardinality(Recording(g)) + 1
        BY <1>1, <1>7, <1>9, FiniteStarts, FS_AddElement
  <2>3. goal[g].dispatches \in Nat /\ spent.crashes * Cardinality(Drivers) \in Nat
        BY <1>1, ChargeNumbers
  <2>. QED  BY <1>1, <1>3, <1>4, <2>1, <2>2, <2>3, FiniteStarts DEF ChargeInv, Charges
<1>. QED  BY <1>8, <1>9

LEMMA ChargeRecorded ==
    ASSUME ChargeInv, NEW t \in Threads, DispatchRecord(t), NEW g \in Goals
    PROVE  Charges(Cardinality(Started(g)), goal[g].dispatches,
                   Cardinality(Recording(g)), spent.crashes)'
<1>1. /\ TypeOK /\ thread[t].g \in Goals
      BY Continuations, LocalFields DEF ChargeInv, RolesInv
<1>2. /\ thread[t].pc = "record" /\ thread'[t].pc = "dispatch" /\ OnlyMoves(t)
      BY <1>1, DispatchMoves DEF From, To
<1>3. UNCHANGED <<task, spent>>
      BY Zenon DEF DispatchRecord
<1>4. /\ Recording(g)' = Recording(g) \ (IF g = thread[t].g THEN {t} ELSE {})
      /\ g = thread[t].g => t \in Recording(g)
      BY <1>2 DEF Recording, Recorders, OnlyMoves
<1>5. Started(g)' = Started(g)
      BY <1>3 DEF Started
<1>6. goal'[g].dispatches = IF g = thread[t].g THEN goal[g].dispatches + 1
                            ELSE goal[g].dispatches
      BY <1>1, ThereOnceRaised
<1>7. CASE g # thread[t].g
      BY <1>3, <1>4, <1>5, <1>6, <1>7 DEF ChargeInv, Charges
<1>8. CASE g = thread[t].g
  <2>1. Cardinality(Recording(g))' = Cardinality(Recording(g)) - 1
        BY <1>1, <1>4, <1>8, FiniteStarts, FS_RemoveElement
  <2>2. goal[g].dispatches \in Nat /\ spent.crashes * Cardinality(Drivers) \in Nat
        BY <1>1, ChargeNumbers
  <2>. QED  BY <1>1, <1>3, <1>5, <1>6, <1>8, <2>1, <2>2, FiniteStarts DEF ChargeInv, Charges
<1>. QED  BY <1>7, <1>8

LEMMA ChargeInit == Init => ChargeInv
<1>. SUFFICES ASSUME Init PROVE ChargeInv
     OBVIOUS
<1>1. RolesInv /\ \A t \in Threads : thread[t].pc = "idle"
      BY RolesInit, IdleAtFirst
<1>2. GoalsExist
      BY <1>1 DEF GoalsExist
<1>3. \A g \in Goals : goal[g].dispatches = 0
      BY FirstGoals DEF Counts
<1>4. task = <<>> /\ spent.crashes = 0
      BY Zenon DEF Init
<1>5. \A g \in Goals : Started(g) = {} /\ Recording(g) = {}
      BY <1>1, <1>4 DEF Started, Recording, Recorders
<1>6. Cardinality({}) = 0 /\ Cardinality(Drivers) \in Nat
      BY FS_EmptySet, FiniteThreads
<1>7. Charges(0, 0, 0, 0)
      BY <1>6 DEF Charges
<1>. QED  BY <1>1, <1>2, <1>3, <1>4, <1>5, <1>6, <1>7 DEF ChargeInv, NewUncharged

\* A crash loses at most one start for each driver.
LEMMA ChargeRestart == ASSUME ChargeInv, Restart PROVE ChargeInv'
<1>1. TypeOK /\ TypeOK' /\ RolesInv /\ RolesInv'
      BY RolesNext DEF ChargeInv, RolesInv, Next, World
<1>2. \A t \in Threads : thread'[t].pc \in {"idle", "resume_list"}
      BY <1>1, RestartThreads
<1>3. GoalsExist'
      BY <1>2 DEF GoalsExist
<1>4. \A g \in Goals :
         /\ goal'[g].dispatches = goal[g].dispatches
         /\ goal'[g].status = "absent" => goal[g].status = "absent"
      BY <1>1, RestartCounts DEF Counts
<1>5. NewUncharged'
  <2>1. NewUncharged
        BY DEF ChargeInv
  <2>. QED  BY <1>4, <2>1 DEF NewUncharged
<1>6. \A g \in Goals : Started(g)' = Started(g)
  <2>1. task' = [k \in DOMAIN task |->
                   [task[k] EXCEPT !.result = IF @ = "running" THEN "failed" ELSE @]]
        BY Zenon DEF Restart
  <2>2. \A k \in DOMAIN task : task[k] \in TaskRow
        BY <1>1 DEF TypeOK
  <2>3. DOMAIN task' = DOMAIN task /\ \A k \in DOMAIN task : task'[k].goal = task[k].goal
        BY <2>1, <2>2 DEF TaskRow
  <2>. QED  BY <2>3 DEF Started
<1>7. \A g \in Goals : Recording(g)' = {}
      BY <1>2 DEF Recording, Recorders
<1>8. spent'.crashes = spent.crashes + 1
      BY <1>1, Zenon DEF Restart, TypeOK
<1>9. \A g \in Goals : Cardinality(Recording(g)) <= Cardinality(Drivers)
  <2>1. \A g : Recording(g) \subseteq Drivers
        BY DEF ChargeInv, RolesInv, Role, DriverPCs, Recording, Recorders
  <2>. QED  BY <2>1, FiniteThreads, FS_Subset
<1>10. ASSUME NEW g \in Goals
       PROVE  Charges(Cardinality(Started(g)), goal[g].dispatches,
                      Cardinality(Recording(g)), spent.crashes)'
  <2>. DEFINE d == Cardinality(Drivers)
  <2>1. (spent.crashes + 1) * d = spent.crashes * d + d
    <3>1. \A x \in Nat, y \in Nat : (x + 1) * y = x * y + y
          BY SMT
    <3>. QED  BY <1>1, <3>1, FiniteStarts, FiniteThreads
  <2>2. Cardinality(Recording(g)') = 0
        BY <1>7, FS_EmptySet
  <2>3. /\ Cardinality(Started(g)) \in Nat /\ Cardinality(Recording(g)) \in Nat
        /\ goal[g].dispatches \in Nat /\ spent.crashes * d \in Nat /\ d \in Nat
        /\ Cardinality(Recording(g)) <= d
        BY <1>1, <1>9, FiniteStarts, FiniteThreads, ChargeNumbers
  <2>4. /\ goal[g].dispatches + Cardinality(Recording(g)) <= Cardinality(Started(g))
        /\ Cardinality(Started(g))
              <= goal[g].dispatches + Cardinality(Recording(g)) + spent.crashes * d
        BY DEF ChargeInv, Charges
  <2>5. /\ goal[g].dispatches + 0 <= Cardinality(Started(g))
        /\ Cardinality(Started(g)) <= goal[g].dispatches + 0 + (spent.crashes * d + d)
    <3>. HIDE DEF d
    <3>. QED  BY <2>3, <2>4
  <2>6. /\ Cardinality(Started(g)') = Cardinality(Started(g))
        /\ goal'[g].dispatches = goal[g].dispatches
    <3>1. Started(g)' = Started(g)
          BY <1>6
    <3>. QED  BY <1>4, <3>1
  <2>. QED  BY <1>8, <2>1, <2>2, <2>5, <2>6 DEF Charges
<1>. QED  BY <1>1, <1>3, <1>5, <1>10 DEF ChargeInv

\* Only a start adds a task, and only a crash counts as one.
LEMMA StartsSame ==
    ASSUME TypeOK, [Next]_vars, ~Restart, \A t \in Threads : ~DispatchStart(t)
    PROVE  \A g : Started(g)' = Started(g)
<1>1. ASSUME NEW k \in TaskIds, TaskEnd(k)
      PROVE  \A g : Started(g)' = Started(g)
  <2>1. PICK result \in Results : task' = [task EXCEPT ![k].result = result]
        BY <1>1 DEF TaskEnd
  <2>2. DOMAIN task' = DOMAIN task /\ \A i \in DOMAIN task : task'[i].goal = task[i].goal
        BY <2>1 DEF TypeOK, TaskRow
  <2>. QED  BY <2>2 DEF Started
<1>2. CASE UNCHANGED task
      BY <1>2 DEF Started
<1>3. \/ UNCHANGED task
      \/ \E k \in TaskIds : TaskEnd(k)
  <2>1. CASE UNCHANGED vars
        BY <2>1 DEF vars
  <2>2. CASE World
        BY <2>2, Zenon DEF World, StampPasses, ClockPasses
  <2>3. CASE Request
        BY <2>3, Zenon DEF Request, Submit, Amend, Resume, Cancel, ResolveMerge
  <2>4. ASSUME NEW t \in Threads, Heal(t)
        PROVE  UNCHANGED task
        BY <2>4, Zenon DEF Heal, HealBegin, ReevalGoal, ReevalEnd, RerouteGoal, RerouteEnd
  <2>5. ASSUME NEW t \in Threads, Pass(t)
        PROVE  UNCHANGED task
    <3>1. CASE \/ TickBegin(t) \/ SettleRead(t) \/ TickList(t) \/ TickEnd(t)
               \/ IntegratorEnd(t) \/ PlanDone(t) \/ PlanError(t) \/ ResumeList(t)
               \/ ResumeGoal(t) \/ ResumeEnd(t)
          BY <3>1, Zenon DEF TickBegin, SettleRead, TickList, TickEnd, IntegratorEnd,
             PlanDone, PlanError, ResumeList, ResumeGoal, ResumeEnd
    <3>2. CASE SettleWrite(t)
          BY <3>2, Zenon DEF SettleWrite, SettleCarefulDone, SettleCarefulNext, SettleDone,
             SettleGiveUp, SettleWait, SettleRetry, SettleExhausted
    <3>3. CASE Supervise(t)
          BY <3>3, Zenon DEF Supervise, SupervisorOp, SupervisorSave, SupervisorClash,
             SupervisorAbort, SupervisorError
    <3>4. CASE TickGoal(t)
          BY <3>4, Zenon DEF TickGoal, TickUnplanned, TickBlock, TickFail, TickIntegrate,
             TickDispatch
    <3>5. CASE Dispatch(t)
          BY <2>5, <3>5, Zenon DEF Dispatch, DispatchEnd, DispatchSkip, DispatchError,
             DispatchRecord
    <3>. QED  BY <2>5, <3>1, <3>2, <3>3, <3>4, <3>5 DEF Pass
  <2>. QED  BY <2>1, <2>2, <2>3, <2>4, <2>5 DEF Next
<1>. QED  BY <1>1, <1>2, <1>3

LEMMA CrashesSame ==
    ASSUME TypeOK, [Next]_vars, ~Restart
    PROVE  /\ spent'.crashes = spent.crashes
           /\ \/ spent'.heals = spent.heals
              \/ thread[Healer].pc = "idle" /\ spent.heals # MaxHeals
<1>. DEFINE asked == [spent EXCEPT !.requests = @ + 1]
            healed == [spent EXCEPT !.heals = IF MaxHeals = Unbounded THEN @ ELSE @ + 1]
            Same == spent'.crashes = spent.crashes /\ spent'.heals = spent.heals
<1>1. /\ asked.crashes = spent.crashes /\ asked.heals = spent.heals
      /\ healed.crashes = spent.crashes
      BY DEF TypeOK
<1>2. \A kind : Asked(kind) => spent' = asked
      BY DEF Asked
<1>. HIDE DEF asked, healed
<1>3. CASE UNCHANGED vars
      BY <1>3 DEF vars
<1>4. CASE World
      BY <1>4, Zenon DEF World, TaskEnd, StampPasses, ClockPasses
<1>5. CASE Request
  <2>1. UNCHANGED spent \/ \E kind : Asked(kind)
        BY <1>5, Zenon DEF Request, Submit, Amend, Resume, Cancel, ResolveMerge
  <2>. QED  BY <1>1, <1>2, <2>1
<1>6. ASSUME NEW t \in Threads, Heal(t)
      PROVE  \/ Same
             \/ /\ spent'.crashes = spent.crashes
                /\ thread[Healer].pc = "idle" /\ spent.heals # MaxHeals
  <2>1. CASE HealBegin(t)
    <3>1. \/ /\ thread[Healer].pc = "idle" /\ spent.heals # MaxHeals
             /\ spent' = healed
          \/ UNCHANGED spent
          \/ Asked("doctor")
          BY <2>1 DEF HealBegin, healed
    <3>. QED  BY <1>1, <1>2, <3>1
  <2>2. CASE ~HealBegin(t)
    <3>1. UNCHANGED spent
          BY <1>6, <2>2, Zenon DEF Heal, ReevalGoal, ReevalEnd, RerouteGoal, RerouteEnd
    <3>. QED  BY <3>1
  <2>. QED  BY <2>1, <2>2
<1>7. ASSUME NEW t \in Threads, Pass(t)
      PROVE  UNCHANGED spent
  <2>1. CASE \/ TickBegin(t) \/ SettleRead(t) \/ TickList(t) \/ TickEnd(t)
             \/ IntegratorEnd(t) \/ PlanDone(t) \/ PlanError(t) \/ ResumeList(t)
             \/ ResumeGoal(t) \/ ResumeEnd(t)
        BY <2>1, Zenon DEF TickBegin, SettleRead, TickList, TickEnd, IntegratorEnd,
           PlanDone, PlanError, ResumeList, ResumeGoal, ResumeEnd
  <2>2. CASE SettleWrite(t)
        BY <2>2, Zenon DEF SettleWrite, SettleCarefulDone, SettleCarefulNext, SettleDone,
           SettleGiveUp, SettleWait, SettleRetry, SettleExhausted
  <2>3. CASE Supervise(t)
        BY <2>3, Zenon DEF Supervise, SupervisorOp, SupervisorSave, SupervisorClash,
           SupervisorAbort, SupervisorError
  <2>4. CASE TickGoal(t)
        BY <2>4, Zenon DEF TickGoal, TickUnplanned, TickBlock, TickFail, TickIntegrate,
           TickDispatch
  <2>5. CASE Dispatch(t)
        BY <2>5, Zenon DEF Dispatch, DispatchEnd, DispatchSkip, DispatchStart,
           DispatchError, DispatchRecord
  <2>. QED  BY <1>7, <2>1, <2>2, <2>3, <2>4, <2>5 DEF Pass
<1>. QED  BY <1>3, <1>4, <1>5, <1>6, <1>7 DEF Next

\* What a step does to goals as such.
LEMMA GoalsStayThere ==
    ASSUME ChargeInv, [Next]_vars, ~Restart
    PROVE  StayThere /\ NewUncharged'
<1>1. TypeOK /\ NewUncharged
      BY DEF ChargeInv, RolesInv
<1>2. ASSUME NEW t \in Threads, SupervisorSave(t) \/ DispatchRecord(t) \/ ReevalGoal(t)
      PROVE  StayThere /\ NewUncharged'
  <2>1. /\ StayThere
        /\ \A g \in Goals : goal'[g].dispatches =
              IF DispatchRecord(t) /\ g = thread[t].g THEN goal[g].dispatches + 1
              ELSE goal[g].dispatches
        BY <1>1, <1>2, ThereOnceRaised
  <2>2. DispatchRecord(t) => goal[thread[t].g].status # "absent"
    <3>1. DispatchRecord(t) => thread[t].pc = "record"
          BY Zenon DEF DispatchRecord
    <3>. QED  BY <3>1 DEF ChargeInv, GoalsExist
  <2>. QED  BY <1>1, <2>1, <2>2 DEF StayThere, NewUncharged
<1>. QED  BY <1>1, <1>2, CountsStep, ThereOnce

LEMMA ChargeNext == ChargeInv /\ [Next]_vars => ChargeInv'
<1>. SUFFICES ASSUME ChargeInv, [Next]_vars, ~Restart PROVE ChargeInv'
     BY ChargeRestart
<1>1. /\ TypeOK /\ RolesInv /\ RolesInv' /\ GoalsExist
      /\ StayThere /\ NewUncharged' /\ spent'.crashes = spent.crashes
      /\ \A t \in Threads : thread[t].g \in Goals
      BY RolesNext, GoalsStayThere, CrashesSame, Continuations, LocalFields
         DEF ChargeInv, RolesInv
<1>. DEFINE Quiet(t) == thread'[t].pc \notin {"tick", "integrating", "dispatch", "record"}
            Ticks(t) == \/ TickList(t) \/ TickEnd(t) \/ TickGoal(t) \/ IntegratorEnd(t)
                        \/ Dispatch(t)
\* Goals that are to be scheduled exist.
<1>2. ASSUME NEW t \in Threads, Quiet(t), OnlyMoves(t)
      PROVE  GoalsExist'
      BY <1>1, <1>2, ExistMove
<1>3. ASSUME NEW t \in Threads, Pass(t) \/ Heal(t), ~Ticks(t)
      PROVE  Quiet(t) /\ OnlyMoves(t) /\ thread[t].pc # "record"
      BY <1>1, <1>3, SettleMoves, ResumeMoves, HealMoves
         DEF Pass, Heal, Supervise, From, To
<1>4. ASSUME NEW t \in Handlers, NEW g \in Goals,
             Submit(t, g) \/ Amend(t, g) \/ Resume(t, g)
      PROVE  t \in Threads /\ Quiet(t) /\ OnlyMoves(t) /\ thread[t].pc # "record"
      BY <1>1, <1>4, RequestMoves, ThreeKinds DEF From, To
<1>. HIDE DEF Quiet
<1>5. GoalsExist'
  <2>1. CASE UNCHANGED thread
        BY <1>1, <2>1 DEF GoalsExist, StayThere
  <2>2. ASSUME NEW t \in Threads, Pass(t) \/ Heal(t)
        PROVE  GoalsExist'
        BY <1>1, <1>2, <1>3, <2>2, ExistTick
  <2>. QED  BY <1>2, <1>4, <2>1, <2>2, NextMoves
\* The sums.
<1>6. ASSUME NEW t \in Threads, DispatchStart(t) \/ DispatchRecord(t)
      PROVE  ChargeInv'
      BY <1>1, <1>5, <1>6, ChargeStarted, ChargeRecorded DEF ChargeInv
<1>7. ASSUME \A t \in Threads : ~DispatchStart(t) /\ ~DispatchRecord(t)
      PROVE  ChargeInv'
  <2>1. \A g : Started(g)' = Started(g)
        BY <1>1, <1>7, StartsSame
  <2>2. \A g \in Goals : goal'[g].dispatches = goal[g].dispatches
        BY <1>1, <1>7, CountsStep, ThereOnce, ThereOnceRaised DEF ChargeInv
  <2>3. ASSUME NEW t \in Threads, OnlyMoves(t),
               thread[t].pc # "record", thread'[t].pc # "record"
        PROVE  \A g : Recording(g)' = Recording(g)
        BY <2>3 DEF Recording, Recorders, OnlyMoves
  <2>4. ASSUME NEW t \in Threads, Pass(t) \/ Heal(t)
        PROVE  OnlyMoves(t) /\ thread[t].pc # "record" /\ thread'[t].pc # "record"
    <3>1. CASE ~Ticks(t)
          BY <1>3, <2>4, <3>1 DEF Quiet
    <3>2. CASE TickList(t) \/ TickEnd(t) \/ TickGoal(t) \/ IntegratorEnd(t)
          BY <1>1, <3>2, TickMoves DEF TickGoal, From, To
    <3>3. CASE Dispatch(t)
          BY <1>1, <1>7, <3>3, DispatchMoves DEF Dispatch, From, To
    <3>. QED  BY <3>1, <3>2, <3>3
  <2>5. ASSUME UNCHANGED thread
        PROVE  \A g : Recording(g)' = Recording(g)
        BY <2>5 DEF Recording, Recorders
  <2>6. \A g : Recording(g)' = Recording(g)
        BY <1>4, <2>3, <2>4, <2>5, NextMoves DEF Quiet
  <2>. QED  BY <1>1, <1>5, <2>1, <2>2, <2>6, ChargesKept DEF ChargeInv
<1>. QED  BY <1>6, <1>7

\* SpendingBounded: however drivers and healers overlap, and whenever the daemon
\* is killed or stopped, a goal exceeds its caps on patches and on dispatches by
\* what the other drivers were about to add, at most, and every task that was
\* started is counted, is about to be, or was lost in a crash.
THEOREM SpendingIsBounded ==
    ASSUME MaxParallel > 0
    PROVE  Spec => []SpendingBounded
<1>1. PatchInv => PatchOvershoot
  <2>1. ASSUME NEW g PROVE Cardinality(Patchers(g)) \in Nat
    <3>1. IsFiniteSet(Patchers(g))
          BY FiniteThreads, FS_Subset DEF Patchers
    <3>. QED  BY <3>1, FS_CardinalityType
  <2>2. PatchInv => \A g \in Goals : goal[g].supervisor_patches \in Nat
        BY DEF PatchInv, RolesInv, TypeOK, GoalRow
  <2>. QED  BY <2>1, <2>2, FiniteThreads, CoordinatorAssumption DEF PatchInv, PatchOvershoot
<1>2. AdmitInv => DispatchOvershoot
  <2>1. ASSUME NEW g PROVE Cardinality(Claims(g)) \in Nat
    <3>1. IsFiniteSet(Claims(g))
          BY FiniteAdmissions, FS_Subset DEF Claims
    <3>. QED  BY <3>1, FS_CardinalityType
  <2>2. AdmitInv => \A g \in Goals : goal[g].dispatches \in Nat
        BY DEF AdmitInv, RolesInv, TypeOK, GoalRow
  <2>3. /\ HighestCap \in Nat
        /\ Cardinality(Admissions) \in Nat
        /\ Cardinality(Admissions) = MaxParallel * Cardinality(Drivers)
    <3>1. \A x \in Nat, y \in Nat : x * y = y * x
          BY SMT
    <3>2. Cardinality(Drivers) \in Nat /\ MaxParallel \in Nat
          BY FiniteThreads, CoordinatorAssumption
    <3>. QED  BY <3>1, <3>2, FiniteAdmissions, HighestCapIs
  <2>4. ASSUME AdmitInv, NEW g \in Goals
        PROVE  goal[g].dispatches <= HighestCap - 1 + Cardinality(Admissions)
        BY <2>1, <2>2, <2>3, <2>4 DEF AdmitInv
  <2>. QED  BY <2>3, <2>4 DEF DispatchOvershoot
<1>3. ChargeInv => StartsCharged
  <2>. SUFFICES ASSUME ChargeInv, NEW g \in Goals
                PROVE  LET uncounted == Cardinality(Started(g)) - goal[g].dispatches
                       IN  /\ uncounted >= Cardinality(Recording(g))
                           /\ uncounted <= Cardinality(Recording(g))
                                           + spent.crashes * Cardinality(Drivers)
       BY DEF StartsCharged
  <2>1. TypeOK
        BY DEF ChargeInv, RolesInv
  <2>. QED  BY <2>1, FiniteStarts, ChargeNumbers DEF ChargeInv, Charges
<1>4. Spec => []PatchInv
      BY PatchInit, PatchNext, PTL DEF Spec
<1>5. Spec => []AdmitInv
      BY AdmitInit, AdmitNext, PTL DEF Spec
<1>6. Spec => []ChargeInv
      BY ChargeInit, ChargeNext, PTL DEF Spec
<1>7. PatchInv /\ AdmitInv /\ ChargeInv => SpendingBounded
      BY <1>1, <1>2, <1>3 DEF SpendingBounded, CapsOvershoot
<1>. QED  BY <1>4, <1>5, <1>6, <1>7, PTL
=============================================================================
