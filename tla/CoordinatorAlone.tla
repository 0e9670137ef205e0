---------------------------- MODULE CoordinatorAlone ----------------------------
(***************************************************************************)
(* Proofs about the timer that drives alone: no request is in a drive of its *)
(* own, so what the timer has read of the nodes still holds when it acts on   *)
(* it, whatever the healer, clients and the daemon's restarts do meanwhile.   *)
(***************************************************************************)
EXTENDS CoordinatorProofs

timer == thread[Timer]

-----------------------------------------------------------------------------
(* What a step that is not the timer's may do to the tables.                 *)

\* A row of a node is as it was, or failed and rerouted.
CalmRow(new, old) ==
    /\ new.task = old.task /\ new.deps = old.deps
    /\ \/ new.status = old.status
       \/ old.status = "failed" /\ new.status = "pending"

CalmGoal(g) == \A n \in NodeIds : CalmRow(node'[g][n], node[g][n])

\* An empty goal has been planned.
PlannedGoal(g) ==
    /\ thread'[Healer].pc # "planning" /\ node'[g] \in PlansOf(g)
    /\ \A n \in NodeIds : /\ node[g][n].status = "absent"
                          /\ node'[g][n].status \in {"absent", "pending"}

StatusesSame == \A g \in Goals, n \in NodeIds : node'[g][n].status = node[g][n].status

TasksEnd ==
    /\ DOMAIN task' = DOMAIN task
    /\ \A k \in DOMAIN task : /\ task'[k].goal = task[k].goal
                              /\ task'[k].node = task[k].node
                              /\ \/ task'[k].result = task[k].result
                                 \/ task[k].result = "running"

OffersSame ==
    /\ DOMAIN merge' = DOMAIN merge
    /\ \A i \in DOMAIN merge : /\ merge'[i].goal = merge[i].goal
                               /\ merge'[i].review = merge[i].review
                               /\ merge'[i].dep = merge[i].dep
                               /\ merge'[i].task = merge[i].task

\* The healer plans only a goal that has no node yet.
PlansEmpty ==
    thread[Healer].pc = "planning" =>
        \A n \in NodeIds : node[thread[Healer].g][n].status = "absent"

Elsewhere ==
    /\ timer' = timer
    /\ \A g \in Goals : CalmGoal(g) \/ PlannedGoal(g)
    /\ thread[Healer].pc = "idle" => StatusesSame
    /\ TasksEnd /\ OffersSame
    /\ spent'.crashes = spent.crashes

LEMMA SameTables ==
    /\ UNCHANGED task => TasksEnd
    /\ UNCHANGED merge => OffersSame
    /\ UNCHANGED node => StatusesSame /\ \A g \in Goals : CalmGoal(g)
  BY DEF TasksEnd, OffersSame, CalmGoal, CalmRow, StatusesSame

LEMMA ClockedRows ==
    ASSUME TypeOK, NEW g \in Goals, NEW n \in NodeIds, StampPasses(g, n)
    PROVE  StatusesSame /\ \A h \in Goals : CalmGoal(h)
<1>1. node' = [node EXCEPT ![g][n].held = FALSE]
      BY DEF StampPasses
<1>2. ASSUME NEW h \in Goals, NEW m \in NodeIds
      PROVE  /\ CalmRow(node'[h][m], node[h][m])
             /\ node'[h][m].status = node[h][m].status
  <2>1. node[h][m] \in Node
        BY DEF TypeOK, Graphs
  <2>2. \/ node'[h][m] = node[h][m]
        \/ node'[h][m] = [node[h][m] EXCEPT !.held = FALSE]
        BY <1>1 DEF TypeOK, Graphs
  <2>. QED  BY <2>1, <2>2 DEF CalmRow, Node
<1>. QED  BY <1>2 DEF CalmGoal, StatusesSame

LEMMA EndedRows ==
    ASSUME TypeOK, NEW k, TaskEnd(k)
    PROVE  TasksEnd
<1>1. PICK result \in Results : task' = [task EXCEPT ![k].result = result]
      BY DEF TaskEnd
<1>2. \A i \in DOMAIN task : task[i] \in TaskRow
      BY DEF TypeOK
<1>. QED  BY <1>1, <1>2 DEF TasksEnd, TaskEnd, TaskRow

LEMMA ResolvedRows ==
    ASSUME TypeOK, NEW i, ResolveMerge(i)
    PROVE  OffersSame
<1>1. \E status \in {"confirmed", "rejected"}, clean \in BOOLEAN :
         merge' = [merge EXCEPT ![i] = Resolved(@, status, clean)]
      BY Zenon DEF ResolveMerge
<1>2. PICK status \in {"confirmed", "rejected"}, clean \in BOOLEAN :
         merge' = [merge EXCEPT ![i] = Resolved(@, status, clean)]
      BY <1>1
<1>3. \A j \in DOMAIN merge : merge[j] \in MergeRow
      BY DEF TypeOK
<1>4. \A row \in MergeRow : LET r == Resolved(row, status, clean)
                            IN  /\ r.goal = row.goal /\ r.review = row.review
                                /\ r.dep = row.dep /\ r.task = row.task
      BY DEF Resolved, MergeRow
<1>5. /\ DOMAIN merge' = DOMAIN merge
      /\ \A j \in DOMAIN merge : merge'[j] = IF j = i THEN Resolved(merge[j], status, clean)
                                             ELSE merge[j]
      BY <1>2
<1>. QED  BY <1>3, <1>4, <1>5 DEF OffersSame

LEMMA ReroutedRows ==
    ASSUME TypeOK, NEW t \in Threads, RerouteGoal(t)
    PROVE  \A h \in Goals : CalmGoal(h)
<1>1. \A h \in Goals, n \in NodeIds : node[h][n] \in Node
      BY DEF TypeOK, Graphs
<1>. DEFINE g == FirstListed(thread[t].rows)
            gr == [n \in NodeIds |->
                     IF Worn(node[g][n])
                     THEN [node[g][n] EXCEPT !.agent = Unpinned, !.status = "pending"]
                     ELSE node[g][n]]
<1>2. g \in Goals
  <2>1. Listed(thread[t].rows) # {}
        BY Zenon DEF RerouteGoal
  <2>. QED  BY <2>1, FirstIsGoal
<1>3. \A n \in NodeIds : /\ gr[n].task = node[g][n].task
                          /\ gr[n].deps = node[g][n].deps
                          /\ \/ gr[n].status = node[g][n].status
                             \/ node[g][n].status = "failed" /\ gr[n].status = "pending"
      BY <1>1, <1>2 DEF Worn, Node
<1>4. node' = node \/ node' = [node EXCEPT ![g] = gr]
      BY Zenon DEF RerouteGoal
<1>. HIDE DEF gr
<1>5. \A h \in Goals : node'[h] = node[h] \/ (h = g /\ node'[h] = gr)
      BY <1>2, <1>4 DEF TypeOK
<1>. QED  BY <1>3, <1>5 DEF CalmGoal, CalmRow

LEMMA PlannedRows ==
    ASSUME TypeOK, PlansEmpty, PlanDone(Healer), Healer \in Threads
    PROVE  \A h \in Goals : CalmGoal(h) \/ PlannedGoal(h)
<1>. DEFINE g == thread[Healer].g
<1>1. g \in Goals
      BY Continuations, LocalFields
<1>2. PICK gr \in PlansOf(g) : node' = [node EXCEPT ![g] = gr]
      BY DEF PlanDone
<1>3. \A n \in NodeIds : gr[n].status \in {"absent", "pending"}
      BY <1>1, FreshPlans DEF Fresh
<1>4. \A h \in Goals : node'[h] = IF h = g THEN gr ELSE node[h]
      BY <1>2 DEF TypeOK
<1>5. \A n \in NodeIds : node[g][n].status = "absent"
      BY DEF PlansEmpty, PlanDone
<1>6. thread'[Healer].pc = "resume"
      BY ResumeMoves DEF To
<1>. QED  BY <1>3, <1>4, <1>5, <1>6 DEF CalmGoal, CalmRow, PlannedGoal

\* While no request is served in a drive, a step is the timer's, the healer's,
\* a restart, or one that takes no thread on.
LEMMA AloneSteps ==
    ASSUME Handlers = {}, RolesInv, PlansEmpty, [Next]_vars
    PROVE  \/ Elsewhere
           \/ Restart
           \/ /\ OnlyMoves(Timer) /\ spent'.crashes = spent.crashes
              /\ \/ TickBegin(Timer) \/ SettleRead(Timer) \/ SettleWrite(Timer)
                 \/ Supervise(Timer) \/ TickList(Timer) \/ TickEnd(Timer)
                 \/ TickGoal(Timer) \/ IntegratorEnd(Timer) \/ Dispatch(Timer)
<1>1. /\ TypeOK /\ Threads = {Timer, Healer} /\ Timer # Healer
      /\ Drivers = {Timer} /\ Healers = {Healer}
      /\ \A t \in Threads : Role(t, thread[t].pc)
      BY ThreeKinds DEF RolesInv, Threads, Drivers, Healers
<1>2. ASSUME ~Restart PROVE spent'.crashes = spent.crashes
      BY <1>1, <1>2, CrashesSame
<1>3. ASSUME UNCHANGED <<node, task, merge, thread>>, ~Restart
      PROVE  Elsewhere
      BY <1>2, <1>3, SameTables DEF Elsewhere, timer
<1>4. CASE UNCHANGED vars
  <2>1. UNCHANGED spent
        BY <1>4 DEF vars
  <2>. QED  BY <1>4, <2>1, SameTables DEF Elsewhere, timer, vars
<1>5. CASE World /\ ~Restart
  <2>1. ASSUME NEW k, TaskEnd(k)
        PROVE  Elsewhere
    <3>1. UNCHANGED <<node, merge, thread>>
          BY <2>1 DEF TaskEnd
    <3>. QED  BY <1>1, <1>2, <1>5, <2>1, <3>1, EndedRows, SameTables DEF Elsewhere, timer
  <2>2. ASSUME NEW g \in Goals, NEW n \in NodeIds, StampPasses(g, n)
        PROVE  Elsewhere
    <3>1. UNCHANGED <<task, merge, thread>>
          BY <2>2 DEF StampPasses
    <3>. QED  BY <1>1, <1>2, <1>5, <2>2, <3>1, ClockedRows, SameTables DEF Elsewhere, timer
  <2>3. ASSUME NEW g \in Goals, ClockPasses(g)
        PROVE  Elsewhere
    <3>1. UNCHANGED <<node, task, merge, thread>>
          BY <2>3, Zenon DEF ClockPasses
    <3>. QED  BY <1>3, <1>5, <3>1
  <2>. QED  BY <1>5, <2>1, <2>2, <2>3 DEF World
<1>6. CASE Request /\ ~Restart
  <2>1. ASSUME NEW g \in Goals, Cancel(g)
        PROVE  Elsewhere
    <3>1. UNCHANGED <<node, task, merge, thread>>
          BY <2>1, Zenon DEF Cancel
    <3>. QED  BY <1>3, <1>6, <3>1
  <2>2. ASSUME NEW i, ResolveMerge(i)
        PROVE  Elsewhere
    <3>1. UNCHANGED <<node, task, thread>>
          BY <2>2, Zenon DEF ResolveMerge
    <3>. QED  BY <1>1, <1>2, <1>6, <2>2, <3>1, ResolvedRows, SameTables DEF Elsewhere, timer
  <2>. QED  BY <1>6, <2>1, <2>2 DEF Request
<1>7. CASE Heal(Healer) /\ ~Restart
  <2>1. UNCHANGED <<task, merge>> /\ (UNCHANGED node \/ RerouteGoal(Healer))
        BY <1>7, Zenon DEF Heal, HealBegin, ReevalGoal, ReevalEnd, RerouteGoal, RerouteEnd
  <2>2. OnlyMoves(Healer) /\ (RerouteGoal(Healer) => thread[Healer].pc # "idle")
        BY <1>1, <1>7, RolesHeal, HealMoves DEF From
  <2>. QED  BY <1>1, <1>2, <1>7, <2>1, <2>2, SameTables, ReroutedRows
            DEF Elsewhere, timer, OnlyMoves
<1>8. CASE Pass(Healer) /\ ~Restart
  <2>1. thread[Healer].pc \notin DriverPCs
        BY <1>1 DEF Role
  <2>2. PlanDone(Healer) \/ PlanError(Healer) \/ ResumeList(Healer) \/ ResumeGoal(Healer)
        \/ ResumeEnd(Healer)
    <3>1. CASE TickBegin(Healer) \/ SettleRead(Healer) \/ SettleWrite(Healer)
               \/ Supervise(Healer)
          BY <1>1, <2>1, <3>1, SettleMoves DEF Supervise, From, DriverPCs
    <3>2. CASE TickList(Healer) \/ TickEnd(Healer) \/ TickGoal(Healer)
               \/ IntegratorEnd(Healer)
          BY <1>1, <2>1, <3>2, TickMoves DEF TickGoal, From, DriverPCs
    <3>3. CASE Dispatch(Healer)
          BY <1>1, <2>1, <3>3, DispatchMoves DEF Dispatch, From, DriverPCs
    <3>. QED  BY <1>8, <3>1, <3>2, <3>3 DEF Pass
  <2>3. UNCHANGED <<task, merge>> /\ (UNCHANGED node \/ PlanDone(Healer))
        BY <2>2, Zenon DEF PlanDone, PlanError, ResumeList, ResumeGoal, ResumeEnd
  <2>4. OnlyMoves(Healer) /\ (PlanDone(Healer) => thread[Healer].pc # "idle")
        BY <1>1, <1>8, RolesPass, ResumeMoves DEF From
  <2>. QED  BY <1>1, <1>2, <1>8, <2>3, <2>4, SameTables, PlannedRows
            DEF Elsewhere, timer, OnlyMoves
<1>9. CASE Heal(Timer)
  <2>1. thread[Timer].pc \notin {"heal", "reeval", "reroute"} /\ Timer \notin Healers
        BY <1>1 DEF Role
  <2>. QED  BY <1>1, <1>9, <2>1, HealMoves DEF Heal, From
<1>10. CASE Pass(Timer) /\ ~Restart
  <2>1. thread[Timer].pc \notin {"planning", "resume_list", "resume"}
        BY <1>1 DEF Role
  <2>2. ~(PlanDone(Timer) \/ PlanError(Timer) \/ ResumeList(Timer) \/ ResumeGoal(Timer)
          \/ ResumeEnd(Timer))
        BY <1>1, <2>1, ResumeMoves DEF From
  <2>3. OnlyMoves(Timer)
        BY <1>1, <1>10, RolesPass
  <2>. QED  BY <1>2, <1>10, <2>2, <2>3 DEF Pass
<1>. QED  BY <1>1, <1>4, <1>5, <1>6, <1>7, <1>8, <1>9, <1>10 DEF Next

-----------------------------------------------------------------------------
(* What a step of a driver does, beyond where it takes the thread.           *)

LEMMA RestFinished ==
    /\ Rest.finished = {}
    /\ \A t : Settled(t).finished = thread[t].finished
    /\ \A t, pc, g : Visited(t, pc, g).finished = {}
  BY DEF Rest, Settled, Visited

\* A pass settles the tasks it found ended at its start.
LEMMA BeginFinished ==
    ASSUME TypeOK, NEW t \in Threads, TickBegin(t)
    PROVE  thread'[t].finished = Finished
<1>. DEFINE l == [Rest EXCEPT !.pc = "settle", !.finished = Finished]
<1>1. l.finished = Finished
      BY DEF Rest
<1>2. Goto(t, l)
      BY DEF TickBegin
<1>. HIDE DEF l
<1>. QED  BY <1>1, <1>2, GotoIs

\* The node that is settled is one that runs for the task taken up.
LEMMA ReadFinished ==
    ASSUME TypeOK, NEW t \in Threads
    PROVE  SettleRead(t) =>
              /\ thread'[t].finished \subseteq thread[t].finished
              /\ \/ To(t, "settle")
                 \/ /\ To(t, "settling")
                    /\ thread'[t].k \in thread[t].finished
                    /\ thread'[t].g \in Goals /\ thread'[t].n \in NodeIds
                    /\ node[thread'[t].g][thread'[t].n].status = "running"
                    /\ node[thread'[t].g][thread'[t].n].task = thread'[t].k
<1>0. thread[t] \in Local
      BY Continuations
<1>1. ASSUME SettleRead(t), NEW k \in thread[t].finished,
             Goto(t, [thread[t] EXCEPT !.finished = thread[t].finished \ {k}])
      PROVE  thread'[t].finished \subseteq thread[t].finished /\ To(t, "settle")
  <2>. DEFINE l == [thread[t] EXCEPT !.finished = thread[t].finished \ {k}]
  <2>1. thread[t].pc = "settle"
        BY <1>1, SettleMoves DEF From
  <2>2. l.pc = "settle" /\ l.finished = thread[t].finished \ {k}
        BY <1>0, <2>1 DEF Local
  <2>3. Goto(t, l)
        BY <1>1
  <2>. HIDE DEF l
  <2>. QED  BY <2>2, <2>3, GotoIs DEF To
<1>2. ASSUME NEW k \in thread[t].finished,
             NEW gn \in {gn \in RunningNodes : node[gn[1]][gn[2]].task = k},
             Goto(t, [Rest EXCEPT
                        !.pc = "settling", !.finished = thread[t].finished \ {k},
                        !.k = k, !.g = gn[1], !.n = gn[2], !.row = goal[gn[1]],
                        !.tries = node[gn[1]][gn[2]].attempts])
      PROVE  /\ thread'[t].finished \subseteq thread[t].finished
             /\ To(t, "settling")
             /\ thread'[t].k \in thread[t].finished
             /\ thread'[t].g \in Goals /\ thread'[t].n \in NodeIds
             /\ node[thread'[t].g][thread'[t].n].status = "running"
             /\ node[thread'[t].g][thread'[t].n].task = thread'[t].k
  <2>. DEFINE l == [Rest EXCEPT
                      !.pc = "settling", !.finished = thread[t].finished \ {k},
                      !.k = k, !.g = gn[1], !.n = gn[2], !.row = goal[gn[1]],
                      !.tries = node[gn[1]][gn[2]].attempts]
  <2>1. /\ l.pc = "settling" /\ l.finished = thread[t].finished \ {k}
        /\ l.k = k /\ l.g = gn[1] /\ l.n = gn[2]
        BY DEF Rest
  <2>2. Goto(t, l)
        BY <1>2
  <2>3. /\ gn[1] \in Goals /\ gn[2] \in NodeIds
        /\ node[gn[1]][gn[2]].status = "running"
        BY DEF RunningNodes
  <2>. HIDE DEF l
  <2>. QED  BY <1>2, <2>1, <2>2, <2>3, GotoIs DEF To
<1>3. ASSUME SettleRead(t)
      PROVE  \E k \in thread[t].finished :
                \/ Goto(t, [thread[t] EXCEPT !.finished = thread[t].finished \ {k}])
                \/ \E gn \in {gn \in RunningNodes : node[gn[1]][gn[2]].task = k} :
                     Goto(t, [Rest EXCEPT
                                !.pc = "settling", !.finished = thread[t].finished \ {k},
                                !.k = k, !.g = gn[1], !.n = gn[2], !.row = goal[gn[1]],
                                !.tries = node[gn[1]][gn[2]].attempts])
      BY <1>3, Zenon DEF SettleRead
<1>. QED  BY <1>1, <1>2, <1>3, Zenon

\* A pass takes up no other tasks on its way.
LEMMA SuperviseFields ==
    ASSUME TypeOK, NEW t \in Threads
    PROVE  /\ Supervise(t) => thread'[t].finished \subseteq thread[t].finished
           /\ SupervisorOp(t) => /\ thread'[t].n = thread[t].n
                                 /\ thread'[t].graph \in Edits(thread[t].graph, Scope(t))
<1>0. thread[t] \in Local
      BY Continuations
<1>1. ASSUME SupervisorOp(t)
      PROVE  /\ thread'[t].finished = thread[t].finished
             /\ thread'[t].n = thread[t].n
             /\ thread'[t].graph \in Edits(thread[t].graph, Scope(t))
  <2>1. PICK gr \in Edits(thread[t].graph, Scope(t)) :
           Goto(t, [thread[t] EXCEPT !.graph = gr, !.tries = @ + 1])
        BY <1>1, Zenon DEF SupervisorOp
  <2>. DEFINE l == [thread[t] EXCEPT !.graph = gr, !.tries = @ + 1]
  <2>2. l.finished = thread[t].finished /\ l.n = thread[t].n /\ l.graph = gr
        BY <1>0 DEF Local
  <2>3. Goto(t, l)
        BY <2>1
  <2>. HIDE DEF l
  <2>. QED  BY <2>1, <2>2, <2>3, GotoIs
<1>2. ASSUME Supervise(t), ~SupervisorOp(t)
      PROVE  thread'[t].finished \subseteq thread[t].finished
  <2>1. Goto(t, Settled(t)) \/ Goto(t, Rest)
        BY <1>2, Zenon DEF Supervise, SupervisorSave, SupervisorClash, SupervisorAbort,
                           SupervisorError
  <2>. QED  BY <2>1, GotoIs, RestFinished
<1>. QED  BY <1>1, <1>2

LEMMA VisitFinished ==
    ASSUME TypeOK, NEW t \in Threads,
           \/ TickList(t) \/ TickEnd(t) \/ TickGoal(t) \/ IntegratorEnd(t) \/ Dispatch(t)
    PROVE  thread'[t].finished \subseteq thread[t].finished
<1>0. thread[t] \in Local
      BY Continuations
<1>1. CASE TickList(t)
  <2>. DEFINE l == [Rest EXCEPT !.pc = "tick", !.rows = SelectStatus(Active)]
  <2>1. l.finished = {}
        BY DEF Rest
  <2>2. Goto(t, l)
        BY <1>1 DEF TickList
  <2>. HIDE DEF l
  <2>. QED  BY <2>1, <2>2, GotoIs
<1>2. CASE \/ TickEnd(t) \/ TickUnplanned(t) \/ TickBlock(t) \/ TickFail(t)
           \/ IntegratorEnd(t) \/ DispatchEnd(t)
  <2>1. Goto(t, Rest) \/ \E pc, g : Goto(t, Visited(t, pc, g))
        BY <1>2, Zenon DEF TickEnd, TickUnplanned, TickBlock, TickFail, IntegratorEnd,
                           DispatchEnd
  <2>. QED  BY <2>1, GotoIs, RestFinished
<1>3. CASE TickIntegrate(t)
  <2>. DEFINE l == [Rest EXCEPT !.pc = "integrating", !.g = VisitedGoal(t),
                                !.rows = thread[t].rows]
  <2>1. l.finished = {}
        BY DEF Rest
  <2>2. Goto(t, l)
        BY <1>3 DEF TickIntegrate
  <2>. HIDE DEF l
  <2>. QED  BY <2>1, <2>2, GotoIs
<1>4. CASE TickDispatch(t)
  <2>. DEFINE g == VisitedGoal(t)
              l == [Rest EXCEPT
                      !.pc = "dispatch", !.g = g, !.rows = thread[t].rows,
                      !.graph = node[g], !.ready = ReadySet(node[g]),
                      !.room = Room(g), !.slots = Slots]
  <2>1. l.finished = {}
        BY DEF Rest
  <2>2. Goto(t, l)
        BY <1>4 DEF TickDispatch
  <2>. HIDE DEF l
  <2>. QED  BY <2>1, <2>2, GotoIs
<1>5. CASE DispatchSkip(t)
  <2>1. PICK n \in NextReady(t) : Goto(t, [thread[t] EXCEPT !.ready = @ \ {n}])
        BY <1>5 DEF DispatchSkip
  <2>. DEFINE l == [thread[t] EXCEPT !.ready = @ \ {n}]
  <2>2. l.finished = thread[t].finished
        BY <1>0 DEF Local
  <2>3. Goto(t, l)
        BY <2>1
  <2>. HIDE DEF l
  <2>. QED  BY <2>2, <2>3, GotoIs
<1>6. CASE DispatchError(t)
  <2>1. PICK n, a : Goto(t, Charged(t, n, a))
        BY <1>6, Zenon DEF DispatchError
  <2>2. Charged(t, n, a).finished = thread[t].finished
        BY <1>0 DEF Charged, Local
  <2>. QED  BY <2>1, <2>2, GotoIs
<1>7. CASE DispatchStart(t)
  <2>1. PICK n, a : Goto(t, [Charged(t, n, a) EXCEPT !.pc = "record", !.n = n,
                                                    !.k = Len(task) + 1])
        BY <1>7, Zenon DEF DispatchStart
  <2>. DEFINE l == [Charged(t, n, a) EXCEPT !.pc = "record", !.n = n, !.k = Len(task) + 1]
  <2>2. l.finished = thread[t].finished
        BY <1>0 DEF Charged, Local
  <2>3. Goto(t, l)
        BY <2>1
  <2>. HIDE DEF l
  <2>. QED  BY <2>2, <2>3, GotoIs
<1>8. CASE DispatchRecord(t)
  <2>. DEFINE l == [thread[t] EXCEPT !.pc = "dispatch", !.n = 1, !.k = 0]
  <2>1. l.finished = thread[t].finished
        BY <1>0 DEF Local
  <2>2. Goto(t, l)
        BY <1>8 DEF DispatchRecord
  <2>. HIDE DEF l
  <2>. QED  BY <2>1, <2>2, GotoIs
<1>. QED  BY <1>1, <1>2, <1>3, <1>4, <1>5, <1>6, <1>7, <1>8 DEF TickGoal, Dispatch

\* One row of the nodes is written.
RowWritten(g, n, row) ==
    \A h \in Goals, m \in NodeIds :
        node'[h][m] = IF h = g /\ m = n THEN row ELSE node[h][m]

LEMMA WriteRow ==
    ASSUME TypeOK, NEW g \in Goals, NEW n \in NodeIds, NEW row,
           node[g][n].status # "absent", node' = UpdateNode(g, n, row)
    PROVE  RowWritten(g, n, row)
  BY DEF TypeOK, Graphs, UpdateNode, RowWritten

\* What settling a task does: its node ends, or waits for another attempt, or is
\* left as it is; outside careful mode it is done by a completed task and by no
\* other.
SettledAs(t, row) ==
    LET g == thread[t].g  n == thread[t].n
    IN  /\ RowWritten(g, n, row)
        /\ row.deps = node[g][n].deps
        /\ row = node[g][n] \/ row.status \in {"done", "pending", "failed"}
        /\ g \notin Careful => /\ row.status = "done" <=> ResultOf(t) \in Completed
                               /\ row.task = node[g][n].task

LEMMA SettleWrites ==
    ASSUME TypeOK, NEW t \in Threads, SettleWrite(t),
           node[thread[t].g][thread[t].n].status = "running"
    PROVE  /\ UNCHANGED task
           /\ thread'[t].finished = thread[t].finished
           /\ \E row : /\ SettledAs(t, row)
                       /\ \/ To(t, "settle")
                          \/ /\ To(t, "supervising") /\ row.status = "failed"
                             /\ thread'[t].g = thread[t].g /\ thread'[t].n = thread[t].n
                             /\ thread'[t].graph = node'[thread[t].g]
                             /\ thread[t].g \notin Careful /\ UNCHANGED goal
           /\ \/ UNCHANGED merge
              \/ SettleDone(t)
<1>. PICK g, n, old : g = thread[t].g /\ n = thread[t].n /\ old = node[g][n]
     OBVIOUS
<1>0. /\ g \in Goals /\ n \in NodeIds /\ old \in Node /\ old.status = "running"
      BY Continuations, LocalFields DEF TypeOK, Graphs
<1>. DEFINE Written(row) == node' = UpdateNode(g, n, row)
<1>1. ASSUME NEW row, Written(row)
      PROVE  RowWritten(g, n, row)
      BY <1>0, <1>1, WriteRow
<1>2. CASE SettleCarefulDone(t)
  <2>. DEFINE row == [old EXCEPT !.status = "done"]
  <2>1. Written(row) /\ OfCareful(t) /\ Goto(t, Settled(t))
        BY <1>2, Zenon DEF SettleCarefulDone
  <2>2. row.deps = old.deps /\ row.status = "done"
        BY <1>0 DEF Node
  <2>3. RowWritten(g, n, row)
        BY <1>1, <2>1
  <2>. HIDE DEF row, Written
  <2>4. UNCHANGED <<task, merge>>
        BY <1>2, Zenon DEF SettleCarefulDone
  <2>. QED  BY <2>1, <2>2, <2>3, <2>4, GotoIs, RestFields, RestFinished
            DEF SettledAs, OfCareful, To
<1>3. CASE SettleCarefulNext(t)
  <2>. DEFINE row == [old EXCEPT !.status = "pending", !.task = 0,
                                 !.attempts = thread[t].row.dispatches + 1]
  <2>1. Written(row) /\ OfCareful(t) /\ Goto(t, Settled(t))
        BY <1>3, Zenon DEF SettleCarefulNext
  <2>2. row.deps = old.deps /\ row.status = "pending"
        BY <1>0 DEF Node
  <2>3. RowWritten(g, n, row)
        BY <1>1, <2>1
  <2>. HIDE DEF row, Written
  <2>4. UNCHANGED <<task, merge>>
        BY <1>3, Zenon DEF SettleCarefulNext
  <2>. QED  BY <2>1, <2>2, <2>3, <2>4, GotoIs, RestFields, RestFinished
            DEF SettledAs, OfCareful, To
<1>4. CASE SettleDone(t)
  <2>. DEFINE row == [old EXCEPT !.status = "done"]
  <2>1. Written(row) /\ ResultOf(t) \in Completed /\ Goto(t, Settled(t)) /\ UNCHANGED task
        BY <1>4, Zenon DEF SettleDone
  <2>2. row.deps = old.deps /\ row.status = "done" /\ row.task = old.task
        BY <1>0 DEF Node
  <2>3. RowWritten(g, n, row)
        BY <1>1, <2>1
  <2>. HIDE DEF row, Written
  <2>. QED  BY <1>4, <2>1, <2>2, <2>3, GotoIs, RestFields, RestFinished DEF SettledAs, To
<1>5. CASE SettleGiveUp(t)
  <2>1. /\ UNCHANGED <<node, task, merge>> /\ ResultOf(t) \in Limited
        /\ Goto(t, Settled(t))
        BY <1>5, Zenon DEF SettleGiveUp
  <2>2. ResultOf(t) \notin Completed
        BY <2>1 DEF Limited, Completed
  <2>3. RowWritten(g, n, old)
        BY <2>1 DEF RowWritten
  <2>. QED  BY <1>0, <2>1, <2>2, <2>3, GotoIs, RestFields, RestFinished DEF SettledAs, To
<1>6. CASE SettleWait(t)
  <2>. DEFINE row == [old EXCEPT
                        !.status = "pending", !.held = TRUE,
                        !.agent = IF ResultOf(t) = "exhausted" THEN @ ELSE Unpinned]
  <2>1. Written(row) /\ ResultOf(t) \in Limited /\ Goto(t, Settled(t))
        BY <1>6, Zenon DEF SettleWait
  <2>2. row.deps = old.deps /\ row.status = "pending" /\ row.task = old.task
        BY <1>0 DEF Node
  <2>3. RowWritten(g, n, row)
        BY <1>1, <2>1
  <2>4. ResultOf(t) \notin Completed
        BY <2>1 DEF Limited, Completed
  <2>. HIDE DEF row, Written
  <2>5. UNCHANGED <<task, merge>>
        BY <1>6, Zenon DEF SettleWait
  <2>. QED  BY <2>1, <2>2, <2>3, <2>4, <2>5, GotoIs, RestFields, RestFinished
            DEF SettledAs, To
<1>7. CASE SettleRetry(t)
  <2>. DEFINE row == [old EXCEPT !.status = "pending", !.attempts = thread[t].tries + 1]
  <2>1. Written(row) /\ Broken(t) /\ Goto(t, Settled(t))
        BY <1>7, Zenon DEF SettleRetry
  <2>2. row.deps = old.deps /\ row.status = "pending" /\ row.task = old.task
        BY <1>0 DEF Node
  <2>3. RowWritten(g, n, row)
        BY <1>1, <2>1
  <2>. HIDE DEF row, Written
  <2>4. UNCHANGED <<task, merge>>
        BY <1>7, Zenon DEF SettleRetry
  <2>. QED  BY <2>1, <2>2, <2>3, <2>4, GotoIs, RestFields, RestFinished
            DEF SettledAs, Broken, To
<1>8. CASE SettleExhausted(t)
  <2>. DEFINE row == [old EXCEPT !.status = "failed"]
              l(gr) == [Settled(t) EXCEPT !.pc = "supervising", !.g = g, !.n = n,
                                          !.graph = gr]
  <2>1. /\ Written(row) /\ Broken(t) /\ ~OfCareful(t)
        /\ \/ Goto(t, Settled(t))
           \/ Goto(t, l(node'[g])) /\ UNCHANGED goal
        BY <1>8 DEF SettleExhausted
  <2>2. row.deps = old.deps /\ row.status = "failed" /\ row.task = old.task
        BY <1>0 DEF Node
  <2>3. RowWritten(g, n, row)
        BY <1>1, <2>1
  <2>4. \A gr : /\ l(gr).pc = "supervising" /\ l(gr).finished = thread[t].finished
                /\ l(gr).g = g /\ l(gr).n = n /\ l(gr).graph = gr
        BY DEF Settled, Rest
  <2>5. UNCHANGED <<task, merge>>
        BY <1>8, Zenon DEF SettleExhausted
  <2>. HIDE DEF row, Written, l
  <2>. QED  BY <2>1, <2>2, <2>3, <2>4, <2>5, GotoIs, RestFields, RestFinished
            DEF SettledAs, Broken, OfCareful, To
<1>. QED  BY <1>2, <1>3, <1>4, <1>5, <1>6, <1>7, <1>8 DEF SettleWrite
-----------------------------------------------------------------------------
(* The steps of the timer, as what they do to its record and to the tables.  *)

TablesSame == UNCHANGED <<node, task, merge>>

\* It goes on to something that rests on no row of a node.
Wanders ==
    /\ TablesSame /\ timer.pc # "record"
    /\ timer'.finished \subseteq timer.finished \cup Finished
    /\ timer'.pc \notin {"settling", "supervising", "dispatch", "record"}

\* It takes up a node whose task has ended.
TakesUp ==
    /\ TablesSame /\ timer.pc # "record"
    /\ timer'.finished \subseteq timer.finished
    /\ timer'.pc = "settling" /\ timer'.k \in timer.finished
    /\ timer'.g \in Goals /\ timer'.n \in NodeIds
    /\ node[timer'.g][timer'.n].status = "running"
    /\ node[timer'.g][timer'.n].task = timer'.k

\* It settles the node, and may ask the supervisor about it.
Settles(row) ==
    /\ timer.pc = "settling" /\ SettledAs(Timer, row)
    /\ UNCHANGED task /\ (UNCHANGED merge \/ SettleDone(Timer))
    /\ timer'.finished = timer.finished
    /\ \/ timer'.pc = "settle"
       \/ /\ timer'.pc = "supervising" /\ row.status = "failed"
          /\ timer'.g = timer.g /\ timer'.n = timer.n
          /\ timer'.graph = node'[timer.g]
          /\ timer.g \notin Careful

PatchesCopy ==
    /\ TablesSame
    /\ timer.pc = "supervising" /\ timer'.pc = "supervising"
    /\ timer'.finished \subseteq timer.finished
    /\ timer'.g = timer.g /\ timer'.n = timer.n
    /\ timer'.graph \in Edits(timer.graph, Scope(Timer))

Saves ==
    /\ UNCHANGED <<task, merge>>
    /\ timer.pc = "supervising" /\ timer'.pc = "settle"
    /\ timer'.finished \subseteq timer.finished
    /\ node' = [node EXCEPT ![timer.g] = timer.graph]

\* It reads the graph of a goal and the room there is for its nodes.
Admits ==
    /\ TablesSame /\ timer.pc # "record"
    /\ timer'.finished \subseteq timer.finished
    /\ timer'.pc = "dispatch" /\ timer'.g \in Goals
    /\ timer'.ready = ReadySet(node[timer'.g]) /\ timer'.room = Room(timer'.g)

\* It goes through the nodes that were ready.
Skips ==
    /\ TablesSame
    /\ timer.pc = "dispatch" /\ timer'.pc = "dispatch"
    /\ timer'.finished \subseteq timer.finished
    /\ timer'.g = timer.g /\ timer'.room = timer.room
    /\ timer'.ready \subseteq timer.ready

Fails(n) ==
    /\ UNCHANGED <<task, merge>>
    /\ timer.pc = "dispatch" /\ timer'.pc = "dispatch"
    /\ timer'.finished \subseteq timer.finished
    /\ timer'.g = timer.g /\ timer.room > 0 /\ timer'.room = timer.room - 1
    /\ n \in timer.ready /\ timer'.ready = timer.ready \ {n}
    /\ node' = UpdateNode(timer.g, n, [node[timer.g][n] EXCEPT !.status = "failed"])

Starts ==
    /\ UNCHANGED <<node, merge>>
    /\ timer.pc = "dispatch" /\ timer'.pc = "record"
    /\ timer'.finished \subseteq timer.finished
    /\ timer'.g = timer.g /\ timer.room > 0 /\ timer'.room = timer.room - 1
    /\ timer'.n \in timer.ready /\ timer'.ready = timer.ready \ {timer'.n}
    /\ timer'.k = Len(task) + 1
    /\ task' = Append(task, [goal |-> timer.g, node |-> timer'.n,
                             result |-> "running"])

Records ==
    /\ UNCHANGED <<task, merge>>
    /\ timer.pc = "record" /\ timer'.pc = "dispatch"
    /\ timer'.finished \subseteq timer.finished
    /\ timer'.g = timer.g /\ timer'.room = timer.room /\ timer'.ready = timer.ready
    /\ node' = UpdateNode(timer.g, timer.n,
                  [node[timer.g][timer.n] EXCEPT !.status = "running", !.task = timer.k])

TimerStep ==
    \/ Wanders \/ TakesUp \/ (\E row : Settles(row)) \/ PatchesCopy \/ Saves
    \/ Admits \/ Skips \/ (\E n : Fails(n)) \/ Starts \/ Records

\* The node of a task that is settled runs for that task, which has ended.
SettlesRunning ==
    timer.pc = "settling" =>
        /\ node[timer.g][timer.n].status = "running"
        /\ node[timer.g][timer.n].task = timer.k
        /\ timer.k \in DOMAIN task /\ task[timer.k].result # "running"

LEMMA TimerSteps ==
    ASSUME Handlers = {}, RolesInv, PlansEmpty, SettlesRunning, [Next]_vars
    PROVE  \/ Elsewhere
           \/ Restart
           \/ TimerStep /\ OnlyMoves(Timer) /\ spent'.crashes = spent.crashes
<1>1. TypeOK /\ Timer \in Threads /\ thread[Timer] \in Local
      BY ThreeKinds, Continuations DEF RolesInv
<1>2. ASSUME TickBegin(Timer)
      PROVE  TimerStep
  <2>1. UNCHANGED <<node, task, merge>>
        BY <1>2 DEF TickBegin
  <2>. QED  BY <1>1, <1>2, <2>1, BeginFinished, SettleMoves
            DEF TimerStep, Wanders, TablesSame, timer, To, From
<1>3. ASSUME SettleRead(Timer)
      PROVE  TimerStep
  <2>1. UNCHANGED <<node, task, merge>>
        BY <1>3, Zenon DEF SettleRead
  <2>. QED  BY <1>1, <1>3, <2>1, ReadFinished, SettleMoves
            DEF TimerStep, Wanders, TakesUp, TablesSame, timer, To, From
<1>4. ASSUME SettleWrite(Timer)
      PROVE  TimerStep
  <2>1. thread[Timer].pc = "settling"
        BY <1>1, <1>4, SettleMoves DEF From
  <2>2. node[thread[Timer].g][thread[Timer].n].status = "running"
        BY <2>1 DEF SettlesRunning, timer
  <2>3. \E row : Settles(row)
        BY <1>1, <1>4, <2>1, <2>2, SettleWrites DEF Settles, timer, To
  <2>. QED  BY <2>3 DEF TimerStep
<1>5. ASSUME SupervisorOp(Timer)
      PROVE  TimerStep
  <2>1. UNCHANGED <<node, task, merge>>
        BY <1>5, Zenon DEF SupervisorOp
  <2>2. /\ thread'[Timer].finished \subseteq thread[Timer].finished
        /\ thread'[Timer].n = thread[Timer].n
        /\ thread'[Timer].graph \in Edits(thread[Timer].graph, Scope(Timer))
        BY <1>1, <1>5, SuperviseFields DEF Supervise
  <2>3. PatchesCopy
        BY <1>1, <1>5, <2>1, <2>2, SettleMoves
           DEF PatchesCopy, TablesSame, timer, To, From, KeepsPlace
  <2>. QED  BY <2>3 DEF TimerStep
<1>6. ASSUME SupervisorSave(Timer)
      PROVE  TimerStep
  <2>1. /\ UNCHANGED <<task, merge>>
        /\ node' = [node EXCEPT ![thread[Timer].g] = thread[Timer].graph]
        BY <1>6, Zenon DEF SupervisorSave
  <2>2. thread'[Timer].finished \subseteq thread[Timer].finished
        BY <1>1, <1>6, SuperviseFields DEF Supervise
  <2>3. Saves
        BY <1>1, <1>6, <2>1, <2>2, SettleMoves DEF Saves, timer, To, From
  <2>. QED  BY <2>3 DEF TimerStep
<1>7. ASSUME SupervisorClash(Timer) \/ SupervisorAbort(Timer) \/ SupervisorError(Timer)
      PROVE  TimerStep
  <2>1. UNCHANGED <<node, task, merge>>
        BY <1>7, Zenon DEF SupervisorClash, SupervisorAbort, SupervisorError
  <2>2. thread'[Timer].finished \subseteq thread[Timer].finished
        BY <1>1, <1>7, SuperviseFields DEF Supervise
  <2>3. Wanders
        BY <1>1, <1>7, <2>1, <2>2, SettleMoves DEF Wanders, TablesSame, timer, To, From
  <2>. QED  BY <2>3 DEF TimerStep
<1>8. ASSUME TickDispatch(Timer)
      PROVE  TimerStep
  <2>1. UNCHANGED <<node, task, merge>> /\ Visiting(Timer)
        BY <1>8, Zenon DEF TickDispatch
  <2>2. VisitedGoal(Timer) \in Goals
        BY <2>1, FirstIsGoal DEF Visiting, VisitedGoal
  <2>3. thread'[Timer].finished \subseteq thread[Timer].finished
        BY <1>1, <1>8, VisitFinished DEF TickGoal
  <2>4. Admits
        BY <1>1, <1>8, <2>1, <2>2, <2>3, TickMoves
            DEF Admits, TablesSame, timer, To, From
  <2>. QED  BY <2>4 DEF TimerStep
<1>9. ASSUME \/ TickList(Timer) \/ TickEnd(Timer) \/ IntegratorEnd(Timer)
             \/ TickUnplanned(Timer) \/ TickBlock(Timer) \/ TickFail(Timer)
             \/ TickIntegrate(Timer) \/ DispatchEnd(Timer)
      PROVE  TimerStep
  <2>1. UNCHANGED <<node, task, merge>>
        BY <1>9, Zenon DEF TickList, TickEnd, IntegratorEnd, TickUnplanned, TickBlock,
                           TickFail, TickIntegrate, DispatchEnd
  <2>2. thread'[Timer].finished \subseteq thread[Timer].finished
        BY <1>1, <1>9, VisitFinished DEF TickGoal, Dispatch
  <2>3. /\ thread'[Timer].pc \in {"tick", "idle", "integrating"}
        /\ thread[Timer].pc # "record"
        BY <1>1, <1>9, TickMoves, DispatchMoves DEF To, From
  <2>4. Wanders
        BY <2>1, <2>2, <2>3 DEF Wanders, TablesSame, timer
  <2>. QED  BY <2>4 DEF TimerStep
<1>10. ASSUME DispatchSkip(Timer)
      PROVE  TimerStep
  <2>1. UNCHANGED <<node, task, merge>>
        BY <1>10, Zenon DEF DispatchSkip
  <2>2. thread'[Timer].finished \subseteq thread[Timer].finished
        BY <1>1, <1>10, VisitFinished DEF Dispatch
  <2>3. Skips
        BY <1>1, <1>10, <2>1, <2>2, DispatchMoves
           DEF Skips, TablesSame, timer, To, From, KeepsPlace
  <2>. QED  BY <2>3 DEF TimerStep
<1>11. ASSUME DispatchError(Timer)
      PROVE  TimerStep
  <2>1. UNCHANGED <<task, merge>>
        BY <1>11, Zenon DEF DispatchError
  <2>2. thread'[Timer].finished \subseteq thread[Timer].finished
        BY <1>1, <1>11, VisitFinished DEF Dispatch
  <2>3. \E n : Fails(n)
        BY <1>1, <1>11, <2>1, <2>2, DispatchMoves DEF Fails, timer, To, From, KeepsPlace
  <2>. QED  BY <2>3 DEF TimerStep
<1>12. ASSUME DispatchStart(Timer)
      PROVE  TimerStep
  <2>1. UNCHANGED <<node, merge>>
        BY <1>12, Zenon DEF DispatchStart
  <2>2. thread'[Timer].finished \subseteq thread[Timer].finished
        BY <1>1, <1>12, VisitFinished DEF Dispatch
  <2>3. Starts
        BY <1>1, <1>12, <2>1, <2>2, DispatchMoves DEF Starts, timer, To, From, KeepsPlace
  <2>. QED  BY <2>3 DEF TimerStep
<1>13. ASSUME DispatchRecord(Timer)
      PROVE  TimerStep
  <2>1. /\ UNCHANGED <<task, merge>>
        /\ node' = UpdateNode(thread[Timer].g, thread[Timer].n,
                     [node[thread[Timer].g][thread[Timer].n] EXCEPT
                        !.status = "running", !.task = thread[Timer].k])
        BY <1>13, Zenon DEF DispatchRecord
  <2>2. thread'[Timer].finished \subseteq thread[Timer].finished
        BY <1>1, <1>13, VisitFinished DEF Dispatch
  <2>3. Records
        BY <1>1, <1>13, <2>1, <2>2, DispatchMoves DEF Records, timer, To, From, KeepsPlace
  <2>. QED  BY <2>3 DEF TimerStep
<1>. QED  BY AloneSteps, <1>2, <1>3, <1>4, <1>5, <1>6, <1>7, <1>8, <1>9, <1>10, <1>11,
             <1>12, <1>13 DEF Supervise, TickGoal, Dispatch
-----------------------------------------------------------------------------
(* What stays true while the timer drives alone.                             *)

\* The nodes that the timer is about to start.
Waiting == timer.ready \cup (IF timer.pc = "record" THEN {timer.n} ELSE {})

FinishedEnded == \A k \in timer.finished : k \in DOMAIN task /\ task[k].result # "running"

WaitingPending ==
    /\ timer.pc \in {"dispatch", "record"} =>
          \A n \in Waiting : node[timer.g][n].status = "pending"
    /\ timer.pc = "record" => timer.n \notin timer.ready

\* What runs ran before for the same task, or was brought by a split.
StartsNone(new, old, n) ==
    new.status = "running" => \/ old.status = "running" /\ old.task = new.task
                              \/ Given(new, n)

\* The supervisor is asked about a node that failed, and the copy of its goal
\* shows no node running that does not run, but for those of a split.
CopyRuns ==
    timer.pc = "supervising" =>
        /\ node[timer.g][timer.n].status \in {"failed", "pending"}
        /\ \A m \in NodeIds : StartsNone(timer.graph[m], node[timer.g][m], m)

RoomLeft ==
    /\ timer.pc = "dispatch" => Cardinality(OwnRunning) + timer.room <= MaxParallel
    /\ timer.pc = "record" => Cardinality(OwnRunning) + timer.room + 1 <= MaxParallel

AloneInv ==
    /\ RolesInv /\ PlansEmpty
    /\ FinishedEnded /\ SettlesRunning /\ WaitingPending /\ CopyRuns
    /\ RoomLeft /\ ParallelCap

LEMMA OwnFinite ==
    /\ IsFiniteSet(OwnRunning) /\ Cardinality(OwnRunning) \in Nat
    /\ Cardinality(OwnRunning) <= Cardinality(RunningNodes)
<1>1. OwnRunning \subseteq RunningNodes
      BY DEF OwnRunning
<1>. QED  BY <1>1, RunningFinite, FS_Subset, FS_CardinalityType

LEMMA CapKept ==
    ASSUME ParallelCap,
           \A g \in Goals, n \in NodeIds : StartsNone(node'[g][n], node[g][n], n)
    PROVE  /\ ParallelCap'
           /\ Cardinality(OwnRunning') <= Cardinality(OwnRunning)
           /\ Cardinality(OwnRunning) \in Nat /\ Cardinality(OwnRunning') \in Nat
<1>0. OwnRunning' \subseteq OwnRunning
  <2>. SUFFICES ASSUME NEW gn \in OwnRunning' PROVE gn \in OwnRunning
       OBVIOUS
  <2>. PICK g, n : g = gn[1] /\ n = gn[2]
       OBVIOUS
  <2>1. /\ gn \in Goals \X NodeIds /\ g \in Goals /\ n \in NodeIds
        /\ node'[g][n].status = "running" /\ ~Given(node'[g][n], n)
        BY DEF OwnRunning, RunningNodes, Given
  <2>2. node[g][n].status = "running" /\ node[g][n].task = node'[g][n].task
        BY <2>1 DEF StartsNone
  <2>3. ~Given(node[g][n], n)
        BY <2>1, <2>2, GivenAlike
  <2>. QED  BY <2>1, <2>2, <2>3 DEF OwnRunning, RunningNodes
<1>1. /\ Cardinality(OwnRunning) \in Nat
      /\ Cardinality(OwnRunning') <= Cardinality(OwnRunning)
      /\ Cardinality(OwnRunning') \in Nat
      BY <1>0, OwnFinite, FS_Subset, FS_CardinalityType
<1>2. MaxParallel \in Nat
      BY CoordinatorAssumption
<1>. QED  BY <1>1, <1>2 DEF ParallelCap

LEMMA TimerFields ==
    ASSUME TypeOK
    PROVE  /\ timer \in Local
           /\ timer.g \in Goals /\ timer.n \in NodeIds /\ timer.k \in Nat
           /\ timer.ready \subseteq NodeIds /\ timer.room \in Nat
           /\ timer.graph \in Graphs
           /\ Waiting \subseteq NodeIds
           /\ \A g \in Goals, n \in NodeIds : node[g][n] \in Node
<1>1. timer \in Local
      BY ThreeKinds, Continuations DEF timer
<1>. QED  BY <1>1, LocalFields DEF TypeOK, Graphs, Waiting

\* Where the healer goes on to plan a goal, the goal is empty.
LEMMA HealerPlans ==
    ASSUME Handlers = {}, TypeOK, [Next]_vars, thread'[Healer].pc = "planning"
    PROVE  \/ thread'[Healer] = thread[Healer]
           \/ /\ UNCHANGED node
              /\ \A n \in NodeIds : node[thread'[Healer].g][n].status = "absent"
<1>1. CASE Pass(Healer)
  <2>1. ~(TickBegin(Healer) \/ SettleRead(Healer) \/ SettleWrite(Healer)
          \/ Supervise(Healer))
        BY ThreeKinds, SettleMoves DEF Supervise, To
  <2>2. ~(TickList(Healer) \/ TickEnd(Healer) \/ TickGoal(Healer)
          \/ IntegratorEnd(Healer) \/ Dispatch(Healer))
        BY ThreeKinds, TickMoves, DispatchMoves DEF TickGoal, Dispatch, To
  <2>3. ResumeGoal(Healer)
        BY <1>1, <2>1, <2>2, ThreeKinds, ResumeMoves DEF Pass, To
  <2>4. UNCHANGED node
        BY <2>3, Zenon DEF ResumeGoal
  <2>. QED  BY <2>3, <2>4, ThreeKinds, ResumeMoves DEF To, Members
<1>2. CASE Heal(Healer)
      BY <1>2, ThreeKinds, HealMoves DEF Heal, To
<1>3. CASE Restart
      BY <1>3, RestartThreads
<1>4. ASSUME NEW t \in Threads, t # Healer, Pass(t) \/ Heal(t)
      PROVE  thread'[Healer] = thread[Healer]
  <2>1. CASE TickBegin(t) \/ SettleRead(t) \/ SettleWrite(t) \/ Supervise(t)
        BY <1>4, <2>1, SettleMoves, ThreeKinds DEF Supervise, To, OnlyMoves
  <2>2. CASE TickList(t) \/ TickEnd(t) \/ TickGoal(t) \/ IntegratorEnd(t) \/ Dispatch(t)
        BY <1>4, <2>2, TickMoves, DispatchMoves, ThreeKinds
           DEF TickGoal, Dispatch, To, OnlyMoves
  <2>3. CASE \/ PlanDone(t) \/ PlanError(t) \/ ResumeList(t) \/ ResumeGoal(t)
             \/ ResumeEnd(t)
        BY <1>4, <2>3, ResumeMoves, ThreeKinds DEF To, OnlyMoves
  <2>4. CASE Heal(t)
        BY <1>4, <2>4, HealMoves, ThreeKinds DEF Heal, To, OnlyMoves
  <2>. QED  BY <1>4, <2>1, <2>2, <2>3, <2>4 DEF Pass
<1>. QED  BY <1>1, <1>2, <1>3, <1>4, NextMoves

\* What leaves an empty goal empty leaves the healer's goal empty.
LEMMA PlansEmptyKept ==
    ASSUME Handlers = {}, TypeOK, TypeOK', PlansEmpty, [Next]_vars,
           \A g \in Goals : (\A n \in NodeIds : node[g][n].status = "absent")
              => \/ \A n \in NodeIds : node'[g][n].status = "absent"
                 \/ thread'[Healer].pc # "planning"
    PROVE  PlansEmpty'
<1>1. \A t \in Threads : thread[t].g \in Goals
      BY Continuations, LocalFields
<1>. QED  BY <1>1, HealerPlans, ThreeKinds DEF PlansEmpty

LEMMA ElsewhereAlone ==
    ASSUME Handlers = {}, AloneInv, RolesInv', [Next]_vars, Elsewhere
    PROVE  AloneInv'
<1>1. /\ TypeOK /\ TypeOK' /\ timer' = timer
      /\ \A g \in Goals : CalmGoal(g) \/ PlannedGoal(g)
      BY DEF AloneInv, RolesInv, Elsewhere
<1>2. PlansEmpty'
      BY <1>1, PlansEmptyKept DEF AloneInv, CalmGoal, CalmRow, PlannedGoal
<1>3. FinishedEnded'
      BY <1>1 DEF AloneInv, FinishedEnded, Elsewhere, TasksEnd
<1>4. SettlesRunning'
      BY <1>1, TimerFields DEF AloneInv, SettlesRunning, Elsewhere, TasksEnd, CalmGoal, CalmRow,
                               PlannedGoal
<1>5. WaitingPending'
      BY <1>1, TimerFields DEF AloneInv, WaitingPending, Waiting, CalmGoal, CalmRow, PlannedGoal
<1>6. CopyRuns'
      BY <1>1, TimerFields
         DEF AloneInv, CopyRuns, StartsNone, Given, CalmGoal, CalmRow, PlannedGoal
<1>7. \A g \in Goals, n \in NodeIds : StartsNone(node'[g][n], node[g][n], n)
      BY <1>1 DEF StartsNone, CalmGoal, CalmRow, PlannedGoal
<1>8. ParallelCap' /\ RoomLeft'
  <2>1. timer.room \in Nat /\ MaxParallel \in Nat
        BY <1>1, TimerFields, CoordinatorAssumption
  <2>. QED  BY <1>1, <1>7, <2>1, CapKept DEF AloneInv, RoomLeft
<1>. QED  BY <1>2, <1>3, <1>4, <1>5, <1>6, <1>8 DEF AloneInv

LEMMA RestartAlone ==
    ASSUME AloneInv, RolesInv', Restart
    PROVE  AloneInv'
<1>1. /\ TypeOK /\ timer'.pc = "idle" /\ timer'.finished = {}
      /\ thread'[Healer].pc = "resume_list"
  <2>1. thread'[Timer] = Rest
        BY ThreeKinds DEF Restart
  <2>. QED  BY <2>1, RestartThreads, RestFields, RestFinished, ThreeKinds
            DEF AloneInv, RolesInv, timer
<1>2. \A g \in Goals, n \in NodeIds : StartsNone(node'[g][n], node[g][n], n)
  <2>1. \A g \in Goals, n \in NodeIds : node'[g][n] = Reconciled(node[g][n])
        BY DEF Restart
  <2>2. \A g \in Goals, n \in NodeIds : node[g][n] \in Node
        BY <1>1, TimerFields
  <2>3. \A nd \in Node : Reconciled(nd).status # "running"
        BY DEF Reconciled, Node
  <2>. QED  BY <2>1, <2>2, <2>3 DEF StartsNone
<1>. QED  BY <1>1, <1>2, CapKept
          DEF AloneInv, PlansEmpty, FinishedEnded, SettlesRunning, WaitingPending,
              CopyRuns, RoomLeft, timer
\* The steps that leave the nodes and the tasks as they are.
LEMMA StillAlone ==
    ASSUME Handlers = {}, AloneInv, RolesInv', [Next]_vars,
           Wanders \/ TakesUp \/ PatchesCopy \/ Admits \/ Skips
    PROVE  AloneInv'
<1>1. /\ TypeOK /\ TypeOK' /\ UNCHANGED <<node, task>>
      /\ \A g \in Goals, n \in NodeIds : StartsNone(node'[g][n], node[g][n], n)
      BY DEF AloneInv, RolesInv, Wanders, TakesUp, PatchesCopy, Admits, Skips, TablesSame,
             StartsNone
<1>2. PlansEmpty'
      BY <1>1, PlansEmptyKept DEF AloneInv
<1>3. FinishedEnded'
      BY <1>1 DEF AloneInv, FinishedEnded, Finished, Wanders, TakesUp, PatchesCopy, Admits,
                  Skips
<1>4. SettlesRunning'
      BY <1>1 DEF AloneInv, SettlesRunning, FinishedEnded, Wanders, TakesUp, PatchesCopy,
                  Admits, Skips
<1>5. WaitingPending'
      BY <1>1 DEF AloneInv, WaitingPending, Waiting, Wanders, TakesUp, PatchesCopy, Admits,
                  Skips, ReadySet
<1>6. CopyRuns'
  <2>1. CASE ~PatchesCopy
        BY <1>1, <2>1 DEF CopyRuns, Wanders, TakesUp, Admits, Skips
  <2>2. CASE PatchesCopy
    <3>. PICK gr, e, g : gr = timer.graph /\ e = timer'.graph /\ g = timer.g
         OBVIOUS
    <3>1. /\ gr \in Graphs /\ e \in Edits(gr, Scope(Timer))
          /\ timer.pc = "supervising" /\ timer'.g = g /\ timer'.n = timer.n
          BY <1>1, <2>2, TimerFields DEF PatchesCopy
    <3>2. ASSUME NEW m \in NodeIds
          PROVE  StartsNone(e[m], node[g][m], m)
      <4>1. \/ e[m].status # "running" \/ Given(e[m], m)
            \/ gr[m].status = "running" /\ e[m].task = gr[m].task
            BY <3>1, EditedGraphs
      <4>2. StartsNone(gr[m], node[g][m], m)
            BY <3>1 DEF AloneInv, CopyRuns
      <4>. QED  BY <4>1, <4>2, GivenAlike DEF StartsNone
    <3>3. node[g][timer.n].status \in {"failed", "pending"}
          BY <3>1 DEF AloneInv, CopyRuns
    <3>. QED  BY <1>1, <3>1, <3>2, <3>3 DEF CopyRuns, StartsNone, Given
  <2>. QED  BY <2>1, <2>2
<1>7. ParallelCap' /\ RoomLeft'
  <2>1. ParallelCap'
        BY <1>1, CapKept DEF AloneInv
  <2>2. /\ MaxParallel \in Nat /\ Cardinality(RunningNodes) \in Nat
        /\ Cardinality(OwnRunning) \in Nat /\ timer.room \in Nat
        /\ Cardinality(OwnRunning) <= Cardinality(RunningNodes)
        BY <1>1, CoordinatorAssumption, RunningFinite, OwnFinite, TimerFields
  <2>3. \A g : Cardinality(OwnRunning) + Room(g) <= MaxParallel
        BY <2>2 DEF Room, Minus, AloneInv, ParallelCap
  <2>4. Cardinality(OwnRunning') <= Cardinality(OwnRunning) /\ Cardinality(OwnRunning') \in Nat
        BY <1>1, CapKept DEF AloneInv
  <2>5. timer.pc # "record" /\ timer'.pc # "record"
        BY DEF Wanders, TakesUp, PatchesCopy, Admits, Skips
  <2>6. ASSUME timer'.pc = "dispatch"
        PROVE  /\ Cardinality(OwnRunning) + timer'.room <= MaxParallel
               /\ timer'.room \in Nat
    <3>1. CASE Admits
      <4>1. \A g \in Goals : Room(g) \in Nat
            BY CapacityTypes
      <4>. QED  BY <3>1, <4>1, <2>3 DEF Admits
    <3>2. CASE Skips
          BY <2>2, <3>2 DEF Skips, AloneInv, RoomLeft
    <3>. QED  BY <2>6, <3>1, <3>2 DEF Wanders, TakesUp, PatchesCopy
  <2>. QED  BY <2>1, <2>2, <2>4, <2>5, <2>6 DEF RoomLeft
<1>. QED  BY <1>2, <1>3, <1>4, <1>5, <1>6, <1>7 DEF AloneInv

LEMMA SettleAlone ==
    ASSUME Handlers = {}, AloneInv, RolesInv', [Next]_vars, NEW row, Settles(row)
    PROVE  AloneInv'
<1>. PICK g, n : g = timer.g /\ n = timer.n
     OBVIOUS
<1>1. /\ TypeOK /\ TypeOK' /\ UNCHANGED task /\ g \in Goals /\ n \in NodeIds
      /\ node[g][n].status = "running"
      /\ timer'.pc = "settle" \/ (timer'.pc = "supervising" /\ row.status = "failed")
      BY TimerFields DEF AloneInv, RolesInv, Settles, SettlesRunning
<1>2. /\ \A h \in Goals, m \in NodeIds :
            node'[h][m] = IF h = g /\ m = n THEN row ELSE node[h][m]
      /\ row = node[g][n] \/ row.status \in {"done", "pending", "failed"}
      BY DEF Settles, SettledAs, RowWritten, timer
<1>3. PlansEmpty'
      BY <1>1, <1>2, PlansEmptyKept DEF AloneInv
<1>4. FinishedEnded'
      BY <1>1 DEF AloneInv, FinishedEnded, Settles
<1>5. SettlesRunning' /\ WaitingPending'
      BY <1>1 DEF SettlesRunning, WaitingPending
<1>6. CopyRuns'
      BY <1>1, <1>2 DEF CopyRuns, StartsNone, Given, Settles
<1>7. \A h \in Goals, m \in NodeIds : StartsNone(node'[h][m], node[h][m], m)
      BY <1>1, <1>2 DEF StartsNone
<1>8. ParallelCap' /\ RoomLeft'
      BY <1>1, <1>7, CapKept DEF AloneInv, RoomLeft
<1>. QED  BY <1>3, <1>4, <1>5, <1>6, <1>8 DEF AloneInv

LEMMA SaveAlone ==
    ASSUME Handlers = {}, AloneInv, RolesInv', [Next]_vars, Saves
    PROVE  AloneInv'
<1>. PICK g, n : g = timer.g /\ n = timer.n
     OBVIOUS
<1>1. /\ TypeOK /\ TypeOK' /\ UNCHANGED task /\ g \in Goals /\ n \in NodeIds
      /\ timer'.pc = "settle"
      /\ node[g][n].status \in {"failed", "pending"}
      /\ \A m \in NodeIds : StartsNone(timer.graph[m], node[g][m], m)
      BY TimerFields DEF AloneInv, RolesInv, Saves, CopyRuns
<1>2. \A h \in Goals : node'[h] = IF h = g THEN timer.graph ELSE node[h]
      BY <1>1 DEF Saves, TypeOK
<1>3. PlansEmpty'
      BY <1>1, <1>2, PlansEmptyKept DEF AloneInv
<1>4. FinishedEnded'
      BY <1>1 DEF AloneInv, FinishedEnded, Saves
<1>5. SettlesRunning' /\ WaitingPending' /\ CopyRuns'
      BY <1>1 DEF SettlesRunning, WaitingPending, CopyRuns
<1>6. \A h \in Goals, m \in NodeIds : StartsNone(node'[h][m], node[h][m], m)
      BY <1>1, <1>2 DEF StartsNone
<1>7. ParallelCap' /\ RoomLeft'
      BY <1>1, <1>6, CapKept DEF AloneInv, RoomLeft
<1>. QED  BY <1>3, <1>4, <1>5, <1>7 DEF AloneInv

LEMMA FailAlone ==
    ASSUME Handlers = {}, AloneInv, RolesInv', [Next]_vars, NEW n, Fails(n)
    PROVE  AloneInv'
<1>. PICK g : g = timer.g
     OBVIOUS
<1>1. /\ TypeOK /\ TypeOK' /\ UNCHANGED task /\ g \in Goals /\ n \in NodeIds
      /\ timer.pc = "dispatch" /\ timer'.pc = "dispatch"
      /\ timer'.g = g /\ n \in timer.ready /\ timer'.ready = timer.ready \ {n}
      /\ timer.room \in Nat /\ timer'.room = timer.room - 1
      BY TimerFields DEF AloneInv, RolesInv, Fails
<1>2. node[g][n].status = "pending"
      BY <1>1 DEF AloneInv, WaitingPending, Waiting
<1>. DEFINE row == [node[g][n] EXCEPT !.status = "failed"]
<1>3. row.status = "failed"
      BY <1>1, TimerFields DEF Node
<1>4. node' = UpdateNode(g, n, row)
      BY <1>1 DEF Fails
<1>. HIDE DEF row
<1>5. \A h \in Goals, m \in NodeIds :
         node'[h][m] = IF h = g /\ m = n THEN row ELSE node[h][m]
      BY <1>1, <1>2, <1>4, WriteRow DEF RowWritten
<1>6. PlansEmpty'
      BY <1>1, <1>2, <1>5, PlansEmptyKept DEF AloneInv
<1>7. FinishedEnded' /\ SettlesRunning' /\ CopyRuns'
      BY <1>1 DEF AloneInv, FinishedEnded, SettlesRunning, CopyRuns, Fails
<1>8. WaitingPending'
      BY <1>1, <1>5, TimerFields DEF AloneInv, WaitingPending, Waiting
<1>9. \A h \in Goals, m \in NodeIds : StartsNone(node'[h][m], node[h][m], m)
      BY <1>1, <1>3, <1>5 DEF StartsNone
<1>10. ParallelCap' /\ RoomLeft'
  <2>1. MaxParallel \in Nat
        BY CoordinatorAssumption
  <2>. QED  BY <1>1, <1>9, <2>1, CapKept DEF AloneInv, RoomLeft
<1>. QED  BY <1>6, <1>7, <1>8, <1>10 DEF AloneInv

LEMMA StartAlone ==
    ASSUME Handlers = {}, AloneInv, RolesInv', [Next]_vars, Starts
    PROVE  AloneInv'
<1>1. /\ TypeOK /\ TypeOK' /\ UNCHANGED node /\ OwnRunning' = OwnRunning
      /\ timer.pc = "dispatch" /\ timer'.pc = "record"
      /\ timer.room \in Nat /\ timer'.room = timer.room - 1
      /\ Cardinality(OwnRunning) \in Nat /\ MaxParallel \in Nat
      BY TimerFields, OwnFinite, CoordinatorAssumption
         DEF AloneInv, RolesInv, Starts, OwnRunning, RunningNodes, Given
<1>2. PlansEmpty'
      BY <1>1, PlansEmptyKept DEF AloneInv
<1>3. FinishedEnded'
  <2>1. \A k \in DOMAIN task : k \in DOMAIN task' /\ task'[k] = task[k]
        BY <1>1, AppendProperties DEF Starts, TypeOK
  <2>. QED  BY <2>1 DEF AloneInv, FinishedEnded, Starts
<1>4. SettlesRunning' /\ CopyRuns'
      BY <1>1 DEF SettlesRunning, CopyRuns
<1>5. WaitingPending'
      BY <1>1 DEF AloneInv, WaitingPending, Waiting, Starts
<1>6. ParallelCap' /\ RoomLeft'
      BY <1>1 DEF AloneInv, RoomLeft, ParallelCap
<1>. QED  BY <1>2, <1>3, <1>4, <1>5, <1>6 DEF AloneInv

LEMMA RecordAlone ==
    ASSUME Handlers = {}, AloneInv, RolesInv', [Next]_vars, Records
    PROVE  AloneInv'
<1>. PICK g, n : g = timer.g /\ n = timer.n
     OBVIOUS
<1>1. /\ TypeOK /\ TypeOK' /\ UNCHANGED task /\ g \in Goals /\ n \in NodeIds
      /\ timer.pc = "record" /\ timer'.pc = "dispatch" /\ timer'.g = g
      /\ timer'.ready = timer.ready /\ timer'.room = timer.room
      /\ timer.room \in Nat /\ MaxParallel \in Nat
      /\ node[g][n].status = "pending" /\ n \notin timer.ready
      BY TimerFields, CoordinatorAssumption
         DEF AloneInv, RolesInv, Records, WaitingPending, Waiting
<1>. DEFINE row == [node[g][n] EXCEPT !.status = "running", !.task = timer.k]
<1>2. node' = UpdateNode(g, n, row)
      BY <1>1 DEF Records
<1>. HIDE DEF row
<1>3. \A h \in Goals, m \in NodeIds :
         node'[h][m] = IF h = g /\ m = n THEN row ELSE node[h][m]
      BY <1>1, <1>2, WriteRow DEF RowWritten
<1>4. PlansEmpty'
      BY <1>1, <1>3, PlansEmptyKept DEF AloneInv
<1>5. FinishedEnded' /\ SettlesRunning' /\ CopyRuns'
      BY <1>1 DEF AloneInv, FinishedEnded, SettlesRunning, CopyRuns, Records
<1>6. WaitingPending'
      BY <1>1, <1>3, TimerFields DEF AloneInv, WaitingPending, Waiting
<1>7. ParallelCap' /\ RoomLeft'
  <2>. PICK x : x = <<g, n>>
       OBVIOUS
  <2>1. OwnRunning' \subseteq OwnRunning \cup {x}
        BY <1>1, <1>3 DEF OwnRunning, RunningNodes, Given
  <2>2. /\ IsFiniteSet(OwnRunning \cup {x})
        /\ Cardinality(OwnRunning \cup {x}) <= Cardinality(OwnRunning) + 1
        /\ Cardinality(OwnRunning) \in Nat
    <3>1. IsFiniteSet(OwnRunning) /\ Cardinality(OwnRunning) \in Nat
          BY OwnFinite
    <3>2. /\ IsFiniteSet(OwnRunning \cup {x})
          /\ Cardinality(OwnRunning \cup {x}) =
                IF x \in OwnRunning THEN Cardinality(OwnRunning)
                ELSE Cardinality(OwnRunning) + 1
          BY <3>1, FS_AddElement, Zenon
    <3>. QED  BY <3>1, <3>2
  <2>3. /\ Cardinality(OwnRunning') <= Cardinality(OwnRunning) + 1
        /\ Cardinality(OwnRunning') \in Nat
    <3>1. Cardinality(OwnRunning') <= Cardinality(OwnRunning \cup {x})
          BY <2>1, <2>2, FS_Subset
    <3>. QED  BY <2>2, <3>1, FS_Subset, <2>1, FS_CardinalityType
  <2>. QED  BY <1>1, <2>2, <2>3 DEF AloneInv, RoomLeft, ParallelCap
<1>. QED  BY <1>4, <1>5, <1>6, <1>7 DEF AloneInv

LEMMA AloneInit == Init => AloneInv
<1>. SUFFICES ASSUME Init PROVE AloneInv
     OBVIOUS
<1>1. RolesInv /\ TypeOK /\ timer.pc = "idle" /\ thread[Healer].pc = "idle"
      BY RolesInit, InitTypes, IdleAtFirst, ThreeKinds DEF timer
<1>2. timer.finished = {}
  <2>1. thread = [t \in Threads |-> Rest]
        BY Zenon DEF Init
  <2>. QED  BY <2>1, RestFinished, ThreeKinds DEF timer
<1>3. RunningNodes = {}
  <2>1. node \in [Goals -> SomeGraphs]
    <3>1. node \in {nd \in [Goals -> SomeGraphs] :
                      \A g \in Goals : IF g \in Preplanned THEN nd[g] \in PlansOf(g)
                                       ELSE nd[g] = NoGraph}
          BY Zenon DEF Init
    <3>. QED  BY <3>1
  <2>2. \A gr \in SomeGraphs, n \in NodeIds : gr[n].status # "running"
        BY FreshPlans, FreshNoGraph DEF SomeGraphs, Fresh
  <2>. QED  BY <2>1, <2>2 DEF RunningNodes
<1>4. ParallelCap
  <2>1. OwnRunning = {}
        BY <1>3 DEF OwnRunning
  <2>. QED  BY <2>1, FS_EmptySet, CoordinatorAssumption DEF ParallelCap
<1>. QED  BY <1>1, <1>2, <1>4 DEF AloneInv, PlansEmpty, FinishedEnded, SettlesRunning,
                                WaitingPending, CopyRuns, RoomLeft

LEMMA AloneNext == Handlers = {} /\ AloneInv /\ [Next]_vars => AloneInv'
<1>. SUFFICES ASSUME Handlers = {}, AloneInv, [Next]_vars PROVE AloneInv'
     OBVIOUS
<1>1. RolesInv /\ RolesInv' /\ PlansEmpty /\ SettlesRunning
      BY RolesNext DEF AloneInv
<1>. QED  BY <1>1, TimerSteps, ElsewhereAlone, RestartAlone, StillAlone, SettleAlone,
             SaveAlone, FailAlone, StartAlone, RecordAlone DEF TimerStep

\* The global ceiling on the nodes the dispatcher has set running holds over all
\* goals and at any time: the room read at the start of a visit is still there when
\* a node is recorded.  Nodes that a split brings as running take room and are
\* not held to it (scheduler.rs build_capacity, graph.rs apply_patch).
THEOREM CeilingHolds == ASSUME Handlers = {} PROVE Spec => []ParallelCap
<1>1. AloneInv => ParallelCap
      BY DEF AloneInv
<1>2. AloneInv /\ [Next]_vars => AloneInv'
      BY AloneNext
<1>. QED  BY <1>1, <1>2, AloneInit, PTL DEF Spec
-----------------------------------------------------------------------------
(* The timer alone, where a patch is about the node that failed (PatchScope  *)
(* is empty): the rows it reads and the rows it writes stay those of its      *)
(* tasks.                                                                     *)

RunOrDone == {"running", "done"}

\* Row new of n runs or is done only as old does, or as a split was written, and
\* it keeps what old runs or has done.
AgreesWith(new, old, n) ==
    /\ old.status \in RunOrDone => new.status = old.status /\ new.task = old.task
    /\ new.status \in RunOrDone => \/ new.status = old.status /\ new.task = old.task
                                   \/ Given(new, n)

\* The copy that will be saved follows the table, and no running node waits for
\* the node that failed, unless a split was written so.
CopyAgrees ==
    timer.pc = "supervising" =>
        \A m \in NodeIds :
            /\ AgreesWith(timer.graph[m], node[timer.g][m], m)
            /\ timer.graph[m].status = "running" =>
                  \/ DepsMet(timer.graph, m) /\ timer.n \notin timer.graph[m].deps
                  \/ Given(timer.graph[m], m)

WaitingMet ==
    timer.pc \in {"dispatch", "record"} =>
        \A n \in Waiting : DepsMet(node[timer.g], n)

RunsFor(k) ==
    LET row == node[task[k].goal][task[k].node]
    IN  row.status = "running" /\ row.task = k

BeingRecorded(k) == timer.pc = "record" /\ timer.k = k

\* A live task is the one its node runs for, or is about to be.
LiveIsBound ==
    \A k \in DOMAIN task :
        task[k].result = "running" => RunsFor(k) \/ BeingRecorded(k)

\* A completed task is the one its node runs for, or is done by.
CompletedIsKept ==
    \A k \in DOMAIN task :
        LET row == node[task[k].goal][task[k].node]
        IN  /\ task[k].result \in Completed
            /\ task[k].goal \notin Careful
            /\ spent.crashes = 0
            => \/ row.task = k /\ row.status \in {"running", "done"}
               \/ BeingRecorded(k)

\* A split was written with node n running for task k, or done by it.
GivenTask(k, n) ==
    \E piece \in Pieces : piece[n].status \in RunOrDone /\ piece[n].task = k

CompletedOf(k, g, n) == TaskOf(k, g, n) /\ task[k].result \in Completed

\* A done node was done by its own task, or by the one a split was written with.
DoneBy(k, row, g, n) ==
    \/ CompletedOf(k, g, n)
    \/ GivenTask(k, n) /\ (EndedWell(k) \/ Given(row, n))

DoneByItsTask ==
    \A g \in Goals \ Careful, n \in NodeIds :
        node[g][n].status = "done" => DoneBy(node[g][n].task, node[g][n], g, n)

OfferedDone ==
    \A i \in DOMAIN merge :
        /\ node[merge[i].goal][merge[i].review].status = "done"
        /\ \/ CompletedOf(merge[i].task, merge[i].goal, merge[i].dep)
           \/ GivenTask(merge[i].task, merge[i].dep)

OfferedOnce ==
    \A i, j \in DOMAIN merge :
        merge[i].review = merge[j].review /\ merge[i].task = merge[j].task =>
            \/ i = j
            \/ GivenTask(merge[i].task, merge[i].dep)
            \/ GivenTask(merge[j].task, merge[j].dep)

QuietInv ==
    /\ AloneInv /\ BoundInv
    /\ CopyAgrees /\ WaitingMet /\ DepsBeforeNode
    /\ LiveIsBound /\ CompletedIsKept /\ DoneByItsTask
    /\ OfferedDone /\ OfferedOnce

OnlyGiven(row, n) == row.status \in RunOrDone => Given(row, n)

\* A patch op on a node that neither runs nor is done, unless it was written so: the
\* other rows stay, up to ids that had no row and dependencies on the node.
PatchedRow(e, gr, n, m) ==
    \/ gr[m].status = "absent" /\ OnlyGiven(e[m], m)
    \/ /\ e[m].status = gr[m].status /\ e[m].task = gr[m].task
       /\ n \notin gr[m].deps => e[m].deps = gr[m].deps

LEMMA EditedCopy ==
    ASSUME NEW gr \in Graphs, NEW n \in NodeIds, NEW e \in Edits(gr, {n}),
           OnlyGiven(gr[n], n)
    PROVE  /\ OnlyGiven(e[n], n)
           /\ \A m \in NodeIds \ {n} : PatchedRow(e, gr, n, m)
<1>0. \A m \in NodeIds : gr[m] \in Node
      BY DEF Graphs
<1>. DEFINE Good(f) == /\ OnlyGiven(f[n], n)
                       /\ \A m \in NodeIds \ {n} : PatchedRow(f, gr, n, m)
<1>1. ASSUME NEW row, OnlyGiven(row, n)
      PROVE  Good([gr EXCEPT ![n] = row])
      BY <1>1 DEF Graphs, PatchedRow
<1>2. CASE e \in Retargets(gr, {n})
  <2>1. PICK kind \in {"code", "review"}, agent \in Agents \cup {gr[n].agent} :
           e = Retarget(gr, n, kind, agent)
        BY <1>2 DEF Retargets
  <2>. DEFINE row == [gr[n] EXCEPT !.status = "pending", !.task = 0,
                                   !.kind = kind, !.agent = agent]
  <2>2. row.status = "pending"
        BY <1>0 DEF Node
  <2>3. e = [gr EXCEPT ![n] = row]
        BY <2>1 DEF Retarget, Graphs
  <2>. HIDE DEF row
  <2>. QED  BY <1>1, <2>2, <2>3 DEF OnlyGiven, RunOrDone
<1>3. CASE e \in Splits(gr, {n})
  <2>1. PICK piece \in Pieces : ~SplitClash(gr, n, piece) /\ e = Split(gr, n, piece)
        BY <1>3 DEF Splits
  <2>2. \A m \in Members(piece) : e[m] = piece[m] /\ OnlyGiven(e[m], m)
        BY <2>1 DEF Split, Members, OnlyGiven, Given
  <2>3. OnlyGiven(e[n], n)
    <3>1. n \notin Members(piece) => e[n].status = "absent"
          BY <2>1 DEF Split, NoNode, NewNode
    <3>. QED  BY <2>2, <3>1 DEF OnlyGiven, RunOrDone
  <2>4. ASSUME NEW m \in NodeIds \ {n}
        PROVE  PatchedRow(e, gr, n, m)
    <3>1. CASE m \in Members(piece)
      <4>1. gr[m].status = "absent"
            BY <2>1, <3>1 DEF SplitClash, Members
      <4>. QED  BY <2>2, <3>1, <4>1 DEF PatchedRow
    <3>2. CASE m \notin Members(piece)
      <4>1. e[m] = [gr[m] EXCEPT !.deps = Rewired(@, n, piece)]
            BY <2>1, <3>2 DEF Split
      <4>. QED  BY <1>0, <4>1 DEF Node, Rewired, PatchedRow
    <3>. QED  BY <3>1, <3>2
  <2>. QED  BY <2>3, <2>4
<1>4. CASE e \in Optionals(gr, {n})
  <2>0. e = gr \/ e = [gr EXCEPT ![n] = [gr[n] EXCEPT !.status = "skipped"]]
        BY <1>4 DEF Optionals, MarkOptional, Graphs
  <2>1. CASE e = gr
        BY <2>1 DEF PatchedRow
  <2>3. CASE e # gr
    <3>. DEFINE row == [gr[n] EXCEPT !.status = "skipped"]
    <3>1. row.status = "skipped" /\ e = [gr EXCEPT ![n] = row]
          BY <1>0, <2>0, <2>3 DEF Node
    <3>. HIDE DEF row
    <3>. QED  BY <1>1, <3>1 DEF OnlyGiven, RunOrDone
  <2>. QED  BY <2>1, <2>3
<1>5. CASE e \in Dependents(gr, {n})
  <2>1. PICK on \in Members(gr) : e = [gr EXCEPT ![n].deps = @ \cup {on}]
        BY <1>5 DEF Dependents, AddDependency
  <2>. DEFINE row == [gr[n] EXCEPT !.deps = @ \cup {on}]
  <2>2. /\ row.status = gr[n].status /\ row.task = gr[n].task
        /\ e = [gr EXCEPT ![n] = row]
        BY <1>0, <2>1 DEF Node, Graphs
  <2>. HIDE DEF row
  <2>3. OnlyGiven(row, n)
        BY <2>2, GivenAlike DEF OnlyGiven
  <2>. QED  BY <1>1, <2>2, <2>3
<1>6. CASE e \in Blocks(gr, {n})
  <2>. DEFINE row == [gr[n] EXCEPT !.status = "blocked"]
  <2>2. row.status = "blocked" /\ e = [gr EXCEPT ![n] = row]
        BY <1>0, <1>6 DEF Node, Graphs, Blocks, BlockNode
  <2>. HIDE DEF row
  <2>. QED  BY <1>1, <2>2 DEF OnlyGiven, RunOrDone
<1>7. \/ e \in Retargets(gr, {n}) \/ e \in Splits(gr, {n}) \/ e \in Optionals(gr, {n})
      \/ e \in Dependents(gr, {n}) \/ e \in Blocks(gr, {n})
  <2>1. Members(gr) \cap {n} = {n} \/ Members(gr) \cap {n} = {}
        OBVIOUS
  <2>2. /\ Retargets(gr, {}) = {} /\ Splits(gr, {}) = {} /\ Optionals(gr, {}) = {}
        /\ Dependents(gr, {}) = {} /\ Blocks(gr, {}) = {}
        BY DEF Retargets, Splits, Optionals, Dependents, Blocks
  <2>. QED  BY <2>1, <2>2 DEF Edits
<1>. QED  BY <1>2, <1>3, <1>4, <1>5, <1>6, <1>7

\* A step elsewhere starts, ends and skips no node.
LEMMA CalmRows ==
    ASSUME TypeOK, Elsewhere, NEW g \in Goals, NEW n \in NodeIds
    PROVE  /\ \A s \in {"done", "skipped", "running"} :
                 node'[g][n].status = s <=> node[g][n].status = s
           /\ node[g][n].status # "absent" =>
                 /\ node'[g][n].task = node[g][n].task
                 /\ node'[g][n].deps = node[g][n].deps
                 /\ node[g][n].status # "failed" => node'[g][n].status = node[g][n].status
  BY DEF Elsewhere, CalmGoal, PlannedGoal, CalmRow

\* What a review that passed offers: each dependency that is done, once.
LEMMA NewOffers ==
    ASSUME NEW g \in Goals, NEW n \in NodeIds, NEW gr \in Graphs, NEW row,
           NEW new, new = OfferRows(g, n, gr, Offers(n, gr, row))
    PROVE  /\ new \in Seq(MergeRow) /\ IsFiniteSet(Offers(n, gr, row))
           /\ \A i \in DOMAIN new :
                 /\ new[i].goal = g /\ new[i].review = n /\ new[i].dep \in NodeIds
                 /\ gr[new[i].dep].status = "done" /\ new[i].task = gr[new[i].dep].task
           /\ \A i, j \in DOMAIN new : new[i].dep = new[j].dep => i = j
<1>. DEFINE S == Offers(n, gr, row)
            offered == SetToSeq(S)
<1>1. S \subseteq {d \in NodeIds : gr[d].status = "done"}
      BY DEF Offers, Graphs, Node
<1>2. IsFiniteSet(S)
  <2>1. IsFiniteSet(NodeIds)
        BY FS_Interval, TaskGraphAssumption DEF NodeIds
  <2>. QED  BY <1>1, <2>1, FS_Subset
<1>3. Cardinality(S) \in Nat /\ ExistsBijection(1..Cardinality(S), S)
      BY <1>2, FS_CardinalityType
<1>4. /\ offered \in [1..Cardinality(S) -> S]
      /\ \A i, j \in 1..Cardinality(S) : offered[i] = offered[j] => i = j
      BY <1>3 DEF SetToSeq, ExistsBijection, Bijection, Injection, IsInjective
<1>. HIDE DEF S, offered
<1>5. DOMAIN offered = 1..Cardinality(S)
      BY <1>4
<1>6. \A i \in 1..Cardinality(S) :
         /\ offered[i] \in NodeIds /\ gr[offered[i]].status = "done"
         /\ gr[offered[i]].task \in Nat
      BY <1>1, <1>4 DEF Graphs, Node
<1>7. new = [i \in 1..Cardinality(S) |->
               [goal |-> g, review |-> n, dep |-> offered[i],
                task |-> gr[offered[i]].task, status |-> "pending", landed |-> FALSE]]
      BY <1>5 DEF OfferRows, S, offered
<1>8. new \in [1..Cardinality(S) -> MergeRow]
      BY <1>6, <1>7 DEF MergeRow
<1>9. new \in Seq(MergeRow)
      BY <1>3, <1>8, SeqDef
<1>. QED  BY <1>2, <1>4, <1>6, <1>7, <1>9 DEF S
LEMMA DepsStay ==
    ASSUME NEW gr, NEW gr1, NEW n,
           gr1[n].deps = gr[n].deps, DepsMet(gr, n),
           \A d \in gr[n].deps : gr[d].status \in {"done", "skipped"} =>
                                   gr1[d].status \in {"done", "skipped"}
    PROVE  DepsMet(gr1, n)
  BY DEF DepsMet

LEMMA DoneRows ==
    ASSUME \A g \in Goals \ Careful, n \in NodeIds : \A k, row :
              row = node'[g][n] /\ row.status = "done" /\ k = row.task =>
                 DoneBy(k, row, g, n)'
    PROVE  DoneByItsTask'
  BY DEF DoneByItsTask, DoneBy, CompletedOf, TaskOf, EndedWell, GivenTask, Given

LEMMA QuietTypes ==
    ASSUME QuietInv
    PROVE  /\ TypeOK /\ timer \in Local /\ timer.g \in Goals /\ timer.n \in NodeIds
           /\ timer.graph \in Graphs /\ Waiting \subseteq NodeIds
           /\ \A g \in Goals, n \in NodeIds :
                 node[g][n] \in Node /\ node[g][n].deps \subseteq NodeIds
           /\ \A k \in DOMAIN task : /\ task[k].goal \in Goals /\ task[k].node \in NodeIds
           /\ \A i \in DOMAIN merge : merge[i].goal \in Goals /\ merge[i].review \in NodeIds
           /\ "running" \notin Completed
<1>1. TypeOK
      BY DEF QuietInv, BoundInv
<1>2. \A k \in DOMAIN task : task[k] \in TaskRow
      BY <1>1 DEF TypeOK
<1>3. \A i \in DOMAIN merge : merge[i] \in MergeRow
      BY <1>1 DEF TypeOK
<1>. QED  BY <1>1, <1>2, <1>3, TimerFields DEF TaskRow, MergeRow, Node, Completed

LEMMA ElsewhereQuiet ==
    ASSUME QuietInv, AloneInv', BoundInv', Elsewhere
    PROVE  QuietInv'
<1>1. /\ TypeOK /\ timer' = timer /\ TasksEnd /\ OffersSame
      /\ spent'.crashes = spent.crashes
      BY QuietTypes DEF Elsewhere
<1>. PICK g : g = timer.g
     OBVIOUS
<1>2. CopyAgrees'
  <2>1. ASSUME timer.pc = "supervising", NEW m \in NodeIds
        PROVE  AgreesWith(timer.graph[m], node'[g][m], m)
        BY <1>1, <2>1, QuietTypes, CalmRows DEF QuietInv, CopyAgrees, AgreesWith, RunOrDone
  <2>. QED  BY <1>1, <2>1 DEF QuietInv, CopyAgrees, AgreesWith, Given, DepsMet
<1>3. ASSUME NEW h \in Goals, NEW m \in NodeIds, node[h][m].status # "absent",
             DepsMet(node[h], m)
      PROVE  DepsMet(node'[h], m)
  <2>1. node'[h][m].deps = node[h][m].deps /\ node[h][m].deps \subseteq NodeIds
        BY <1>1, <1>3, CalmRows, QuietTypes
  <2>. QED  BY <1>1, <1>3, <2>1, CalmRows DEF DepsMet
<1>4. WaitingMet'
  <2>1. Waiting' = Waiting
        BY <1>1 DEF Waiting
  <2>2. ASSUME timer.pc \in {"dispatch", "record"}, NEW n \in Waiting
        PROVE  DepsMet(node'[timer.g], n)
    <3>1. n \in NodeIds /\ timer.g \in Goals /\ node[timer.g][n].status = "pending"
          BY <2>2, QuietTypes DEF QuietInv, AloneInv, WaitingPending
    <3>2. DepsMet(node[timer.g], n)
          BY <2>2 DEF QuietInv, WaitingMet
    <3>. QED  BY <1>3, <3>1, <3>2
  <2>. QED  BY <1>1, <2>1, <2>2 DEF WaitingMet
<1>5. DepsBeforeNode'
  <2>. SUFFICES ASSUME NEW h \in Goals, NEW m \in NodeIds,
                       node'[h][m].status = "running"
                PROVE  DepsMet(node'[h], m) \/ Given(node'[h][m], m)
       BY DEF DepsBeforeNode, Given, DepsMet
  <2>1. node[h][m].status = "running" /\ node'[h][m].task = node[h][m].task
        BY <1>1, CalmRows
  <2>2. DepsMet(node[h], m) \/ Given(node[h][m], m)
        BY <2>1 DEF QuietInv, DepsBeforeNode
  <2>. QED  BY <1>3, <2>1, <2>2, GivenAlike
<1>6. /\ DOMAIN task' = DOMAIN task
      /\ \A k \in DOMAIN task : /\ task'[k].goal = task[k].goal
                                /\ task'[k].node = task[k].node
                                /\ \/ task'[k].result = task[k].result
                                   \/ task[k].result = "running"
                                /\ RunsFor(k) => RunsFor(k)'
                                /\ BeingRecorded(k)' = BeingRecorded(k)
  <2>1. ASSUME NEW k \in DOMAIN task PROVE RunsFor(k) => RunsFor(k)'
        BY <1>1, <2>1, CalmRows, QuietTypes DEF RunsFor, TasksEnd
  <2>. QED  BY <1>1, <2>1 DEF TasksEnd, BeingRecorded
<1>7. LiveIsBound'
  <2>1. \A k \in DOMAIN task : task'[k].result = "running" => task[k].result = "running"
        BY <1>6
  <2>. QED  BY <1>6, <2>1 DEF QuietInv, LiveIsBound
<1>8. CompletedIsKept'
  <2>. SUFFICES ASSUME NEW k \in DOMAIN task, task'[k].result \in Completed,
                       task[k].goal \notin Careful, spent.crashes = 0,
                       ~BeingRecorded(k)
                PROVE  LET row == node'[task[k].goal][task[k].node]
                       IN  row.task = k /\ row.status \in {"running", "done"}
       BY <1>1, <1>6 DEF CompletedIsKept
  <2>1. LET row == node[task[k].goal][task[k].node]
        IN  row.task = k /\ row.status \in {"running", "done"}
        BY <1>6 DEF QuietInv, CompletedIsKept, LiveIsBound, RunsFor
  <2>. QED  BY <1>1, <2>1, CalmRows, QuietTypes
<1>9. DoneByItsTask'
  <2>. SUFFICES ASSUME NEW h \in Goals \ Careful, NEW m \in NodeIds, NEW k, NEW row,
                       row = node'[h][m], row.status = "done", k = row.task
                PROVE  DoneBy(k, row, h, m)'
       BY DoneRows
  <2>1. node[h][m].status = "done" /\ node'[h][m].task = node[h][m].task
        BY <1>1, CalmRows
  <2>2. DoneBy(k, node[h][m], h, m)
        BY <2>1 DEF QuietInv, DoneByItsTask
  <2>3. Given(node[h][m], m) => Given(row, m)
        BY <2>1, GivenAlike
  <2>4. CompletedOf(k, h, m) => CompletedOf(k, h, m)'
        BY <1>6, QuietTypes DEF CompletedOf, TaskOf
  <2>5. EndedWell(k) => EndedWell(k)'
        BY <1>6, QuietTypes DEF EndedWell
  <2>6. GivenTask(k, m) => GivenTask(k, m)'
        BY DEF GivenTask
  <2>7. Given(row, m) => Given(row, m)'
        BY DEF Given
  <2>. QED  BY <2>2, <2>3, <2>4, <2>5, <2>6, <2>7 DEF DoneBy
<1>10. OfferedDone'
  <2>. SUFFICES ASSUME NEW i \in DOMAIN merge
                PROVE  /\ node'[merge[i].goal][merge[i].review].status = "done"
                       /\ \/ CompletedOf(merge[i].task, merge[i].goal, merge[i].dep)'
                          \/ GivenTask(merge[i].task, merge[i].dep)
       BY <1>1 DEF OfferedDone, OffersSame, GivenTask, CompletedOf, TaskOf
  <2>1. /\ node[merge[i].goal][merge[i].review].status = "done"
        /\ \/ CompletedOf(merge[i].task, merge[i].goal, merge[i].dep)
           \/ GivenTask(merge[i].task, merge[i].dep)
        BY DEF QuietInv, OfferedDone
  <2>2. node'[merge[i].goal][merge[i].review].status = "done"
        BY <1>1, <2>1, CalmRows, QuietTypes
  <2>3. CompletedOf(merge[i].task, merge[i].goal, merge[i].dep) =>
           CompletedOf(merge[i].task, merge[i].goal, merge[i].dep)'
        BY <1>1, <1>6, QuietTypes DEF CompletedOf, TaskOf, OffersSame
  <2>. QED  BY <2>1, <2>2, <2>3
<1>11. OfferedOnce'
      BY <1>1 DEF QuietInv, OfferedOnce, OffersSame, GivenTask
<1>. QED  BY <1>2, <1>4, <1>5, <1>7, <1>8, <1>9, <1>10, <1>11 DEF QuietInv

LEMMA RestartQuiet ==
    ASSUME QuietInv, AloneInv', BoundInv', Restart
    PROVE  QuietInv'
<1>1. /\ TypeOK /\ UNCHANGED merge /\ timer'.pc = "idle"
      /\ \A g \in Goals, n \in NodeIds : node'[g][n] = Reconciled(node[g][n])
      /\ spent' = [spent EXCEPT !.crashes = @ + 1]
      BY QuietTypes, RestartThreads, ThreeKinds DEF Restart, timer
<1>2. /\ DOMAIN task' = DOMAIN task
      /\ \A k \in DOMAIN task : /\ task'[k].goal = task[k].goal
                                /\ task'[k].node = task[k].node
                                /\ task'[k].result # "running"
                                /\ task[k].result \in Completed =>
                                      task'[k].result \in Completed
  <2>1. \A k \in DOMAIN task : task[k] \in TaskRow
        BY <1>1 DEF TypeOK
  <2>2. task' = [k \in DOMAIN task |->
                   [task[k] EXCEPT !.result = IF @ = "running" THEN "failed" ELSE @]]
        BY Zenon DEF Restart
  <2>. QED  BY <2>1, <2>2 DEF TaskRow, Completed
<1>3. spent'.crashes # 0
      BY <1>1 DEF TypeOK
<1>4. ASSUME NEW g \in Goals, NEW n \in NodeIds
      PROVE  /\ node'[g][n].status # "running"
             /\ node[g][n].status = "done" =>
                   node'[g][n].status = "done" /\ node'[g][n].task = node[g][n].task
             /\ node'[g][n].status = "done" /\ node[g][n].status # "done" =>
                   /\ node[g][n].status = "running" /\ node'[g][n].task = node[g][n].task
                   /\ EndedWell(node[g][n].task)
  <2>. PICK nd : nd = node[g][n]
       OBVIOUS
  <2>1. nd \in Node /\ node'[g][n] = Reconciled(nd)
        BY <1>1, QuietTypes
  <2>2. CASE nd.status # "running"
    <3>1. Reconciled(nd) = nd
          BY <2>2 DEF Reconciled
    <3>. QED  BY <2>1, <2>2, <3>1
  <2>3. CASE nd.status = "running"
    <3>1. \/ /\ Reconciled(nd) = [nd EXCEPT !.status = "done"]
             /\ EndedWell(nd.task)
          \/ Reconciled(nd) = [nd EXCEPT !.status = "pending", !.attempts = @ + 1]
          \/ Reconciled(nd) = [nd EXCEPT !.status = "failed"]
          BY <2>3, Zenon DEF Reconciled, EndedWell
    <3>. PICK r : r = Reconciled(nd)
         OBVIOUS
    <3>2. \/ r.status = "done" /\ r.task = nd.task /\ EndedWell(nd.task)
          \/ r.status = "pending"
          \/ r.status = "failed"
          BY <2>1, <3>1 DEF Node
    <3>. QED  BY <2>1, <2>3, <3>2
  <2>. QED  BY <2>2, <2>3
<1>5. CopyAgrees' /\ WaitingMet' /\ DepsBeforeNode'
      BY <1>1, <1>4 DEF CopyAgrees, WaitingMet, DepsBeforeNode
<1>6. LiveIsBound' /\ CompletedIsKept'
      BY <1>2, <1>3 DEF LiveIsBound, CompletedIsKept
<1>7. DoneByItsTask'
  <2>. SUFFICES ASSUME NEW h \in Goals \ Careful, NEW m \in NodeIds, NEW k, NEW row,
                       row = node'[h][m], row.status = "done", k = row.task
                PROVE  DoneBy(k, row, h, m)'
       BY DoneRows
  <2>1. node[h][m].task = k
        BY <1>4
  <2>2. /\ CompletedOf(k, h, m) => CompletedOf(k, h, m)'
        /\ EndedWell(k) => EndedWell(k)'
        /\ GivenTask(k, m) => GivenTask(k, m)'
        /\ Given(row, m) => Given(row, m)'
        BY <1>2 DEF CompletedOf, TaskOf, EndedWell, GivenTask, Given
  <2>3. CASE node[h][m].status = "done"
    <3>1. Given(node[h][m], m) => Given(row, m)
          BY <1>4, <2>3, GivenAlike
    <3>2. DoneBy(k, node[h][m], h, m)
          BY <2>1, <2>3 DEF QuietInv, DoneByItsTask
    <3>. QED  BY <2>2, <3>1, <3>2 DEF DoneBy
  <2>4. CASE node[h][m].status # "done"
    <3>1. node[h][m].status = "running" /\ EndedWell(k)
          BY <1>4, <2>4
    <3>2. TaskOf(k, h, m) \/ Given(node[h][m], m)
          BY <2>1, <3>1 DEF QuietInv, BoundInv, RunningHasTask, BoundTo
    <3>3. CompletedOf(k, h, m) \/ GivenTask(k, m)
          BY <2>1, <3>1, <3>2 DEF CompletedOf, EndedWell, Given, GivenTask, RunOrDone
    <3>. QED  BY <2>2, <3>1, <3>3 DEF DoneBy
  <2>. QED  BY <2>3, <2>4
<1>8. OfferedDone' /\ OfferedOnce'
      BY <1>1, <1>2, <1>4, QuietTypes
         DEF QuietInv, OfferedDone, OfferedOnce, CompletedOf, TaskOf, GivenTask
<1>. QED  BY <1>5, <1>6, <1>7, <1>8 DEF QuietInv

\* The steps that leave the nodes, the tasks and the offers as they are.
LEMMA StillQuiet ==
    ASSUME PatchScope = {}, QuietInv, AloneInv', BoundInv',
           spent'.crashes = spent.crashes,
           Wanders \/ TakesUp \/ PatchesCopy \/ Admits \/ Skips
    PROVE  QuietInv'
<1>1. /\ UNCHANGED <<node, task, merge>>
      /\ timer.pc # "record"
      BY DEF Wanders, TakesUp, PatchesCopy, Admits, Skips, TablesSame
<1>2. CopyAgrees'
  <2>1. CASE ~PatchesCopy
        BY <2>1 DEF CopyAgrees, Wanders, TakesUp, Admits, Skips
  <2>2. CASE PatchesCopy
    <3>. PICK n, gr, e : n = timer.n /\ gr = timer.graph /\ e = timer'.graph
         OBVIOUS
    <3>1. /\ n \in NodeIds /\ gr \in Graphs /\ e \in Edits(gr, {n})
          /\ timer.pc = "supervising" /\ timer'.n = n /\ timer'.g = timer.g
          BY <2>2, QuietTypes DEF PatchesCopy, Scope, timer
    <3>2. \A m \in NodeIds :
             /\ AgreesWith(gr[m], node[timer.g][m], m)
             /\ gr[m].status = "running" =>
                   (DepsMet(gr, m) /\ n \notin gr[m].deps) \/ Given(gr[m], m)
          BY <3>1 DEF QuietInv, CopyAgrees
    <3>3. node[timer.g][n].status \notin RunOrDone
          BY <3>1 DEF QuietInv, AloneInv, CopyRuns, RunOrDone
    <3>4. OnlyGiven(e[n], n) /\ \A m \in NodeIds \ {n} : PatchedRow(e, gr, n, m)
      <4>1. OnlyGiven(gr[n], n)
            BY <3>1, <3>2, <3>3 DEF AgreesWith, OnlyGiven
      <4>. QED  BY <3>1, <4>1, EditedCopy
    <3>5. ASSUME NEW m \in NodeIds
          PROVE  AgreesWith(e[m], node[timer.g][m], m)
      <4>1. CASE m = n
            BY <3>3, <3>4, <4>1 DEF AgreesWith, OnlyGiven
      <4>2. CASE m # n /\ gr[m].status = "absent" /\ OnlyGiven(e[m], m)
            BY <3>2, <4>2 DEF AgreesWith, OnlyGiven, RunOrDone
      <4>3. CASE e[m].status = gr[m].status /\ e[m].task = gr[m].task
            BY <3>2, <4>3, GivenAlike DEF AgreesWith
      <4>. QED  BY <3>4, <4>1, <4>2, <4>3 DEF PatchedRow
    <3>6. ASSUME NEW m \in NodeIds, e[m].status = "running", ~Given(e[m], m)
          PROVE  DepsMet(e, m) /\ n \notin e[m].deps
      <4>1. /\ m # n /\ gr[m].status = "running" /\ gr[m].task = e[m].task
            /\ n \notin gr[m].deps => e[m].deps = gr[m].deps
            BY <3>4, <3>6 DEF PatchedRow, OnlyGiven, RunOrDone
      <4>2. DepsMet(gr, m) /\ n \notin gr[m].deps /\ e[m].deps = gr[m].deps
            BY <3>2, <3>6, <4>1, GivenAlike
      <4>3. gr[m].deps \subseteq NodeIds
            BY <3>1 DEF Graphs, Node
      <4>. QED  BY <3>4, <4>2, <4>3 DEF DepsMet, PatchedRow
    <3>. QED  BY <1>1, <3>1, <3>5, <3>6 DEF CopyAgrees, AgreesWith, Given, DepsMet
  <2>. QED  BY <2>1, <2>2
<1>3. WaitingMet'
      BY <1>1 DEF QuietInv, WaitingMet, Waiting, Wanders, TakesUp, PatchesCopy, Admits,
                  Skips, ReadySet
<1>4. DepsBeforeNode' /\ DoneByItsTask' /\ OfferedDone' /\ OfferedOnce'
      BY <1>1 DEF QuietInv, DepsBeforeNode, DoneByItsTask, DoneBy, CompletedOf, TaskOf,
                  EndedWell, OfferedDone, OfferedOnce, Given, GivenTask, DepsMet
<1>5. LiveIsBound' /\ CompletedIsKept'
      BY <1>1 DEF QuietInv, LiveIsBound, CompletedIsKept, RunsFor, BeingRecorded
<1>. QED  BY <1>2, <1>3, <1>4, <1>5 DEF QuietInv
\* The settled node was running for a task that has ended, and no live task and
\* no offer is about it.
LEMMA SettleQuiet ==
    ASSUME QuietInv, AloneInv', BoundInv', spent'.crashes = spent.crashes,
           NEW row, Settles(row)
    PROVE  QuietInv'
<1>. PICK g, n, k : g = timer.g /\ n = timer.n /\ k = timer.k
     OBVIOUS
<1>1. /\ TypeOK /\ TypeOK' /\ UNCHANGED task /\ g \in Goals /\ n \in NodeIds
      /\ timer.pc = "settling"
      /\ node[g][n].status = "running" /\ node[g][n].task = k
      /\ k \in DOMAIN task /\ task[k].result # "running"
      /\ TaskOf(k, g, n) \/ Given(node[g][n], n)
      /\ \/ timer'.pc = "settle"
         \/ /\ timer'.pc = "supervising" /\ row.status = "failed"
            /\ timer'.g = g /\ timer'.n = n /\ timer'.graph = node'[g]
      BY QuietTypes DEF QuietInv, AloneInv, BoundInv, Settles, SettlesRunning,
                        RunningHasTask, BoundTo
<1>2. /\ \A h \in Goals, m \in NodeIds :
            node'[h][m] = IF h = g /\ m = n THEN row ELSE node[h][m]
      /\ row.deps = node[g][n].deps
      /\ row = node[g][n] \/ row.status \in {"done", "pending", "failed"}
      /\ g \notin Careful => /\ row.status = "done" <=> task[k].result \in Completed
                             /\ row.task = k
      BY <1>1 DEF Settles, SettledAs, RowWritten, ResultOf, timer
<1>3. ASSUME NEW h \in Goals, NEW m \in NodeIds, node'[h][m].status = "running",
             ~Given(node'[h][m], m)
      PROVE  DepsMet(node'[h], m) /\ (h = g => n \notin node'[h][m].deps)
  <2>1. node[h][m].status = "running" /\ node'[h][m] = node[h][m]
        BY <1>1, <1>2, <1>3
  <2>2. DepsMet(node[h], m) /\ node[h][m].deps \subseteq NodeIds
        BY <1>3, <2>1, QuietTypes DEF QuietInv, DepsBeforeNode
  <2>3. \A d \in node[h][m].deps : node'[h][d] = node[h][d] /\ ~(h = g /\ d = n)
        BY <1>1, <1>2, <2>2 DEF DepsMet
  <2>. QED  BY <2>1, <2>2, <2>3 DEF DepsMet
<1>4. CopyAgrees'
  <2>. SUFFICES ASSUME timer'.pc = "supervising" PROVE CopyAgrees'
       BY DEF CopyAgrees
  <2>1. timer'.graph = node'[g] /\ timer'.n = n /\ timer'.g = g
        BY <1>1
  <2>. QED  BY <1>1, <1>3, <2>1 DEF CopyAgrees, AgreesWith, DepsMet, Given
<1>5. WaitingMet' /\ DepsBeforeNode'
      BY <1>1, <1>3 DEF WaitingMet, DepsBeforeNode, DepsMet, Given
<1>6. ASSUME NEW j \in DOMAIN task, ~(task[j].goal = g /\ task[j].node = n)
      PROVE  node'[task[j].goal][task[j].node] = node[task[j].goal][task[j].node]
      BY <1>2, <1>6, QuietTypes
<1>7. LiveIsBound'
  <2>. SUFFICES ASSUME NEW j \in DOMAIN task, task[j].result = "running"
                PROVE  RunsFor(j)'
       BY <1>1 DEF LiveIsBound
  <2>1. RunsFor(j)
        BY <1>1 DEF QuietInv, LiveIsBound, BeingRecorded
  <2>2. ~(task[j].goal = g /\ task[j].node = n)
        BY <1>1, <2>1 DEF RunsFor
  <2>. QED  BY <1>1, <1>6, <2>1, <2>2 DEF RunsFor
<1>8. CompletedIsKept'
  <2>. SUFFICES ASSUME NEW j \in DOMAIN task, task[j].result \in Completed,
                       task[j].goal \notin Careful, spent.crashes = 0
                PROVE  LET r == node'[task[j].goal][task[j].node]
                       IN  r.task = j /\ r.status \in {"running", "done"}
       BY <1>1 DEF CompletedIsKept
  <2>1. LET r == node[task[j].goal][task[j].node]
        IN  r.task = j /\ r.status \in {"running", "done"}
        BY <1>1 DEF QuietInv, CompletedIsKept, BeingRecorded
  <2>2. CASE task[j].goal = g /\ task[j].node = n
    <3>1. j = k /\ node'[g][n] = row
          BY <1>1, <1>2, <2>1, <2>2
    <3>. QED  BY <1>2, <2>2, <3>1
  <2>3. CASE ~(task[j].goal = g /\ task[j].node = n)
        BY <1>6, <2>1, <2>3
  <2>. QED  BY <2>2, <2>3
<1>9. ASSUME NEW h \in Goals \ Careful, NEW m \in NodeIds, node'[h][m].status = "done"
      PROVE  DoneBy(node'[h][m].task, node'[h][m], h, m)
  <2>1. CASE h = g /\ m = n
    <3>1. node'[h][m] = row /\ row.task = k /\ task[k].result \in Completed
          BY <1>1, <1>2, <1>9, <2>1
    <3>2. CASE TaskOf(k, g, n)
          BY <2>1, <3>1, <3>2 DEF DoneBy, CompletedOf
    <3>3. CASE Given(node[g][n], n)
      <4>1. GivenTask(k, n)
            BY <1>1, <3>3 DEF Given, GivenTask, RunOrDone
      <4>. QED  BY <1>1, <2>1, <3>1, <4>1 DEF DoneBy, EndedWell
    <3>. QED  BY <1>1, <3>2, <3>3
  <2>2. CASE ~(h = g /\ m = n)
        BY <1>2, <1>9, <2>2 DEF QuietInv, DoneByItsTask
  <2>. QED  BY <2>1, <2>2
<1>10. DoneByItsTask'
       BY <1>1, <1>9 DEF DoneByItsTask, DoneBy, CompletedOf, TaskOf, EndedWell, GivenTask,
                         Given
<1>11. ASSUME NEW i \in DOMAIN merge
       PROVE  /\ \/ CompletedOf(merge[i].task, merge[i].goal, merge[i].dep)
                 \/ GivenTask(merge[i].task, merge[i].dep)
              /\ node'[merge[i].goal][merge[i].review].status = "done"
              /\ ~(merge[i].goal = g /\ merge[i].review = n)
  <2>1. /\ \/ CompletedOf(merge[i].task, merge[i].goal, merge[i].dep)
           \/ GivenTask(merge[i].task, merge[i].dep)
        /\ node[merge[i].goal][merge[i].review].status = "done"
        BY DEF QuietInv, OfferedDone
  <2>2. merge[i].goal \in Goals /\ merge[i].review \in NodeIds
        BY QuietTypes
  <2>. QED  BY <1>1, <1>2, <2>1, <2>2
<1>12. OfferedDone' /\ OfferedOnce'
  <2>1. CASE UNCHANGED merge
        BY <1>1, <1>11, <2>1
           DEF QuietInv, OfferedDone, OfferedOnce, CompletedOf, TaskOf, GivenTask
  <2>2. CASE SettleDone(Timer)
    <3>. PICK new : new = OfferRows(g, n, node'[g], Offers(n, node'[g], timer.row))
         OBVIOUS
    <3>1. /\ g \notin Careful /\ task[k].result \in Completed
          /\ merge' = merge \o new /\ node'[g] \in Graphs
          BY <1>1, <2>2 DEF SettleDone, OfCareful, ResultOf, timer, TypeOK
    <3>2. /\ new \in Seq(MergeRow)
          /\ \A i \in DOMAIN new :
                /\ new[i].goal = g /\ new[i].review = n /\ new[i].dep \in NodeIds
                /\ node'[g][new[i].dep].status = "done"
                /\ new[i].task = node'[g][new[i].dep].task
          /\ \A i, j \in DOMAIN new : new[i].dep = new[j].dep => i = j
          BY <1>1, <3>1, NewOffers
    <3>3. /\ node'[g][n].status = "done"
          /\ \A i \in DOMAIN new : \/ CompletedOf(new[i].task, g, new[i].dep)
                                   \/ GivenTask(new[i].task, new[i].dep)
      <4>1. node'[g][n].status = "done"
            BY <1>1, <1>2, <3>1
      <4>2. ASSUME NEW d \in NodeIds, node'[g][d].status = "done"
            PROVE  CompletedOf(node'[g][d].task, g, d) \/ GivenTask(node'[g][d].task, d)
            BY <1>1, <1>9, <3>1, <4>2 DEF DoneBy
      <4>. QED  BY <3>2, <4>1, <4>2
    <3>4. merge \in Seq(MergeRow)
          BY <1>1 DEF TypeOK
    <3>5. ASSUME NEW i \in DOMAIN merge'
          PROVE  \/ i \in DOMAIN merge /\ merge'[i] = merge[i]
                 \/ /\ i - Len(merge) \in DOMAIN new
                    /\ merge'[i] = new[i - Len(merge)]
          BY <3>1, <3>2, <3>4, ConcatProperties
    <3>6. OfferedDone'
      <4>. SUFFICES ASSUME NEW i \in DOMAIN merge'
                    PROVE  /\ \/ CompletedOf(merge'[i].task, merge'[i].goal, merge'[i].dep)
                              \/ GivenTask(merge'[i].task, merge'[i].dep)
                           /\ node'[merge'[i].goal][merge'[i].review].status = "done"
           BY <1>1 DEF OfferedDone, CompletedOf, TaskOf, GivenTask
      <4>. QED  BY <1>11, <3>2, <3>3, <3>5
    <3>7. OfferedOnce'
      <4>. SUFFICES ASSUME NEW i \in DOMAIN merge', NEW j \in DOMAIN merge',
                           merge'[i].review = merge'[j].review,
                           merge'[i].task = merge'[j].task,
                           ~GivenTask(merge'[i].task, merge'[i].dep),
                           ~GivenTask(merge'[j].task, merge'[j].dep)
                    PROVE  i = j
           BY DEF OfferedOnce, GivenTask
      <4>1. CASE i \in DOMAIN merge /\ merge'[i] = merge[i]
                 /\ j \in DOMAIN merge /\ merge'[j] = merge[j]
            BY <4>1 DEF QuietInv, OfferedOnce
      <4>2. ASSUME NEW o \in DOMAIN merge, NEW w \in DOMAIN new,
                   merge[o].review = new[w].review, merge[o].task = new[w].task,
                   ~GivenTask(merge[o].task, merge[o].dep),
                   ~GivenTask(new[w].task, new[w].dep)
            PROVE  FALSE
            BY <1>11, <3>2, <3>3, <4>2 DEF CompletedOf, TaskOf
      <4>3. CASE /\ i - Len(merge) \in DOMAIN new /\ merge'[i] = new[i - Len(merge)]
                 /\ j - Len(merge) \in DOMAIN new /\ merge'[j] = new[j - Len(merge)]
        <5>1. i - Len(merge) = j - Len(merge)
          <6>1. ASSUME NEW a \in DOMAIN new, NEW b \in DOMAIN new,
                       new[a].task = new[b].task, ~GivenTask(new[a].task, new[a].dep),
                       ~GivenTask(new[b].task, new[b].dep)
                PROVE  a = b
                BY <3>2, <3>3, <6>1 DEF CompletedOf, TaskOf
          <6>2. /\ new[i - Len(merge)].task = new[j - Len(merge)].task
                /\ ~GivenTask(new[i - Len(merge)].task, new[i - Len(merge)].dep)
                /\ ~GivenTask(new[j - Len(merge)].task, new[j - Len(merge)].dep)
                BY <4>3
          <6>. QED  BY <4>3, <6>1, <6>2
        <5>2. i \in Nat /\ j \in Nat /\ Len(merge) \in Nat
          <6>1. merge' \in Seq(MergeRow)
                BY <1>1 DEF TypeOK
          <6>. QED  BY <6>1, <3>4
        <5>. QED  BY <5>1, <5>2
      <4>. QED  BY <3>5, <4>1, <4>2, <4>3
    <3>. QED  BY <3>6, <3>7
  <2>. QED  BY <2>1, <2>2 DEF Settles
<1>. QED  BY <1>4, <1>5, <1>7, <1>8, <1>10, <1>12 DEF QuietInv
\* The saved copy runs and has done the same nodes as the table it replaces, and
\* those of its splits.
LEMMA SaveQuiet ==
    ASSUME QuietInv, AloneInv', BoundInv', spent'.crashes = spent.crashes, Saves
    PROVE  QuietInv'
<1>. PICK g, n, gr : g = timer.g /\ n = timer.n /\ gr = timer.graph
     OBVIOUS
<1>1. /\ TypeOK /\ UNCHANGED <<task, merge>> /\ g \in Goals /\ n \in NodeIds
      /\ timer.pc = "supervising" /\ timer'.pc = "settle"
      /\ \A h \in Goals : node'[h] = IF h = g THEN gr ELSE node[h]
      /\ node[g][n].status \in {"failed", "pending"}
      BY QuietTypes DEF QuietInv, AloneInv, Saves, CopyRuns, TypeOK
<1>2. \A m \in NodeIds :
         /\ AgreesWith(gr[m], node[g][m], m)
         /\ gr[m].status = "running" => DepsMet(gr, m) \/ Given(gr[m], m)
      BY <1>1 DEF QuietInv, CopyAgrees
<1>3. \A h \in Goals, m \in NodeIds : AgreesWith(node'[h][m], node[h][m], m)
      BY <1>1, <1>2 DEF AgreesWith
<1>4. CopyAgrees' /\ WaitingMet'
      BY <1>1 DEF CopyAgrees, WaitingMet
<1>5. DepsBeforeNode'
      BY <1>1, <1>2 DEF QuietInv, DepsBeforeNode, Given, DepsMet
<1>6. LiveIsBound'
  <2>1. ASSUME NEW j \in DOMAIN task, RunsFor(j)
        PROVE  RunsFor(j)'
        BY <1>1, <1>3, <2>1, QuietTypes DEF RunsFor, AgreesWith, RunOrDone
  <2>. QED  BY <1>1, <2>1 DEF QuietInv, LiveIsBound, BeingRecorded
<1>7. CompletedIsKept'
  <2>. SUFFICES ASSUME NEW j \in DOMAIN task, task[j].result \in Completed,
                       task[j].goal \notin Careful, spent.crashes = 0
                PROVE  LET r == node'[task[j].goal][task[j].node]
                       IN  r.task = j /\ r.status \in {"running", "done"}
       BY <1>1 DEF CompletedIsKept
  <2>1. LET r == node[task[j].goal][task[j].node]
        IN  r.task = j /\ r.status \in {"running", "done"}
        BY <1>1 DEF QuietInv, CompletedIsKept, BeingRecorded
  <2>. QED  BY <1>3, <2>1, QuietTypes DEF AgreesWith, RunOrDone
<1>8. DoneByItsTask'
  <2>. SUFFICES ASSUME NEW h \in Goals \ Careful, NEW m \in NodeIds, NEW k, NEW row,
                       row = node'[h][m], row.status = "done", k = row.task
                PROVE  DoneBy(k, row, h, m)
    <3>1. \A k, row, h, m : DoneBy(k, row, h, m) => DoneBy(k, row, h, m)'
          BY <1>1 DEF DoneBy, CompletedOf, TaskOf, EndedWell, GivenTask, Given
    <3>. QED  BY <3>1, DoneRows
  <2>1. CASE node[h][m].status = "done" /\ node[h][m].task = k
    <3>1. DoneBy(k, node[h][m], h, m)
          BY <2>1 DEF QuietInv, DoneByItsTask
    <3>2. Given(node[h][m], m) => Given(row, m)
          BY <2>1, GivenAlike
    <3>. QED  BY <3>1, <3>2 DEF DoneBy
  <2>2. CASE Given(row, m)
        BY <2>2 DEF DoneBy, GivenTask, Given, RunOrDone
  <2>. QED  BY <1>3, <2>1, <2>2 DEF AgreesWith, RunOrDone
<1>9. OfferedDone' /\ OfferedOnce'
      BY <1>1, <1>3, QuietTypes
         DEF QuietInv, OfferedDone, OfferedOnce, CompletedOf, TaskOf, GivenTask,
             AgreesWith, RunOrDone
<1>. QED  BY <1>4, <1>5, <1>6, <1>7, <1>8, <1>9 DEF QuietInv

\* What the write of a node that was pending keeps, whatever the row.
LEMMA PendingWritten ==
    ASSUME QuietInv, NEW g \in Goals, NEW n \in NodeIds, NEW row,
           node[g][n].status = "pending", RowWritten(g, n, row)
    PROVE  /\ \A h \in Goals, m \in NodeIds :
                 node[h][m].status \in {"running", "done", "skipped"} =>
                    node'[h][m] = node[h][m]
           /\ \A h \in Goals, m \in NodeIds :
                 ~(h = g /\ m = n) /\ DepsMet(node[h], m) => DepsMet(node'[h], m)
           /\ row.deps = node[g][n].deps /\ DepsMet(node[g], n) => DepsMet(node'[g], n)
<1>1. \A h \in Goals, m \in NodeIds :
         node'[h][m] = IF h = g /\ m = n THEN row ELSE node[h][m]
      BY DEF RowWritten
<1>2. \A h \in Goals, m \in NodeIds :
         node[h][m].status \in {"running", "done", "skipped"} =>
            node'[h][m] = node[h][m]
      BY <1>1
<1>3. ASSUME NEW h \in Goals, NEW m \in NodeIds, node'[h][m].deps = node[h][m].deps,
             DepsMet(node[h], m)
      PROVE  DepsMet(node'[h], m)
      BY <1>2, <1>3, QuietTypes DEF DepsMet
<1>. QED  BY <1>1, <1>2, <1>3

LEMMA FailQuiet ==
    ASSUME QuietInv, AloneInv', BoundInv', spent'.crashes = spent.crashes,
           NEW n, Fails(n)
    PROVE  QuietInv'
<1>. PICK g : g = timer.g
     OBVIOUS
<1>. DEFINE row == [node[g][n] EXCEPT !.status = "failed"]
<1>1. /\ TypeOK /\ UNCHANGED <<task, merge>> /\ g \in Goals /\ n \in NodeIds
      /\ timer.pc = "dispatch" /\ timer'.pc = "dispatch" /\ timer'.g = g
      /\ n \in timer.ready /\ timer'.ready = timer.ready \ {n}
      /\ node[g][n].status = "pending" /\ node[g][n] \in Node
      /\ node' = UpdateNode(g, n, row)
      BY QuietTypes DEF QuietInv, AloneInv, Fails, WaitingPending, Waiting
<1>2. row.status = "failed"
      BY <1>1 DEF Node
<1>. HIDE DEF row
<1>3. RowWritten(g, n, row)
      BY <1>1, WriteRow
<1>4. \A h \in Goals, m \in NodeIds :
         node'[h][m] = IF h = g /\ m = n THEN row ELSE node[h][m]
      BY <1>3 DEF RowWritten
<1>5. /\ \A h \in Goals, m \in NodeIds :
            node[h][m].status \in {"running", "done", "skipped"} =>
               node'[h][m] = node[h][m]
      /\ \A h \in Goals, m \in NodeIds :
            ~(h = g /\ m = n) /\ DepsMet(node[h], m) => DepsMet(node'[h], m)
      BY <1>1, <1>3, PendingWritten
<1>6. \A h \in Goals, m \in NodeIds :
         node'[h][m].status \in {"running", "done"} => node'[h][m] = node[h][m]
      BY <1>2, <1>4
<1>7. CopyAgrees'
      BY <1>1 DEF CopyAgrees
<1>8. WaitingMet'
  <2>1. \A m \in timer'.ready : m \in NodeIds /\ m # n /\ DepsMet(node[g], m)
        BY <1>1, QuietTypes DEF QuietInv, WaitingMet, Waiting
  <2>. QED  BY <1>1, <1>5, <2>1 DEF WaitingMet, Waiting
<1>9. DepsBeforeNode'
      BY <1>1, <1>2, <1>4, <1>5 DEF QuietInv, DepsBeforeNode, Given, DepsMet
<1>10. LiveIsBound' /\ CompletedIsKept'
  <2>1. ASSUME NEW j \in DOMAIN task
        PROVE  LET r == node[task[j].goal][task[j].node]
               IN  r.status \in {"running", "done"} =>
                      node'[task[j].goal][task[j].node] = r
        BY <1>5, QuietTypes
  <2>. QED  BY <1>1, <2>1
            DEF QuietInv, LiveIsBound, CompletedIsKept, RunsFor, BeingRecorded
<1>11. DoneByItsTask'
  <2>. SUFFICES ASSUME NEW h \in Goals \ Careful, NEW m \in NodeIds, NEW j, NEW r,
                       r = node'[h][m], r.status = "done", j = r.task
                PROVE  DoneBy(j, r, h, m)
    <3>1. \A j, r, h, m : DoneBy(j, r, h, m) => DoneBy(j, r, h, m)'
          BY <1>1 DEF DoneBy, CompletedOf, TaskOf, EndedWell, GivenTask, Given
    <3>. QED  BY <3>1, DoneRows
  <2>. QED  BY <1>6 DEF QuietInv, DoneByItsTask
<1>12. OfferedDone' /\ OfferedOnce'
      BY <1>1, <1>5, QuietTypes
         DEF QuietInv, OfferedDone, OfferedOnce, CompletedOf, TaskOf, GivenTask
<1>. QED  BY <1>7, <1>8, <1>9, <1>10, <1>11, <1>12 DEF QuietInv

LEMMA StartQuiet ==
    ASSUME QuietInv, AloneInv', BoundInv', spent'.crashes = spent.crashes, Starts
    PROVE  QuietInv'
<1>1. /\ TypeOK /\ UNCHANGED <<node, merge>>
      /\ timer.pc = "dispatch" /\ timer'.pc = "record" /\ timer'.g = timer.g
      /\ timer'.n \in timer.ready /\ timer'.ready \subseteq timer.ready
      /\ timer'.k = Len(task) + 1
      /\ task' = Append(task, [goal |-> timer.g, node |-> timer'.n,
                               result |-> "running"])
      BY QuietTypes DEF Starts
<1>2. /\ DOMAIN task' = DOMAIN task \cup {Len(task) + 1}
      /\ \A k \in DOMAIN task : k # Len(task) + 1 /\ task'[k] = task[k]
      /\ task'[Len(task) + 1].result = "running"
      BY <1>1, AppendProperties DEF TypeOK
<1>3. CopyAgrees' /\ WaitingMet'
      BY <1>1 DEF QuietInv, CopyAgrees, WaitingMet, Waiting
<1>4. LiveIsBound' /\ CompletedIsKept'
  <2>1. \A k \in DOMAIN task : RunsFor(k) => RunsFor(k)'
        BY <1>1, <1>2 DEF RunsFor
  <2>3. \A k \in DOMAIN task : ~BeingRecorded(k)
        BY <1>1 DEF BeingRecorded
  <2>4. LiveIsBound'
    <3>. SUFFICES ASSUME NEW k \in DOMAIN task', task'[k].result = "running"
                  PROVE  RunsFor(k)' \/ BeingRecorded(k)'
         BY DEF LiveIsBound
    <3>1. CASE k = Len(task) + 1
          BY <1>1, <3>1 DEF BeingRecorded
    <3>2. CASE k \in DOMAIN task
          BY <1>2, <2>1, <2>3, <3>2 DEF QuietInv, LiveIsBound
    <3>. QED  BY <1>2, <3>1, <3>2
  <2>5. CompletedIsKept'
    <3>1. "running" \notin Completed
          BY DEF Completed
    <3>. QED  BY <1>1, <1>2, <2>3, <3>1 DEF QuietInv, CompletedIsKept
  <2>. QED  BY <2>4, <2>5
<1>5. \A k, h, m : /\ CompletedOf(k, h, m) => CompletedOf(k, h, m)'
                   /\ EndedWell(k) => EndedWell(k)'
      BY <1>2 DEF CompletedOf, TaskOf, EndedWell
<1>6. DoneByItsTask'
  <2>. SUFFICES ASSUME NEW h \in Goals \ Careful, NEW m \in NodeIds, NEW j, NEW r,
                       r = node'[h][m], r.status = "done", j = r.task
                PROVE  DoneBy(j, r, h, m)'
       BY DoneRows
  <2>1. DoneBy(j, r, h, m)
        BY <1>1 DEF QuietInv, DoneByItsTask
  <2>2. /\ GivenTask(j, m) => GivenTask(j, m)'
        /\ Given(r, m) => Given(r, m)'
        BY DEF GivenTask, Given
  <2>. QED  BY <1>5, <2>1, <2>2 DEF DoneBy
<1>7. OfferedDone'
  <2>. SUFFICES ASSUME NEW i \in DOMAIN merge, NEW k, NEW h, NEW m,
                       k = merge[i].task, h = merge[i].goal, m = merge[i].dep
                PROVE  /\ node[h][merge[i].review].status = "done"
                       /\ CompletedOf(k, h, m)' \/ GivenTask(k, m)
       BY <1>1 DEF OfferedDone, CompletedOf, TaskOf, GivenTask
  <2>. QED  BY <1>5 DEF QuietInv, OfferedDone
<1>8. DepsBeforeNode' /\ OfferedOnce'
      BY <1>1 DEF QuietInv, DepsBeforeNode, OfferedOnce, GivenTask, Given, DepsMet
<1>. QED  BY <1>3, <1>4, <1>6, <1>7, <1>8 DEF QuietInv

LEMMA RecordQuiet ==
    ASSUME QuietInv, AloneInv', BoundInv', spent'.crashes = spent.crashes, Records
    PROVE  QuietInv'
<1>. PICK g, n, k : g = timer.g /\ n = timer.n /\ k = timer.k
     OBVIOUS
<1>. DEFINE row == [node[g][n] EXCEPT !.status = "running", !.task = k]
<1>1. /\ TypeOK /\ UNCHANGED <<task, merge>> /\ g \in Goals /\ n \in NodeIds
      /\ timer.pc = "record" /\ timer'.pc = "dispatch" /\ timer'.g = g
      /\ timer'.ready = timer.ready /\ n \notin timer.ready
      /\ node[g][n].status = "pending" /\ node[g][n] \in Node
      /\ DepsMet(node[g], n)
      /\ node' = UpdateNode(g, n, row)
      BY QuietTypes DEF QuietInv, AloneInv, Records, WaitingPending, WaitingMet, Waiting
<1>2. row.status = "running" /\ row.task = k /\ row.deps = node[g][n].deps
      BY <1>1 DEF Node
<1>. HIDE DEF row
<1>3. TaskOf(k, g, n)
      BY <1>1, ThreeKinds DEF QuietInv, BoundInv, Recorders, timer
<1>4. RowWritten(g, n, row)
      BY <1>1, WriteRow
<1>5. \A h \in Goals, m \in NodeIds :
         node'[h][m] = IF h = g /\ m = n THEN row ELSE node[h][m]
      BY <1>4 DEF RowWritten
<1>6. /\ \A h \in Goals, m \in NodeIds :
            node[h][m].status \in {"running", "done", "skipped"} =>
               node'[h][m] = node[h][m]
      /\ \A h \in Goals, m \in NodeIds :
            ~(h = g /\ m = n) /\ DepsMet(node[h], m) => DepsMet(node'[h], m)
      /\ DepsMet(node'[g], n)
      BY <1>1, <1>2, <1>4, PendingWritten
<1>7. CopyAgrees'
      BY <1>1 DEF CopyAgrees
<1>8. WaitingMet'
  <2>1. \A m \in timer'.ready : m \in NodeIds /\ m # n /\ DepsMet(node[g], m)
        BY <1>1, QuietTypes DEF QuietInv, WaitingMet, Waiting
  <2>. QED  BY <1>1, <1>6, <2>1 DEF WaitingMet, Waiting
<1>9. DepsBeforeNode'
      BY <1>5, <1>6 DEF QuietInv, DepsBeforeNode, Given, DepsMet
<1>10. ASSUME NEW j \in DOMAIN task
       PROVE  LET r == node[task[j].goal][task[j].node]
              IN  /\ r.status \in {"running", "done"} =>
                        node'[task[j].goal][task[j].node] = r
                  /\ ~BeingRecorded(j)'
                  /\ BeingRecorded(j) => j = k /\ task[j].goal = g /\ task[j].node = n
       BY <1>1, <1>3, <1>6, QuietTypes DEF BeingRecorded, TaskOf
<1>11. node'[g][n] = row
       BY <1>1, <1>5
<1>12. LiveIsBound'
       BY <1>1, <1>2, <1>10, <1>11 DEF QuietInv, LiveIsBound, RunsFor
<1>13. CompletedIsKept'
       BY <1>1, <1>2, <1>10, <1>11 DEF QuietInv, CompletedIsKept
<1>14. DoneByItsTask'
  <2>. SUFFICES ASSUME NEW h \in Goals \ Careful, NEW m \in NodeIds, NEW j, NEW r,
                       r = node'[h][m], r.status = "done", j = r.task
                PROVE  DoneBy(j, r, h, m)
    <3>1. \A j, r, h, m : DoneBy(j, r, h, m) => DoneBy(j, r, h, m)'
          BY <1>1 DEF DoneBy, CompletedOf, TaskOf, EndedWell, GivenTask, Given
    <3>. QED  BY <3>1, DoneRows
  <2>1. node'[h][m] = node[h][m]
        BY <1>2, <1>5
  <2>. QED  BY <2>1 DEF QuietInv, DoneByItsTask
<1>15. OfferedDone' /\ OfferedOnce'
       BY <1>1, <1>6, QuietTypes
          DEF QuietInv, OfferedDone, OfferedOnce, CompletedOf, TaskOf, GivenTask
<1>. QED  BY <1>7, <1>8, <1>9, <1>12, <1>13, <1>14, <1>15 DEF QuietInv

LEMMA QuietInit == Init => QuietInv
<1>. SUFFICES ASSUME Init PROVE QuietInv
     OBVIOUS
<1>1. AloneInv /\ BoundInv /\ timer.pc = "idle" /\ task = <<>> /\ merge = <<>>
      BY AloneInit, BoundInit, IdleAtFirst, ThreeKinds DEF timer, Init
<1>2. \A g \in Goals, n \in NodeIds : node[g][n].status \notin {"running", "done"}
  <2>1. node \in [Goals -> SomeGraphs]
    <3>1. node \in {nd \in [Goals -> SomeGraphs] :
                      \A g \in Goals : IF g \in Preplanned THEN nd[g] \in PlansOf(g)
                                       ELSE nd[g] = NoGraph}
          BY Zenon DEF Init
    <3>. QED  BY <3>1
  <2>2. \A gr \in SomeGraphs, n \in NodeIds : gr[n].status \notin {"running", "done"}
        BY FreshPlans, FreshNoGraph DEF SomeGraphs, Fresh
  <2>. QED  BY <2>1, <2>2
<1>3. DOMAIN task = {} /\ DOMAIN merge = {}
      BY <1>1
<1>. QED  BY <1>1, <1>2, <1>3
          DEF QuietInv, CopyAgrees, WaitingMet, DepsBeforeNode, LiveIsBound,
              CompletedIsKept, DoneByItsTask, OfferedDone, OfferedOnce

LEMMA QuietNext ==
    Handlers = {} /\ PatchScope = {} /\ QuietInv /\ [Next]_vars => QuietInv'
<1>. SUFFICES ASSUME Handlers = {}, PatchScope = {}, QuietInv, [Next]_vars
              PROVE  QuietInv'
     OBVIOUS
<1>1. /\ AloneInv' /\ BoundInv' /\ RolesInv /\ PlansEmpty /\ SettlesRunning
      BY AloneNext, BoundNext DEF QuietInv, AloneInv
<1>. QED  BY <1>1, TimerSteps, ElsewhereQuiet, RestartQuiet, StillQuiet, SettleQuiet,
             SaveQuiet, FailQuiet, StartQuiet, RecordQuiet DEF TimerStep

LEMMA QuietAlways ==
    ASSUME Handlers = {}, PatchScope = {} PROVE Spec => []QuietInv
<1>1. QuietInv /\ [Next]_vars => QuietInv'
      BY QuietNext
<1>. QED  BY <1>1, QuietInit, PTL DEF Spec

\* A running node has all its dependencies done or skipped, unless a split was
\* written with it running: the dispatcher reads them, starts an agent and records
\* the node in three steps, the supervisor rewires a copy of them, and no
\* interleaving starts a node early.
THEOREM DependenciesFirst ==
    ASSUME Handlers = {}, PatchScope = {} PROVE Spec => []DepsBeforeNode
<1>1. QuietInv => DepsBeforeNode
      BY DEF QuietInv
<1>. QED  BY <1>1, QuietAlways, PTL

\* A node is done by a task that completed, a merge is offered for the work of a
\* completed task of that node, and no review offers the same work twice, all but
\* for what a split was written with, whatever status and task it gives its nodes.
THEOREM DoneByCompletedWork ==
    ASSUME Handlers = {}, PatchScope = {} PROVE Spec => []OnlyCompletedCounts
<1>1. QuietInv => OnlyCompletedCounts
      BY DEF QuietInv, DoneByItsTask, DoneBy, CompletedOf, TaskOf, EndedWell,
             OfferedDone, OfferedOnce, GivenTask, GivenWork, RunOrDone,
             OnlyCompletedCounts, DoneByCompletedTask, OffersSound
<1>. QED  BY <1>1, QuietAlways, PTL

\* No node has two live agents, and the result of a task that completed stays
\* with its node, between the start of the task and the write that records it.
THEOREM WorkNeitherTwiceNorLost ==
    ASSUME Handlers = {}, PatchScope = {} PROVE Spec => []NoWorkTwiceOrLost
<1>1. ASSUME QuietInv, NEW g \in Goals, NEW n \in NodeIds,
             NEW i \in Live(g, n), NEW j \in Live(g, n)
      PROVE  i = j
  <2>1. \A k \in Live(g, n) : /\ k \in DOMAIN task
                              /\ task[k].goal = g /\ task[k].node = n
                              /\ RunsFor(k) \/ BeingRecorded(k)
        BY <1>1 DEF Live, QuietInv, LiveIsBound
  <2>2. \A k \in Live(g, n) : BeingRecorded(k) =>
           timer.k = k /\ node[g][n].status = "pending"
    <3>1. timer.pc = "record" => /\ TaskOf(timer.k, timer.g, timer.n)
                                 /\ node[timer.g][timer.n].status = "pending"
          BY <1>1, ThreeKinds
             DEF QuietInv, AloneInv, BoundInv, Recorders, timer, WaitingPending, Waiting
    <3>. QED  BY <2>1, <3>1 DEF BeingRecorded, TaskOf
  <2>. QED  BY <2>1, <2>2 DEF RunsFor
<1>2. QuietInv => OneAgentPerNode
  <2>. SUFFICES ASSUME QuietInv, NEW g \in Goals, NEW n \in NodeIds
                PROVE  Cardinality(Live(g, n)) <= 1
       BY DEF OneAgentPerNode
  <2>1. CASE Live(g, n) = {}
        BY <2>1, FS_EmptySet
  <2>2. ASSUME NEW i \in Live(g, n)
        PROVE  Cardinality(Live(g, n)) <= 1
    <3>1. Live(g, n) = {i}
          BY <1>1
    <3>2. Cardinality({i}) = 1
          BY FS_Singleton
    <3>. QED  BY <3>1, <3>2
  <2>. QED  BY <2>1, <2>2
<1>3. QuietInv => ResultKept
  <2>. SUFFICES ASSUME QuietInv, NEW k \in DOMAIN task, BeingRecorded(k)
                PROVE  Timer \in Recording(task[k].goal) /\ thread[Timer].k = k
       BY DEF QuietInv, CompletedIsKept, ResultKept
  <2>. QED  BY ThreeKinds
            DEF QuietInv, BoundInv, Recorders, Recording, timer, BeingRecorded, TaskOf
<1>4. QuietInv => NoWorkTwiceOrLost
      BY <1>2, <1>3 DEF NoWorkTwiceOrLost
<1>. QED  BY <1>4, QuietAlways, PTL
-----------------------------------------------------------------------------
(* A goal is done when nothing of it is left.  Two steps make a goal done:    *)
(* the end of its integration, and the DONE line of a careful goal's task.    *)

NoNewDone(h) == goal'[h].status = "done" => goal[h].status = "done"

LEMMA DoneWrite ==
    ASSUME TypeOK, NEW g, NEW row, goal' = UpdateGoal(g, row),
           g \in Goals /\ row.status = "done" => goal[g].status = "done"
    PROVE  \A h \in Goals : NoNewDone(h)
  BY DEF TypeOK, UpdateGoal, NoNewDone

LEMMA RowStatuses ==
    ASSUME NEW r \in GoalRow
    PROVE  /\ \A s : SetStatus(r, s).status = s
           /\ \A why : SetBlocked(r, why).status = "blocked"
           /\ SetWaitingOnCapacity(r).status = "waiting_on_capacity"
           /\ ResumeStatus(r).status = "running"
           /\ ReevaluateBlocked(r).status = "running"
           /\ Reopened(r).status = "done" => r.status = "done"
           /\ BumpPatches(r).status = r.status
           /\ BumpDispatches(r).status = r.status
  BY DEF GoalRow, SetStatus, SetBlocked, SetWaitingOnCapacity, ResumeStatus,
         ReevaluateBlocked, Reopened, BumpPatches, BumpDispatches

LEMMA AmendedStatus ==
    ASSUME NEW r \in GoalRow, NEW kind, NEW cap \in Caps,
           [Amended(r, kind, cap) EXCEPT !.human = TRUE].status = "done"
    PROVE  r.status = "done"
  BY DEF GoalRow, Amended, Reopened

LEMMA SettleDoneness ==
    ASSUME TypeOK, NEW t \in Threads, SettleWrite(t) \/ Supervise(t),
           ~SettleCarefulDone(t)
    PROVE  \A h \in Goals : NoNewDone(h)
<1>. DEFINE g == thread[t].g
<1>1. g \in Goals /\ goal[g] \in GoalRow
      BY LocalFields, Continuations DEF TypeOK
<1>2. \/ UNCHANGED goal
      \/ goal' = UpdateGoal(g, SetBlocked(goal[g], "capacity"))
      \/ goal' = UpdateGoal(g, SetBlocked(goal[g], "supervisor"))
      \/ goal' = UpdateGoal(g, SetWaitingOnCapacity(goal[g]))
      \/ goal' = UpdateGoal(g, SetStatus(goal[g], "failed"))
      \/ goal' = UpdateGoal(g, BumpPatches(goal[g]))
      BY Zenon DEF SettleWrite, SettleCarefulNext, SettleDone, SettleGiveUp, SettleWait,
         SettleRetry, SettleExhausted, Supervise, SupervisorOp, SupervisorSave,
         SupervisorClash, SupervisorAbort, SupervisorError
<1>3. CASE UNCHANGED goal
      BY <1>3 DEF NoNewDone
<1>. QED  BY <1>1, <1>2, <1>3, RowStatuses, DoneWrite

LEMMA TickDoneness ==
    ASSUME TypeOK, NEW t \in Threads, TickBegin(t) \/ TickGoal(t) \/ Dispatch(t)
    PROVE  \A h \in Goals : NoNewDone(h)
<1>1. \A h \in Goals : goal[h] \in GoalRow
      BY DEF TypeOK
<1>2. CASE TickBegin(t)
  <2>1. UNCHANGED goal \/ goal' = AgeBlocked
        BY <1>2 DEF TickBegin
  <2>2. goal' = AgeBlocked =>
           \A h \in Goals : goal'[h] = goal[h] \/ goal'[h] = [goal[h] EXCEPT !.age = @ + 1]
        BY DEF AgeBlocked
  <2>. QED  BY <1>1, <2>1, <2>2 DEF NoNewDone, GoalRow
<1>3. ASSUME NEW g, \/ goal' = UpdateGoal(g, goal[g])
                    \/ goal' = UpdateGoal(g, SetStatus(goal[g], "running"))
                    \/ goal' = UpdateGoal(g, SetStatus(goal[g], "failed"))
                    \/ goal' = UpdateGoal(g, SetBlocked(goal[g], "budget"))
                    \/ goal' = UpdateGoal(g, BumpDispatches(goal[g]))
      PROVE  \A h \in Goals : NoNewDone(h)
      BY <1>1, <1>3, RowStatuses, DoneWrite
<1>4. CASE TickGoal(t)
  <2>. DEFINE g == VisitedGoal(t)
  <2>1. \/ UNCHANGED goal
        \/ goal' = UpdateGoal(g, Admitted(g, thread[t].rows[g]))
        \/ goal' = UpdateGoal(g, SetStatus(goal[g], "failed"))
        \/ goal' = UpdateGoal(g, SetBlocked(goal[g], "budget"))
        BY <1>4, Zenon DEF TickGoal, TickUnplanned, TickBlock, TickFail, TickIntegrate,
                           TickDispatch
  <2>2. \/ Admitted(g, thread[t].rows[g]) = goal[g]
        \/ Admitted(g, thread[t].rows[g]) = SetStatus(goal[g], "running")
        BY DEF Admitted
  <2>3. CASE UNCHANGED goal
        BY <2>3 DEF NoNewDone
  <2>. QED  BY <1>3, <2>1, <2>2, <2>3
<1>5. CASE Dispatch(t)
  <2>. DEFINE g == thread[t].g
  <2>1. \/ UNCHANGED goal
        \/ goal' = UpdateGoal(g, Released(t))
        \/ goal' = UpdateGoal(g, BumpDispatches(goal[g]))
        BY <1>5, Zenon DEF Dispatch, DispatchEnd, DispatchSkip, DispatchStart,
                           DispatchError, DispatchRecord
  <2>2. Released(t) = goal[g] \/ Released(t) = SetStatus(goal[g], "running")
        BY DEF Released
  <2>3. CASE UNCHANGED goal
        BY <2>3 DEF NoNewDone
  <2>. QED  BY <1>3, <2>1, <2>2, <2>3
<1>. QED  BY <1>2, <1>4, <1>5

LEMMA HealerDoneness ==
    ASSUME TypeOK, NEW t \in Threads,
           PlanDone(t) \/ PlanError(t) \/ ResumeGoal(t) \/ Heal(t)
    PROVE  \A h \in Goals : NoNewDone(h)
<1>1. \A h \in Goals : goal[h] \in GoalRow
      BY DEF TypeOK
<1>. DEFINE g == thread[t].g
            first == FirstListed(thread[t].rows)
<1>2. \/ UNCHANGED goal
      \/ goal' = UpdateGoal(g, SetStatus(goal[g], "running"))
      \/ goal' = UpdateGoal(g, SetBlocked(goal[g], "other"))
      \/ goal' = UpdateGoal(first, SetStatus(goal[first], "running"))
      \/ goal' = UpdateGoal(first, ReevaluateBlocked(goal[first]))
      BY Zenon DEF PlanDone, PlanError, ResumeGoal, Heal, HealBegin, ReevalGoal, ReevalEnd,
                   RerouteGoal, RerouteEnd
<1>3. CASE UNCHANGED goal
      BY <1>3 DEF NoNewDone
<1>. QED  BY <1>1, <1>2, <1>3, RowStatuses, DoneWrite

LEMMA ClientDoneness ==
    ASSUME TypeOK, Request \/ World
    PROVE  \A h \in Goals : NoNewDone(h)
<1>1. \A h \in Goals : goal[h] \in GoalRow
      BY DEF TypeOK
<1>2. ASSUME NEW g, \/ goal' = UpdateGoal(g, NewGoal)
                    \/ goal' = UpdateGoal(g, ResumeStatus(goal[g]))
                    \/ goal' = UpdateGoal(g, SetStatus(goal[g], "cancelled"))
      PROVE  \A h \in Goals : NoNewDone(h)
  <2>1. NewGoal.status = "planning"
        BY DEF NewGoal, NoGoal
  <2>. QED  BY <1>1, <1>2, <2>1, RowStatuses, DoneWrite
<1>3. ASSUME NEW t, NEW g \in Goals, Amend(t, g)
      PROVE  \A h \in Goals : NoNewDone(h)
  <2>1. PICK kind \in {"budget", "minutes", "capacity_budget", "capacity_minutes",
                       "auto_merge", "note"}, cap \in Caps :
           goal' = UpdateGoal(g, [Amended(goal[g], kind, cap) EXCEPT !.human = TRUE])
        BY <1>3, Zenon DEF Amend
  <2>. QED  BY <1>1, <2>1, AmendedStatus, DoneWrite
<1>4. ASSUME NEW g \in Goals, ClockPasses(g)
      PROVE  \A h \in Goals : NoNewDone(h)
  <2>1. \/ goal' = [goal EXCEPT ![g].late = TRUE]
        \/ goal' = [goal EXCEPT ![g].wait_late = TRUE]
        \/ goal' = [goal EXCEPT ![g].human = FALSE]
        BY <1>4, Zenon DEF ClockPasses
  <2>2. \A h \in Goals : \/ goal'[h] = goal[h]
                         \/ goal'[h] = [goal[h] EXCEPT !.late = TRUE]
                         \/ goal'[h] = [goal[h] EXCEPT !.wait_late = TRUE]
                         \/ goal'[h] = [goal[h] EXCEPT !.human = FALSE]
        BY <2>1 DEF TypeOK
  <2>. QED  BY <1>1, <2>2 DEF NoNewDone, GoalRow
<1>5. CASE UNCHANGED goal
      BY <1>5 DEF NoNewDone
<1>6. ASSUME Restart
      PROVE  \A h \in Goals : NoNewDone(h)
  <2>1. \A h \in Goals : goal'[h] = goal[h] \/ goal'[h] = SetStatus(goal[h], "paused")
        BY <1>6 DEF Restart, PauseActive
  <2>. QED  BY <1>1, <2>1, RowStatuses DEF NoNewDone
<1>7. ASSUME NEW t, NEW g, Submit(t, g) \/ Resume(t, g) \/ Cancel(g)
      PROVE  \A h \in Goals : NoNewDone(h)
  <2>1. \/ goal' = UpdateGoal(g, NewGoal)
        \/ goal' = UpdateGoal(g, ResumeStatus(goal[g]))
        \/ goal' = UpdateGoal(g, SetStatus(goal[g], "cancelled"))
        BY <1>7, Zenon DEF Submit, Resume, Cancel
  <2>. QED  BY <1>2, <2>1
<1>8. ASSUME NEW i, NEW g, NEW n, ResolveMerge(i) \/ TaskEnd(i) \/ StampPasses(g, n)
      PROVE  UNCHANGED goal
      BY <1>8, Zenon DEF ResolveMerge, TaskEnd, StampPasses
<1>9. CASE Request
      BY <1>3, <1>5, <1>7, <1>8, <1>9 DEF Request
<1>10. CASE World
       BY <1>4, <1>5, <1>6, <1>8, <1>10 DEF World
<1>. QED  BY <1>9, <1>10

\* Who makes a goal done, and which one.
LEMMA DoneOnlyBy ==
    ASSUME TypeOK, [Next]_vars, NEW h \in Goals, ~NoNewDone(h)
    PROVE  \E t \in Threads : /\ SettleCarefulDone(t) \/ IntegratorEnd(t)
                              /\ h = thread[t].g
<1>1. ASSUME NEW t \in Threads, SettleCarefulDone(t) \/ IntegratorEnd(t)
      PROVE  h = thread[t].g
  <2>1. \/ goal' = UpdateGoal(thread[t].g, SetStatus(goal[thread[t].g], "done"))
        \/ goal' = UpdateGoal(thread[t].g, SetStatus(goal[thread[t].g], "failed"))
        \/ goal' = UpdateGoal(thread[t].g, SetBlocked(goal[thread[t].g], "other"))
        BY <1>1, Zenon DEF SettleCarefulDone, IntegratorEnd
  <2>2. h # thread[t].g => goal'[h] = goal[h]
        BY <2>1 DEF UpdateGoal, TypeOK
  <2>. QED  BY <2>2 DEF NoNewDone
<1>2. ~UNCHANGED goal
      BY DEF NoNewDone
<1>3. \E t \in Threads : Pass(t)
  <2>1. ~(UNCHANGED vars)
        BY <1>2 DEF vars
  <2>. QED  BY <2>1, HealerDoneness, ClientDoneness DEF Next
<1>4. PICK t \in Threads : Pass(t)
      BY <1>3
<1>5. SettleCarefulDone(t) \/ IntegratorEnd(t)
  <2>1. CASE SettleRead(t) \/ TickList(t) \/ TickEnd(t) \/ ResumeList(t) \/ ResumeEnd(t)
        BY <1>2, <2>1, Zenon DEF SettleRead, TickList, TickEnd, ResumeList, ResumeEnd
  <2>. QED  BY <1>4, <2>1, SettleDoneness, TickDoneness, HealerDoneness DEF Pass
<1>. QED  BY <1>1, <1>5
-----------------------------------------------------------------------------
(* What a done goal has left, with the timer alone.                          *)

\* Neither a pass of self-heal nor a restart sets work back to pending.
Calm == MaxHeals = 0 /\ MaxCrashes = 0

\* No node of the goal runs and, if all is calm, none is still to run.
AtRest(g) ==
    \A n \in NodeIds : /\ node[g][n].status # "running"
                       /\ Calm => node[g][n].status # "pending"

DoneRests ==
    /\ \A g \in Goals : goal[g].status = "done" => AtRest(g)
    /\ timer.pc = "integrating" => AtRest(timer.g)

Ticking == {"tick", "dispatch", "record", "integrating"}

\* The goals the timer still has to visit, the one it visits and the one it asks
\* its supervisor about are not done, and the supervisor patches no careful goal.
VisitsUndone ==
    /\ timer.pc \in Ticking => \A g \in Listed(timer.rows) : goal[g].status # "done"
    /\ timer.pc \in Ticking \ {"tick"} => timer.g \in Listed(timer.rows)
    /\ timer.pc = "supervising" => timer.g \notin Careful /\ goal[timer.g].status # "done"

\* A careful goal has one node.
CarefulOne == \A g \in Careful, n \in NodeIds \ {1} : node[g][n].status = "absent"

HealerRests == Calm => thread[Healer].pc = "idle" /\ spent.heals = 0

FinishedInv == QuietInv /\ DoneRests /\ VisitsUndone /\ CarefulOne /\ HealerRests

\* A goal that is visited is listed no more.
LEMMA LeftRows ==
    ASSUME TypeOK, NEW t \in Threads, NEW g, Leaves(t, g)
    PROVE  Listed(thread'[t].rows) = Listed(thread[t].rows) \ {g}
<1>1. thread[t].rows \in [Goals -> GoalRow]
      BY Continuations, LocalFields
<1>2. NoGoal.status = "absent"
      BY DEF NoGoal
<1>3. \A h \in Goals : thread'[t].rows[h] = IF h = g THEN NoGoal ELSE thread[t].rows[h]
      BY <1>1 DEF Leaves, Without
<1>. QED  BY <1>2, <1>3 DEF Listed

\* Only the timer makes a goal done, the one it is settling or integrating.
LEMMA DoneByTimer ==
    ASSUME Handlers = {}, RolesInv, [Next]_vars, NEW h \in Goals, ~NoNewDone(h)
    PROVE  /\ h = timer.g
           /\ \/ /\ SettleCarefulDone(Timer)
                 /\ timer.pc = "settling" /\ timer'.pc = "settle"
              \/ /\ timer.pc = "integrating" /\ timer'.pc = "tick"
                 /\ Listed(timer'.rows) = Listed(timer.rows) \ {h}
<1>1. PICK t \in Threads : /\ SettleCarefulDone(t) \/ IntegratorEnd(t)
                           /\ h = thread[t].g
      BY DoneOnlyBy DEF RolesInv
<1>2. thread[t].pc \in {"settling", "integrating"}
      BY <1>1, Zenon DEF SettleCarefulDone, IntegratorEnd, Settling
<1>3. t = Timer /\ Timer \in Threads /\ TypeOK
      BY <1>2 DEF RolesInv, Role, DriverPCs, Drivers
<1>4. CASE SettleCarefulDone(t)
  <2>1. SettleWrite(t)
        BY <1>4 DEF SettleWrite
  <2>2. timer'.pc = "settle"
    <3>1. Goto(t, Settled(t))
          BY <1>4, Zenon DEF SettleCarefulDone
    <3>. QED  BY <1>3, <3>1, GotoIs, RestFields DEF timer
  <2>. QED  BY <1>1, <1>3, <1>4, <2>1, <2>2, SettleMoves DEF From, timer
<1>5. CASE IntegratorEnd(t)
      BY <1>1, <1>3, <1>5, TickMoves, LeftRows DEF From, To, timer
<1>. QED  BY <1>1, <1>4, <1>5

\* Where the timer goes on to, and what it keeps.
TimerGoesOn ==
    /\ timer'.pc \in Ticking =>
          \/ timer'.pc = "tick" /\ timer'.rows = SelectStatus(Active) /\ UNCHANGED goal
          \/ timer.pc \in Ticking /\ Listed(timer'.rows) \subseteq Listed(timer.rows)
    /\ timer'.pc \in Ticking \ {"tick"} =>
          /\ timer'.rows = timer.rows
          /\ \/ timer.pc = "tick" /\ timer'.g \in Listed(timer.rows)
             \/ timer.pc \in Ticking \ {"tick"} /\ timer'.g = timer.g
    /\ timer'.pc = "integrating" => UNCHANGED node /\ AllTerminal(node[timer'.g])
    /\ timer'.pc = "supervising" =>
          /\ timer'.g = timer.g
          /\ \/ timer.pc = "supervising"
             \/ timer.pc = "settling" /\ timer.g \notin Careful /\ UNCHANGED goal

LEMMA TimerPlaces ==
    ASSUME TypeOK, SettlesRunning,
           \/ TickBegin(Timer) \/ SettleRead(Timer) \/ SettleWrite(Timer)
           \/ Supervise(Timer) \/ TickList(Timer) \/ TickEnd(Timer)
           \/ TickGoal(Timer) \/ IntegratorEnd(Timer) \/ Dispatch(Timer)
    PROVE  TimerGoesOn
<1>1. Timer \in Threads
      BY ThreeKinds
<1>2. CASE TickBegin(Timer) \/ SettleRead(Timer)
      BY <1>1, <1>2, SettleMoves DEF To, TimerGoesOn, Ticking, timer
<1>3. CASE SettleWrite(Timer)
  <2>1. /\ timer.pc = "settling"
        /\ node[timer.g][timer.n].status = "running"
        BY <1>1, <1>3, SettleMoves DEF From, timer, SettlesRunning
  <2>. QED  BY <1>1, <1>3, <2>1, SettleWrites DEF To, TimerGoesOn, Ticking, timer
<1>4. CASE Supervise(Timer)
      BY <1>1, <1>4, SettleMoves
         DEF Supervise, To, From, KeepsPlace, TimerGoesOn, Ticking, timer
<1>5. CASE TickList(Timer) \/ TickEnd(Timer)
  <2>1. UNCHANGED goal
        BY <1>5, Zenon DEF TickList, TickEnd
  <2>. QED  BY <1>1, <1>5, <2>1, TickMoves DEF To, TimerGoesOn, Ticking, timer
<1>6. CASE TickUnplanned(Timer) \/ TickBlock(Timer) \/ TickFail(Timer)
           \/ IntegratorEnd(Timer) \/ DispatchEnd(Timer)
      BY <1>1, <1>6, TickMoves, DispatchMoves, LeftRows
         DEF To, From, TimerGoesOn, Ticking, timer
<1>7. CASE TickIntegrate(Timer) \/ TickDispatch(Timer)
  <2>1. /\ UNCHANGED node /\ Visiting(Timer)
        /\ TickIntegrate(Timer) => AllTerminal(node[VisitedGoal(Timer)])
        BY <1>7, Zenon DEF TickIntegrate, TickDispatch
  <2>2. VisitedGoal(Timer) \in Listed(timer.rows)
        BY <2>1, FirstIsGoal DEF Visiting, VisitedGoal, timer
  <2>. QED  BY <1>1, <1>7, <2>1, <2>2, TickMoves DEF To, From, TimerGoesOn, Ticking, timer
<1>8. CASE DispatchSkip(Timer) \/ DispatchError(Timer) \/ DispatchStart(Timer)
           \/ DispatchRecord(Timer)
      BY <1>1, <1>8, DispatchMoves
         DEF To, From, KeepsPlace, TimerGoesOn, Ticking, timer
<1>. QED  BY <1>2, <1>3, <1>4, <1>5, <1>6, <1>7, <1>8 DEF TickGoal, Dispatch

\* The timer writes rows of the goal it settles, patches or dispatches.
LEMMA RowsOfItsGoal ==
    ASSUME QuietInv, TimerStep
    PROVE  \/ UNCHANGED node
           \/ /\ timer.pc \in {"settling", "supervising", "dispatch", "record"}
              /\ timer.pc = "settling" => node[timer.g][timer.n].status = "running"
              /\ \A h \in Goals \ {timer.g}, m \in NodeIds : node'[h][m] = node[h][m]
              /\ timer.pc # "supervising" =>
                    \A m \in NodeIds : node[timer.g][m].status = "absent" =>
                                         node'[timer.g][m].status = "absent"
<1>. PICK g, n : g = timer.g /\ n = timer.n
     OBVIOUS
<1>1. /\ TypeOK /\ g \in Goals /\ n \in NodeIds /\ timer.ready \subseteq NodeIds
      /\ SettlesRunning /\ WaitingPending
      BY QuietTypes, TimerFields DEF QuietInv, AloneInv
<1>2. ASSUME NEW m \in NodeIds, NEW row, RowWritten(g, m, row),
             node[g][m].status # "absent"
      PROVE  /\ \A h \in Goals \ {g}, i \in NodeIds : node'[h][i] = node[h][i]
             /\ \A i \in NodeIds : node[g][i].status = "absent" =>
                                     node'[g][i].status = "absent"
      BY <1>1, <1>2 DEF RowWritten
<1>3. CASE Wanders \/ TakesUp \/ PatchesCopy \/ Admits \/ Skips \/ Starts
      BY <1>3 DEF Wanders, TakesUp, PatchesCopy, Admits, Skips, Starts, TablesSame
<1>4. ASSUME NEW row, Settles(row)
      PROVE  /\ timer.pc = "settling" /\ node[g][n].status = "running"
             /\ RowWritten(g, n, row)
      BY <1>1, <1>4 DEF Settles, SettlesRunning, SettledAs, timer
<1>5. CASE Saves
  <2>1. timer.pc = "supervising" /\ node' = [node EXCEPT ![g] = timer.graph]
        BY <1>5 DEF Saves
  <2>. QED  BY <1>1, <2>1 DEF TypeOK
<1>6. ASSUME NEW m, Fails(m)
      PROVE  /\ timer.pc = "dispatch" /\ m \in NodeIds /\ node[g][m].status # "absent"
             /\ \E row : RowWritten(g, m, row)
  <2>1. /\ timer.pc = "dispatch" /\ m \in NodeIds /\ node[g][m].status = "pending"
        /\ node' = UpdateNode(g, m, [node[g][m] EXCEPT !.status = "failed"])
        BY <1>1, <1>6 DEF Fails, WaitingPending, Waiting
  <2>. QED  BY <1>1, <2>1, WriteRow
<1>7. CASE Records
  <2>1. /\ timer.pc = "record" /\ node[g][n].status = "pending"
        /\ node' = UpdateNode(g, n, [node[g][n] EXCEPT !.status = "running",
                                                       !.task = timer.k])
        BY <1>1, <1>7 DEF Records, WaitingPending, Waiting
  <2>2. \E row : RowWritten(g, n, row)
        BY <1>1, <2>1, WriteRow
  <2>. QED  BY <1>1, <1>2, <2>1, <2>2
<1>. QED  BY <1>1, <1>2, <1>3, <1>4, <1>5, <1>6, <1>7 DEF TimerStep

\* A goal that is done, or being integrated, stays at rest.
LEMMA RestStays ==
    ASSUME FinishedInv, Elsewhere \/ Restart \/ TimerStep, NEW g \in Goals,
           goal[g].status = "done" \/ (timer.pc = "integrating" /\ g = timer.g)
    PROVE  AtRest(g)'
<1>1. /\ TypeOK /\ QuietInv /\ AtRest(g)
      /\ Calm => MaxCrashes = 0 /\ thread[Healer].pc = "idle"
      BY QuietTypes DEF FinishedInv, DoneRests, HealerRests, Calm
<1>2. CASE Elsewhere
  <2>1. \A n \in NodeIds : node'[g][n].status # "running"
        BY <1>1, <1>2, CalmRows DEF AtRest
  <2>2. Calm => \A n \in NodeIds : node'[g][n].status # "pending"
        BY <1>1, <1>2 DEF Elsewhere, StatusesSame, AtRest
  <2>. QED  BY <2>1, <2>2 DEF AtRest, Calm
<1>3. CASE Restart
  <2>1. ~Calm
        BY <1>1, <1>3 DEF Restart, TypeOK
  <2>2. \A n \in NodeIds : node'[g][n].status # "running"
    <3>1. \A n \in NodeIds : node'[g][n] = Reconciled(node[g][n])
          BY <1>3 DEF Restart
    <3>2. \A nd \in Node : Reconciled(nd).status = "running" => nd.status = "running"
          BY DEF Reconciled, Node
    <3>. QED  BY <1>1, <3>1, <3>2, TimerFields DEF AtRest
  <2>. QED  BY <2>1, <2>2 DEF AtRest, Calm
<1>4. CASE TimerStep
  <2>1. CASE UNCHANGED node
        BY <1>1, <2>1 DEF AtRest, Calm
  <2>2. CASE \A n \in NodeIds : node'[g][n] = node[g][n]
        BY <1>1, <2>2 DEF AtRest, Calm
  <2>3. CASE /\ timer.pc \in {"settling", "supervising", "dispatch", "record"}
             /\ timer.pc = "settling" => node[timer.g][timer.n].status = "running"
             /\ \A h \in Goals \ {timer.g}, m \in NodeIds : node'[h][m] = node[h][m]
    <3>1. timer.n \in NodeIds
          BY <1>1, QuietTypes
    <3>2. timer.pc # "settling" => goal[timer.g].status # "done"
          BY <2>3 DEF FinishedInv, VisitsUndone, Ticking
    <3>3. g # timer.g
          BY <1>1, <2>3, <3>1, <3>2 DEF AtRest
    <3>. QED  BY <2>2, <2>3, <3>3
  <2>. QED  BY <1>1, <1>4, <2>1, <2>3, RowsOfItsGoal
<1>. QED  BY <1>2, <1>3, <1>4

LEMMA CarefulStays ==
    ASSUME FinishedInv, Elsewhere \/ Restart \/ TimerStep
    PROVE  CarefulOne'
<1>. SUFFICES ASSUME NEW g \in Careful, NEW n \in NodeIds \ {1},
                     node[g][n].status = "absent"
              PROVE  node'[g][n].status = "absent"
     BY DEF FinishedInv, CarefulOne
<1>1. TypeOK /\ QuietInv /\ g \in Goals
      BY QuietTypes, CoordinatorAssumption DEF FinishedInv
<1>2. CASE Elsewhere
  <2>1. CASE CalmGoal(g)
        BY <2>1 DEF CalmGoal, CalmRow
  <2>2. CASE PlannedGoal(g)
    <3>1. PICK a : node'[g] = [NoGraph EXCEPT ![1] = NewNode({}, a, "code", 1)]
          BY <2>2 DEF PlannedGoal, PlansOf
    <3>2. NoGraph[n].status = "absent" /\ NoGraph = [m \in NodeIds |-> NoGraph[m]]
          BY DEF NoGraph, GraphOf, NoNode, NewNode
    <3>. QED  BY <3>1, <3>2
  <2>. QED  BY <1>1, <1>2, <2>1, <2>2 DEF Elsewhere
<1>3. CASE Restart
  <2>1. node'[g][n] = Reconciled(node[g][n])
        BY <1>1, <1>3 DEF Restart
  <2>. QED  BY <2>1 DEF Reconciled
<1>4. CASE TimerStep
  <2>1. timer.pc = "supervising" => timer.g \notin Careful
        BY DEF FinishedInv, VisitsUndone
  <2>. QED  BY <1>1, <1>4, <2>1, RowsOfItsGoal
<1>. QED  BY <1>2, <1>3, <1>4

\* Without passes of self-heal and restarts the healer stays idle.
LEMMA HealerStays ==
    ASSUME Handlers = {}, RolesInv, HealerRests, [Next]_vars
    PROVE  HealerRests'
<1>. SUFFICES ASSUME MaxHeals = 0, MaxCrashes = 0,
                     thread[Healer].pc = "idle", spent.heals = 0
              PROVE  thread'[Healer].pc = "idle" /\ spent'.heals = 0
     BY DEF HealerRests, Calm
<1>1. TypeOK /\ Healer \in Threads
      BY ThreeKinds DEF RolesInv
<1>2. ~Restart
      BY <1>1 DEF Restart, TypeOK
<1>3. spent'.heals = 0
      BY <1>1, <1>2, CrashesSame
<1>4. ~Pass(Healer)
  <2>1. ~(TickBegin(Healer) \/ SettleRead(Healer) \/ SettleWrite(Healer)
          \/ Supervise(Healer))
        BY <1>1, SettleMoves, ThreeKinds DEF Supervise, From
  <2>2. ~(TickList(Healer) \/ TickEnd(Healer) \/ TickGoal(Healer)
          \/ IntegratorEnd(Healer) \/ Dispatch(Healer))
        BY <1>1, TickMoves, DispatchMoves DEF TickGoal, Dispatch, From
  <2>3. ~(PlanDone(Healer) \/ PlanError(Healer) \/ ResumeList(Healer)
          \/ ResumeGoal(Healer) \/ ResumeEnd(Healer))
        BY <1>1, ResumeMoves DEF From
  <2>. QED  BY <2>1, <2>2, <2>3 DEF Pass
<1>5. ~Heal(Healer)
  <2>1. ~HealBegin(Healer)
        BY Zenon DEF HealBegin
  <2>. QED  BY <1>1, <2>1, HealMoves DEF Heal, From
<1>6. ASSUME NEW t \in Threads, t # Healer, Pass(t) \/ Heal(t)
      PROVE  thread'[Healer] = thread[Healer]
      BY <1>1, <1>6, RolesPass, RolesHeal DEF OnlyMoves
<1>. QED  BY <1>2, <1>3, <1>4, <1>5, <1>6, NextMoves

LEMMA FinishedInit == Init => FinishedInv
<1>. SUFFICES ASSUME Init PROVE FinishedInv
     OBVIOUS
<1>1. QuietInv /\ timer.pc = "idle" /\ thread[Healer].pc = "idle"
      BY QuietInit, IdleAtFirst, ThreeKinds DEF timer
<1>2. spent.heals = 0
      BY DEF Init
<1>3. \A g \in Goals : goal[g].status # "done"
      BY FirstGoals
<1>4. CarefulOne
  <2>1. ASSUME NEW g \in Careful
        PROVE  g \in Goals /\ node[g] \in PlansOf(g) \cup {NoGraph}
    <3>1. g \in Goals
          BY CoordinatorAssumption
    <3>2. node \in {nd \in [Goals -> SomeGraphs] :
                      \A h \in Goals : IF h \in Preplanned THEN nd[h] \in PlansOf(h)
                                       ELSE nd[h] = NoGraph}
          BY Zenon DEF Init
    <3>. QED  BY <3>1, <3>2
  <2>2. ASSUME NEW g \in Careful, NEW n \in NodeIds \ {1}
        PROVE  node[g][n].status = "absent"
    <3>1. NoGraph[n].status = "absent" /\ NoGraph = [m \in NodeIds |-> NoGraph[m]]
          BY DEF NoGraph, GraphOf, NoNode, NewNode
    <3>2. node[g] = NoGraph
          \/ \E a : node[g] = [NoGraph EXCEPT ![1] = NewNode({}, a, "code", 1)]
          BY <2>1, <2>2 DEF PlansOf
    <3>. QED  BY <3>1, <3>2
  <2>. QED  BY <2>2 DEF CarefulOne
<1>. QED  BY <1>1, <1>2, <1>3, <1>4
          DEF FinishedInv, DoneRests, VisitsUndone, HealerRests, Ticking

\* Each kind of step leaves what is done, or being integrated, at rest.
LEMMA DoneStaysAtRest ==
    ASSUME Handlers = {}, FinishedInv, QuietInv', [Next]_vars,
           Elsewhere \/ Restart \/ TimerStep,
           timer' = timer \/ timer'.pc = "idle" \/ TimerGoesOn
    PROVE  DoneRests'
<1>1. /\ QuietInv /\ RolesInv /\ TypeOK /\ TypeOK' /\ SettlesRunning
      BY DEF FinishedInv, QuietInv, AloneInv, RolesInv
<1>2. ASSUME NEW g \in Goals, goal'[g].status = "done"
      PROVE  AtRest(g)'
  <2>1. CASE goal[g].status = "done"
        BY <2>1, RestStays
  <2>2. CASE goal[g].status # "done"
    <3>1. /\ g = timer.g
          /\ \/ SettleCarefulDone(Timer) /\ timer.pc = "settling"
             \/ timer.pc = "integrating"
          BY <1>1, <1>2, <2>2, DoneByTimer DEF NoNewDone
    <3>2. CASE timer.pc = "integrating"
          BY <3>1, <3>2, RestStays
    <3>3. CASE SettleCarefulDone(Timer) /\ timer.pc = "settling"
      <4>. PICK n : n = timer.n
           OBVIOUS
      <4>1. n \in NodeIds /\ node[g][n] \in Node /\ node[g][n].status = "running"
            BY <1>1, <3>1, <3>3, TimerFields DEF SettlesRunning
      <4>2. g \in Careful
            /\ node' = UpdateNode(g, n, [node[g][n] EXCEPT !.status = "done"])
            BY <3>1, <3>3, Zenon DEF SettleCarefulDone, OfCareful, timer
      <4>. DEFINE row == [node[g][n] EXCEPT !.status = "done"]
      <4>3. row.status = "done"
            BY <4>1 DEF Node
      <4>4. RowWritten(g, n, row)
            BY <1>1, <4>1, <4>2, WriteRow
      <4>. HIDE DEF row
      <4>5. \A m \in NodeIds \ {n} : node[g][m].status = "absent"
            BY <4>1, <4>2 DEF FinishedInv, CarefulOne
      <4>. QED  BY <4>1, <4>3, <4>4, <4>5 DEF AtRest, RowWritten
    <3>. QED  BY <3>1, <3>2, <3>3
  <2>. QED  BY <2>1, <2>2
<1>3. ASSUME timer'.pc = "integrating"
      PROVE  AtRest(timer.g)'
  <2>1. CASE timer' = timer
        BY <1>1, <1>3, <2>1, RestStays, QuietTypes DEF AtRest, Calm
  <2>2. CASE TimerGoesOn
    <3>1. timer'.g \in Goals
      <4>1. timer' \in Local
            BY <1>1, ThreeKinds DEF TypeOK, timer
      <4>. QED  BY <4>1, LocalFields
    <3>2. UNCHANGED node /\ AllTerminal(node[timer'.g])
          BY <1>3, <2>2 DEF TimerGoesOn
    <3>. QED  BY <3>1, <3>2 DEF AtRest, AllTerminal, Members, Terminal
  <2>. QED  BY <1>3, <2>1, <2>2
<1>. QED  BY <1>2, <1>3 DEF DoneRests

\* What the timer lists is active, and one that it makes done it lists no more.
LEMMA VisitsStayUndone ==
    ASSUME Handlers = {}, FinishedInv, QuietInv', [Next]_vars,
           timer' = timer \/ timer'.pc = "idle" \/ TimerGoesOn
    PROVE  VisitsUndone'
<1>1. QuietInv /\ RolesInv /\ TypeOK /\ SettlesRunning
      BY DEF FinishedInv, QuietInv, AloneInv, RolesInv
<1>2. ASSUME NEW h \in Goals, goal[h].status # "done", goal'[h].status = "done"
      PROVE  /\ timer'.pc \in {"settle", "tick"} /\ timer'.pc # timer.pc
             /\ timer'.pc = "tick" => Listed(timer'.rows) = Listed(timer.rows) \ {h}
      BY <1>1, <1>2, DoneByTimer DEF NoNewDone
<1>3. CASE timer' = timer
      BY <1>1, <1>2, <1>3, QuietTypes DEF FinishedInv, VisitsUndone, Listed
<1>4. CASE timer'.pc = "idle"
      BY <1>4 DEF VisitsUndone, Ticking
<1>5. CASE TimerGoesOn
  <2>1. ASSUME timer'.pc \in Ticking, NEW g \in Listed(timer'.rows)
        PROVE  goal'[g].status # "done"
    <3>1. CASE timer'.rows = SelectStatus(Active) /\ UNCHANGED goal
      <4>1. NoGoal.status = "absent"
            BY DEF NoGoal
      <4>. QED  BY <2>1, <3>1, <4>1 DEF Listed, SelectStatus, Active
    <3>2. CASE timer.pc \in Ticking /\ Listed(timer'.rows) \subseteq Listed(timer.rows)
      <4>1. g \in Goals /\ goal[g].status # "done"
            BY <2>1, <3>2 DEF FinishedInv, VisitsUndone, Listed
      <4>. QED  BY <1>2, <2>1, <4>1 DEF Ticking
    <3>. QED  BY <1>5, <2>1, <3>1, <3>2 DEF TimerGoesOn
  <2>2. ASSUME timer'.pc \in Ticking \ {"tick"}
        PROVE  timer'.g \in Listed(timer'.rows)
        BY <1>5, <2>2 DEF TimerGoesOn, FinishedInv, VisitsUndone
  <2>3. ASSUME timer'.pc = "supervising"
        PROVE  timer'.g \notin Careful /\ goal'[timer'.g].status # "done"
    <3>1. timer'.g = timer.g /\ timer.g \in Goals /\ timer.n \in NodeIds
          BY <1>1, <1>5, <2>3, QuietTypes DEF TimerGoesOn
    <3>2. CASE timer.pc = "supervising"
          BY <1>2, <2>3, <3>1, <3>2 DEF FinishedInv, VisitsUndone
    <3>3. CASE timer.pc = "settling" /\ timer.g \notin Careful /\ UNCHANGED goal
          BY <1>1, <3>1, <3>3 DEF FinishedInv, DoneRests, AtRest, SettlesRunning
    <3>. QED  BY <1>5, <2>3, <3>2, <3>3 DEF TimerGoesOn
  <2>. QED  BY <2>1, <2>2, <2>3 DEF VisitsUndone
<1>. QED  BY <1>3, <1>4, <1>5

LEMMA FinishedNext ==
    Handlers = {} /\ PatchScope = {} /\ FinishedInv /\ [Next]_vars => FinishedInv'
<1>. SUFFICES ASSUME Handlers = {}, PatchScope = {}, FinishedInv, [Next]_vars
              PROVE  FinishedInv'
     OBVIOUS
<1>1. /\ QuietInv' /\ RolesInv /\ TypeOK /\ PlansEmpty /\ SettlesRunning
      BY QuietNext DEF FinishedInv, QuietInv, AloneInv, RolesInv
<1>2. Elsewhere \/ Restart \/ TimerStep
      BY <1>1, TimerSteps
<1>3. timer' = timer \/ timer'.pc = "idle" \/ TimerGoesOn
  <2>1. Restart => timer'.pc = "idle"
        BY <1>1, RestartThreads, ThreeKinds DEF timer
  <2>. QED  BY <1>1, <2>1, AloneSteps, TimerPlaces DEF Elsewhere
<1>4. HealerRests'
      BY <1>1, HealerStays DEF FinishedInv
<1>. QED  BY <1>1, <1>2, <1>3, <1>4, DoneStaysAtRest, VisitsStayUndone, CarefulStays
          DEF FinishedInv

LEMMA FinishedAlways ==
    ASSUME Handlers = {}, PatchScope = {} PROVE Spec => []FinishedInv
<1>1. FinishedInv /\ [Next]_vars => FinishedInv'
      BY FinishedNext
<1>. QED  BY <1>1, FinishedInit, PTL DEF Spec

\* No agent works for a goal that is done.
LEMMA NoneLive ==
    ASSUME FinishedInv, NEW g \in Goals, goal[g].status = "done", NEW n \in NodeIds
    PROVE  Live(g, n) = {}
<1>. SUFFICES ASSUME NEW k \in Live(g, n) PROVE FALSE
     OBVIOUS
<1>1. /\ k \in DOMAIN task /\ task[k].goal = g /\ task[k].node = n
      /\ RunsFor(k) \/ BeingRecorded(k)
      BY DEF Live, FinishedInv, QuietInv, LiveIsBound
<1>2. CASE RunsFor(k)
      BY <1>1, <1>2 DEF RunsFor, FinishedInv, DoneRests, AtRest
<1>3. CASE BeingRecorded(k)
  <2>1. TaskOf(timer.k, timer.g, timer.n) /\ timer.pc = "record" /\ timer.k = k
        BY <1>3, ThreeKinds DEF BeingRecorded, FinishedInv, QuietInv, BoundInv, Recorders, timer
  <2>. QED  BY <1>1, <2>1 DEF TaskOf, FinishedInv, VisitsUndone, Ticking
<1>. QED  BY <1>1, <1>2, <1>3

\* Whatever the healer, the clients and restarts do meanwhile, a done goal has no
\* node that runs and no agent that works for it.
DoneIsQuiet ==
    \A g \in Goals : goal[g].status = "done" =>
        \A n \in NodeIds : node[g][n].status # "running" /\ Live(g, n) = {}

THEOREM DoneGoalsAreQuiet ==
    ASSUME Handlers = {}, PatchScope = {} PROVE Spec => []DoneIsQuiet
<1>1. FinishedInv => DoneIsQuiet
      BY NoneLive DEF DoneIsQuiet, FinishedInv, DoneRests, AtRest
<1>. QED  BY <1>1, FinishedAlways, PTL

\* Where no self-heal pass and no restart sets work back, a goal is done only when
\* no node of it is still to run or running, and no agent is still at work.
THEOREM DoneGoalsAreFinished ==
    ASSUME Handlers = {}, PatchScope = {}, MaxHeals = 0, MaxCrashes = 0
    PROVE  Spec => []DoneMeansFinished
<1>1. FinishedInv => DoneMeansFinished
      BY NoneLive DEF DoneMeansFinished, FinishedInv, DoneRests, AtRest, Calm
<1>. QED  BY <1>1, FinishedAlways, PTL
=============================================================================
