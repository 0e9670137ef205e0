--------------------------- MODULE TaskRunnerProofs ---------------------------
(***************************************************************************)
(* Proofs about the execution of tasks: SlotInv (the slots of an agent) and   *)
(* WorkInv (how rows and threads belong together) are inductive, fallback     *)
(* never comes back to an entry, and a task keeps the contract of             *)
(* TaskContract.tla.                                                         *)
(***************************************************************************)
EXTENDS TaskRunner, FiniteSetTheorems, TLAPS

-----------------------------------------------------------------------------
(* Finite sets of threads. *)

LEMMA ThreadSets ==
    \A S \in SUBSET TaskIds : IsFiniteSet(S) /\ Cardinality(S) \in Nat
<1>1. IsFiniteSet(TaskIds)
      BY FS_Interval, TaskRunnerAssumption DEF TaskIds
<1>. QED  BY <1>1, FS_Subset, FS_CardinalityType

LEMMA SlotSets ==
    \A a : /\ Processes(a) \in SUBSET TaskIds
           /\ Sleepers(a) \in SUBSET TaskIds
           /\ Woken(a) \in SUBSET TaskIds
  BY DEF Processes, Sleepers, Woken

-----------------------------------------------------------------------------
(* What is read from the saved chains. *)

LEMMA NextAfterType == \A e : NextAfter(e) \subseteq Entries
  BY TaskRunnerAssumption DEF NextAfter, FirstPlace, Places

-----------------------------------------------------------------------------
(* Every step keeps the types.  Only the end of a process needs more: a slot *)
(* is given back by a thread that holds one.                                 *)

LEMMA InitType == Init => TypeOK /\ Unused
<1> SUFFICES ASSUME Init PROVE TypeOK /\ Unused
    OBVIOUS
<1>1. NoEntry \in Entries
      BY TaskRunnerAssumption, Zenon DEF NoEntry
<1>2. NoJob \in Job
      BY <1>1 DEF NoJob, Job, PCs, Outcomes
<1>3. task \in Seq(Row) /\ Len(task) = 0
      BY DEF Init
<1>4. NoJob.pc = "none"
      BY DEF NoJob
<1>. QED  BY <1>2, <1>3, <1>4 DEF Init, TypeOK, Unused, At

\* A thread that goes to another place.
LEMMA GotoType ==
    ASSUME TypeOK, NEW t \in TaskIds, NEW pc \in PCs, Goto(t, pc)
    PROVE  job' \in [TaskIds -> Job]
<1>1. job[t] \in Job
      BY DEF TypeOK
<1>2. [job[t] EXCEPT !.pc = pc] \in Job
      BY <1>1 DEF Job
<1>. QED  BY <1>2 DEF Goto, TypeOK

\* A row that gets another status.
LEMMA SetRowType ==
    ASSUME TypeOK, NEW k \in Nat, NEW s \in Live \cup Ended, SetRow(k, s)
    PROVE  task' \in Seq(Row) /\ Len(task') = Len(task)
<1>1. CASE k \in DOMAIN task
  <2>1. task[k] \in Row
        BY <1>1 DEF TypeOK
  <2>2. [task[k] EXCEPT !.status = s] \in Row
        BY <2>1 DEF Row
  <2>. QED  BY <1>1, <2>2 DEF SetRow, TypeOK
<1>2. CASE k \notin DOMAIN task
  <2>1. task' = task
        BY <1>2 DEF SetRow, TypeOK
  <2>. QED  BY <2>1 DEF TypeOK
<1>. QED  BY <1>1, <1>2

\* Rows, in general: any row in the place of one, and one more.
LEMMA RowTypes ==
    ASSUME TypeOK, NEW k \in Nat, NEW row \in Row
    PROVE  /\ [task EXCEPT ![k] = row] \in Seq(Row)
           /\ Len([task EXCEPT ![k] = row]) = Len(task)
           /\ Append(task, row) \in Seq(Row)
           /\ Len(Append(task, row)) = Len(task) + 1
           /\ Len(task) \in Nat
<1>1. task \in Seq(Row)
      BY DEF TypeOK
<1>2. Append(task, row) \in Seq(Row) /\ Len(Append(task, row)) = Len(task) + 1
      BY <1>1
<1>3. [task EXCEPT ![k] = row] \in Seq(Row)
      /\ Len([task EXCEPT ![k] = row]) = Len(task)
  <2>1. CASE k \in DOMAIN task
    <3>1. k \in 1 .. Len(task)
          BY <1>1, <2>1
    <3>. QED  BY <1>1, <3>1
  <2>2. CASE k \notin DOMAIN task
    <3>1. [task EXCEPT ![k] = row] = task
          BY <1>1, <2>2
    <3>. QED  BY <1>1, <3>1
  <2>. QED  BY <2>1, <2>2
<1>. QED  BY <1>1, <1>2, <1>3

LEMMA NewRowType == \A e \in Entries, p \in Nat : NewRow(e, p) \in Row
  BY DEF NewRow, Row, Live

LEMMA NoJobType == NoJob \in Job /\ NoJob.pc = "none"
<1>1. NoEntry \in Entries
      BY TaskRunnerAssumption, Zenon DEF NoEntry
<1>. QED  BY <1>1 DEF NoJob, Job, PCs, Outcomes

\* A field written to a job of the right type.
LEMMA JobTypes ==
    ASSUME NEW j \in Job
    PROVE  /\ j.row \in Nat /\ j.entry \in Entries /\ j.outcome \in Outcomes
           /\ j.pc \in PCs /\ j.use_tree \in BOOLEAN
           /\ \A pc \in PCs : [j EXCEPT !.pc = pc] \in Job
           /\ \A row \in Nat : [j EXCEPT !.row = row] \in Job
           /\ \A e \in Entries : [j EXCEPT !.entry = e] \in Job
           /\ \A o \in Outcomes : [j EXCEPT !.outcome = o] \in Job
           /\ [j EXCEPT !.cancel = TRUE] \in Job
  BY DEF Job

LEMMA RunKeepsTypes ==
    ASSUME SlotInv, NEW e \in Starts, NEW background \in BOOLEAN,
           NEW use_tree \in TreeChoices, NEW failover \in FailoverChoices,
           Run(e, background, use_tree, failover)
    PROVE  TypeOK' /\ Unused'
<1> DEFINE t == Len(task) + 1
           begun == [NoJob EXCEPT !.pc = IF background THEN "launch" ELSE "setup",
                                  !.row = t, !.entry = e, !.background = background,
                                  !.use_tree = use_tree, !.failover = failover]
<1>1. e \in Entries /\ use_tree \in BOOLEAN /\ failover \in BOOLEAN
      BY TaskRunnerAssumption
<1>2. t \in TaskIds /\ t \in Nat
      BY DEF Run, TaskIds
<1>3. begun \in Job
      BY <1>1, <1>2, NoJobType DEF Job, PCs
<1>4. task' = Append(task, NewRow(e, 0)) /\ job' = [job EXCEPT ![t] = begun]
      BY DEF Run
<1>5. task' \in Seq(Row) /\ Len(task') = t
      BY <1>1, <1>4, NewRowType, RowTypes DEF SlotInv
<1>6. job' \in [TaskIds -> Job]
      BY <1>3, <1>4 DEF SlotInv, TypeOK
<1>7. Unused'
      BY <1>2, <1>4, <1>5 DEF SlotInv, TypeOK, Unused, At, TaskIds
<1>. QED  BY <1>5, <1>6, <1>7 DEF Run, history, SlotInv, TypeOK

LEMMA HopKeepsTypes ==
    ASSUME SlotInv, NEW t \in TaskIds, Hop(t)
    PROVE  TypeOK' /\ Unused'
<1>1. job[t] \in Job
      BY DEF SlotInv, TypeOK
<1>2. PICK next \in NextAfter(job[t].entry) :
         /\ task' = Append(task, NewRow(next, job[t].row))
         /\ job' = [job EXCEPT ![t].pc = "setup", ![t].row = Len(task) + 1,
                               ![t].entry = next]
      BY DEF Hop
<1>3. next \in Entries
      BY <1>2, NextAfterType
<1>4. task' \in Seq(Row) /\ Len(task') = Len(task) + 1 /\ Len(task) \in Nat
      BY <1>1, <1>2, <1>3, NewRowType, RowTypes DEF SlotInv, Job
<1>5. job' \in [TaskIds -> Job]
  <2>1. [job[t] EXCEPT !.pc = "setup", !.row = Len(task) + 1, !.entry = next] \in Job
    <3>1. "setup" \in PCs /\ Len(task) + 1 \in Nat
          BY <1>4 DEF PCs
    <3>. QED  BY <1>1, <1>3, <3>1, Zenon DEF Job
  <2>. QED  BY <1>2, <2>1 DEF SlotInv, TypeOK
<1>6. Unused'
  <2>1. t <= Len(task)
        BY <1>4 DEF Hop, At, SlotInv, Unused, TaskIds
  <2>. QED  BY <1>2, <1>4, <2>1 DEF SlotInv, TypeOK, Unused, At, TaskIds
<1>7. marked' \subseteq Entries
      BY TaskRunnerAssumption DEF Hop, SlotInv, TypeOK
<1>. QED  BY <1>4, <1>5, <1>6, <1>7 DEF Hop, history, SlotInv, TypeOK

\* A thread at work goes on to another place; no row comes or goes.
LEMMA GotoKeeps ==
    ASSUME SlotInv, NEW t \in TaskIds, NEW pc \in PCs, ~At(t, "none"), Goto(t, pc),
           Len(task') = Len(task)
    PROVE  job' \in [TaskIds -> Job] /\ Unused'
<1>1. job' \in [TaskIds -> Job]
      BY GotoType DEF SlotInv
<1>2. \A u \in TaskIds : At(u, "none") => job'[u] = job[u]
      BY DEF Goto, At, SlotInv, TypeOK
<1>. QED  BY <1>1, <1>2 DEF SlotInv, Unused, At

LEMMA PlainStepKeepsTypes ==
    ASSUME SlotInv, NEW t \in TaskIds,
           \/ Launch(t) \/ Setup(t) \/ SetupFails(t) \/ Prepare(t) \/ PrepareFails(t)
           \/ Breaks(t) \/ Unslotted(t) \/ Acquire(t) \/ Wait(t) \/ SpuriousWakeup(t)
           \/ NoHop(t)
    PROVE  TypeOK' /\ Unused'
<1> USE DEF SlotInv
<1>1. job[t] \in Job /\ t \in Nat /\ job[t].row \in Nat /\ job[t].entry \in Entries
  <2>1. job[t] \in Job
        BY DEF TypeOK
  <2>2. t \in Nat
        BY TaskRunnerAssumption DEF TaskIds
  <2>. QED  BY <2>1, <2>2, JobTypes
<1>2. {"running", "failed"} \subseteq Live \cup Ended
      BY DEF Live, Ended
<1>3. PCs = {"none", "launch", "setup", "prepare", "acquire", "asleep",
             "woken", "process", "finish", "failover", "return"}
      BY DEF PCs
<1>4. CASE Launch(t)
  <2>1. task' \in Seq(Row) /\ Len(task') = Len(task)
        BY <1>1, <1>2, <1>4, SetRowType DEF Launch
  <2>2. job' \in [TaskIds -> Job] /\ Unused'
        BY <1>3, <1>4, <2>1, GotoKeeps DEF Launch, At
  <2>. QED  BY <1>4, <2>1, <2>2 DEF Launch, TypeOK, history
<1>5. CASE Setup(t)
  <2>1. task' \in Seq(Row) /\ Len(task') = Len(task)
        BY <1>1, <1>2, <1>5, SetRowType DEF Setup
  <2>2. job' \in [TaskIds -> Job] /\ Unused'
        BY <1>3, <1>5, <2>1, GotoKeeps DEF Setup, At
  <2>. QED  BY <1>1, <1>5, <2>1, <2>2 DEF Setup, TypeOK, history
<1>6. CASE SetupFails(t) \/ PrepareFails(t)
  <2>1. task' \in Seq(Row) /\ Len(task') = Len(task)
        BY <1>1, <1>2, <1>6, SetRowType DEF SetupFails, PrepareFails
  <2>2. job' \in [TaskIds -> Job] /\ Unused'
        BY <1>3, <1>6, <2>1, GotoKeeps DEF SetupFails, PrepareFails, At
  <2>. QED  BY <1>6, <2>1, <2>2 DEF SetupFails, PrepareFails, TypeOK, history
<1>7. CASE Prepare(t) \/ Unslotted(t) \/ Wait(t) \/ SpuriousWakeup(t)
  <2>1. job' \in [TaskIds -> Job] /\ Unused'
        BY <1>3, <1>7, GotoKeeps
           DEF Prepare, Unslotted, Wait, WaitsForSlot, SpuriousWakeup, At
  <2>. QED  BY <1>7, <2>1 DEF Prepare, Unslotted, Wait, SpuriousWakeup, TypeOK, history
<1>8. CASE Breaks(t)
  <2>1. job' \in [TaskIds -> Job] /\ Unused'
        BY <1>3, <1>8, GotoKeeps DEF Breaks, At
  <2>. QED  BY <1>1, <1>8, <2>1 DEF Breaks, TypeOK
<1>9. CASE Acquire(t)
  <2>1. job' \in [TaskIds -> Job] /\ Unused'
        BY <1>3, <1>9, GotoKeeps DEF Acquire, WaitsForSlot, At
  <2>2. count' \in [Slotted -> Nat]
        BY <1>9 DEF Acquire, TypeOK
  <2>. QED  BY <1>9, <2>1, <2>2 DEF Acquire, TypeOK, history
<1>10. CASE NoHop(t)
  <2>1. job' \in [TaskIds -> Job] /\ Unused'
        BY <1>3, <1>10, GotoKeeps DEF NoHop, At
  <2>2. marked' \subseteq Entries
        BY <1>1, <1>10 DEF NoHop, TypeOK
  <2>. QED  BY <1>10, <2>1, <2>2 DEF NoHop, TypeOK, history
<1>. QED  BY <1>4, <1>5, <1>6, <1>7, <1>8, <1>9, <1>10

\* A process holds a slot that its end can give back.
LEMMA SlotHeld ==
    ASSUME SlotInv, NEW t \in TaskIds, At(t, "process"), Agent(t) \in Slotted
    PROVE  count[Agent(t)] \in Nat \ {0}
<1>1. t \in Processes(Agent(t))
      BY DEF Processes
<1>2. IsFiniteSet(Processes(Agent(t))) /\ Cardinality(Processes(Agent(t))) # 0
      BY <1>1, ThreadSets, SlotSets, FS_EmptySet
<1>. QED  BY <1>2 DEF SlotInv, SlotsExact, TypeOK

LEMMA EndTypes ==
    ASSUME SlotInv, NEW t \in TaskIds, At(t, "process"), NEW o \in Outcomes
    PROVE  /\ WithOutcome(t, o) \in [TaskIds -> Job]
           /\ \A u \in TaskIds : At(u, "none") => WithOutcome(t, o)[u].pc = "none"
           /\ \A u \in TaskIds : At(u, "asleep") => WithOutcome(t, o)[u].pc = "asleep"
<1>1. job[t] \in Job /\ job \in [TaskIds -> Job]
      BY DEF SlotInv, TypeOK
<1>2. [job[t] EXCEPT !.pc = "finish", !.outcome = o, !.held = FALSE] \in Job
      BY <1>1, "finish" \in PCs, Zenon DEF Job, PCs
<1>. QED  BY <1>1, <1>2 DEF WithOutcome, At

LEMMA EndKeepsTypes ==
    ASSUME SlotInv, NEW t \in TaskIds, ProcessEnds(t) \/ UnslottedEnds(t)
    PROVE  TypeOK' /\ Unused'
<1>1. At(t, "process") /\ Endings(t) \subseteq Outcomes
  <2>1. job[t].outcome \in Outcomes
        BY JobTypes DEF SlotInv, TypeOK
  <2>. QED  BY <2>1 DEF ProcessEnds, UnslottedEnds, Endings
<1>2. PICK o \in Outcomes :
         \/ job' = WithOutcome(t, o)
         \/ \E s \in Sleepers(Agent(t)) :
               job' = [WithOutcome(t, o) EXCEPT ![s].pc = "woken"]
      BY <1>1 DEF ProcessEnds, UnslottedEnds
<1>3. /\ job' \in [TaskIds -> Job]
      /\ \A u \in TaskIds : At(u, "none") => job'[u].pc = "none"
  <2>1. CASE job' = WithOutcome(t, o)
        BY <1>1, <2>1, EndTypes
  <2>2. ASSUME NEW s \in Sleepers(Agent(t)),
               job' = [WithOutcome(t, o) EXCEPT ![s].pc = "woken"]
        PROVE  /\ job' \in [TaskIds -> Job]
               /\ \A u \in TaskIds : At(u, "none") => job'[u].pc = "none"
    <3>1. s \in TaskIds /\ At(s, "asleep")
          BY DEF Sleepers
    <3>2. WithOutcome(t, o)[s] \in Job /\ "woken" \in PCs
          BY <1>1, <3>1, EndTypes DEF PCs
    <3>3. [WithOutcome(t, o)[s] EXCEPT !.pc = "woken"] \in Job
          BY <3>2, JobTypes
    <3>. QED  BY <1>1, <2>2, <3>1, <3>3, EndTypes DEF At
  <2>. QED  BY <1>2, <2>1, <2>2
<1>4. Unused' /\ task' = task
      BY <1>3 DEF ProcessEnds, UnslottedEnds, SlotInv, Unused, At
<1>5. count' \in [Slotted -> Nat]
      BY <1>1, SlotHeld DEF ProcessEnds, UnslottedEnds, SlotInv, TypeOK
<1>. QED  BY <1>3, <1>4, <1>5 DEF ProcessEnds, UnslottedEnds, SlotInv, TypeOK, history

\* A helper takes hold of the pipes: the thread stays where it is.
LEMMA HoldsChanges ==
    ASSUME SlotInv, NEW t \in TaskIds, HelperHolds(t)
    PROVE  /\ job' \in [TaskIds -> Job]
           /\ \A u \in TaskIds :
                 /\ job'[u].pc = job[u].pc /\ job'[u].row = job[u].row
                 /\ job'[u].entry = job[u].entry /\ job'[u].use_tree = job[u].use_tree
<1>1. job \in [TaskIds -> Job] /\ job[t] \in Job
      BY DEF SlotInv, TypeOK
<1>2. PICK o \in Outcomes : job' = [job EXCEPT ![t].held = TRUE, ![t].outcome = o]
      BY <1>1, JobTypes DEF HelperHolds, Endings
<1>3. [job[t] EXCEPT !.held = TRUE, !.outcome = o] \in Job
      BY <1>1 DEF Job
<1>4. /\ job'[t].pc = job[t].pc /\ job'[t].row = job[t].row
      /\ job'[t].entry = job[t].entry /\ job'[t].use_tree = job[t].use_tree
      BY <1>1, <1>2 DEF Job
<1>5. \A u \in TaskIds \ {t} : job'[u] = job[u]
      BY <1>1, <1>2
<1>. QED  BY <1>1, <1>2, <1>3, <1>4, <1>5

LEMMA HoldsKeepsTypes ==
    ASSUME SlotInv, NEW t \in TaskIds, HelperHolds(t)
    PROVE  TypeOK' /\ Unused'
  BY HoldsChanges DEF HelperHolds, SlotInv, TypeOK, Unused, At, history

LEMMA FinishKeepsTypes ==
    ASSUME SlotInv, NEW t \in TaskIds, Finish(t)
    PROVE  TypeOK' /\ Unused'
<1> DEFINE k == job[t].row
           o == job[t].outcome
           row == [task[k] EXCEPT !.status = IF Failure(o) THEN "failed" ELSE o,
                                  !.limited = (o = "limited"),
                                  !.tree = job[t].use_tree]
<1>1. job[t] \in Job
      BY DEF SlotInv, TypeOK
<1>2. k \in Nat /\ o \in Outcomes /\ job[t].use_tree \in BOOLEAN
      BY <1>1, JobTypes
<1>3. task' = [task EXCEPT ![k] = row]
      BY DEF Finish
<1>4. task' \in Seq(Row) /\ Len(task') = Len(task)
  <2>1. CASE k \in DOMAIN task
    <3>1. task[k] \in Row
          BY <2>1 DEF SlotInv, TypeOK
    <3>2. (IF Failure(o) THEN "failed" ELSE o) \in Live \cup Ended
          BY <1>2 DEF Failure, Outcomes, Ended
    <3>3. (o = "limited") \in BOOLEAN
          OBVIOUS
    <3>4. row \in Row
          BY <1>2, <3>1, <3>2, <3>3, Zenon DEF Row
    <3>. QED  BY <1>2, <1>3, <3>4, RowTypes DEF SlotInv
  <2>2. CASE k \notin DOMAIN task
    <3>1. task \in Seq(Row)
          BY DEF SlotInv, TypeOK
    <3>2. task' = task
          BY <1>3, <2>2, <3>1
    <3>. QED  BY <3>1, <3>2
  <2>. QED  BY <2>1, <2>2
<1>5. job' \in [TaskIds -> Job] /\ Unused'
      BY <1>4, GotoKeeps DEF Finish, At, PCs
<1>. QED  BY <1>4, <1>5 DEF Finish, SlotInv, TypeOK, history

\* What clients ask for beside TaskRun, and the end of a job.
LEMMA RequestKeepsTypes ==
    ASSUME SlotInv,
           \/ \E t \in TaskIds : \/ Return(t) \/ LaunchBreaks(t) \/ Cancel(t)
                                \/ ForceRead(t) \/ Cleanup(t)
           \/ \E e \in Entries : AccountSetStatus(e)
           \/ \E a \in Agents : SurvivorEnds(a)
    PROVE  TypeOK' /\ Unused'
<1> USE DEF SlotInv
<1>1. ASSUME NEW t \in TaskIds, Return(t)
      PROVE  TypeOK' /\ Unused'
      BY <1>1, NoJobType DEF Return, TypeOK, Unused, At, history
<1>2. ASSUME NEW t \in TaskIds, Cancel(t)
      PROVE  TypeOK' /\ Unused'
  <2>1. [job[t] EXCEPT !.cancel = TRUE] \in Job
        BY JobTypes DEF TypeOK
  <2>2. job' \in [TaskIds -> Job]
        BY <1>2, <2>1 DEF Cancel, TypeOK
  <2>3. \A u \in TaskIds : job'[u].pc = job[u].pc
        BY <1>2 DEF Cancel, TypeOK, Job
  <2>. QED  BY <1>2, <2>2, <2>3 DEF Cancel, TypeOK, Unused, At, history
<1>3. ASSUME NEW t \in TaskIds, ForceRead(t)
      PROVE  TypeOK' /\ Unused'
  <2>1. task[t].tree \in BOOLEAN
    <3>1. task \in Seq(Row) /\ t \in DOMAIN task
          BY <1>3 DEF ForceRead, IsLive, TypeOK
    <3>2. task[t] \in Row
          BY <3>1
    <3>. QED  BY <3>2 DEF Row
  <2>2. [id |-> t, tree |-> task[t].tree] \in [id : TaskIds, tree : BOOLEAN]
        BY <2>1
  <2>. QED  BY <1>3, <2>2 DEF ForceRead, TypeOK, Unused, At
<1>4. ASSUME NEW t \in TaskIds, Cleanup(t)
      PROVE  TypeOK' /\ Unused'
      BY <1>4 DEF Cleanup, TypeOK, Unused, At, history
<1>5. ASSUME NEW e \in Entries, AccountSetStatus(e)
      PROVE  TypeOK' /\ Unused'
      BY <1>5, TaskRunnerAssumption DEF AccountSetStatus, TypeOK, Unused, At, history
<1>6. ASSUME NEW a \in Agents, SurvivorEnds(a)
      PROVE  TypeOK' /\ Unused'
      BY <1>6 DEF SurvivorEnds, TypeOK, Unused, At, history
<1>7. ASSUME NEW t \in TaskIds, LaunchBreaks(t)
      PROVE  TypeOK' /\ Unused'
  <2>1. t \in Nat
        BY TaskRunnerAssumption DEF TaskIds
  <2>. QED  BY <1>7, <2>1, NoJobType DEF LaunchBreaks, TypeOK, Unused, At
<1>. QED  BY <1>1, <1>2, <1>3, <1>4, <1>5, <1>6, <1>7

LEMMA ForceWriteKeepsTypes ==
    ASSUME SlotInv, NEW read \in forcing, ForceWrite(read)
    PROVE  TypeOK' /\ Unused'
<1> DEFINE k == read.id
           row == [task[k] EXCEPT !.status = "failed", !.limited = FALSE,
                                  !.tree = read.tree]
<1>1. k \in Nat /\ read.tree \in BOOLEAN
      BY TaskRunnerAssumption DEF SlotInv, TypeOK, TaskIds
<1>2. task' = [task EXCEPT ![k] = row] /\ task \in Seq(Row)
      BY DEF ForceWrite, SlotInv, TypeOK
<1>3. task' \in Seq(Row) /\ Len(task') = Len(task)
  <2>1. CASE k \in DOMAIN task
    <3>1. task[k] \in Row /\ "failed" \in Live \cup Ended
          BY <1>2, <2>1 DEF Ended
    <3>2. row \in Row
          BY <1>1, <3>1, Zenon DEF Row
    <3>. QED  BY <1>1, <1>2, <3>2, RowTypes DEF SlotInv
  <2>2. CASE k \notin DOMAIN task
    <3>1. task' = task
          BY <1>2, <2>2
    <3>. QED  BY <1>2, <3>1
  <2>. QED  BY <2>1, <2>2
<1>. QED  BY <1>3 DEF ForceWrite, SlotInv, TypeOK, Unused, At, history

LEMMA RestartKeepsTypes == SlotInv /\ Restart => TypeOK' /\ Unused'
<1> SUFFICES ASSUME SlotInv, Restart PROVE TypeOK' /\ Unused'
    OBVIOUS
<1>1. \A k \in DOMAIN task : ReconciledRow(k) \in Row
  <2>1. ASSUME NEW k \in DOMAIN task PROVE ReconciledRow(k) \in Row
    <3>1. task[k] \in Row
          BY DEF SlotInv, TypeOK
    <3>2. [task[k] EXCEPT !.status = "failed"] \in Row
          BY <3>1 DEF Row, Ended
    <3>. QED  BY <3>1, <3>2 DEF ReconciledRow
  <2>. QED  BY <2>1
<1>2. task' \in Seq(Row) /\ Len(task') = Len(task)
  <2>1. DOMAIN task = 1 .. Len(task) /\ Len(task) \in Nat
        BY DEF SlotInv, TypeOK
  <2>2. task' = [k \in 1 .. Len(task) |-> ReconciledRow(k)]
        BY <2>1 DEF Restart
  <2>3. \A k \in 1 .. Len(task) : ReconciledRow(k) \in Row
        BY <1>1, <2>1
  <2>. QED  BY <2>1, <2>2, <2>3
<1>3. survivors' \in [Agents -> Nat]
  <2>1. \A a \in Agents : survivors[a] \in Nat /\ Cardinality(Processes(a)) \in Nat
        BY ThreadSets, SlotSets DEF SlotInv, TypeOK
  <2>. QED  BY <2>1 DEF Restart, SlotInv, TypeOK
<1>. QED  BY <1>2, <1>3, NoJobType DEF Restart, SlotInv, TypeOK, Unused, At

LEMMA NextKeepsTypes == SlotInv /\ [Next]_vars => TypeOK' /\ Unused'
<1> SUFFICES ASSUME SlotInv, [Next]_vars PROVE TypeOK' /\ Unused'
    OBVIOUS
<1>1. ASSUME NEW t \in TaskIds, Step(t)
      PROVE  TypeOK' /\ Unused'
      BY <1>1, PlainStepKeepsTypes, EndKeepsTypes, FinishKeepsTypes, HopKeepsTypes,
         RequestKeepsTypes DEF Step, Slot
<1>2. CASE Request
      BY <1>2, RunKeepsTypes, RequestKeepsTypes, ForceWriteKeepsTypes DEF Request
<1>3. CASE World
      BY <1>3, PlainStepKeepsTypes, HoldsKeepsTypes, RequestKeepsTypes,
         RestartKeepsTypes DEF World
<1>4. CASE UNCHANGED vars
      BY <1>4 DEF vars, SlotInv, TypeOK, Unused, At
<1>. QED  BY <1>1, <1>2, <1>3, <1>4 DEF Next

-----------------------------------------------------------------------------
(* Steps that no slot is touched by: a thread that holds one, sleeps for one *)
(* or is woken for one stays as it is, and nobody else becomes such a thread.*)

Placed(t) == job[t].pc \in {"process", "asleep", "woken"} /\ Agent(t) \in Slotted

Quiet ==
    /\ count' = count
    /\ \A t \in TaskIds :
         \/ job'[t].pc = job[t].pc /\ job'[t].entry = job[t].entry
         \/ ~Placed(t) /\ ~Placed(t)'

SlotParts == SlotsExact /\ SlotCap /\ NoLostWakeup

LEMMA QuietKeepsSlots ==
    ASSUME SlotInv, Quiet
    PROVE  SlotParts'
<1>1. ASSUME NEW a \in Slotted
      PROVE  /\ Processes(a)' = Processes(a)
             /\ Sleepers(a)' = Sleepers(a)
             /\ Woken(a)' = Woken(a)
      BY <1>1 DEF Quiet, Placed, Processes, Sleepers, Woken, At, Agent
<1>2. SlotsExact'
      BY <1>1 DEF Quiet, SlotInv, SlotsExact
<1>3. SlotCap'
      BY <1>1 DEF SlotInv, SlotCap
<1>4. NoLostWakeup'
      BY <1>1 DEF Quiet, SlotInv, NoLostWakeup
<1>. QED  BY <1>2, <1>3, <1>4 DEF SlotParts

LEMMA GotoQuiet ==
    ASSUME SlotInv, NEW t \in TaskIds, NEW pc, Goto(t, pc), count' = count,
           job[t].pc \notin {"process", "asleep", "woken"},
           pc \notin {"process", "asleep", "woken"} \/ Agent(t) \notin Slotted
    PROVE  Quiet
<1>1. /\ job[t] \in Job /\ job'[t].pc = pc /\ job'[t].entry = job[t].entry
      /\ \A u \in TaskIds \ {t} : job'[u] = job[u]
      BY DEF SlotInv, TypeOK, Goto, Job
<1>. QED  BY <1>1 DEF Quiet, Placed, Agent

LEMMA QuietSteps ==
    ASSUME SlotInv, NEW t \in TaskIds,
           \/ Launch(t) \/ Setup(t) \/ SetupFails(t) \/ Prepare(t) \/ PrepareFails(t)
           \/ Breaks(t) \/ Unslotted(t) \/ Finish(t) \/ NoHop(t)
    PROVE  SlotParts'
<1>1. CASE Launch(t)
      BY <1>1, GotoQuiet, QuietKeepsSlots DEF Launch, At
<1>2. CASE Setup(t)
      BY <1>2, GotoQuiet, QuietKeepsSlots DEF Setup, At
<1>3. CASE SetupFails(t) \/ PrepareFails(t)
      BY <1>3, GotoQuiet, QuietKeepsSlots DEF SetupFails, PrepareFails, At
<1>4. CASE Prepare(t) \/ Unslotted(t)
      BY <1>4, GotoQuiet, QuietKeepsSlots DEF Prepare, Unslotted, At
<1>5. CASE Breaks(t)
      BY <1>5, GotoQuiet, QuietKeepsSlots DEF Breaks, At
<1>6. CASE Finish(t)
      BY <1>6, GotoQuiet, QuietKeepsSlots DEF Finish, At
<1>7. CASE NoHop(t)
      BY <1>7, GotoQuiet, QuietKeepsSlots DEF NoHop, At
<1>. QED  BY <1>1, <1>2, <1>3, <1>4, <1>5, <1>6, <1>7

LEMMA QuietRequests ==
    ASSUME SlotInv, NEW t \in TaskIds,
           \/ Return(t) \/ LaunchBreaks(t) \/ Cancel(t)
           \/ ForceRead(t) \/ Cleanup(t)
    PROVE  SlotParts'
<1>1. CASE Return(t) \/ LaunchBreaks(t)
  <2>1. /\ job[t].pc \in {"return", "launch"} /\ job'[t].pc = "none"
        /\ \A u \in TaskIds \ {t} : job'[u] = job[u]
        BY <1>1, NoJobType DEF Return, LaunchBreaks, At, SlotInv, TypeOK
  <2>. QED  BY <1>1, <2>1, QuietKeepsSlots DEF Quiet, Return, LaunchBreaks, Placed
<1>2. CASE Cancel(t)
  <2>1. \A u \in TaskIds : job'[u].pc = job[u].pc /\ job'[u].entry = job[u].entry
        BY <1>2 DEF Cancel, SlotInv, TypeOK, Job
  <2>. QED  BY <1>2, <2>1, QuietKeepsSlots DEF Quiet, Cancel
<1>3. CASE ForceRead(t) \/ Cleanup(t)
      BY <1>3, QuietKeepsSlots DEF Quiet, ForceRead, Cleanup
<1>. QED  BY <1>1, <1>2, <1>3

LEMMA QuietWrite ==
    ASSUME SlotInv, NEW read \in forcing, ForceWrite(read)
    PROVE  SlotParts'
  BY QuietKeepsSlots DEF Quiet, ForceWrite

LEMMA QuietAccount ==
    ASSUME SlotInv, NEW e \in Entries, AccountSetStatus(e)
    PROVE  SlotParts'
  BY QuietKeepsSlots DEF Quiet, AccountSetStatus

LEMMA QuietHold ==
    ASSUME SlotInv, NEW t \in TaskIds, HelperHolds(t)
    PROVE  SlotParts'
  BY HoldsChanges, QuietKeepsSlots DEF Quiet, HelperHolds

LEMMA QuietSurvivor ==
    ASSUME SlotInv, NEW a \in Agents, SurvivorEnds(a)
    PROVE  SlotParts'
  BY QuietKeepsSlots DEF Quiet, SurvivorEnds

\* A new row: a thread begins, or goes on with the next entry.
LEMMA NewRowQuiet ==
    ASSUME SlotInv, NEW t \in TaskIds, count' = count,
           job[t].pc \in {"none", "failover"}, job'[t].pc \in {"launch", "setup"},
           \A u \in TaskIds \ {t} : job'[u] = job[u]
    PROVE  SlotParts'
<1>1. Quiet
      BY DEF Quiet, Placed
<1>. QED  BY <1>1, QuietKeepsSlots

LEMMA QuietRun ==
    ASSUME SlotInv, NEW e \in Starts, NEW background \in BOOLEAN,
           NEW use_tree \in TreeChoices, NEW failover \in FailoverChoices,
           Run(e, background, use_tree, failover)
    PROVE  SlotParts'
<1> DEFINE t == Len(task) + 1
           begun == [NoJob EXCEPT !.pc = IF background THEN "launch" ELSE "setup",
                                  !.row = t, !.entry = e, !.background = background,
                                  !.use_tree = use_tree, !.failover = failover]
<1>1. t \in TaskIds /\ job' = [job EXCEPT ![t] = begun] /\ count' = count
      BY DEF Run
<1>2. job[t].pc = "none"
  <2>1. Len(task) \in Nat
        BY DEF SlotInv, TypeOK
  <2>. QED  BY <1>1, <2>1 DEF SlotInv, Unused, At
<1>3. begun.pc = IF background THEN "launch" ELSE "setup"
      BY NoJobType DEF Job
<1>4. job'[t] = begun /\ \A u \in TaskIds \ {t} : job'[u] = job[u]
      BY <1>1 DEF SlotInv, TypeOK
<1>5. job'[t].pc \in {"launch", "setup"}
      BY <1>3, <1>4
<1> HIDE DEF t
<1>. QED  BY <1>1, <1>2, <1>4, <1>5, NewRowQuiet

LEMMA QuietHop ==
    ASSUME SlotInv, NEW t \in TaskIds, Hop(t)
    PROVE  SlotParts'
<1>1. PICK next : job' = [job EXCEPT ![t].pc = "setup", ![t].row = Len(task) + 1,
                                     ![t].entry = next]
      BY DEF Hop
<1>2. job'[t].pc = "setup" /\ \A u \in TaskIds \ {t} : job'[u] = job[u]
      BY <1>1 DEF SlotInv, TypeOK, Job
<1>3. job[t].pc = "failover" /\ count' = count
      BY DEF Hop, At
<1>. QED  BY <1>2, <1>3, NewRowQuiet

-----------------------------------------------------------------------------
(* Steps at the slots of one agent. *)

\* What is left to show when only the threads of one agent move.
LEMMA OneAgent ==
    ASSUME SlotInv, NEW a \in Slotted,
           \A t \in TaskIds : /\ job'[t].entry = job[t].entry
                              /\ Agent(t) # a => job'[t].pc = job[t].pc,
           \A b \in Slotted \ {a} : count'[b] = count[b],
           count'[a] = Cardinality(Processes(a)'),
           Cardinality(Processes(a)') <= Limit[a],
           Sleepers(a)' # {} => count'[a] + Cardinality(Woken(a)') >= Limit[a]
    PROVE  SlotParts'
<1>1. ASSUME NEW b \in Slotted \ {a}
      PROVE  /\ Processes(b)' = Processes(b)
             /\ Sleepers(b)' = Sleepers(b)
             /\ Woken(b)' = Woken(b)
      BY DEF Processes, Sleepers, Woken, At, Agent
<1>2. SlotsExact'
      BY <1>1 DEF SlotInv, SlotsExact
<1>3. SlotCap'
      BY <1>1 DEF SlotInv, SlotCap
<1>4. NoLostWakeup'
      BY <1>1 DEF SlotInv, NoLostWakeup
<1>. QED  BY <1>2, <1>3, <1>4 DEF SlotParts

\* The numbers of an agent.
LEMMA SlotNumbers ==
    ASSUME SlotInv, NEW a \in Slotted
    PROVE  /\ count[a] \in Nat /\ Limit[a] \in Nat
           /\ count[a] = Cardinality(Processes(a)) /\ count[a] <= Limit[a]
           /\ IsFiniteSet(Processes(a)) /\ IsFiniteSet(Woken(a))
           /\ Cardinality(Woken(a)) \in Nat
           /\ Sleepers(a) # {} => count[a] + Cardinality(Woken(a)) >= Limit[a]
<1>1. count[a] \in Nat /\ Limit[a] \in Nat
      BY TaskRunnerAssumption DEF SlotInv, TypeOK
<1>2. IsFiniteSet(Processes(a)) /\ IsFiniteSet(Woken(a))
      /\ Cardinality(Woken(a)) \in Nat
      BY SlotSets, ThreadSets
<1>. QED  BY <1>1, <1>2 DEF SlotInv, SlotsExact, SlotCap, NoLostWakeup

\* What a move does to the sets of threads.
LEMMA GotoSets ==
    ASSUME SlotInv, NEW t \in TaskIds, NEW pc, Goto(t, pc)
    PROVE  /\ \A u \in TaskIds : job'[u].entry = job[u].entry
           /\ \A u \in TaskIds \ {t} : job'[u] = job[u]
           /\ job'[t].pc = pc
  BY DEF SlotInv, TypeOK, Goto, Job

LEMMA AcquireKeepsSlots ==
    ASSUME SlotInv, NEW t \in TaskIds, Acquire(t)
    PROVE  SlotParts'
<1>0. PICK a \in Slotted : a = Agent(t)
      BY DEF Acquire
<1>1. count[a] < Limit[a] /\ job[t].pc \in {"acquire", "woken"}
      BY <1>0 DEF Acquire, SlotFree, WaitsForSlot
<1>2. /\ \A u \in TaskIds : job'[u].entry = job[u].entry
      /\ \A u \in TaskIds \ {t} : job'[u] = job[u]
      /\ job'[t].pc = "process"
      BY GotoSets DEF Acquire
<1>3. count'[a] = count[a] + 1 /\ \A b \in Slotted \ {a} : count'[b] = count[b]
      BY <1>0, <1>1 DEF Acquire, SlotInv, TypeOK
<1>4. Processes(a)' = Processes(a) \cup {t} /\ t \notin Processes(a)
      BY <1>0, <1>1, <1>2 DEF Processes, At, Agent
<1>5. Sleepers(a)' = Sleepers(a) /\ Woken(a)' = Woken(a) \ {t}
      BY <1>0, <1>1, <1>2 DEF Sleepers, Woken, At, Agent
<1>6. Cardinality(Processes(a)') = count[a] + 1
  <2>1. IsFiniteSet(Processes(a)) /\ count[a] = Cardinality(Processes(a))
        BY SlotNumbers
  <2>. QED  BY <1>4, <2>1, FS_AddElement
<1>7. Cardinality(Woken(a)') + 1 >= Cardinality(Woken(a))
      /\ Cardinality(Woken(a)') \in Nat
  <2>1. Cardinality(Woken(a)') \in Nat
        BY <1>0, <1>5, SlotSets, ThreadSets
  <2>2. IsFiniteSet(Woken(a)) /\ Cardinality(Woken(a)) \in Nat
        BY SlotNumbers
  <2>3. Cardinality(Woken(a) \ {t}) = IF t \in Woken(a) THEN Cardinality(Woken(a)) - 1
                                      ELSE Cardinality(Woken(a))
        BY <2>2, FS_RemoveElement
  <2>. QED  BY <1>5, <2>1, <2>2, <2>3
<1>8. Sleepers(a)' # {} => count'[a] + Cardinality(Woken(a)') >= Limit[a]
      BY <1>0, <1>1, <1>3, <1>5, <1>7, SlotNumbers
<1>9. count'[a] = Cardinality(Processes(a)') /\ Cardinality(Processes(a)') <= Limit[a]
      BY <1>0, <1>1, <1>3, <1>6, SlotNumbers
<1>10. \A u \in TaskIds : Agent(u) # a => job'[u].pc = job[u].pc
      BY <1>0, <1>2
<1>. QED  BY <1>0, <1>1, <1>2, <1>3, <1>8, <1>9, <1>10, OneAgent

LEMMA WaitKeepsSlots ==
    ASSUME SlotInv, NEW t \in TaskIds, Wait(t)
    PROVE  SlotParts'
<1>0. PICK a \in Slotted : a = Agent(t)
      BY DEF Wait
<1>1. ~(count[a] < Limit[a]) /\ job[t].pc \in {"acquire", "woken"} /\ count' = count
      BY <1>0 DEF Wait, SlotFree, WaitsForSlot
<1>2. /\ \A u \in TaskIds : job'[u].entry = job[u].entry
      /\ \A u \in TaskIds \ {t} : job'[u] = job[u]
      /\ job'[t].pc = "asleep"
      BY GotoSets DEF Wait
<1>3. Processes(a)' = Processes(a)
      BY <1>0, <1>1, <1>2 DEF Processes, At, Agent
<1>4. Cardinality(Woken(a)') \in Nat
  <2>1. Woken(a)' \in SUBSET TaskIds
        BY DEF Woken
  <2>. QED  BY <1>0, <2>1, ThreadSets
<1>5. count'[a] + Cardinality(Woken(a)') >= Limit[a]
      BY <1>0, <1>1, <1>4, SlotNumbers
<1>6. count'[a] = Cardinality(Processes(a)') /\ Cardinality(Processes(a)') <= Limit[a]
      BY <1>0, <1>1, <1>3, SlotNumbers
<1>7. \A u \in TaskIds : Agent(u) # a => job'[u].pc = job[u].pc
      BY <1>0, <1>2
<1>. QED  BY <1>0, <1>1, <1>2, <1>5, <1>6, <1>7, OneAgent

LEMMA WakeupKeepsSlots ==
    ASSUME SlotInv, NEW t \in TaskIds, SpuriousWakeup(t)
    PROVE  SlotParts'
<1>1. job[t].pc = "asleep" /\ count' = count
      BY DEF SpuriousWakeup, At
<1>2. /\ \A u \in TaskIds : job'[u].entry = job[u].entry
      /\ \A u \in TaskIds \ {t} : job'[u] = job[u]
      /\ job'[t].pc = "woken"
      BY GotoSets DEF SpuriousWakeup
<1>3. CASE Agent(t) \notin Slotted
  <2>1. Quiet
        BY <1>1, <1>2, <1>3 DEF Quiet, Placed, Agent
  <2>. QED  BY <2>1, QuietKeepsSlots
<1>4. CASE Agent(t) \in Slotted
  <2>0. PICK a \in Slotted : a = Agent(t)
        BY <1>4
  <2>1. Processes(a)' = Processes(a)
        BY <2>0, <1>1, <1>2 DEF Processes, At, Agent
  <2>2. t \in Sleepers(a) /\ t \notin Woken(a) /\ Woken(a)' = Woken(a) \cup {t}
        BY <2>0, <1>1, <1>2 DEF Sleepers, Woken, At, Agent
  <2>3. Cardinality(Woken(a)') = Cardinality(Woken(a)) + 1
    <3>1. IsFiniteSet(Woken(a))
          BY SlotNumbers
    <3>. QED  BY <2>2, <3>1, FS_AddElement
  <2>4. count'[a] + Cardinality(Woken(a)') >= Limit[a]
    <3>1. count[a] + Cardinality(Woken(a)) >= Limit[a]
          BY <2>0, <2>2, SlotNumbers
    <3>. QED  BY <2>0, <1>1, <1>4, <2>3, <3>1, SlotNumbers
  <2>5. count'[a] = Cardinality(Processes(a)')
        /\ Cardinality(Processes(a)') <= Limit[a]
        BY <2>0, <1>1, <1>4, <2>1, SlotNumbers
  <2>6. \A u \in TaskIds : Agent(u) # a => job'[u].pc = job[u].pc
        BY <2>0, <1>2
  <2>. QED  BY <2>0, <1>1, <1>2, <1>4, <2>4, <2>5, <2>6, OneAgent
<1>. QED  BY <1>3, <1>4

\* The end of a process that woke nobody, or one sleeper of its own agent.
LEMMA EndKeepsSlots ==
    ASSUME SlotInv, NEW t \in TaskIds, ProcessEnds(t)
    PROVE  SlotParts'
<1>0. PICK a \in Slotted : a = Agent(t)
      BY DEF ProcessEnds
<1>1. job[t].pc = "process"
      BY DEF ProcessEnds, At
<1>2. count'[a] = count[a] - 1 /\ \A b \in Slotted \ {a} : count'[b] = count[b]
      BY <1>0, <1>1 DEF ProcessEnds, SlotInv, TypeOK
<1>3. count[a] \in Nat \ {0}
      BY <1>0, <1>1, SlotHeld DEF At
<1>4. PICK o : \/ Sleepers(a) = {} /\ job' = WithOutcome(t, o)
               \/ \E s \in Sleepers(a) :
                     job' = [WithOutcome(t, o) EXCEPT ![s].pc = "woken"]
      BY <1>0 DEF ProcessEnds
<1>5. /\ \A u \in TaskIds : WithOutcome(t, o)[u].entry = job[u].entry
      /\ \A u \in TaskIds \ {t} : WithOutcome(t, o)[u] = job[u]
      /\ WithOutcome(t, o)[t].pc = "finish"
      /\ WithOutcome(t, o) = [u \in TaskIds |-> WithOutcome(t, o)[u]]
      /\ DOMAIN WithOutcome(t, o)[t] = DOMAIN job[t]
      BY DEF WithOutcome, SlotInv, TypeOK, Job
<1>6. CASE Sleepers(a) = {} /\ job' = WithOutcome(t, o)
  <2>1. Processes(a)' = Processes(a) \ {t} /\ t \in Processes(a)
        BY <1>0, <1>1, <1>5, <1>6 DEF Processes, At, Agent
  <2>2. Sleepers(a)' = {}
        BY <1>0, <1>1, <1>5, <1>6 DEF Sleepers, At, Agent
  <2>3. Cardinality(Processes(a)') = count[a] - 1
    <3>1. IsFiniteSet(Processes(a)) /\ count[a] = Cardinality(Processes(a))
          BY SlotNumbers
    <3>. QED  BY <2>1, <3>1, FS_RemoveElement
  <2>4. count'[a] = Cardinality(Processes(a)')
        /\ Cardinality(Processes(a)') <= Limit[a]
        BY <1>0, <1>1, <1>2, <1>3, <2>3, SlotNumbers
  <2>5. \A u \in TaskIds : /\ job'[u].entry = job[u].entry
                           /\ Agent(u) # a => job'[u].pc = job[u].pc
        BY <1>0, <1>1, <1>5, <1>6
  <2>. QED  BY <1>0, <1>1, <1>2, <2>2, <2>4, <2>5, OneAgent
<1>7. ASSUME NEW s \in Sleepers(a),
             job' = [WithOutcome(t, o) EXCEPT ![s].pc = "woken"]
      PROVE  SlotParts'
  <2>1. s \in TaskIds /\ job[s].pc = "asleep" /\ Agent(s) = a /\ s # t
        BY <1>0, <1>1 DEF Sleepers, At
  <2>2. /\ \A u \in TaskIds \ {s} : job'[u] = WithOutcome(t, o)[u]
        /\ job'[s] = [job[s] EXCEPT !.pc = "woken"]
        BY <1>5, <1>7, <2>1
  <2>3. job'[s].pc = "woken" /\ job'[s].entry = job[s].entry
        BY <2>1, <2>2 DEF SlotInv, TypeOK, Job
  <2>4. /\ \A u \in TaskIds : job'[u].entry = job[u].entry
        /\ \A u \in TaskIds \ {s, t} : job'[u] = job[u]
        /\ job'[t].pc = "finish"
    <3>1. \A u \in TaskIds \ {s} : job'[u].entry = job[u].entry
          BY <1>5, <2>2
    <3>2. \A u \in TaskIds \ {s, t} : job'[u] = job[u]
          BY <1>5, <2>2
    <3>3. job'[t].pc = "finish"
          BY <1>5, <2>1, <2>2
    <3>. QED  BY <2>3, <3>1, <3>2, <3>3
  <2>5. Processes(a)' = Processes(a) \ {t} /\ t \in Processes(a)
        BY <1>0, <1>1, <2>1, <2>3, <2>4 DEF Processes, At, Agent
  <2>6. Woken(a)' = Woken(a) \cup {s} /\ s \notin Woken(a)
        BY <1>0, <1>1, <2>1, <2>3, <2>4 DEF Woken, At, Agent
  <2>7. Cardinality(Processes(a)') = count[a] - 1
    <3>1. IsFiniteSet(Processes(a)) /\ count[a] = Cardinality(Processes(a))
          BY SlotNumbers
    <3>. QED  BY <2>5, <3>1, FS_RemoveElement
  <2>8. Cardinality(Woken(a)') = Cardinality(Woken(a)) + 1
    <3>1. IsFiniteSet(Woken(a))
          BY SlotNumbers
    <3>. QED  BY <2>6, <3>1, FS_AddElement
  <2>9. count'[a] = Cardinality(Processes(a)')
        /\ Cardinality(Processes(a)') <= Limit[a]
        BY <1>0, <1>1, <1>2, <1>3, <2>7, SlotNumbers
  <2>10. count'[a] + Cardinality(Woken(a)') >= Limit[a]
    <3>1. count[a] + Cardinality(Woken(a)) >= Limit[a]
          BY <1>0, <1>1, <1>7, SlotNumbers
    <3>. QED  BY <1>0, <1>1, <1>2, <1>3, <2>8, <3>1, SlotNumbers
  <2>11. \A u \in TaskIds : /\ job'[u].entry = job[u].entry
                            /\ Agent(u) # a => job'[u].pc = job[u].pc
        BY <1>0, <1>1, <2>1, <2>3, <2>4
  <2>. QED  BY <1>0, <1>1, <1>2, <2>9, <2>10, <2>11, OneAgent
<1>. QED  BY <1>0, <1>4, <1>6, <1>7

LEMMA UnslottedEndQuiet ==
    ASSUME SlotInv, NEW t \in TaskIds, UnslottedEnds(t)
    PROVE  SlotParts'
<1>1. PICK o : job' = WithOutcome(t, o)
      BY DEF UnslottedEnds
<1>2. /\ \A u \in TaskIds \ {t} : job'[u] = job[u]
      /\ job'[t].entry = job[t].entry
      BY <1>1 DEF WithOutcome, SlotInv, TypeOK, Job
<1>3. Agent(t) \notin Slotted /\ count' = count
      BY DEF UnslottedEnds
<1>4. Quiet
      BY <1>2, <1>3 DEF Quiet, Placed, Agent
<1>. QED  BY <1>4, QuietKeepsSlots

\* After a restart nobody holds a slot and nobody waits for one.
LEMMA NoThreads ==
    ASSUME job' = [t \in TaskIds |-> NoJob], count' = [a \in Slotted |-> 0]
    PROVE  SlotParts'
<1>1. \A t \in TaskIds : job'[t].pc = "none"
      BY NoJobType
<1>2. \A a \in Slotted : Processes(a)' = {} /\ Sleepers(a)' = {}
      BY <1>1 DEF Processes, Sleepers, At
<1>3. \A a \in Slotted : Cardinality(Processes(a)') = 0 /\ Limit[a] >= 0
  <2>1. ASSUME NEW a \in Slotted
        PROVE  Cardinality(Processes(a)') = 0 /\ Limit[a] \in Nat
    <3>1. Processes(a)' = {}
          BY <1>2
    <3>. QED  BY <3>1, FS_EmptySet, TaskRunnerAssumption
  <2>. QED  BY <2>1
<1>. QED  BY <1>2, <1>3 DEF SlotParts, SlotsExact, SlotCap, NoLostWakeup

LEMMA NextKeepsSlots == SlotInv /\ [Next]_vars => SlotParts'
<1> SUFFICES ASSUME SlotInv, [Next]_vars PROVE SlotParts'
    OBVIOUS
<1>1. ASSUME NEW t \in TaskIds, Step(t)
      PROVE  SlotParts'
      BY <1>1, QuietSteps, QuietRequests, QuietHop, AcquireKeepsSlots, WaitKeepsSlots,
         EndKeepsSlots, UnslottedEndQuiet DEF Step, Slot
<1>2. CASE Request
      BY <1>2, QuietRun, QuietRequests, QuietWrite, QuietAccount DEF Request
<1>3. CASE World
      BY <1>3, WakeupKeepsSlots, QuietHold, QuietSurvivor, NoThreads DEF World, Restart
<1>4. CASE UNCHANGED vars
      BY <1>4, QuietKeepsSlots DEF vars, Quiet
<1>. QED  BY <1>1, <1>2, <1>3, <1>4 DEF Next

-----------------------------------------------------------------------------
(* The theorems. *)

LEMMA InitSlots == Init => SlotInv
<1> SUFFICES ASSUME Init PROVE SlotInv
    OBVIOUS
<1>1. \A t \in TaskIds : job[t].pc = "none"
      BY NoJobType DEF Init
<1>2. \A a \in Slotted : Processes(a) = {} /\ Sleepers(a) = {}
      BY <1>1 DEF Processes, Sleepers, At
<1>3. \A a \in Slotted : Cardinality(Processes(a)) = 0 /\ Limit[a] >= 0
  <2>1. ASSUME NEW a \in Slotted
        PROVE  Cardinality(Processes(a)) = 0 /\ Limit[a] \in Nat
    <3>1. Processes(a) = {}
          BY <1>2
    <3>. QED  BY <3>1, FS_EmptySet, TaskRunnerAssumption
  <2>. QED  BY <2>1
<1>4. count = [a \in Slotted |-> 0]
      BY DEF Init
<1>5. SlotsExact /\ SlotCap /\ NoLostWakeup
      BY <1>2, <1>3, <1>4 DEF SlotsExact, SlotCap, NoLostWakeup
<1>. QED  BY <1>5, InitType DEF SlotInv

LEMMA SlotsInductive == Spec => []SlotInv
<1>1. SlotInv /\ [Next]_vars => SlotInv'
      BY NextKeepsTypes, NextKeepsSlots DEF SlotInv, SlotParts
<1>. QED  BY InitSlots, <1>1, PTL DEF Spec

\* Whatever requests, hops, forced ends and restarts come in whatever order,
\* every row, thread, flag and counter keeps the type of its column.
THEOREM TaskTypesCorrect == Spec => []TypeOK
<1>1. SlotInv => TypeOK
      BY DEF SlotInv
<1>. QED  BY <1>1, SlotsInductive, PTL

\* For any number of threads and any max_concurrency, the daemon never runs
\* more processes of an agent than that at once (acquire_agent_slot and the
\* drop of its guard).
THEOREM SlotsNeverExceeded == Spec => []SlotCap
<1>1. SlotInv => SlotCap
      BY DEF SlotInv
<1>. QED  BY <1>1, SlotsInductive, PTL

\* No thread sleeps on the condition variable of an agent beside a slot that
\* is neither taken nor promised to a woken thread: notify_one is enough.
THEOREM NoWakeupLost == Spec => []NoLostWakeup
<1>1. SlotInv => NoLostWakeup
      BY DEF SlotInv
<1>. QED  BY <1>1, SlotsInductive, PTL

-----------------------------------------------------------------------------
(* Rows and threads: WorkInv is inductive.  Each action has one of a few      *)
(* shapes, and a lemma says what each shape keeps.                            *)

WorkParts == /\ OwnRows /\ EndedByThread /\ SomebodyWorks
             /\ TreeUnnamed /\ TreeKept
             /\ OfRows /\ Follows

\* The rows, as the table has them.
LEMMA Rows ==
    ASSUME SlotInv
    PROVE  /\ Len(task) \in Nat /\ DOMAIN task = 1 .. Len(task)
           /\ \A k \in DOMAIN task : task[k] \in Row
  BY DEF SlotInv, TypeOK

\* A row in the place of another.
LEMMA RowWritten ==
    ASSUME SlotInv, NEW k \in DOMAIN task, NEW row,
           task' = [task EXCEPT ![k] = row]
    PROVE  /\ DOMAIN task' = DOMAIN task /\ task'[k] = row
           /\ \A i \in DOMAIN task \ {k} : task'[i] = task[i]
  BY DEF SlotInv, TypeOK

\* A row that only gets another status.
LEMMA StatusWritten ==
    ASSUME SlotInv, NEW k \in DOMAIN task, NEW s, SetRow(k, s)
    PROVE  /\ DOMAIN task' = DOMAIN task
           /\ \A i \in DOMAIN task \ {k} : task'[i] = task[i]
           /\ task'[k].status = s
           /\ task'[k].limited = task[k].limited /\ task'[k].tree = task[k].tree
           /\ task'[k].entry = task[k].entry /\ task'[k].parent = task[k].parent
<1>1. task[k] \in Row
      BY Rows
<1>. QED  BY <1>1 DEF Row, SetRow

\* What a thread that goes to another place keeps.
LEMMA GotoFields ==
    ASSUME SlotInv, NEW t \in TaskIds, NEW pc, Goto(t, pc)
    PROVE  /\ \A u \in TaskIds \ {t} : job'[u] = job[u]
           /\ job'[t].pc = pc /\ job'[t].row = job[t].row
           /\ job'[t].entry = job[t].entry /\ job'[t].use_tree = job[t].use_tree
           /\ job'[t].outcome = job[t].outcome /\ job'[t].failover = job[t].failover
<1>1. job[t] \in Job
      BY DEF SlotInv, TypeOK
<1>. QED  BY <1>1 DEF SlotInv, TypeOK, Goto, Job

Remembered == <<lost, forced, forcing>>

\* No row is written, and threads only move about while they are at work.
LEMMA StillKeeps ==
    ASSUME WorkInv, task' = task, UNCHANGED Remembered, trees' = trees,
           \A u \in TaskIds :
              /\ job'[u].row = job[u].row /\ job'[u].entry = job[u].entry
              /\ job'[u].use_tree = job[u].use_tree
              /\ \/ job'[u].pc = job[u].pc
                 \/ job[u].pc \in AtWork /\ job'[u].pc \in AtWork
    PROVE  WorkParts'
<1> USE DEF WorkInv, Remembered, At, AtWork, Leaving, Busy, Working
<1>1. OwnRows'
      BY DEF OwnRows
<1>2. EndedByThread'
      BY DEF EndedByThread, IsLive
<1>3. SomebodyWorks'
      BY DEF SomebodyWorks
<1>4. TreeUnnamed'
      BY DEF TreeUnnamed
<1>5. TreeKept'
      BY DEF TreeKept
<1>6. OfRows' /\ Follows'
      BY DEF OfRows, Follows
<1>. QED  BY <1>1, <1>2, <1>3, <1>4, <1>5, <1>6 DEF WorkParts

\* A thread is done with its row, which has ended by now or is given up.
LEMMA LeavingKeeps ==
    ASSUME WorkInv, NEW t \in TaskIds, Busy(t),
           \A u \in TaskIds \ {t} : job'[u] = job[u],
           job'[t].row = job[t].row, job'[t].entry = job[t].entry,
           job'[t].pc \in Leaving,
           DOMAIN task' = DOMAIN task,
           \A k \in DOMAIN task \ {job[t].row} : task'[k] = task[k],
           task'[job[t].row].entry = task[job[t].row].entry,
           task'[job[t].row].parent = task[job[t].row].parent,
           task'[job[t].row].status \in Ended \/ job[t].row \in lost',
           task'[job[t].row].status \in Live => ~task'[job[t].row].limited,
           lost \subseteq lost', lost' \subseteq lost \cup {job[t].row},
           forced' = forced, forcing' = forcing, trees' = trees
    PROVE  WorkParts'
<1> USE DEF WorkInv, At, Leaving, Busy, Working
<1>0. job[t].row \in DOMAIN task
      BY DEF OwnRows
<1>1. OwnRows'
  <2>1. \A k \in DOMAIN task : task'[k].entry = task[k].entry
        OBVIOUS
  <2>. QED  BY <2>1 DEF OwnRows
<1>2. EndedByThread'
  <2>1. \A u \in TaskIds \ {t} : Busy(u) => job[u].row # job[t].row
        BY DEF OwnRows
  <2>. QED  BY <2>1 DEF EndedByThread, OwnRows, IsLive
<1>3. SomebodyWorks'
      BY DEF SomebodyWorks
<1>4. TreeUnnamed'
  <2>1. \A u \in TaskIds \ {t} : Busy(u) => job[u].row # job[t].row
        BY DEF OwnRows
  <2>. QED  BY <2>1 DEF TreeUnnamed, OwnRows
<1>5. TreeKept'
      BY DEF TreeKept, AtWork
<1>6. OfRows'
      BY <1>0 DEF OfRows
<1>7. Follows'
  <2>1. \A k \in DOMAIN task : /\ task'[k].entry = task[k].entry
                               /\ task'[k].parent = task[k].parent
        OBVIOUS
  <2>. QED  BY <2>1 DEF Follows
<1>. QED  BY <1>1, <1>2, <1>3, <1>4, <1>5, <1>6, <1>7 DEF WorkParts

\* A thread marks its row running and goes on.
LEMMA GoingOnKeeps ==
    ASSUME WorkInv, NEW t \in TaskIds, Working(t),
           \A u \in TaskIds \ {t} : job'[u] = job[u],
           job'[t].row = job[t].row, job'[t].entry = job[t].entry,
           job'[t].use_tree = job[t].use_tree,
           job'[t].pc \in AtWork \cup {"setup"},
           SetRow(job[t].row, "running"),
           trees \subseteq trees',
           job'[t].pc \in AtWork /\ job[t].use_tree => job[t].row \in trees',
           UNCHANGED Remembered
    PROVE  WorkParts'
<1> USE DEF WorkInv, At, AtWork, Leaving, Busy, Working, Remembered
<1>0. job[t].row \in DOMAIN task
      BY DEF OwnRows
<1>1. /\ DOMAIN task' = DOMAIN task
      /\ \A i \in DOMAIN task \ {job[t].row} : task'[i] = task[i]
      /\ task'[job[t].row].status = "running"
      /\ \A i \in DOMAIN task :
            /\ task'[i].limited = task[i].limited /\ task'[i].tree = task[i].tree
            /\ task'[i].entry = task[i].entry /\ task'[i].parent = task[i].parent
      BY <1>0, StatusWritten, Zenon
<1>2. \A u \in TaskIds \ {t} : Busy(u) => job[u].row # job[t].row
      BY DEF OwnRows
<1>3. OwnRows'
      BY <1>1 DEF OwnRows
<1>4. EndedByThread'
      BY <1>0, <1>1, <1>2 DEF EndedByThread, OwnRows, IsLive, Live
<1>5. SomebodyWorks'
      BY <1>1 DEF SomebodyWorks
<1>6. TreeUnnamed'
      BY <1>1 DEF TreeUnnamed, OwnRows
<1>7. TreeKept'
      BY DEF TreeKept
<1>8. OfRows'
  <2>1. ~task[job[t].row].limited
        BY DEF EndedByThread
  <2>. QED  BY <1>1, <2>1 DEF OfRows
<1>9. Follows'
      BY <1>1 DEF Follows
<1>. QED  BY <1>3, <1>4, <1>5, <1>6, <1>7, <1>8, <1>9 DEF WorkParts

\* A thread is gone, its row ended or given up.
LEMMA GoneKeeps ==
    ASSUME WorkInv, NEW t \in TaskIds, Busy(t),
           job' = [job EXCEPT ![t] = NoJob], task' = task,
           IsLive(job[t].row) => job[t].row \in lost',
           lost \subseteq lost', lost' \subseteq lost \cup {job[t].row},
           forced' = forced, forcing' = forcing, trees' = trees
    PROVE  WorkParts'
<1> USE DEF WorkInv, At, AtWork, Leaving, Busy, Working
<1>0. /\ job'[t].pc = "none" /\ \A u \in TaskIds \ {t} : job'[u] = job[u]
      /\ job[t].row \in DOMAIN task
      /\ \A u \in TaskIds \ {t} : Busy(u) => job[u].row # job[t].row
      BY NoJobType DEF SlotInv, TypeOK, OwnRows
<1>1. OwnRows'
      BY <1>0 DEF OwnRows
<1>2. EndedByThread'
      BY <1>0 DEF EndedByThread, OwnRows, IsLive
<1>3. SomebodyWorks'
      BY <1>0 DEF SomebodyWorks, IsLive
<1>4. TreeUnnamed' /\ TreeKept'
      BY <1>0 DEF TreeUnnamed, TreeKept
<1>5. OfRows' /\ Follows'
      BY <1>0 DEF OfRows, Follows
<1>. QED  BY <1>1, <1>2, <1>3, <1>4, <1>5 DEF WorkParts

\* A new row for a thread that begins, or goes on from a row it has ended.
LEMMA NewRowKeeps ==
    ASSUME WorkInv, NEW t \in TaskIds, ~Working(t), NEW e, NEW p \in Nat,
           Len(task) + 1 \in TaskIds, task' = Append(task, NewRow(e, p)),
           p # 0 => p \in DOMAIN task /\ e \in NextAfter(task[p].entry),
           \A u \in TaskIds \ {t} : job'[u] = job[u],
           job'[t].row = Len(task) + 1, job'[t].entry = e,
           job'[t].pc \in {"launch", "setup"},
           job'[t].pc = "launch" => t = Len(task) + 1,
           UNCHANGED Remembered, trees' = trees
    PROVE  WorkParts'
<1> USE DEF WorkInv, At, AtWork, Leaving, Busy, Working, Remembered
<1> DEFINE k == Len(task) + 1
<1>0. /\ Len(task) \in Nat /\ DOMAIN task = 1 .. Len(task)
      /\ k \notin DOMAIN task /\ DOMAIN task' = DOMAIN task \cup {k}
      /\ \A i \in DOMAIN task : task'[i] = task[i]
      /\ task'[k] = NewRow(e, p)
  <2>1. task \in Seq(Row)
        BY DEF SlotInv, TypeOK
  <2>. QED  BY <2>1
<1>01. /\ task'[k].entry = e /\ task'[k].parent = p /\ task'[k].status = "created"
       /\ task'[k].tree = FALSE /\ task'[k].limited = FALSE
       BY <1>0 DEF NewRow
<1>02. \A u \in TaskIds : Busy(u) => job[u].row \in DOMAIN task
       BY DEF OwnRows
<1> HIDE DEF k
<1>1. OwnRows'
  <2>1. \A u \in TaskIds : Busy(u)' =>
            /\ job'[u].row \in DOMAIN task'
            /\ task'[job'[u].row].entry = job'[u].entry
            /\ At(u, "launch")' => job'[u].row = u
        BY <1>0, <1>01, <1>02 DEF OwnRows, k
  <2>2. \A u, v \in TaskIds :
            Busy(u)' /\ Busy(v)' /\ job'[u].row = job'[v].row => u = v
        BY <1>0, <1>02 DEF OwnRows, k
  <2>. QED  BY <2>1, <2>2 DEF OwnRows
<1>2. EndedByThread'
  <2>1. k \notin lost /\ job'[t].row = k
        BY <1>0 DEF OfRows, k
  <2>. QED  BY <1>0, <1>01, <1>02, <2>1 DEF EndedByThread, OwnRows, IsLive, Live
<1>3. SomebodyWorks'
  <2>1. ASSUME NEW i \in DOMAIN task \ lost, task[i].status \in Live
        PROVE  \E u \in TaskIds : Busy(u)' /\ job'[u].row = i
    <3>1. PICK u \in TaskIds : Busy(u) /\ job[u].row = i
          BY <2>1 DEF SomebodyWorks
    <3>2. u # t
          BY <2>1, <3>1 DEF EndedByThread, Live, Ended
    <3>. QED  BY <3>1, <3>2
  <2>2. Busy(t)' /\ job'[t].row = k
        BY DEF k
  <2>. QED  BY <1>0, <2>1, <2>2 DEF SomebodyWorks
<1>4. TreeUnnamed'
  <2>1. \A read \in forcing : read.id # k
        BY <1>0 DEF OfRows
  <2>2. job'[t].row = k
        BY DEF k
  <2>. QED  BY <1>0, <1>01, <1>02, <2>1, <2>2 DEF TreeUnnamed
<1>5. TreeKept'
      BY DEF TreeKept
<1>6. OfRows'
      BY <1>0, <1>01 DEF OfRows
<1>7. Follows'
  <2>1. \A i \in DOMAIN task' : i # k =>
            i \in DOMAIN task /\ task'[i].parent = task[i].parent
        BY <1>0
  <2>2. k # 0 => p \in DOMAIN task' \/ p = 0
        BY <1>0
  <2>. QED  BY <1>0, <1>01, <2>1, <2>2 DEF Follows
<1>. QED  BY <1>1, <1>2, <1>3, <1>4, <1>5, <1>6, <1>7 DEF WorkParts

\* force_fail remembers the worktree of a row in flight, which has none yet.
LEMMA ForceReadKeeps ==
    ASSUME WorkInv, NEW k \in TaskIds, ForceRead(k)
    PROVE  WorkParts'
<1> USE DEF WorkInv, At, AtWork, Leaving, Busy, Working
<1>0. /\ task' = task /\ job' = job /\ trees' = trees /\ lost' = lost
      /\ k \in DOMAIN task /\ forced' = forced \cup {k}
      /\ forcing' = forcing \cup {[id |-> k, tree |-> task[k].tree]}
      BY DEF ForceRead, IsLive
<1>1. OwnRows' /\ SomebodyWorks' /\ TreeKept' /\ Follows'
      BY <1>0 DEF OwnRows, SomebodyWorks, TreeKept, Follows
<1>2. EndedByThread' /\ OfRows'
      BY <1>0 DEF EndedByThread, OfRows, IsLive
<1>3. TreeUnnamed'
      BY <1>0 DEF TreeUnnamed
<1>. QED  BY <1>1, <1>2, <1>3 DEF WorkParts

\* It writes back a worktree that is none, as long as a thread works on the row.
LEMMA ForceWriteKeeps ==
    ASSUME WorkInv, NEW read \in forcing, ForceWrite(read)
    PROVE  WorkParts'
<1> USE DEF WorkInv, At, AtWork, Leaving, Busy, Working
<1> DEFINE k == read.id
           row == [task[k] EXCEPT !.status = "failed", !.limited = FALSE,
                                  !.tree = read.tree]
<1>0. /\ k \in DOMAIN task /\ k \in forced
      /\ job' = job /\ trees' = trees /\ lost' = lost /\ forced' = forced
      /\ forcing' \subseteq forcing
      BY DEF ForceWrite, history, OfRows
<1>1. /\ DOMAIN task' = DOMAIN task
      /\ \A i \in DOMAIN task \ {k} : task'[i] = task[i]
      /\ task'[k].status = "failed" /\ task'[k].limited = FALSE
      /\ task'[k].tree = read.tree
      /\ \A i \in DOMAIN task : /\ task'[i].entry = task[i].entry
                               /\ task'[i].parent = task[i].parent
  <2>1. task' = [task EXCEPT ![k] = row]
        BY DEF ForceWrite
  <2>2. task[k] \in Row
        BY <1>0, Rows
  <2>3. /\ row.status = "failed" /\ row.limited = FALSE /\ row.tree = read.tree
        /\ row.entry = task[k].entry /\ row.parent = task[k].parent
        BY <2>2 DEF Row
  <2> HIDE DEF row
  <2>4. /\ DOMAIN task' = DOMAIN task /\ task'[k] = row
        /\ \A i \in DOMAIN task \ {k} : task'[i] = task[i]
        BY <1>0, <2>1, RowWritten
  <2>. QED  BY <2>3, <2>4
<1> HIDE DEF k
<1>2. "failed" \in Ended /\ "failed" \notin Live
      BY DEF Ended, Live
<1>3. OwnRows' /\ Follows'
      BY <1>0, <1>1 DEF OwnRows, Follows
<1>4. EndedByThread'
      BY <1>0, <1>1, <1>2 DEF EndedByThread, OwnRows, IsLive
<1>5. SomebodyWorks'
      BY <1>0, <1>1, <1>2 DEF SomebodyWorks
<1>6. TreeUnnamed'
  <2>1. \A t \in TaskIds : Working(t) /\ job[t].row = k => ~read.tree
        BY DEF TreeUnnamed, k
  <2>. QED  BY <1>0, <1>1, <2>1 DEF TreeUnnamed, OwnRows
<1>7. TreeKept'
      BY <1>0 DEF TreeKept
<1>8. OfRows'
  <2>1. \A r \in forcing' : r.id \in forced
        BY <1>0 DEF OfRows
  <2>. QED  BY <1>0, <1>1, <1>2, <2>1 DEF OfRows
<1>. QED  BY <1>3, <1>4, <1>5, <1>6, <1>7, <1>8 DEF WorkParts

\* A cleanup goes by the column, which names a worktree only when nobody works.
LEMMA CleanupKeeps ==
    ASSUME WorkInv, NEW k \in TaskIds, Cleanup(k)
    PROVE  WorkParts'
<1> USE DEF WorkInv, At, AtWork, Leaving, Busy, Working
<1>0. /\ task' = task /\ job' = job /\ lost' = lost /\ forced' = forced
      /\ forcing' = forcing /\ trees' = trees \ {k} /\ task[k].tree
      BY DEF Cleanup, history
<1>1. OwnRows' /\ SomebodyWorks' /\ Follows' /\ EndedByThread' /\ OfRows'
      BY <1>0 DEF OwnRows, SomebodyWorks, Follows, EndedByThread, OfRows, IsLive
<1>2. TreeUnnamed' /\ TreeKept'
      BY <1>0 DEF TreeUnnamed, TreeKept
<1>. QED  BY <1>1, <1>2 DEF WorkParts

\* After a restart there are no threads, and no rows in flight.
LEMMA RestartKeeps ==
    ASSUME WorkInv, Restart
    PROVE  WorkParts'
<1> USE DEF WorkInv
<1>0. /\ \A t \in TaskIds : job'[t].pc = "none"
      /\ lost' = lost /\ forced' = forced /\ forcing' = {}
      BY NoJobType DEF Restart
<1>1. /\ DOMAIN task' = DOMAIN task
      /\ \A i \in DOMAIN task : /\ task'[i].entry = task[i].entry
                               /\ task'[i].parent = task[i].parent
                               /\ task'[i].status \in Ended
      BY Rows DEF Restart, ReconciledRow, Row, Live, Ended
<1>2. Live \cap Ended = {}
      BY DEF Live, Ended
<1>3. OwnRows' /\ EndedByThread' /\ TreeUnnamed' /\ TreeKept'
      BY <1>0 DEF OwnRows, EndedByThread, TreeUnnamed, TreeKept, At, AtWork,
                  Leaving, Busy, Working
<1>4. SomebodyWorks'
      BY <1>1, <1>2 DEF SomebodyWorks
<1>5. OfRows'
      BY <1>0, <1>1, <1>2 DEF OfRows
<1>6. Follows'
      BY <1>1 DEF Follows
<1>. QED  BY <1>3, <1>4, <1>5, <1>6 DEF WorkParts

LEMMA RunKeeps ==
    ASSUME WorkInv, NEW e \in Starts, NEW background \in BOOLEAN,
           NEW use_tree \in TreeChoices, NEW failover \in FailoverChoices,
           Run(e, background, use_tree, failover)
    PROVE  WorkParts'
<1> DEFINE t == Len(task) + 1
           begun == [NoJob EXCEPT !.pc = IF background THEN "launch" ELSE "setup",
                                  !.row = t, !.entry = e, !.background = background,
                                  !.use_tree = use_tree, !.failover = failover]
<1>1. /\ t \in TaskIds /\ job' = [job EXCEPT ![t] = begun]
      /\ task' = Append(task, NewRow(e, 0)) /\ UNCHANGED Remembered /\ trees' = trees
      BY DEF Run, Remembered, history
<1>2. ~Working(t)
  <2>1. Len(task) \in Nat
        BY DEF WorkInv, SlotInv, TypeOK
  <2>. QED  BY <1>1, <2>1 DEF WorkInv, SlotInv, Unused, Working, Busy
<1>3. /\ begun.pc \in {"launch", "setup"} /\ begun.row = t /\ begun.entry = e
      BY NoJobType DEF Job
<1>4. job'[t] = begun /\ \A u \in TaskIds \ {t} : job'[u] = job[u]
      BY <1>1 DEF WorkInv, SlotInv, TypeOK
<1>5. job'[t].row = t /\ job'[t].entry = e /\ job'[t].pc \in {"launch", "setup"}
      BY <1>3, <1>4
<1>6. /\ job'[t].row = Len(task) + 1
      /\ job'[t].pc = "launch" => t = Len(task) + 1
      BY <1>5
<1>7. Len(task) + 1 \in TaskIds
      BY <1>1
<1> HIDE DEF t, begun
<1>. QED  BY <1>1, <1>2, <1>4, <1>5, <1>6, <1>7, NewRowKeeps

LEMMA HopKeeps ==
    ASSUME WorkInv, NEW t \in TaskIds, Hop(t)
    PROVE  WorkParts'
<1>1. PICK e \in NextAfter(job[t].entry) :
         /\ task' = Append(task, NewRow(e, job[t].row))
         /\ job' = [job EXCEPT ![t].pc = "setup", ![t].row = Len(task) + 1,
                               ![t].entry = e]
      BY DEF Hop
<1>2. job[t] \in Job /\ job[t].pc = "failover"
      BY DEF Hop, At, WorkInv, SlotInv, TypeOK
<1>3. /\ job'[t].pc = "setup" /\ job'[t].row = Len(task) + 1 /\ job'[t].entry = e
      /\ \A u \in TaskIds \ {t} : job'[u] = job[u]
      BY <1>1, <1>2 DEF WorkInv, SlotInv, TypeOK, Job
<1>4. job[t].row \in DOMAIN task /\ e \in NextAfter(task[job[t].row].entry)
      BY <1>1, <1>2 DEF WorkInv, OwnRows, Busy, At
<1>5. ~Working(t) /\ job[t].row \in Nat
      BY <1>2 DEF Working, Leaving, Job
<1>6. UNCHANGED Remembered /\ trees' = trees
      BY DEF Hop, Remembered, history
<1>7. Len(task) + 1 \in TaskIds
      BY Rows, TaskRunnerAssumption DEF Hop, WorkInv, TaskIds
<1>. QED  BY <1>1, <1>3, <1>4, <1>5, <1>6, <1>7, NewRowKeeps

\* The steps that write no row and neither begin nor end the work on one.
LEMMA StillSteps ==
    ASSUME WorkInv, NEW t \in TaskIds,
           Prepare(t) \/ Slot(t) \/ SpuriousWakeup(t) \/ Cancel(t) \/ HelperHolds(t)
    PROVE  WorkParts'
<1> USE DEF At, AtWork
<1>1. /\ task' = task /\ UNCHANGED Remembered /\ trees' = trees
      BY DEF Prepare, Slot, Unslotted, Acquire, Wait, ProcessEnds, UnslottedEnds,
             SpuriousWakeup, Cancel, HelperHolds, Remembered, history
<1>2. SlotInv /\ job[t] \in Job /\ job \in [TaskIds -> Job]
      BY DEF WorkInv, SlotInv, TypeOK
<1> DEFINE Moved(u) ==
              /\ job'[u].row = job[u].row /\ job'[u].entry = job[u].entry
              /\ job'[u].use_tree = job[u].use_tree
              /\ \/ job'[u].pc = job[u].pc
                 \/ job[u].pc \in AtWork /\ job'[u].pc \in AtWork
<1>3. ASSUME NEW pc \in AtWork, Goto(t, pc), job[t].pc \in AtWork
      PROVE  \A u \in TaskIds : Moved(u)
      BY <1>2, <1>3, GotoFields
<1>4. CASE Prepare(t) \/ Unslotted(t) \/ Acquire(t) \/ Wait(t) \/ SpuriousWakeup(t)
  <2>1. PICK pc \in AtWork : Goto(t, pc) /\ job[t].pc \in AtWork
        BY <1>4 DEF Prepare, Unslotted, Acquire, Wait, SpuriousWakeup, WaitsForSlot
  <2>. QED  BY <1>1, <1>3, <2>1, StillKeeps
<1>5. CASE ProcessEnds(t) \/ UnslottedEnds(t)
  <2>1. ASSUME NEW o, job' = WithOutcome(t, o)
        PROVE  \A u \in TaskIds : Moved(u)
    <3>1. /\ \A u \in TaskIds \ {t} : job'[u] = job[u]
          /\ job'[t] = [job[t] EXCEPT !.pc = "finish", !.outcome = o, !.held = FALSE]
          BY <1>2, <2>1 DEF WithOutcome
    <3>2. job[t].pc = "process"
          BY <1>5 DEF ProcessEnds, UnslottedEnds
    <3>3. Moved(t)
          BY <1>2, <3>1, <3>2 DEF Job
    <3>. QED  BY <3>1, <3>3
  <2>2. ASSUME NEW o, NEW s \in Sleepers(Agent(t)),
               job' = [WithOutcome(t, o) EXCEPT ![s].pc = "woken"]
        PROVE  \A u \in TaskIds : Moved(u)
    <3>1. s \in TaskIds /\ job[s].pc = "asleep" /\ s # t /\ job[s] \in Job
          BY <1>2, <1>5 DEF Sleepers, ProcessEnds, UnslottedEnds
    <3>2. /\ \A u \in TaskIds \ {s, t} : job'[u] = job[u]
          /\ job'[s] = [job[s] EXCEPT !.pc = "woken"]
          /\ job'[t] = [job[t] EXCEPT !.pc = "finish", !.outcome = o, !.held = FALSE]
          BY <1>2, <2>2, <3>1 DEF WithOutcome
    <3>3. job[t].pc = "process"
          BY <1>5 DEF ProcessEnds, UnslottedEnds
    <3>4. Moved(s) /\ Moved(t)
          BY <1>2, <3>1, <3>2, <3>3 DEF Job
    <3>. QED  BY <3>2, <3>4
  <2>3. \A u \in TaskIds : Moved(u)
        BY <1>5, <2>1, <2>2 DEF ProcessEnds, UnslottedEnds
  <2>. QED  BY <1>1, <2>3, StillKeeps
<1>6. CASE Cancel(t)
  <2>1. \A u \in TaskIds : Moved(u)
        BY <1>2, <1>6 DEF Cancel, Job
  <2>. QED  BY <1>1, <2>1, StillKeeps
<1>7. CASE HelperHolds(t)
  <2>1. \A u \in TaskIds : Moved(u)
        BY <1>2, <1>7, HoldsChanges
  <2>. QED  BY <1>1, <2>1, StillKeeps
<1>. QED  BY <1>4, <1>5, <1>6, <1>7 DEF Slot

LEMMA QuietRequestKeeps ==
    ASSUME WorkInv,
           \/ \E e \in Entries : AccountSetStatus(e)
           \/ \E a \in Agents : SurvivorEnds(a)
           \/ UNCHANGED vars
    PROVE  WorkParts'
  BY StillKeeps DEF AccountSetStatus, SurvivorEnds, vars, Remembered, history

\* A thread that ends its row, or gives it up, and leaves.
LEMMA LeavingSteps ==
    ASSUME WorkInv, NEW t \in TaskIds,
           SetupFails(t) \/ PrepareFails(t) \/ Breaks(t) \/ Finish(t) \/ NoHop(t)
    PROVE  WorkParts'
<1> DEFINE k == job[t].row
<1>1. /\ SlotInv /\ job[t] \in Job /\ job \in [TaskIds -> Job]
      /\ Busy(t) /\ k \in DOMAIN task /\ task[k] \in Row
  <2>1. SlotInv /\ job \in [TaskIds -> Job]
        BY DEF WorkInv, SlotInv, TypeOK
  <2>2. Busy(t)
        BY DEF SetupFails, PrepareFails, Breaks, Finish, NoHop, Busy, At
  <2>3. k \in DOMAIN task
        BY <2>2 DEF WorkInv, OwnRows
  <2>. QED  BY <2>1, <2>2, <2>3, Rows
<1>2. "failed" \in Ended /\ Live \cap Ended = {}
      BY DEF Live, Ended
<1>3. UNCHANGED <<forced, forcing>> /\ trees' = trees
      BY DEF SetupFails, PrepareFails, Breaks, Finish, NoHop, history
<1>4. PICK pc \in Leaving : Goto(t, pc)
      BY DEF SetupFails, PrepareFails, Breaks, Finish, NoHop, Leaving
<1>5. /\ \A u \in TaskIds \ {t} : job'[u] = job[u]
      /\ job'[t].row = k /\ job'[t].entry = job[t].entry /\ job'[t].pc \in Leaving
      BY <1>1, <1>4, GotoFields
<1>6. CASE SetupFails(t) \/ PrepareFails(t)
  <2>1. SetRow(k, "failed") /\ lost' = lost
        BY <1>6 DEF SetupFails, PrepareFails, history
  <2>2. /\ DOMAIN task' = DOMAIN task
        /\ \A i \in DOMAIN task \ {k} : task'[i] = task[i]
        /\ task'[k].status = "failed"
        /\ task'[k].entry = task[k].entry /\ task'[k].parent = task[k].parent
        BY <1>1, <2>1, StatusWritten
  <2> HIDE DEF k
  <2>. QED  BY <1>1, <1>2, <1>3, <1>5, <2>1, <2>2, LeavingKeeps DEF k
<1>7. CASE Breaks(t) \/ NoHop(t)
  <2>1. /\ task' = task /\ lost \subseteq lost' /\ lost' \subseteq lost \cup {k}
        BY <1>7 DEF Breaks, NoHop, history
  <2>2. task[k].status \in Ended \/ k \in lost'
    <3>1. CASE Breaks(t)
          BY <1>1, <3>1 DEF Breaks, Row
    <3>2. CASE NoHop(t)
          BY <2>1, <3>2 DEF NoHop, At, WorkInv, EndedByThread, Leaving
    <3>. QED  BY <1>7, <3>1, <3>2
  <2>3. task[k].status \in Live => ~task[k].limited
        BY <1>1 DEF WorkInv, OfRows
  <2> HIDE DEF k
  <2>. QED  BY <1>1, <1>3, <1>5, <2>1, <2>2, <2>3, LeavingKeeps DEF k
<1>8. CASE Finish(t)
  <2> DEFINE o == job[t].outcome
             row == [task[k] EXCEPT !.status = IF Failure(o) THEN "failed" ELSE o,
                                    !.limited = (o = "limited"),
                                    !.tree = job[t].use_tree]
  <2>1. task' = [task EXCEPT ![k] = row] /\ lost' = lost
        BY <1>8 DEF Finish, history
  <2>2. /\ row.entry = task[k].entry /\ row.parent = task[k].parent
        /\ row.status = IF Failure(o) THEN "failed" ELSE o
        BY <1>1 DEF Row
  <2>3. row.status \in Ended
        BY <1>1, <2>2 DEF Job, Outcomes, Failure, Ended
  <2> HIDE DEF row
  <2>4. /\ DOMAIN task' = DOMAIN task /\ task'[k] = row
        /\ \A i \in DOMAIN task \ {k} : task'[i] = task[i]
        BY <1>1, <2>1, RowWritten
  <2> HIDE DEF k
  <2>. QED  BY <1>1, <1>2, <1>3, <1>5, <2>1, <2>2, <2>3, <2>4, LeavingKeeps DEF k
<1>. QED  BY <1>6, <1>7, <1>8

\* A thread that marks its row running.
LEMMA GoingOnSteps ==
    ASSUME WorkInv, NEW t \in TaskIds, Launch(t) \/ Setup(t)
    PROVE  WorkParts'
<1>1. SlotInv /\ job[t] \in Job
      BY DEF WorkInv, SlotInv, TypeOK
<1>2. Working(t) /\ UNCHANGED Remembered
      BY DEF Launch, Setup, Working, Busy, Leaving, At, Remembered, history
<1>3. PICK pc \in AtWork \cup {"setup"} : Goto(t, pc)
      BY DEF Launch, Setup, AtWork
<1>4. /\ \A u \in TaskIds \ {t} : job'[u] = job[u]
      /\ job'[t].row = job[t].row /\ job'[t].entry = job[t].entry
      /\ job'[t].use_tree = job[t].use_tree
      /\ job'[t].pc \in AtWork \cup {"setup"}
      BY <1>1, <1>3, GotoFields
<1>5. CASE Launch(t)
  <2>1. SetRow(job[t].row, "running") /\ trees' = trees
        BY <1>2, <1>5 DEF Launch, WorkInv, OwnRows, Working
  <2>2. job'[t].pc = "setup"
        BY <1>1, <1>5, GotoFields DEF Launch
  <2>. QED  BY <1>2, <1>4, <2>1, <2>2, GoingOnKeeps DEF AtWork
<1>6. CASE Setup(t)
  <2>1. SetRow(job[t].row, "running")
        BY <1>6 DEF Setup
  <2>2. /\ trees \subseteq trees'
        /\ job[t].use_tree => job[t].row \in trees'
        BY <1>6 DEF Setup
  <2>. QED  BY <1>2, <1>4, <2>1, <2>2, GoingOnKeeps
<1>. QED  BY <1>5, <1>6

\* A thread that is gone.
LEMMA GoneSteps ==
    ASSUME WorkInv, NEW t \in TaskIds, Return(t) \/ LaunchBreaks(t)
    PROVE  WorkParts'
<1>1. /\ Busy(t) /\ job' = [job EXCEPT ![t] = NoJob] /\ task' = task
      /\ UNCHANGED <<forced, forcing, trees>>
      BY DEF Return, LaunchBreaks, Busy, At, history
<1>2. CASE Return(t)
  <2>1. lost' = lost /\ job[t].pc \in Leaving
        BY <1>2 DEF Return, history, At, Leaving
  <2>2. IsLive(job[t].row) => job[t].row \in lost'
        BY <2>1 DEF IsLive, WorkInv, EndedByThread, Live, Ended
  <2>. QED  BY <1>1, <2>1, <2>2, GoneKeeps
<1>3. CASE LaunchBreaks(t)
  <2>1. lost' = lost \cup {t} /\ job[t].row = t
        BY <1>1, <1>3 DEF LaunchBreaks, WorkInv, OwnRows
  <2>. QED  BY <1>1, <2>1, GoneKeeps
<1>. QED  BY <1>2, <1>3

LEMMA InitWork == Init => WorkInv
<1> SUFFICES ASSUME Init PROVE WorkInv
    OBVIOUS
<1>1. task = <<>> /\ DOMAIN task = {} /\ forcing = {} /\ lost = {} /\ forced = {}
      BY DEF Init
<1>2. \A t \in TaskIds : job[t].pc = "none"
      BY NoJobType DEF Init
<1>. QED  BY <1>1, <1>2, InitSlots
          DEF WorkInv, OwnRows, EndedByThread, SomebodyWorks, TreeUnnamed, TreeKept,
              OfRows, Follows, Busy, Working, At, AtWork, Leaving

LEMMA NextKeepsWork == WorkInv /\ [Next]_vars => WorkParts'
<1> SUFFICES ASSUME WorkInv, [Next]_vars PROVE WorkParts'
    OBVIOUS
<1>1. ASSUME NEW t \in TaskIds, Step(t) PROVE WorkParts'
  <2>1. CASE Hop(t)
        BY <2>1, HopKeeps
  <2>2. CASE \/ SetupFails(t) \/ PrepareFails(t) \/ Breaks(t) \/ Finish(t) \/ NoHop(t)
        BY <2>2, LeavingSteps
  <2>3. CASE Launch(t) \/ Setup(t)
        BY <2>3, GoingOnSteps
  <2>4. CASE Return(t) \/ LaunchBreaks(t)
        BY <2>4, GoneSteps
  <2>5. CASE Prepare(t) \/ Slot(t)
        BY <2>5, StillSteps
  <2>. QED  BY <1>1, <2>1, <2>2, <2>3, <2>4, <2>5 DEF Step
<1>2. CASE Request
  <2>1. ASSUME NEW e \in Starts, NEW background \in BOOLEAN,
               NEW use_tree \in TreeChoices, NEW failover \in FailoverChoices,
               Run(e, background, use_tree, failover)
        PROVE  WorkParts'
        BY <2>1, RunKeeps
  <2>2. ASSUME NEW k \in TaskIds, Cancel(k) \/ ForceRead(k) \/ Cleanup(k)
        PROVE  WorkParts'
        BY <2>2, StillSteps, ForceReadKeeps, CleanupKeeps
  <2>3. ASSUME NEW read \in forcing, ForceWrite(read) PROVE WorkParts'
        BY <2>3, ForceWriteKeeps
  <2>4. ASSUME NEW e \in Entries, AccountSetStatus(e) PROVE WorkParts'
        BY <2>4, QuietRequestKeeps
  <2>. QED  BY <1>2, <2>1, <2>2, <2>3, <2>4 DEF Request
<1>3. CASE World
  <2>1. ASSUME NEW t \in TaskIds, SpuriousWakeup(t) \/ HelperHolds(t) PROVE WorkParts'
        BY <2>1, StillSteps
  <2>2. ASSUME NEW a \in Agents, SurvivorEnds(a) PROVE WorkParts'
        BY <2>2, QuietRequestKeeps
  <2>3. CASE Restart
        BY <2>3, RestartKeeps
  <2>. QED  BY <1>3, <2>1, <2>2, <2>3 DEF World
<1>4. CASE UNCHANGED vars
      BY <1>4, QuietRequestKeeps
<1>. QED  BY <1>1, <1>2, <1>3, <1>4 DEF Next

LEMMA WorkInductive == Spec => []WorkInv
<1>1. WorkInv /\ [Next]_vars => WorkInv'
      BY NextKeepsWork, NextKeepsTypes, NextKeepsSlots
         DEF WorkInv, WorkParts, SlotInv, SlotParts
<1>. QED  BY InitWork, <1>1, PTL DEF Spec

\* Every row that is created or running has one thread that works on it, whatever
\* requests, hops, forced ends and restarts come in between, unless its thread broke
\* off (the `?` of execute, whose error the thread of run_background drops).
THEOREM LiveRowsWorkedOn == Spec => []WorkedOn
<1>1. WorkInv => WorkedOn
  <2> SUFFICES ASSUME WorkInv, NEW k \in DOMAIN task \ lost, task[k].status \in Live
               PROVE  Cardinality(WorkersOn(k)) = 1
      BY DEF WorkedOn
  <2>1. PICK t \in TaskIds : Busy(t) /\ job[t].row = k
        BY DEF WorkInv, SomebodyWorks
  <2>2. WorkersOn(k) = {t}
        BY <2>1 DEF WorkInv, OwnRows, WorkersOn, Busy
  <2>. QED  BY <2>2, FS_Singleton
<1>. QED  BY <1>1, WorkInductive, PTL

\* No cleanup, forced or not, removes the worktree a thread is at work in: the
\* column names it only when the thread is done (execute writes it at the end).
THEOREM TreesKept == Spec => []TreeKept
<1>1. WorkInv => TreeKept
      BY DEF WorkInv
<1>. QED  BY <1>1, WorkInductive, PTL

-----------------------------------------------------------------------------
(* Fallback never comes back to an entry: each hop leads to an earlier chain, *)
(* or on in the same one, measured by the place where next_after finds the    *)
(* entry of a row.                                                           *)

\* f stands, somewhere, behind the place where next_after finds e.
Behind(e, f) ==
    \E p \in FirstPlace(e), x \in Places :
        Holds(x, f) /\ (x[1] < p[1] \/ (x[1] = p[1] /\ x[2] > p[2]))

LEMMA PlaceTypes ==
    \A p \in Places : /\ p[1] \in Nat /\ p[2] \in Nat
                      /\ p[1] \in DOMAIN Chains /\ p[2] \in DOMAIN Chains[p[1]]
<1> SUFFICES ASSUME NEW p \in Places
             PROVE  /\ p[1] \in Nat /\ p[2] \in Nat
                    /\ p[1] \in DOMAIN Chains /\ p[2] \in DOMAIN Chains[p[1]]
    OBVIOUS
<1>1. PICK c \in DOMAIN Chains : p \in {c} \X DOMAIN Chains[c]
      BY DEF Places
<1>2. Chains[c] \in Seq(Entries) /\ c \in Nat
      BY TaskRunnerAssumption
<1>. QED  BY <1>1, <1>2

LEMMA PlacesOf ==
    \A c \in DOMAIN Chains : \A i \in DOMAIN Chains[c] : <<c, i>> \in Places
  BY DEF Places

\* Where a hop leads: one place on from where its entry is found.
LEMMA HopPlace ==
    ASSUME NEW e, NEW f \in NextAfter(e)
    PROVE  \E p \in FirstPlace(e) :
              /\ p \in Places /\ <<p[1], p[2] + 1>> \in Places
              /\ Holds(p, e) /\ Holds(<<p[1], p[2] + 1>>, f)
<1>1. PICK p \in FirstPlace(e) :
         p[2] + 1 \in DOMAIN Chains[p[1]] /\ f = Chains[p[1]][p[2] + 1]
      BY DEF NextAfter
<1>2. p \in Places /\ Holds(p, e)
      BY DEF FirstPlace
<1>3. <<p[1], p[2] + 1>> \in Places
      BY <1>1, <1>2, PlaceTypes, PlacesOf
<1>. QED  BY <1>1, <1>2, <1>3 DEF Holds

LEMMA HopBehind ==
    ASSUME NEW e, NEW f \in NextAfter(e)
    PROVE  Behind(e, f)
<1>1. PICK p \in FirstPlace(e) :
         p \in Places /\ <<p[1], p[2] + 1>> \in Places /\ Holds(<<p[1], p[2] + 1>>, f)
      BY HopPlace
<1>2. p[2] \in Nat /\ p[2] + 1 > p[2]
      BY <1>1, PlaceTypes
<1>. QED  BY <1>1, <1>2 DEF Behind

LEMMA HopThenBehind ==
    ASSUME DistinctChains, NEW e, NEW f \in NextAfter(e), NEW g, Behind(f, g)
    PROVE  Behind(e, g)
<1>1. PICK p \in FirstPlace(e) :
         p \in Places /\ <<p[1], p[2] + 1>> \in Places /\ Holds(<<p[1], p[2] + 1>>, f)
      BY HopPlace
<1>2. PICK y \in FirstPlace(f), x \in Places :
         Holds(x, g) /\ (x[1] < y[1] \/ (x[1] = y[1] /\ x[2] > y[2]))
      BY DEF Behind
<1>3. y \in Places /\ Holds(y, f) /\ NoLater(y, <<p[1], p[2] + 1>>)
      BY <1>1 DEF FirstPlace
<1>4. /\ p[1] \in Nat /\ p[2] \in Nat /\ x[1] \in Nat /\ x[2] \in Nat
      /\ y[1] \in Nat /\ y[2] \in Nat
      BY <1>1, <1>2, <1>3, PlaceTypes
<1>5. CASE y[1] < p[1]
  <2>1. x[1] < p[1]
        BY <1>2, <1>4, <1>5
  <2>. QED  BY <1>2, <2>1 DEF Behind
<1>6. CASE y[1] = p[1]
  <2>1. Chains[p[1]][y[2]] = f /\ Chains[p[1]][p[2] + 1] = f
        BY <1>1, <1>3, <1>6 DEF Holds
  <2>2. p[1] \in DOMAIN Chains /\ {y[2], p[2] + 1} \subseteq DOMAIN Chains[p[1]]
        BY <1>1, <1>3, <1>6, PlaceTypes
  <2>3. y[2] = p[2] + 1
        BY <2>1, <2>2 DEF DistinctChains
  <2>4. x[1] < p[1] \/ (x[1] = p[1] /\ x[2] > p[2])
        BY <1>2, <1>4, <1>6, <2>3
  <2>. QED  BY <1>2, <2>4 DEF Behind
<1>7. y[1] < p[1] \/ y[1] = p[1]
      BY <1>3 DEF NoLater
<1>. QED  BY <1>5, <1>6, <1>7

LEMMA NotBehindItself ==
    ASSUME DistinctChains, NEW e
    PROVE  ~Behind(e, e)
<1> SUFFICES ASSUME Behind(e, e) PROVE FALSE
    OBVIOUS
<1>1. PICK p \in FirstPlace(e), x \in Places :
         Holds(x, e) /\ (x[1] < p[1] \/ (x[1] = p[1] /\ x[2] > p[2]))
      BY DEF Behind
<1>2. p \in Places /\ Holds(p, e) /\ NoLater(p, x)
      BY <1>1 DEF FirstPlace
<1>3. /\ p[1] \in Nat /\ p[2] \in Nat /\ x[1] \in Nat /\ x[2] \in Nat
      /\ p[1] \in DOMAIN Chains /\ p[2] \in DOMAIN Chains[p[1]]
      /\ x[2] \in DOMAIN Chains[x[1]]
      BY <1>1, <1>2, PlaceTypes
<1>4. x[1] = p[1] /\ x[2] > p[2]
      BY <1>1, <1>2, <1>3 DEF NoLater
<1>5. Chains[p[1]][x[2]] = Chains[p[1]][p[2]]
      BY <1>1, <1>2, <1>4 DEF Holds
<1>6. x[2] = p[2]
      BY <1>3, <1>4, <1>5 DEF DistinctChains
<1>. QED  BY <1>3, <1>4, <1>6

\* When no chain repeats an entry, no job comes back to an entry it has tried, with
\* any number of chains that share entries in any order (fallback.rs, next_after:
\* the first chain that has the entry, the first place of it there).
THEOREM NeverBackToAnEntry == Spec => []NoEntryTwice
<1>1. ASSUME WorkInv, DistinctChains, NEW k \in DOMAIN task, NEW a \in Ancestors(k)
      PROVE  task[a].entry # task[k].entry
  <2> DEFINE Before == {q \in DOMAIN task : Behind(task[q].entry, task[k].entry)}
  <2>1. ASSUME NEW q \in DOMAIN task, NEW r \in Parents(q)
        PROVE  r \in DOMAIN task /\ task[q].entry \in NextAfter(task[r].entry)
    <3>1. r = task[q].parent /\ r \in DOMAIN task
          BY DEF Parents
    <3>2. r # 0
          BY <1>1, <3>1, Rows DEF WorkInv
    <3>. QED  BY <1>1, <3>1, <3>2 DEF WorkInv, Follows
  <2>2. Parents(k) \subseteq Before
        BY <1>1, <2>1, HopBehind
  <2>3. ClosedUnderParents(Before)
        BY <1>1, <2>1, HopThenBehind DEF ClosedUnderParents
  <2>4. Before \in SUBSET DOMAIN task
        OBVIOUS
  <2> HIDE DEF Before
  <2>5. a \in Before
        BY <1>1, <2>2, <2>3, <2>4 DEF Ancestors
  <2>. QED  BY <1>1, <2>5, NotBehindItself DEF Before
<1>2. WorkInv => NoEntryTwice
      BY <1>1 DEF NoEntryTwice
<1>. QED  BY <1>2, WorkInductive, PTL

-----------------------------------------------------------------------------
(* The contract: each step of the daemon is a step of TaskContract, or none   *)
(* that its outcomes show.                                                   *)

\* What the outcome of a row depends on.
LEMMA SameOutcome ==
    ASSUME NEW k,
           k \in DOMAIN task' <=> k \in DOMAIN task,
           k \in forced' <=> k \in forced,
           k \in forced \/ (k \in lost' <=> k \in lost),
           \/ k \in forced
           \/ IsLive(k) /\ IsLive(k)'
           \/ task'[k].status = task[k].status /\ task'[k].limited = task[k].limited
    PROVE  OutcomeOf(k)' = OutcomeOf(k)
  BY DEF OutcomeOf, IsLive

NothingSeen == \A k \in TaskIds : OutcomeOf(k)' = OutcomeOf(k)
SeenOnly(k, o) ==
    /\ OutcomeOf(k)' = o
    /\ \A j \in TaskIds \ {k} : OutcomeOf(j)' = OutcomeOf(j)

LEMMA OnlyOne ==
    ASSUME NEW k \in TaskIds, NEW o, SeenOnly(k, o)
    PROVE  Contract!Becomes(k, o)
  BY DEF SeenOnly, Contract!Becomes

LEMMA EndSeen ==
    ASSUME NEW k \in TaskIds, OutcomeOf(k) = "running",
           NEW o \in {"completed", "failed", "limited", "cancelled", "lost"},
           SeenOnly(k, o)
    PROVE  Contract!Next
<1>1. Contract!End(k)
      BY OnlyOne DEF Contract!End, Contract!Results
<1>. QED  BY <1>1 DEF Contract!Next

\* The thread of a row ends it, or breaks off, before anybody forced it or gave it up.
LEMMA RunningSeen ==
    ASSUME WorkInv, NEW t \in TaskIds, Working(t), job[t].row \notin forced
    PROVE  OutcomeOf(job[t].row) = "running"
  BY DEF WorkInv, EndedByThread, IsLive, OutcomeOf

\* The row of a thread that works ends, or is given up; no other row changes.
LEMMA WorkEndSeen ==
    ASSUME WorkInv, NEW t \in TaskIds, Working(t), NEW k, k = job[t].row,
           forced' = forced, DOMAIN task' = DOMAIN task,
           \A i \in DOMAIN task \ {k} : task'[i] = task[i],
           \/ /\ lost' = lost /\ task'[k].status \in Ended
              /\ task'[k].limited \in BOOLEAN
           \/ /\ task' = task
              /\ lost' = IF IsLive(k) THEN lost \cup {k} ELSE lost
    PROVE  Contract!Next \/ NothingSeen
<1>1. k \in DOMAIN task
      BY DEF WorkInv, OwnRows, Working
<1>2. k \in TaskIds
      BY <1>1 DEF WorkInv, OfRows
<1>3. lost \subseteq DOMAIN task /\ lost' \subseteq DOMAIN task
      BY <1>1 DEF WorkInv, OfRows
<1>4. \A j \in TaskIds \ {k} : OutcomeOf(j)' = OutcomeOf(j)
  <2> SUFFICES ASSUME NEW j \in TaskIds \ {k} PROVE OutcomeOf(j)' = OutcomeOf(j)
      OBVIOUS
  <2>1. CASE j \in DOMAIN task
        BY <2>1, SameOutcome
  <2>2. CASE j \notin DOMAIN task
        BY <2>2 DEF OutcomeOf
  <2>. QED  BY <2>1, <2>2
<1>5. CASE k \in forced
  <2>1. OutcomeOf(k)' = OutcomeOf(k)
        BY <1>1, <1>5, SameOutcome
  <2>. QED  BY <1>4, <2>1 DEF NothingSeen
<1>6. CASE k \notin forced
  <2>1. OutcomeOf(k) = "running" /\ IsLive(k)
        BY <1>6, RunningSeen DEF WorkInv, EndedByThread
  <2>2. CASE task' = task
    <3>1. OutcomeOf(k)' = "lost"
          BY <1>1, <1>6, <2>1, <2>2 DEF OutcomeOf, IsLive, Ended, Live
    <3>. QED  BY <1>2, <1>4, <2>1, <3>1, EndSeen DEF SeenOnly
  <2>3. CASE task'[k].status \in Ended
    <3>1. OutcomeOf(k)' = IF task'[k].limited THEN "limited" ELSE task'[k].status
          BY <1>1, <1>6, <2>3 DEF OutcomeOf, IsLive, Ended, Live
    <3>2. OutcomeOf(k)' \in {"completed", "failed", "limited", "cancelled", "lost"}
          BY <2>3, <3>1 DEF Ended
    <3>. QED  BY <1>2, <1>4, <2>1, <3>2, EndSeen DEF SeenOnly
  <2>. QED  BY <2>2, <2>3
<1>. QED  BY <1>5, <1>6

\* Steps that leave rows, and what is remembered of them, alone.
LEMMA QuietSeen ==
    ASSUME task' = task, forced' = forced, lost' = lost
    PROVE  NothingSeen
  BY DEF NothingSeen, OutcomeOf, IsLive

LEMMA WorkEndSteps ==
    ASSUME WorkInv, NEW t \in TaskIds,
           SetupFails(t) \/ PrepareFails(t) \/ Finish(t) \/ Breaks(t) \/ LaunchBreaks(t)
    PROVE  Contract!Next \/ NothingSeen
<1>1. Working(t) /\ SlotInv /\ job[t] \in Job
      BY DEF SetupFails, PrepareFails, Finish, Breaks, LaunchBreaks, Working, Busy, At,
             Leaving, WorkInv, SlotInv, TypeOK
<1>2. PICK k \in DOMAIN task : k = job[t].row
      BY <1>1 DEF WorkInv, OwnRows, Working
<1>3. task[k] \in Row /\ forced' = forced
      BY <1>1, <1>2, Rows
         DEF SetupFails, PrepareFails, Finish, Breaks, LaunchBreaks, history
<1>4. "failed" \in Ended
      BY DEF Ended
<1>5. CASE SetupFails(t) \/ PrepareFails(t)
  <2>1. SetRow(k, "failed") /\ lost' = lost
        BY <1>2, <1>5 DEF SetupFails, PrepareFails, history
  <2>2. /\ DOMAIN task' = DOMAIN task /\ task'[k].status = "failed"
        /\ \A i \in DOMAIN task \ {k} : task'[i] = task[i]
        /\ task'[k].limited = task[k].limited
        BY <1>1, <2>1, StatusWritten
  <2>3. task'[k].limited \in BOOLEAN
        BY <1>3, <2>2 DEF Row
  <2>. QED  BY <1>1, <1>2, <1>3, <1>4, <2>1, <2>2, <2>3, WorkEndSeen
<1>6. CASE Finish(t)
  <2> DEFINE o == job[t].outcome
             row == [task[k] EXCEPT !.status = IF Failure(o) THEN "failed" ELSE o,
                                    !.limited = (o = "limited"),
                                    !.tree = job[t].use_tree]
  <2>1. task' = [task EXCEPT ![k] = row] /\ lost' = lost
        BY <1>2, <1>6 DEF Finish, history
  <2>2. row.limited = (o = "limited") /\ row.status = IF Failure(o) THEN "failed" ELSE o
        BY <1>3 DEF Row
  <2>3. row.status \in Ended /\ row.limited \in BOOLEAN
        BY <1>1, <2>2 DEF Job, Outcomes, Failure, Ended
  <2> HIDE DEF row
  <2>4. /\ DOMAIN task' = DOMAIN task /\ task'[k] = row
        /\ \A i \in DOMAIN task \ {k} : task'[i] = task[i]
        BY <1>1, <2>1, RowWritten
  <2>. QED  BY <1>1, <1>2, <1>3, <2>1, <2>3, <2>4, WorkEndSeen
<1>7. CASE Breaks(t)
  <2>1. /\ task' = task
        /\ lost' = IF IsLive(k) THEN lost \cup {k} ELSE lost
        BY <1>2, <1>7 DEF Breaks, IsLive
  <2>. QED  BY <1>1, <1>2, <1>3, <2>1, WorkEndSeen
<1>8. CASE LaunchBreaks(t)
  <2>1. task' = task /\ lost' = lost \cup {k}
        BY <1>1, <1>2, <1>8 DEF LaunchBreaks, WorkInv, OwnRows, Working
  <2>2. IsLive(k) \/ k \in forced
        BY <1>1, <1>2 DEF WorkInv, EndedByThread
  <2>3. CASE IsLive(k)
        BY <1>1, <1>2, <1>3, <2>1, <2>3, WorkEndSeen
  <2>4. CASE k \in forced
        BY <1>3, <2>1, <2>4 DEF NothingSeen, OutcomeOf, IsLive
  <2>. QED  BY <2>2, <2>3, <2>4
<1>. QED  BY <1>5, <1>6, <1>7, <1>8

\* A new row runs.
LEMMA NewRowSeen ==
    ASSUME WorkInv, NEW e, NEW p, NEW k \in TaskIds, k = Len(task) + 1,
           task' = Append(task, NewRow(e, p)), UNCHANGED <<forced, lost>>
    PROVE  Contract!Next
<1>1. /\ k \notin DOMAIN task /\ DOMAIN task' = DOMAIN task \cup {k}
      /\ \A i \in DOMAIN task : task'[i] = task[i]
      /\ task'[k] = NewRow(e, p)
  <2>1. task \in Seq(Row)
        BY DEF WorkInv, SlotInv, TypeOK
  <2>. QED  BY <2>1
<1>2. k \notin forced /\ k \notin lost
      BY <1>1 DEF WorkInv, OfRows
<1>3. OutcomeOf(k) = "none" /\ OutcomeOf(k)' = "running"
      BY <1>1, <1>2 DEF OutcomeOf, IsLive, NewRow, Live
<1>4. \A j \in TaskIds \ {k} : OutcomeOf(j)' = OutcomeOf(j)
      BY <1>1 DEF OutcomeOf, IsLive
<1>5. Contract!Start(k)
      BY <1>3, <1>4, OnlyOne DEF SeenOnly, Contract!Start
<1>. QED  BY <1>5 DEF Contract!Next

LEMMA ForceReadSeen ==
    ASSUME WorkInv, NEW k \in TaskIds, ForceRead(k)
    PROVE  Contract!Next \/ NothingSeen
<1>1. /\ task' = task /\ lost' = lost /\ forced' = forced \cup {k} /\ IsLive(k)
      BY DEF ForceRead
<1>2. /\ \A j \in TaskIds \ {k} : OutcomeOf(j)' = OutcomeOf(j)
      /\ OutcomeOf(k)' = "forced"
      BY <1>1 DEF OutcomeOf, IsLive
<1>3. CASE k \in forced
      BY <1>1, <1>2, <1>3 DEF NothingSeen, OutcomeOf, IsLive
<1>4. CASE k \notin forced
  <2>1. OutcomeOf(k) \in {"running", "lost"}
        BY <1>1, <1>4 DEF OutcomeOf, IsLive
  <2>2. Contract!Force(k)
        BY <1>2, <2>1, OnlyOne DEF SeenOnly, Contract!Force
  <2>. QED  BY <2>2 DEF Contract!Next
<1>. QED  BY <1>3, <1>4

LEMMA ForceWriteSeen ==
    ASSUME WorkInv, NEW read \in forcing, ForceWrite(read)
    PROVE  NothingSeen
<1>1. PICK k \in DOMAIN task : k = read.id /\ k \in forced
      BY DEF WorkInv, OfRows
<1>2. /\ forced' = forced /\ lost' = lost
      /\ \E row : task' = [task EXCEPT ![k] = row]
      BY <1>1 DEF ForceWrite, history
<1>3. /\ DOMAIN task' = DOMAIN task
      /\ \A i \in DOMAIN task \ {k} : task'[i] = task[i]
      BY <1>2, RowWritten DEF WorkInv
<1>. QED  BY <1>1, <1>2, <1>3 DEF NothingSeen, OutcomeOf, IsLive

\* A row in flight has failed after the restart: none of them is marked limited.
LEMMA RestartSeen ==
    ASSUME WorkInv, Restart
    PROVE  Contract!Restart
<1>1. /\ task' = [k \in DOMAIN task |-> ReconciledRow(k)]
      /\ forced' = forced /\ lost' = lost
      BY DEF Restart
<1>2. ASSUME NEW k \in TaskIds
      PROVE  OutcomeOf(k)' = IF OutcomeOf(k) \in {"running", "lost"} THEN "failed"
                             ELSE OutcomeOf(k)
  <2>1. CASE k \notin DOMAIN task \/ k \in forced
        BY <1>1, <2>1 DEF OutcomeOf
  <2>2. CASE k \in DOMAIN task /\ k \notin forced
    <3>1. task[k] \in Row /\ task'[k] = ReconciledRow(k)
          BY <1>1, <2>2, Rows DEF WorkInv
    <3>2. CASE task[k].status \in Live
      <4>1. task'[k].status = "failed" /\ ~task'[k].limited
            BY <2>2, <3>1, <3>2 DEF ReconciledRow, Row, WorkInv, OfRows
      <4>. QED  BY <1>1, <2>2, <3>2, <4>1 DEF OutcomeOf, IsLive, Live
    <3>3. CASE task[k].status \notin Live
      <4>1. task'[k] = task[k]
            BY <3>1, <3>3 DEF ReconciledRow
      <4>2. OutcomeOf(k) \notin {"running", "lost"}
            BY <2>2, <3>1, <3>3 DEF OutcomeOf, IsLive, Row, Live, Ended
      <4>. QED  BY <1>1, <2>2, <3>3, <4>1, <4>2 DEF OutcomeOf, IsLive
    <3>. QED  BY <3>2, <3>3
  <2>. QED  BY <2>1, <2>2
<1>. QED  BY <1>2 DEF Contract!Restart

LEMMA ContractInit == Init => Contract!Init
  BY DEF Init, Contract!Init, OutcomeOf

LEMMA ContractNext ==
    WorkInv /\ [Next]_vars => Contract!Next \/ NothingSeen
<1> SUFFICES ASSUME WorkInv, [Next]_vars PROVE Contract!Next \/ NothingSeen
    OBVIOUS
<1>1. ASSUME NEW t \in TaskIds, Step(t) PROVE Contract!Next \/ NothingSeen
  <2>1. CASE SetupFails(t) \/ PrepareFails(t) \/ Finish(t) \/ Breaks(t) \/ LaunchBreaks(t)
        BY <2>1, WorkEndSteps
  <2>2. CASE Hop(t)
    <3>1. PICK e : task' = Append(task, NewRow(e, job[t].row))
          BY <2>2 DEF Hop
    <3>2. PICK k \in TaskIds : k = Len(task) + 1
          BY <2>2, Rows, TaskRunnerAssumption DEF Hop, WorkInv, TaskIds
    <3>3. UNCHANGED <<forced, lost>>
          BY <2>2 DEF Hop, history
    <3>. QED  BY <3>1, <3>2, <3>3, NewRowSeen
  <2>3. CASE Prepare(t) \/ Slot(t) \/ NoHop(t) \/ Return(t)
        BY <2>3, QuietSeen DEF Prepare, Slot, Unslotted, Acquire, Wait, ProcessEnds,
                               UnslottedEnds, NoHop, Return, history
  <2>4. CASE Launch(t) \/ Setup(t)
    <3>1. /\ Working(t) /\ UNCHANGED <<forced, lost>>
          /\ \E k : k = job[t].row /\ SetRow(k, "running")
          BY <2>4 DEF Launch, Setup, Working, Busy, At, Leaving, history,
                      WorkInv, OwnRows
    <3>2. PICK k \in DOMAIN task : k = job[t].row /\ SetRow(k, "running")
          BY <3>1 DEF WorkInv, OwnRows, Working
    <3>3. /\ DOMAIN task' = DOMAIN task /\ task'[k].status = "running"
          /\ \A i \in DOMAIN task \ {k} : task'[i] = task[i]
          BY <3>2, StatusWritten DEF WorkInv
    <3>4. IsLive(k) \/ k \in forced
          BY <3>1, <3>2 DEF WorkInv, EndedByThread
    <3>5. ASSUME NEW j \in TaskIds PROVE OutcomeOf(j)' = OutcomeOf(j)
      <4>1. CASE j = k
            BY <3>1, <3>3, <3>4, <4>1 DEF OutcomeOf, IsLive, Live
      <4>2. CASE j # k
            BY <3>1, <3>3, <4>2 DEF OutcomeOf, IsLive
      <4>. QED  BY <4>1, <4>2
    <3>. QED  BY <3>5 DEF NothingSeen
  <2>. QED  BY <1>1, <2>1, <2>2, <2>3, <2>4 DEF Step
<1>2. CASE Request
  <2>1. ASSUME NEW e \in Starts, NEW background \in BOOLEAN,
               NEW use_tree \in TreeChoices, NEW failover \in FailoverChoices,
               Run(e, background, use_tree, failover)
        PROVE  Contract!Next
    <3>1. /\ task' = Append(task, NewRow(e, 0)) /\ UNCHANGED <<forced, lost>>
          /\ \E k \in TaskIds : k = Len(task) + 1
          BY <2>1 DEF Run, history
    <3>. QED  BY <3>1, NewRowSeen
  <2>2. ASSUME NEW k \in TaskIds, Cancel(k) \/ ForceRead(k) \/ Cleanup(k)
        PROVE  Contract!Next \/ NothingSeen
        BY <2>2, ForceReadSeen, QuietSeen DEF Cancel, Cleanup, history
  <2>3. ASSUME NEW read \in forcing, ForceWrite(read) PROVE NothingSeen
        BY <2>3, ForceWriteSeen
  <2>4. ASSUME NEW e \in Entries, AccountSetStatus(e) PROVE NothingSeen
        BY <2>4, QuietSeen DEF AccountSetStatus, history
  <2>. QED  BY <1>2, <2>1, <2>2, <2>3, <2>4 DEF Request
<1>3. CASE World
  <2>1. CASE Restart
        BY <2>1, RestartSeen DEF Contract!Next
  <2>2. CASE \/ \E t \in TaskIds : SpuriousWakeup(t) \/ HelperHolds(t)
             \/ \E a \in Agents : SurvivorEnds(a)
        BY <2>2, QuietSeen DEF SpuriousWakeup, HelperHolds, SurvivorEnds, history
  <2>. QED  BY <1>3, <2>1, <2>2 DEF World
<1>4. CASE UNCHANGED vars
      BY <1>4, QuietSeen DEF vars
<1>. QED  BY <1>1, <1>2, <1>3, <1>4 DEF Next

\* For any requests, hops, cancels, forced ends, worktrees and restarts, a task keeps
\* the safety part of its contract: it starts once, has one result, and that result
\* changes only by a force_fail that found it in flight (execute, run_background,
\* force_fail and reconcile_orphaned_tasks implement TaskContract).
THEOREM ContractKept == Spec => Contract!Spec
<1> DEFINE seen == [k \in TaskIds |-> OutcomeOf(k)]
<1>1. NothingSeen => UNCHANGED seen
      BY DEF NothingSeen
<1>2. WorkInv /\ [Next]_vars => [Contract!Next]_seen
      BY <1>1, ContractNext
<1>. QED  BY <1>2, ContractInit, WorkInductive, PTL DEF Spec, Contract!Spec
=============================================================================
