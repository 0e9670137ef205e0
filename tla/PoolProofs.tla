------------------------------- MODULE PoolProofs -------------------------------
(***************************************************************************)
(* Proofs about the pool, for any number of calls, sessions, platforms and   *)
(* keys, whatever the benches last.                                         *)
(*                                                                          *)
(* Inv is nearly inductive.  What it lacks is that a call at rest   *)
(* remembers nothing: only then may its session be forgotten.                *)
(***************************************************************************)
EXTENDS Pool, TLAPS

Resting(c) == At(c, "idle") => call[c] = NoCall

\* The parts of Inv by what they are about, so that each step is looked at for
\* what it can disturb.
Handoffs ==
    SwitchAnnounced /\ \A c \in Calls : Remembered(c) /\ Resting(c)
Times == \A c \in Calls : Untried(c) /\ Named(c)
PoolInv == TypeOK /\ LeasesExact /\ Handoffs /\ Times

-----------------------------------------------------------------------------
(* Types. *)

LEMMA RowTyped ==
    ASSUME TypeOK, NEW c \in Calls, NEW kind \in Kinds, NEW length \in Lengths[kind]
    PROVE  BenchRow(c, kind, length) \in Rows
<1>1. call[c].age \in Nat
  BY DEF TypeOK, CallRecords
<1>2. length \in Nat
  BY PoolAssumption DEF PoolAssumption
<1>3. Larger(0, length - call[c].age) \in Nat
  BY <1>1, <1>2 DEF Larger
<1>4. Provenance(kind) \in Provs
  BY DEF Provenance, Kinds, Provs
<1> QED
  BY <1>2, <1>3, <1>4 DEF BenchRow, Live, NoRow, Rows, Provs

LEMMA NoCallTyped == NoCall \in CallRecords
  BY DEF NoCall, CallRecords, CallPCs

LEMMA DispatchTyped ==
    ASSUME TypeOK, NEW c \in Calls, Dispatch(c) PROVE TypeOK'
<1>1. PICK k \in Admissible(c) : Inject(c, k) /\ lease' = lease \cup {[cand |-> k, owner |-> c]}
  BY DEF Dispatch
<1>2. k \in Cands /\ k.platform \in Platforms
  BY PoolAssumption DEF Admissible, PoolAssumption
<1>3. last' \in [Sessions -> Platforms \cup {NoPlatform}]
  BY <1>1, <1>2 DEF Inject, TypeOK
<1>4. call[c] \in CallRecords
  BY DEF TypeOK
<1>5. (IF call[c].cand = NoCand THEN NoPlatform ELSE call[c].cand.platform)
        \in Platforms \cup {NoPlatform}
  BY <1>4, PoolAssumption DEF CallRecords, PoolAssumption
<1>6. call'[c] \in CallRecords /\ call'[c].cand \in Cands
  BY <1>1, <1>2, <1>4, <1>5 DEF Inject, Goes, TypeOK, CallRecords, CallPCs
<1>7. call' \in [Calls -> CallRecords] /\ \A d \in Calls \ {c} : call'[d] = call[d]
  BY <1>1, <1>6 DEF Inject, Goes, TypeOK
<1> QED
  BY <1>1, <1>2, <1>3, <1>6, <1>7 DEF Dispatch, TypeOK, Under

LEMMA FailTyped ==
    ASSUME TypeOK, NEW c \in Calls, Fail(c) PROVE TypeOK'
<1> DEFINE Benches(kind, length) ==
              LET r == BenchRow(c, kind, length)
              IN  /\ row' = [row EXCEPT ![call[c].cand] = r]
                  /\ Goes(c, [call[c] EXCEPT
                         !.pc = "pick", !.tried = @ \cup {call[c].cand}, !.age = 0,
                         !.best = Earliest(c, r),
                         !.before = NoPlatform, !.told = FALSE])
<1>0. PICK kind \in Failures(c) : \E length \in Lengths[kind] : Benches(kind, length)
  BY DEF Fail
<1>1. PICK length \in Lengths[kind] : Benches(kind, length)
  BY <1>0
<1> DEFINE r == BenchRow(c, kind, length)
<1>2. kind \in Kinds
  BY DEF Failures, Kinds
<1>3. r \in Rows
  BY <1>1, <1>2, RowTyped
<1>4. call[c] \in CallRecords /\ call[c].cand \in Cands
  BY DEF TypeOK, Fail
<1>5. Earliest(c, r) \in SUBSET Nat
  BY <1>3, <1>4 DEF Earliest, Smaller, Rows, CallRecords
<1>6. row' \in [Cands -> Rows]
  BY <1>1, <1>3 DEF TypeOK
<1> HIDE DEF r
<1>7. call'[c] \in CallRecords /\ call'[c].pc = "pick"
  BY <1>1, <1>4, <1>5 DEF Goes, TypeOK, CallRecords, CallPCs, r
<1>8. call' \in [Calls -> CallRecords] /\ \A d \in Calls \ {c} : call'[d] = call[d]
  BY <1>1, <1>7 DEF Goes, TypeOK
<1> QED
  BY <1>6, <1>7, <1>8 DEF Fail, Release, TypeOK, Under

LEMMA TickTyped == ASSUME TypeOK, Tick PROVE TypeOK'
<1>1. ASSUME NEW k \in Cands PROVE Aged(row[k]) \in Rows
  <2>1. row[k] \in Rows /\ Down(row[k].left) \in Nat
    BY DEF TypeOK, Rows, Down, Larger
  <2> QED
    BY <2>1 DEF Aged, Live, NoRow, Rows, Provs
<1>2. ASSUME NEW c \in Calls
      PROVE  /\ [call[c] EXCEPT !.age = IF Under(c) THEN @ + 1 ELSE @,
                                !.best = {Down(b) : b \in @}] \in CallRecords
             /\ call'[c].pc = call[c].pc /\ call'[c].cand = call[c].cand
  <2>1. call[c] \in CallRecords
    BY DEF TypeOK
  <2>2. (IF Under(c) THEN call[c].age + 1 ELSE call[c].age) \in Nat
    BY <2>1 DEF CallRecords
  <2>3. {Down(b) : b \in call[c].best} \in SUBSET Nat
    BY <2>1 DEF CallRecords, Down, Larger
  <2> QED
    BY <2>1, <2>2, <2>3 DEF Tick, CallRecords
<1> QED
  BY <1>1, <1>2 DEF Tick, TypeOK, Under

LEMMA StepTyped == ASSUME TypeOK, [Next]_vars PROVE TypeOK'
<1>1. ASSUME NEW c \in Calls, Begin(c) \/ Succeed(c) \/ Return(c) PROVE TypeOK'
  <2>1. call'[c] \in CallRecords /\ ~Under(c)'
    <3>1. call'[c] \in {NoCall, [NoCall EXCEPT !.pc = "pick"], [NoCall EXCEPT !.pc = "ok"]}
      BY <1>1 DEF Begin, Succeed, Return, Goes, TypeOK
    <3>2. call'[c] \in CallRecords
      BY <3>1, NoCallTyped DEF CallRecords, CallPCs
    <3>3. call'[c].pc \in {"idle", "pick", "ok"}
      BY <3>1 DEF NoCall
    <3> QED
      BY <3>2, <3>3 DEF Under
  <2>2. call' \in [Calls -> CallRecords] /\ \A d \in Calls \ {c} : call'[d] = call[d]
    BY <1>1, <2>1 DEF Begin, Succeed, Return, Goes, TypeOK
  <2> QED
    BY <1>1, <2>1, <2>2 DEF Begin, Succeed, Return, Release, TypeOK, Under
<1>2. ASSUME NEW c \in Calls, Skip(c) \/ Accepted(c) \/ GiveUp(c) PROVE TypeOK'
  <2>1. call[c] \in CallRecords /\ (Under(c) => call[c].cand \in Cands)
    BY DEF TypeOK
  <2>2. call'[c] \in CallRecords /\ (Under(c)' => call'[c].cand \in Cands)
    <3>1. CASE Skip(c)
      BY <2>1, <3>1 DEF Skip, Admissible, Goes, TypeOK, Under, CallRecords
    <3>2. CASE Accepted(c)
      BY <2>1, <3>2 DEF Accepted, Goes, At, TypeOK, Under, CallRecords, CallPCs
    <3>3. CASE GiveUp(c)
      BY <2>1, <3>3 DEF GiveUp, Goes, TypeOK, Under, CallRecords, CallPCs
    <3> QED
      BY <1>2, <3>1, <3>2, <3>3
  <2>3. call' \in [Calls -> CallRecords] /\ \A d \in Calls \ {c} : call'[d] = call[d]
    BY <1>2, <2>2 DEF Skip, Accepted, GiveUp, Goes, TypeOK
  <2> QED
    BY <1>2, <2>2, <2>3 DEF Skip, Accepted, GiveUp, TypeOK, Under
<1>3. ASSUME NEW k \in Cands, ProbeOk(k) \/ ProbeFails(k) PROVE TypeOK'
  BY <1>3 DEF ProbeOk, ProbeFails, ClearedBy, TypeOK, Under, NoRow, Rows, Provs
<1>4. ASSUME NEW s \in Sessions, Forget(s) PROVE TypeOK'
  BY <1>4 DEF Forget, TypeOK, Under
<1>5. CASE StartProbe
  BY <1>5 DEF StartProbe, ProbeCandidates, TypeOK, Under
<1>6. CASE Restart
  BY <1>6, NoCallTyped DEF Restart, TypeOK, Under, NoCall
<1>7. CASE UNCHANGED vars
  BY <1>7 DEF vars, TypeOK, Under
<1> QED
  BY <1>1, <1>2, <1>3, <1>4, <1>5, <1>6, <1>7, DispatchTyped, FailTyped, TickTyped DEF Next, Step

-----------------------------------------------------------------------------
(* Leases. *)

\* A lease is touched by its own call only: it comes with a dispatch and goes with
\* each way out of one.
LEMMA StepLeases == ASSUME TypeOK, LeasesExact, [Next]_vars PROVE LeasesExact'
<1> USE PoolAssumption DEF PoolAssumption
<1>1. ASSUME NEW c \in Calls, Begin(c) \/ Return(c) \/ Skip(c) \/ GiveUp(c) PROVE LeasesExact'
  <2>1. ~Under(c) /\ lease' = lease /\ \A d \in Calls \ {c} : call'[d] = call[d]
    BY <1>1 DEF Begin, Return, Skip, GiveUp, Goes, At, Under, TypeOK
  <2> QED
    BY <2>1 DEF LeasesExact, Under
<1>2. ASSUME NEW c \in Calls, Accepted(c) PROVE LeasesExact'
  <2>1. /\ lease' = lease /\ \A d \in Calls \ {c} : call'[d] = call[d]
        /\ call'[c].pc = "polling" /\ call'[c].cand = call[c].cand
    BY <1>2 DEF Accepted, Goes, TypeOK, CallRecords
  <2> QED
    BY <2>1 DEF LeasesExact
<1>3. ASSUME NEW c \in Calls, Dispatch(c) PROVE LeasesExact'
  <2>1. PICK k \in Cands : Inject(c, k) /\ lease' = lease \cup {[cand |-> k, owner |-> c]}
    BY <1>3 DEF Dispatch, Admissible
  <2>2. /\ \A d \in Calls \ {c} : call'[d] = call[d]
        /\ call'[c].pc = "flight" /\ call'[c].cand = k
    BY <2>1 DEF Inject, Goes, TypeOK, CallRecords
  <2>3. \A l \in lease : l.owner # c
    BY <1>3 DEF LeasesExact, Dispatch, At
  <2> QED
    BY <2>1, <2>2, <2>3 DEF LeasesExact
<1>4. ASSUME NEW c \in Calls, Succeed(c) \/ Fail(c) PROVE LeasesExact'
  <2>1. /\ lease' = lease \ {[cand |-> call[c].cand, owner |-> c]}
        /\ \A d \in Calls \ {c} : call'[d] = call[d]
    BY <1>4 DEF Succeed, Fail, Release, Goes, TypeOK
  <2>2. \A l \in lease : l.owner = c => l = [cand |-> call[c].cand, owner |-> c]
    BY DEF LeasesExact, TypeOK
  <2> QED
    BY <2>1, <2>2 DEF LeasesExact
<1>5. CASE Tick
  <2>1. \A c \in Calls : call'[c].pc = call[c].pc /\ call'[c].cand = call[c].cand
    BY <1>5 DEF Tick, TypeOK, CallRecords
  <2> QED
    BY <1>5, <2>1 DEF Tick, LeasesExact
<1>6. CASE Restart
  BY <1>6 DEF Restart, LeasesExact, TypeOK
<1>7. CASE \/ \E k \in Cands : ProbeOk(k) \/ ProbeFails(k)
           \/ \E s \in Sessions : Forget(s)
           \/ StartProbe \/ UNCHANGED vars
  BY <1>7 DEF ProbeOk, ProbeFails, Forget, StartProbe, vars, LeasesExact
<1> QED
  BY <1>1, <1>2, <1>3, <1>4, <1>5, <1>6, <1>7 DEF Next, Step

-----------------------------------------------------------------------------
(* Handoffs. *)

\* What another call does to a session that is not its own is nothing.
LEMMA OthersSession ==
    ASSUME NEW c \in Calls, NEW d \in Calls, c # d, OwnSession(c)
    PROVE  SessionOf[d] # SessionOf[c]
  BY DEF OwnSession

LEMMA DispatchHandsOver ==
    ASSUME TypeOK, Handoffs, NEW c \in Calls, Dispatch(c) PROVE Handoffs'
<1> USE PoolAssumption DEF PoolAssumption
<1>1. PICK k \in Cands : Inject(c, k)
  BY DEF Dispatch, Admissible
<1>2. k # NoCand /\ k.platform # NoPlatform
  OBVIOUS
<1>3. /\ \A d \in Calls \ {c} : call'[d] = call[d]
      /\ call'[c].pc = "flight" /\ call'[c].cand = k
      /\ call'[c].before = IF call[c].cand = NoCand THEN NoPlatform ELSE call[c].cand.platform
      /\ call'[c].told = (last[SessionOf[c]] \notin {NoPlatform, k.platform})
  BY <1>1 DEF Inject, Goes, TypeOK, CallRecords
<1>4. last'[SessionOf[c]] = k.platform /\ \A s \in Sessions \ {SessionOf[c]} : last'[s] = last[s]
  BY <1>1 DEF Inject, TypeOK
<1>5. ASSUME NEW d \in Calls PROVE Remembered(d)'
  <2>1. CASE d = c
    BY <1>3, <1>4, <2>1 DEF Remembered
  <2>2. CASE d # c
    BY <1>3, <1>4, <2>2, OthersSession DEF Remembered, Handoffs, OwnSession
  <2> QED
    BY <2>1, <2>2
<1>6. \A d \in Calls : Resting(d)'
  BY <1>3 DEF Resting, Handoffs, At
<1>7. SwitchAnnounced'
  <2> SUFFICES ASSUME NEW d \in Calls, OwnSession(d), call'[d].pc = "flight",
                      call'[d].before \notin {NoPlatform, call'[d].cand.platform}
               PROVE  call'[d].told
    BY DEF SwitchAnnounced, At, OwnSession
  <2>1. CASE d = c
    <3>1. call[c].cand # NoCand /\ last[SessionOf[c]] = call[c].cand.platform
      BY <1>3, <2>1 DEF Handoffs, Remembered
    <3>2. call[c].cand.platform \notin {NoPlatform, k.platform}
      BY <1>3, <2>1, <3>1
    <3> QED
      BY <1>3, <2>1, <3>1, <3>2
  <2>2. CASE d # c
    BY <1>3, <2>2 DEF Handoffs, SwitchAnnounced, At
  <2> QED
    BY <2>1, <2>2
<1> QED
  BY <1>5, <1>6, <1>7 DEF Handoffs

\* A call that leaves its session as it is, and is not sent anew.
LEMMA StaysPut ==
    ASSUME TypeOK, Handoffs, NEW c \in Calls, last' = last,
           \A d \in Calls \ {c} : call'[d] = call[d],
           call'[c].pc # "flight",
           call'[c].cand \in {call[c].cand, NoCand},
           call'[c].pc = "idle" => call'[c] = NoCall
    PROVE  Handoffs'
<1>1. \A d \in Calls : Remembered(d)'
  BY DEF Handoffs, Remembered, OwnSession
<1>2. \A d \in Calls : Resting(d)'
  BY DEF Handoffs, Resting, At
<1>3. SwitchAnnounced'
  BY DEF Handoffs, SwitchAnnounced, At, OwnSession
<1> QED
  BY <1>1, <1>2, <1>3 DEF Handoffs

LEMMA StepHandsOver == ASSUME TypeOK, Handoffs, [Next]_vars PROVE Handoffs'
<1>1. ASSUME NEW c \in Calls, Begin(c) \/ Succeed(c) \/ Return(c) PROVE Handoffs'
  <2>1. /\ last' = last /\ \A d \in Calls \ {c} : call'[d] = call[d]
        /\ call'[c] \in {NoCall, [NoCall EXCEPT !.pc = "pick"], [NoCall EXCEPT !.pc = "ok"]}
    BY <1>1 DEF Begin, Succeed, Return, Goes, TypeOK
  <2>2. call'[c].cand = NoCand /\ call'[c].pc # "flight"
        /\ (call'[c].pc = "idle" => call'[c] = NoCall)
    <3>1. CASE call'[c] = NoCall
      BY <3>1 DEF NoCall
    <3>2. CASE call'[c] = [NoCall EXCEPT !.pc = "pick"]
      BY <3>2 DEF NoCall
    <3>3. CASE call'[c] = [NoCall EXCEPT !.pc = "ok"]
      BY <3>3 DEF NoCall
    <3> QED
      BY <2>1, <3>1, <3>2, <3>3
  <2> QED
    BY <2>1, <2>2, StaysPut
<1>2. ASSUME NEW c \in Calls, Skip(c) \/ Accepted(c) \/ Fail(c) \/ GiveUp(c) PROVE Handoffs'
  <2>1. last' = last /\ \A d \in Calls \ {c} : call'[d] = call[d]
    BY <1>2 DEF Skip, Accepted, Fail, GiveUp, Goes, TypeOK
  <2>2. call'[c].pc \notin {"flight", "idle"} /\ call'[c].cand \in {call[c].cand, NoCand}
    <3>1. CASE Skip(c)
      BY <3>1 DEF Skip, Goes, TypeOK, CallRecords, At
    <3>2. CASE Accepted(c)
      BY <3>2 DEF Accepted, Goes, TypeOK, CallRecords
    <3>3. CASE Fail(c)
      BY <3>3 DEF Fail, Goes, TypeOK, CallRecords
    <3>4. CASE GiveUp(c)
      BY <3>4 DEF GiveUp, Goes, TypeOK, CallRecords
    <3> QED
      BY <1>2, <3>1, <3>2, <3>3, <3>4
  <2> QED
    BY <2>1, <2>2, StaysPut
<1>3. ASSUME NEW s \in Sessions, Forget(s) PROVE Handoffs'
  <2>1. call' = call /\ \A t \in Sessions \ {s} : last'[t] = last[t]
    BY <1>3 DEF Forget, TypeOK
  <2>2. \A c \in Calls : SessionOf[c] = s => call[c].cand = NoCand
    BY <1>3 DEF Forget, Handoffs, Resting, NoCall
  <2>3. ASSUME NEW c \in Calls PROVE Remembered(c)'
    BY <2>1, <2>2, PoolAssumption DEF Handoffs, Remembered, OwnSession, PoolAssumption
  <2>4. \A c \in Calls : Resting(c)'
    BY <2>1 DEF Handoffs, Resting, At
  <2> QED
    BY <2>1, <2>3, <2>4 DEF Handoffs, SwitchAnnounced, At, OwnSession
<1>4. CASE Tick
  <2>1. last' = last
    BY <1>4 DEF Tick
  <2>2. ASSUME NEW c \in Calls
        PROVE  /\ call'[c].pc = call[c].pc /\ call'[c].cand = call[c].cand
               /\ call'[c].before = call[c].before /\ call'[c].told = call[c].told
               /\ call[c] = NoCall => call'[c] = NoCall
    <3>1. call'[c] = [call[c] EXCEPT !.age = IF Under(c) THEN @ + 1 ELSE @,
                                     !.best = {Down(b) : b \in @}]
      BY <1>4 DEF Tick
    <3>2. call[c] \in CallRecords
      BY DEF TypeOK
    <3>3. ASSUME call[c] = NoCall PROVE call'[c] = NoCall
      <4>1. ~Under(c) /\ {Down(b) : b \in call[c].best} = {}
        BY <3>3 DEF NoCall, Under
      <4>2. call'[c] = [NoCall EXCEPT !.age = NoCall.age, !.best = {}]
        BY <3>1, <3>3, <4>1
      <4> QED
        BY <4>2 DEF NoCall
    <3> QED
      BY <3>1, <3>2, <3>3 DEF CallRecords
  <2> QED
    BY <2>1, <2>2 DEF Handoffs, SwitchAnnounced, Remembered, Resting, At, OwnSession
<1>5. CASE Restart
  BY <1>5 DEF Restart, NoCall, Handoffs, SwitchAnnounced, Remembered, Resting, At
<1>6. CASE \/ \E k \in Cands : ProbeOk(k) \/ ProbeFails(k)
           \/ StartProbe \/ UNCHANGED vars
  BY <1>6 DEF ProbeOk, ProbeFails, StartProbe, vars, Handoffs, SwitchAnnounced,
              Remembered, Resting, At, OwnSession
<1> QED
  BY <1>1, <1>2, <1>3, <1>4, <1>5, <1>6, DispatchHandsOver DEF Next, Step

-----------------------------------------------------------------------------
(* The time an exhausted call names. *)

\* A row that is written anew by somebody else, or runs down with the times that
\* were named, still bears a call out.
BorneOut(c, k) == row[k].by = c => \A b \in call[c].best : row[k].left <= b

LEMMA DispatchKeepsTimes ==
    ASSUME TypeOK, Times, NEW c \in Calls, Dispatch(c) PROVE Times'
<1>1. PICK k \in Cands \ call[c].tried : Inject(c, k)
  BY DEF Dispatch, Admissible
<1>2. /\ \A d \in Calls \ {c} : call'[d] = call[d]
      /\ call'[c].cand = k /\ call'[c].tried = call[c].tried /\ call'[c].best = call[c].best
  BY <1>1 DEF Inject, Goes, TypeOK, CallRecords
<1>3. \A d \in Calls : Untried(d)'
  BY <1>1, <1>2 DEF Times, Untried, Under
<1>4. \A d \in Calls : Named(d)'
  BY <1>2 DEF Dispatch, Times, Named
<1> QED
  BY <1>3, <1>4 DEF Times

\* The bench that was just written is over first, or one that was before it still is.
LEMMA FailKeepsTimes ==
    ASSUME TypeOK, Times, NEW c \in Calls, Fail(c) PROVE Times'
<1> USE PoolAssumption DEF PoolAssumption
<1> DEFINE Benches(kind, length) ==
              LET r == BenchRow(c, kind, length)
              IN  /\ row' = [row EXCEPT ![call[c].cand] = r]
                  /\ Goes(c, [call[c] EXCEPT
                         !.pc = "pick", !.tried = @ \cup {call[c].cand}, !.age = 0,
                         !.best = Earliest(c, r),
                         !.before = NoPlatform, !.told = FALSE])
<1>0. PICK kind \in Failures(c) : \E length \in Lengths[kind] : Benches(kind, length)
  BY DEF Fail
<1>1. PICK length \in Lengths[kind] : Benches(kind, length)
  BY <1>0
<1> DEFINE r == BenchRow(c, kind, length)
<1>2. PICK k \in Cands : k = call[c].cand /\ k \notin call[c].tried
  BY DEF Fail, TypeOK, Times, Untried
<1>3. r \in Rows /\ r.by \in {c, Nobody}
  <2>1. kind \in Kinds
    BY DEF Failures, Kinds
  <2> QED
    BY <1>1, <2>1, RowTyped DEF BenchRow, Live, NoRow
<1>4. /\ \A d \in Calls \ {c} : call'[d] = call[d]
      /\ call'[c].pc = "pick" /\ call'[c].tried = call[c].tried \cup {k}
      /\ call'[c].best = Earliest(c, r)
  BY <1>1, <1>2 DEF Goes, TypeOK, CallRecords
<1>5. row'[k] = r /\ \A j \in Cands \ {k} : row'[j] = row[j]
  BY <1>1, <1>2 DEF TypeOK
<1> HIDE DEF r
<1>6. \A d \in Calls : Untried(d)'
  BY <1>4 DEF Times, Untried, Under
<1>7. ASSUME NEW d \in Calls, call'[d].best # {}
      PROVE  \E j \in call'[d].tried : BorneOut(d, j)'
  <2>1. CASE d # c
    <3>1. PICK j \in call[d].tried : BorneOut(d, j)
      BY <1>4, <1>7, <2>1 DEF Times, Named, BorneOut
    <3>2. j \in Cands
      BY DEF TypeOK, CallRecords
    <3>3. BorneOut(d, j)'
      BY <1>3, <1>4, <1>5, <2>1, <3>1, <3>2 DEF BorneOut
    <3> QED
      BY <1>4, <2>1, <3>3
  <2>2. CASE d = c /\ \A b \in Earliest(c, r) : r.left <= b
    <3>1. BorneOut(c, k)'
      BY <1>4, <1>5, <2>2 DEF BorneOut
    <3> QED
      BY <1>4, <2>2, <3>1
  <2>3. CASE d = c /\ \E b \in Earliest(c, r) : ~(r.left <= b)
    <3>1. call[c].best # {} /\ call[c].best \subseteq Nat /\ r.left \in Nat
      BY <1>3, <2>3 DEF TypeOK, Earliest, CallRecords, Rows
    <3>2. PICK a \in call[c].best : ~(r.left <= a)
      BY <2>3, <3>1 DEF Earliest, Smaller
    <3>3. PICK j \in call[c].tried : BorneOut(c, j)
      BY <3>1 DEF Times, Named, BorneOut
    <3>4. j \in Cands /\ j # k /\ row[j].left \in Nat
      BY <1>2 DEF TypeOK, CallRecords, Rows
    <3>5. ASSUME row[j].by = c, NEW b \in Earliest(c, r) PROVE row[j].left <= b
      <4>1. row[j].left <= a /\ \A e \in call[c].best : row[j].left <= e
        BY <3>3, <3>5 DEF BorneOut
      <4>2. PICK e \in call[c].best : b = Smaller(e, r.left)
        BY <3>1 DEF Earliest
      <4> QED
        BY <3>1, <3>2, <3>4, <4>1, <4>2 DEF Smaller
    <3>6. BorneOut(c, j)'
      BY <1>4, <1>5, <3>4, <3>5 DEF BorneOut
    <3> QED
      BY <1>4, <2>3, <3>6
  <2> QED
    BY <2>1, <2>2, <2>3
<1> QED
  BY <1>6, <1>7 DEF Times, Named, BorneOut

LEMMA TickKeepsTimes == ASSUME TypeOK, Times, Tick PROVE Times'
<1>1. ASSUME NEW c \in Calls
      PROVE  /\ call'[c].pc = call[c].pc /\ call'[c].cand = call[c].cand
             /\ call'[c].tried = call[c].tried /\ call[c] \in CallRecords
             /\ call'[c].best = {Down(b) : b \in call[c].best}
  BY DEF Tick, TypeOK, CallRecords
<1>2. \A c \in Calls : Untried(c)'
  BY <1>1 DEF Times, Untried, Under
<1>3. ASSUME NEW c \in Calls, call'[c].best # {}
      PROVE  \E k \in call'[c].tried : BorneOut(c, k)'
  <2>1. PICK k \in call[c].tried : BorneOut(c, k)
    BY <1>1, <1>3 DEF Times, Named, BorneOut
  <2>2. k \in Cands /\ row[k] \in Rows /\ call[c].best \subseteq Nat
    BY <1>1 DEF TypeOK, CallRecords
  <2>3. row'[k] = Aged(row[k])
    BY <2>2 DEF Tick
  <2>4. row'[k].by = c => row[k].by = c /\ row'[k].left = Down(row[k].left)
    BY <2>2, <2>3, PoolAssumption DEF Aged, Live, NoRow, Rows, PoolAssumption
  <2>5. ASSUME row'[k].by = c, NEW b \in call'[c].best PROVE row'[k].left <= b
    <3>1. PICK e \in call[c].best : b = Down(e)
      BY <1>1
    <3>2. row[k].left <= e /\ row[k].left \in Nat /\ e \in Nat
      BY <2>1, <2>2, <2>4, <2>5 DEF BorneOut, Rows
    <3> QED
      BY <2>4, <2>5, <3>1, <3>2 DEF Down, Larger
  <2> QED
    BY <1>1, <2>5 DEF BorneOut
<1> QED
  BY <1>2, <1>3 DEF Times, Named, BorneOut

LEMMA StepKeepsTimes == ASSUME TypeOK, Times, [Next]_vars PROVE Times'
<1> USE PoolAssumption DEF PoolAssumption
<1>1. ASSUME NEW c \in Calls, Begin(c) \/ Succeed(c) \/ Return(c) PROVE Times'
  <2>1. /\ row' = row /\ \A d \in Calls \ {c} : call'[d] = call[d]
        /\ call'[c] \in {NoCall, [NoCall EXCEPT !.pc = "pick"], [NoCall EXCEPT !.pc = "ok"]}
    BY <1>1 DEF Begin, Succeed, Return, Goes, TypeOK
  <2>2. call'[c].pc \in {"idle", "pick", "ok"} /\ call'[c].best = {}
    BY <2>1 DEF NoCall
  <2> QED
    BY <2>1, <2>2 DEF Times, Untried, Named, Under
<1>2. ASSUME NEW c \in Calls, Skip(c) \/ Accepted(c) \/ GiveUp(c) PROVE Times'
  <2>1. row' = row /\ \A d \in Calls \ {c} : call'[d] = call[d]
    BY <1>2 DEF Skip, Accepted, GiveUp, Goes, TypeOK
  <2>2. /\ call'[c].best = call[c].best /\ call[c].tried \subseteq call'[c].tried
        /\ Under(c)' => Under(c) /\ call'[c].cand = call[c].cand
                         /\ call'[c].tried = call[c].tried
    <3>1. CASE Skip(c)
      BY <3>1 DEF Skip, Goes, TypeOK, CallRecords, At, Under
    <3>2. CASE Accepted(c)
      BY <3>2 DEF Accepted, Goes, TypeOK, CallRecords, At, Under
    <3>3. CASE GiveUp(c)
      BY <3>3 DEF GiveUp, Goes, TypeOK, CallRecords, Under
    <3> QED
      BY <1>2, <3>1, <3>2, <3>3
  <2>3. \A d \in Calls : Untried(d)'
    BY <2>1, <2>2 DEF Times, Untried, Under
  <2>4. \A d \in Calls : Named(d)'
    BY <2>1, <2>2 DEF Times, Named
  <2> QED
    BY <2>3, <2>4 DEF Times
<1>3. ASSUME NEW k \in Cands, ProbeOk(k) PROVE Times'
  <2>1. call' = call /\ \A j \in Cands : row'[j] = row[j] \/ row'[j].by = Nobody
    BY <1>3 DEF ProbeOk, ClearedBy, NoRow
  <2>2. \A c \in Calls : call[c].tried \subseteq Cands
    BY DEF TypeOK, CallRecords
  <2>3. \A c \in Calls : Named(c)'
    BY <2>1, <2>2 DEF Times, Named
  <2> QED
    BY <2>1, <2>3 DEF Times, Untried, Under
<1>4. CASE Restart
  BY <1>4 DEF Restart, NoCall, Times, Untried, Named, Under
<1>5. CASE \/ \E k \in Cands : ProbeFails(k)
           \/ \E s \in Sessions : Forget(s)
           \/ StartProbe \/ UNCHANGED vars
  BY <1>5 DEF ProbeFails, Forget, StartProbe, vars, Times, Untried, Named, Under
<1> QED
  BY <1>1, <1>2, <1>3, <1>4, <1>5, DispatchKeepsTimes, FailKeepsTimes, TickKeepsTimes
  DEF Next, Step

-----------------------------------------------------------------------------
(* Theorems. *)

LEMMA PoolInvariant == Spec => []PoolInv
<1>1. Init => PoolInv
  <2> SUFFICES ASSUME Init PROVE PoolInv
    OBVIOUS
  <2>1. TypeOK
    BY NoCallTyped DEF Init, TypeOK, NoCall, NoRow, Rows, Provs, Under
  <2> QED
    BY <2>1 DEF Init, PoolInv, LeasesExact, Handoffs, SwitchAnnounced, Times, Remembered,
                Resting, Untried, Named, NoCall, At, Under
<1>2. PoolInv /\ [Next]_vars => PoolInv'
  BY StepTyped, StepLeases, StepHandsOver, StepKeepsTimes DEF PoolInv
<1> QED
  BY <1>1, <1>2, PTL DEF Spec

\* Rows, leases, sessions and calls keep their types, for any pool.
THEOREM PoolTypesCorrect == Spec => []TypeOK
BY PoolInvariant, PTL DEF PoolInv

\* No way out of a dispatch keeps a lease (ledger.rs, release_lease), for any number of
\* calls, and whenever the daemon stops.
THEOREM LeasesAreExact == Spec => []LeasesExact
BY PoolInvariant, PTL DEF PoolInv

\* The note about a change of provider is never left out (handoff.rs, inject), however
\* calls of other sessions, the age of entries and restarts come in between.
THEOREM SwitchesAreAnnounced == Spec => []SwitchAnnounced
<1>1. PoolInv => SwitchAnnounced
  BY DEF PoolInv, Handoffs
<1> QED
  BY <1>1, PoolInvariant, PTL

\* The time an exhausted call names is one at which a candidate it tried is free
\* (pool_agent.rs, earliest_recovery_ms), whatever the lengths of the benches and
\* whoever rewrites the rows.
THEOREM RecoveryIsUseful == Spec => []RecoveryUseful
<1>1. PoolInv => RecoveryUseful
  <2> SUFFICES ASSUME PoolInv, NEW c \in Calls, call[c].best = {0}
               PROVE  \E k \in call[c].tried : ~Benched(k) \/ row[k].by # c
    BY DEF RecoveryUseful
  <2>1. PICK k \in call[c].tried : row[k].by = c => row[k].left <= 0
    BY DEF PoolInv, Times, Named
  <2>2. k \in Cands /\ row[k].left \in Nat
    BY DEF PoolInv, TypeOK, CallRecords, Rows
  <2> QED
    BY <2>1, <2>2 DEF Benched
<1> QED
  BY <1>1, PoolInvariant, PTL
=============================================================================
