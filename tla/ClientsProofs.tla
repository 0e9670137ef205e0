----------------------------- MODULE ClientsProofs -----------------------------
(***************************************************************************)
(* Proofs about the processes around the daemon, for every number of them     *)
(* and every value of the constants that MCClients' assumption admits.  A     *)
(* behaviour is about one part: each section proves the invariant of one       *)
(* part's own next-state relation, and what follows of the composed one.       *)
(***************************************************************************)
EXTENDS MCClients, TLAPS

clientsVars == <<which, DaemonVars, AskVars, AgentVars, OrchVars, LspVars, RunVars>>

-----------------------------------------------------------------------------
(* Requests and daemons. *)

\* What is executed is at a caller's own process, served, or answered, and was
\* executed there once; a row is ended by its answer alone.
Executed(c) ==
    /\ caller[c].pc \in {"idle", "sent"} => ran[c] = 0
    /\ caller[c].pc \in {"inside", "served"} => ran[c] = 1
    /\ caller[c].pc = "answered" => ran[c] = 1 /\ job[c] = "ended"
    /\ ran[c] \in {0, 1}

Requests ==
    /\ caller \in [Callers -> [pc : {"idle", "sent", "inside", "served", "answered", "failed"},
                               via : Daemons \cup {NoDaemon}]]
    /\ job \in [Callers -> {"none", "running", "ended", "failed"}]
    /\ ran \in [Callers -> Nat]
    /\ file \in Daemons \cup {NoDaemon}

Once == Requests /\ \A c \in Callers : Executed(c)

LEMMA DaemonStep == Once /\ [D!Next]_DaemonVars => Once'
<1> SUFFICES ASSUME Once, [D!Next]_DaemonVars PROVE Once'
  OBVIOUS
<1> USE DEF Once, Requests, Executed
<1>1. CASE UNCHANGED <<caller, job, ran>> /\ file' \in Daemons \cup {NoDaemon}
  BY <1>1
<1>2. ASSUME NEW c \in Callers, D!Refused(c) \/ D!Connect(c) \/ D!Lost(c) \/ D!Killed(c) PROVE Once'
  BY <1>2 DEF D!Refused, D!Connect, D!Lost, D!Killed, D!Becomes, D!Is
<1>3. ASSUME NEW c \in Callers, D!InProcess(c) \/ D!Serve(c) PROVE Once'
  BY <1>3 DEF D!InProcess, D!Serve, D!Becomes, D!Is, D!Runs
<1>4. ASSUME NEW c \in Callers, D!Answer(c) PROVE Once'
  BY <1>4 DEF D!Answer, D!Becomes, D!Is
<1>5. ASSUME NEW d \in Daemons, D!Reconcile(d) PROVE Once'
  BY <1>5 DEF D!Reconcile, D!Orphans
<1>6. ASSUME NEW d \in Daemons, D!Sweep(d) \/ D!Bind(d) \/ D!Dies(d) PROVE Once'
  BY <1>1, <1>6 DEF D!Sweep, D!Bind, D!Dies
<1>7. ASSUME NEW s \in Starters, D!Ensure(s) \/ D!Comes(s) \/ D!Stop(s) PROVE Once'
  BY <1>1, <1>7 DEF D!Ensure, D!Comes, D!Stop
<1>8. CASE UNCHANGED DaemonVars
  BY <1>1, <1>8 DEF DaemonVars
<1> QED
  BY <1>2, <1>3, <1>4, <1>5, <1>6, <1>7, <1>8 DEF D!Next

\* For any number of callers, daemons and starters, no request is executed twice, and
\* one that is answered was executed (client.rs: a request runs in the caller's process
\* only if nothing was sent, and a lost reply is an error).
THEOREM NothingRunsTwice == Spec => []ExecutedOnce
<1>. DEFINE Inv == which = "daemon" => Once
<1>1. Init => Inv
  BY DEF Init, D!Init, Once, Requests, Executed
<1>2. Inv /\ [Next]_clientsVars => Inv'
  <2>. SUFFICES ASSUME Inv, [Next]_clientsVars, which' = "daemon" PROVE Once'
    OBVIOUS
  <2>1. which = "daemon" /\ [D!Next]_DaemonVars
    BY DEF Next, clientsVars
  <2>. QED  BY <2>1, DaemonStep
<1>3. Inv => ExecutedOnce
  BY DEF Once, Requests, Executed, D!ExecutedOnce, D!Is, ExecutedOnce
<1> QED
  BY <1>1, <1>2, <1>3, PTL DEF Spec, clientsVars

-----------------------------------------------------------------------------
(* The run of an agent. *)

\* A run that has come to its end unkilled is never killed, and a process that is
\* dead forks nothing.
KilledWhole ==
    /\ R!NoneLeft
    /\ pc \in {"spawn", "poll"} => killed = "no"

LEMMA RunStep == KilledWhole /\ [R!Next]_RunVars => KilledWhole'
<1>. SUFFICES ASSUME KilledWhole, [R!Next]_RunVars PROVE KilledWhole'
  OBVIOUS
<1>. USE DEF KilledWhole, R!NoneLeft
<1>1. CASE R!Fork
  BY <1>1 DEF R!Fork
<1>2. CASE R!HelperEnds
  BY <1>2 DEF R!HelperEnds
<1>3. CASE R!Exit
  BY <1>3 DEF R!Exit
<1>4. CASE R!BadLine \/ R!WriteFails
  BY <1>4 DEF R!BadLine, R!WriteFails
<1>5. CASE R!Deadline \/ R!CancelRun
  BY <1>5 DEF R!Deadline, R!CancelRun
<1>6. CASE R!Spawn
  BY <1>6 DEF R!Spawn
<1>7. CASE R!Poll
  BY <1>7 DEF R!Poll
<1>8. CASE R!KillChild
  BY <1>8 DEF R!KillChild
<1>9. CASE R!Join
  BY <1>9 DEF R!Join
<1>10. CASE UNCHANGED RunVars
  BY <1>10 DEF RunVars
<1>. QED
  BY <1>1, <1>2, <1>3, <1>4, <1>5, <1>6, <1>7, <1>8, <1>9, <1>10 DEF R!Next, R!Thread

\* For every agent and wherever it runs, a kill leaves nothing of its group, however
\* the agent forks meanwhile (run.rs, kill_child).
THEOREM KillsWholeGroup == Spec => []NoneLeft
<1>. DEFINE Inv == which = "run" => KilledWhole
<1>1. Init => Inv
  BY DEF Init, R!Init, KilledWhole, R!NoneLeft
<1>2. Inv /\ [Next]_clientsVars => Inv'
  <2>. SUFFICES ASSUME Inv, [Next]_clientsVars, which' = "run" PROVE KilledWhole'
    OBVIOUS
  <2>1. which = "run" /\ [R!Next]_RunVars
    BY DEF Next, clientsVars
  <2>. QED  BY <2>1, RunStep
<1>3. Inv => NoneLeft
  BY DEF KilledWhole, NoneLeft
<1>. QED
  BY <1>1, <1>2, <1>3, PTL DEF Spec, clientsVars

-----------------------------------------------------------------------------
(* The agent that comes with SingleCLI. *)

Message == [calls : 0..MaxCalls, about : 0..MaxCalls]

\* The conversation so far followed by the answers that are still to be given is one
\* the provider takes: the calls to be done are the rest of the last answer's, in order.
Owed(i, k) ==
    IF i + k <= Len(talk) THEN talk[i + k] = [calls |-> 0, about |-> k]
    ELSE i + k - Len(talk) <= Len(calls) /\ calls[i + k - Len(talk)].n = k

NextCall(i) == IF talk[i].calls > 0 THEN 1 ELSE talk[i].about + 1

Conversation ==
    /\ talk \in Seq(Message) /\ calls \in Seq(N!Call)
    /\ outcome = "waits" => calls = <<>>
    /\ \A i \in 1..Len(talk) :
           IF talk[i].calls > 0 THEN \A k \in 1..talk[i].calls : Owed(i, k)
           ELSE i > 1 /\ talk[i].about = NextCall(i - 1)
    /\ calls # <<>> =>
           /\ talk # <<>>
           /\ \A j \in 1..Len(calls) : calls[j].n = NextCall(Len(talk)) + j - 1

LEMMA AgentStep == Conversation /\ [N!Next]_AgentVars => Conversation'
<1>. SUFFICES ASSUME Conversation, [N!Next]_AgentVars PROVE Conversation'
  OBVIOUS
<1>1. CASE UNCHANGED <<talk, calls>> /\ (outcome' = "waits" => calls = <<>>)
  BY <1>1 DEF Conversation, Owed, NextCall
<1>2. CASE N!NotSetUp \/ N!RequestFails \/ N!Answered \/ N!CommandEnds \/ N!OutOfSteps
  BY <1>1, <1>2 DEF N!NotSetUp, N!RequestFails, N!Answered, N!CommandEnds, N!OutOfSteps, N!Ends,
     Conversation
<1>3. CASE N!Request
  BY <1>1, <1>3 DEF N!Request, N!Ends
<1>4. CASE N!ToolCalls
  <2>1. PICK n \in 1..MaxCalls :
            /\ calls' \in [1..n -> N!Call] /\ \A k \in 1..n : calls'[k].n = k
            /\ talk' = Append(talk, [calls |-> n, about |-> 0])
    BY <1>4 DEF N!ToolCalls
  <2>2. calls = <<>> /\ outcome' = "none" /\ talk \in Seq(Message) /\ MaxCalls \in Nat
    BY <1>4, ClientsAssumption DEF N!ToolCalls, N!Ends, Conversation
  <2>3. calls' \in Seq(N!Call) /\ Len(calls') = n /\ DOMAIN calls' = 1..n
    BY <2>1, <2>2
  <2>4. /\ talk' \in Seq(Message) /\ Len(talk') = Len(talk) + 1
        /\ talk'[Len(talk) + 1] = [calls |-> n, about |-> 0]
        /\ \A i \in 1..Len(talk) : talk'[i] = talk[i]
    BY <2>1, <2>2 DEF Message
  <2>5. ASSUME NEW i \in 1..Len(talk')
        PROVE  IF talk'[i].calls > 0 THEN \A k \in 1..talk'[i].calls : Owed(i, k)'
               ELSE i > 1 /\ talk'[i].about = NextCall(i - 1)'
    <3>1. CASE i = Len(talk) + 1
      <4>1. talk'[i].calls = n /\ n > 0
        BY <2>1, <2>4, <3>1
      <4>2. ASSUME NEW k \in 1..n PROVE Owed(i, k)'
        <5>1. ~(i + k <= Len(talk')) /\ i + k - Len(talk') = k
          BY <2>2, <2>4, <3>1
        <5>. QED  BY <5>1, <2>1, <2>3 DEF Owed
      <4>. QED  BY <4>1, <4>2
    <3>2. CASE i # Len(talk) + 1
      <4>1. i \in 1..Len(talk) /\ talk'[i] = talk[i]
        BY <2>2, <2>4, <3>2
      <4>2. ASSUME talk[i].calls > 0, NEW k \in 1..talk[i].calls PROVE Owed(i, k)'
        <5>1. Owed(i, k)
          BY <4>1, <4>2 DEF Conversation
        <5>2. talk[i] \in Message /\ talk[i].calls \in Nat
          <6>1. talk[i] \in Message
            BY <4>1, <2>2
          <6>. QED  BY <6>1, <2>2 DEF Message
        <5>3. i + k <= Len(talk) /\ talk[i + k] = [calls |-> 0, about |-> k]
          BY <5>1, <5>2, <2>2, <4>1 DEF Owed
        <5>4. i + k \in 1..Len(talk)
          BY <5>3, <5>2, <4>1, <2>2
        <5>. QED  BY <5>3, <5>4, <2>2, <2>4 DEF Owed
      <4>3. ASSUME ~(talk[i].calls > 0) PROVE i > 1 /\ talk'[i].about = NextCall(i - 1)'
        <5>1. i > 1 /\ talk[i].about = NextCall(i - 1)
          BY <4>1, <4>3 DEF Conversation
        <5>2. i - 1 \in 1..Len(talk)
          BY <5>1, <4>1, <2>2
        <5>. QED  BY <5>1, <5>2, <4>1, <2>4 DEF NextCall
      <4>. QED  BY <4>1, <4>2, <4>3
    <3>. QED  BY <3>1, <3>2
  <2>6. \A j \in 1..Len(calls') : calls'[j].n = NextCall(Len(talk))' + j - 1
    <3>1. NextCall(Len(talk))' = 1
      BY <2>1, <2>2, <2>4 DEF NextCall
    <3>. QED  BY <3>1, <2>1, <2>3
  <2>7. talk' # <<>>
    BY <2>2, <2>4
  <2>. QED  BY <2>2, <2>3, <2>4, <2>5, <2>6, <2>7 DEF Conversation
<1>5. CASE N!Execute
  <2>. DEFINE call == Head(calls)
              said1 == [calls |-> 0, about |-> call.n]
  <2>1. /\ calls # <<>> /\ talk # <<>> /\ talk \in Seq(Message) /\ calls \in Seq(N!Call)
        /\ MaxCalls \in Nat /\ outcome = "none" /\ outcome' = "none"
    BY <1>5, ClientsAssumption DEF N!Execute, Conversation
  <2>2. call = calls[1] /\ call \in N!Call /\ call.n = NextCall(Len(talk)) /\ call.n \in 1..MaxCalls
    <3>1. 1 \in 1..Len(calls) /\ call = calls[1] /\ call \in N!Call
      BY <2>1
    <3>2. NextCall(Len(talk)) \in Nat
      <4>1. talk[Len(talk)] \in Message
        BY <2>1
      <4>. QED  BY <4>1, <2>1 DEF Message, NextCall
    <3>3. calls[1].n = NextCall(Len(talk)) + 1 - 1
      BY <3>1, <2>1 DEF Conversation
    <3>. QED  BY <3>1, <3>2, <3>3 DEF N!Call
  <2>3. /\ calls' \in Seq(N!Call) /\ Len(calls') = Len(calls) - 1
        /\ \A j \in 1..Len(calls') : calls'[j] = calls[j + 1]
    BY <1>5, <2>1 DEF N!Execute
  <2>4. /\ talk' \in Seq(Message) /\ Len(talk') = Len(talk) + 1
        /\ talk'[Len(talk) + 1] = said1
        /\ \A i \in 1..Len(talk) : talk'[i] = talk[i]
    <3>1. said1 \in Message
      BY <2>1, <2>2 DEF Message
    <3>2. talk' = Append(talk, said1)
      BY <1>5 DEF N!Execute, N!Says
    <3>. QED  BY <2>1, <3>1, <3>2
  <2>. HIDE DEF call
  <2>5. ASSUME NEW i \in 1..Len(talk')
        PROVE  IF talk'[i].calls > 0 THEN \A k \in 1..talk'[i].calls : Owed(i, k)'
               ELSE i > 1 /\ talk'[i].about = NextCall(i - 1)'
    <3>1. CASE i = Len(talk) + 1
      <4>1. ~(talk'[i].calls > 0) /\ i > 1 /\ talk'[i].about = call.n
        BY <2>1, <2>4, <3>1
      <4>2. NextCall(i - 1)' = NextCall(Len(talk))
        <5>1. i - 1 = Len(talk) /\ Len(talk) \in 1..Len(talk)
          BY <2>1, <3>1
        <5>. QED  BY <5>1, <2>4 DEF NextCall
      <4>. QED  BY <4>1, <4>2, <2>2
    <3>2. CASE i # Len(talk) + 1
      <4>1. i \in 1..Len(talk) /\ talk'[i] = talk[i]
        BY <2>1, <2>4, <3>2
      <4>2. ASSUME talk[i].calls > 0, NEW k \in 1..talk[i].calls PROVE Owed(i, k)'
        <5>1. Owed(i, k)
          BY <4>1, <4>2 DEF Conversation
        <5>2. talk[i] \in Message /\ talk[i].calls \in Nat /\ k \in Nat
          <6>1. talk[i] \in Message
            BY <4>1, <2>1
          <6>. QED  BY <6>1, <2>1 DEF Message
        <5>3. CASE i + k <= Len(talk)
          <6>1. i + k \in 1..Len(talk) /\ i + k <= Len(talk')
            BY <5>3, <5>2, <4>1, <2>1, <2>4
          <6>. QED  BY <5>1, <6>1, <2>4 DEF Owed
        <5>4. CASE i + k = Len(talk) + 1
          <6>1. calls[1].n = k
            BY <5>1, <5>2, <5>4, <4>1, <2>1 DEF Owed
          <6>. QED  BY <6>1, <5>2, <5>4, <2>1, <2>2, <2>4 DEF Owed
        <5>5. CASE i + k > Len(talk) + 1
          <6>1. i + k - Len(talk) <= Len(calls) /\ calls[i + k - Len(talk)].n = k
            BY <5>1, <5>2, <5>5, <4>1, <2>1 DEF Owed
          <6>2. i + k - Len(talk') \in 1..Len(calls') /\ i + k - Len(talk') + 1 = i + k - Len(talk)
            BY <6>1, <5>2, <5>5, <4>1, <2>1, <2>3, <2>4
          <6>3. calls'[i + k - Len(talk')].n = k
            BY <6>1, <6>2, <2>3
          <6>4. ~(i + k <= Len(talk'))
            BY <5>2, <5>5, <4>1, <2>1, <2>4
          <6>. QED  BY <6>2, <6>3, <6>4 DEF Owed
        <5>. QED  BY <5>2, <5>3, <5>4, <5>5, <4>1, <2>1
      <4>3. ASSUME ~(talk[i].calls > 0) PROVE i > 1 /\ talk'[i].about = NextCall(i - 1)'
        <5>1. i > 1 /\ talk[i].about = NextCall(i - 1)
          BY <4>1, <4>3 DEF Conversation
        <5>2. i - 1 \in 1..Len(talk)
          BY <5>1, <4>1, <2>1
        <5>. QED  BY <5>1, <5>2, <4>1, <2>4 DEF NextCall
      <4>. QED  BY <4>1, <4>2, <4>3
    <3>. QED  BY <3>1, <3>2
  <2>6. ASSUME NEW j \in 1..Len(calls') PROVE calls'[j].n = NextCall(Len(talk))' + j - 1
    <3>1. NextCall(Len(talk))' = call.n + 1
      BY <2>1, <2>2, <2>4 DEF NextCall
    <3>2. j + 1 \in 1..Len(calls) /\ calls'[j] = calls[j + 1]
      BY <2>1, <2>3
    <3>3. calls[j + 1].n = NextCall(Len(talk)) + (j + 1) - 1
      BY <3>2, <2>1 DEF Conversation
    <3>. QED  BY <3>1, <3>2, <3>3, <2>2
  <2>7. talk' # <<>>
    BY <2>1, <2>4
  <2>. QED  BY <2>1, <2>3, <2>4, <2>5, <2>6, <2>7 DEF Conversation
<1>6. CASE UNCHANGED AgentVars
  BY <1>1, <1>6 DEF AgentVars, Conversation
<1>7. CASE N!ExecutePanics
  BY <1>1, <1>7 DEF N!ExecutePanics, N!Ends, Conversation
<1>. QED
  BY <1>2, <1>3, <1>4, <1>5, <1>6, <1>7 DEF N!Next

LEMMA ConversationTaken == Conversation => N!EachCallAnswered
<1>. SUFFICES ASSUME Conversation, outcome = "waits", NEW i \in DOMAIN talk
              PROVE  IF talk[i].calls > 0
                     THEN \A k \in 1..talk[i].calls :
                              i + k <= Len(talk) /\ talk[i + k] = [calls |-> 0, about |-> k]
                     ELSE i > 1 /\ talk[i].about = NextCall(i - 1)
  BY DEF N!EachCallAnswered, NextCall
<1>1. talk \in Seq(Message) /\ calls = <<>> /\ i \in 1..Len(talk) /\ talk[i] \in Message
  BY DEF Conversation
<1>2. ASSUME talk[i].calls > 0, NEW k \in 1..talk[i].calls
      PROVE  i + k <= Len(talk) /\ talk[i + k] = [calls |-> 0, about |-> k]
  <2>1. Owed(i, k)
    BY <1>1, <1>2 DEF Conversation
  <2>2. k \in Nat /\ i \in Nat /\ Len(talk) \in Nat
    BY <1>1, ClientsAssumption DEF Message
  <2>. QED  BY <2>1, <2>2, <1>1 DEF Owed
<1>. QED  BY <1>1, <1>2 DEF Conversation

-----------------------------------------------------------------------------
(* Requests to language servers. *)

Names == Langs \cup {Unknown}
Early == {"ensure", "bind", "register"}
Unasked(r) == replies[r] = <<>> /\ \A p \in pending : p.req # r

\* A request is in the table once and as long as nobody has answered it; the one the
\* client's thread is about to enter is neither in it nor answered.
Tables ==
    /\ replies \in [Reqs -> Seq(Gens \cup {0})]
    /\ \A r \in Reqs : Len(replies[r]) <= 1
    /\ pending \subseteq [req : Reqs, lang : Names]
    /\ \A p \in pending : replies[p.req] = <<>>
    /\ \A p, q \in pending : p.req = q.req => p = q
    /\ client \in [pc : Early \cup {"idle", "send"}, req : Reqs \cup {NoReq}, lang : Names]
    /\ client.pc # "idle" => client.req \in Reqs
    /\ client.pc \in Early => Unasked(client.req)

\* What is answered is answered for the first time, and is no longer in the table.
LEMMA Answering ==
    ASSUME Tables, NEW rs \in SUBSET Reqs, NEW g \in Gens \cup {0}, L!Reply(rs, g),
           \A r \in rs : replies[r] = <<>>,
           pending' \subseteq pending, \A p \in pending' : p.req \notin rs,
           client' = client \/ client' = L!Waiting,
           client' = client => ~(client.pc \in Early /\ client.req \in rs)
    PROVE  Tables'
<1>1. replies' = [r \in Reqs |-> IF r \in rs THEN Append(replies[r], g) ELSE replies[r]]
  BY DEF L!Reply
<1>2. \A r \in Reqs : replies'[r] = IF r \in rs THEN <<g>> ELSE replies[r]
  <2>1. Append(<<>>, g) = <<g>>
    OBVIOUS
  <2>. QED  BY <1>1, <2>1, Zenon
<1>3. \A r \in Reqs : replies'[r] \in Seq(Gens \cup {0}) /\ Len(replies'[r]) <= 1
  <2>. SUFFICES ASSUME NEW r \in Reqs
                PROVE  replies'[r] \in Seq(Gens \cup {0}) /\ Len(replies'[r]) <= 1
    OBVIOUS
  <2>1. replies[r] \in Seq(Gens \cup {0}) /\ Len(replies[r]) <= 1
    BY DEF Tables
  <2>2. <<g>> \in Seq(Gens \cup {0}) /\ Len(<<g>>) <= 1
    OBVIOUS
  <2>. QED  BY <1>2, <2>1, <2>2
<1>4. replies' \in [Reqs -> Seq(Gens \cup {0})]
  BY <1>1, <1>3
<1>5. client' \in [pc : Early \cup {"idle", "send"}, req : Reqs \cup {NoReq}, lang : Names]
  BY DEF Tables, L!Waiting, Names
<1>6. client'.pc # "idle" => client' = client
  BY DEF L!Waiting
<1>7. \A p \in pending' : replies'[p.req] = <<>>
  <2>. SUFFICES ASSUME NEW p \in pending' PROVE replies'[p.req] = <<>>
    OBVIOUS
  <2>1. p \in pending /\ p.req \in Reqs /\ p.req \notin rs /\ replies[p.req] = <<>>
    BY DEF Tables
  <2>. QED  BY <1>2, <2>1
<1>8. client'.pc \in Early => Unasked(client.req)'
  <2>. SUFFICES ASSUME client'.pc \in Early PROVE Unasked(client.req)'
    OBVIOUS
  <2>1. client' = client /\ client.req \in Reqs /\ client.req \notin rs /\ Unasked(client.req)
    BY <1>6 DEF Early, Tables
  <2>. QED  BY <1>2, <2>1 DEF Unasked
<1>. QED  BY <1>3, <1>4, <1>5, <1>6, <1>7, <1>8 DEF Tables

\* Only who takes an entry out of the table answers it.
LEMMA TakingOut ==
    ASSUME Tables, NEW ps, NEW g \in Gens \cup {0},
           pending' = pending \ ps, L!Reply(L!Taken(ps), g),
           client' = client \/ client' = L!Waiting
    PROVE  Tables'
<1>1. \A r \in L!Taken(ps) : \E p \in ps \cap pending : r = p.req
  BY DEF L!Taken
<1>2. L!Taken(ps) \in SUBSET Reqs /\ \A r \in L!Taken(ps) : replies[r] = <<>>
  BY <1>1 DEF Tables
<1>3. \A p \in pending' : p.req \notin L!Taken(ps)
  BY <1>1 DEF Tables
<1>4. ~(client.pc \in Early /\ client.req \in L!Taken(ps))
  BY <1>1 DEF Tables, Unasked
<1>. QED  BY <1>2, <1>3, <1>4, Answering

LEMMA LspStep == Tables /\ [L!Next]_LspVars => Tables'
<1>. SUFFICES ASSUME Tables, [L!Next]_LspVars PROVE Tables'
  OBVIOUS
<1>1. ASSUME UNCHANGED <<pending, replies>>,
             client' = client \/ client' = L!Waiting
             \/ /\ client.pc \in Early /\ client'.pc \in Early
                /\ client' = [client EXCEPT !.pc = client'.pc]
      PROVE  Tables'
  BY <1>1 DEF Tables, L!Waiting, Names, Early, Unasked
<1>2. ASSUME NEW r \in Reqs, NEW n \in Names, L!Receive(r, n) PROVE Tables'
  <2>1. client.pc = "idle" /\ Unasked(r) /\ UNCHANGED pending
    BY <1>2 DEF L!Receive, L!Does, Unasked
  <2>2. CASE n = Unknown
    <3>1. L!Reply({r}, 0) /\ client' = client
      BY <1>2, <2>2 DEF L!Receive
    <3>. QED  BY <2>1, <3>1, Answering DEF Unasked, Early
  <2>3. CASE n # Unknown
    <3>1. replies' = replies /\ client' = [pc |-> IF n \in docs THEN "register" ELSE "ensure",
                                           req |-> r, lang |-> n]
      BY <1>2, <2>3 DEF L!Receive
    <3>. QED  BY <2>1, <3>1 DEF Tables, Unasked, Early
  <2>. QED  BY <2>2, <2>3
<1>3. CASE L!Reuse \/ \E g \in Gens : L!Spawn(g)
  BY <1>1, <1>3 DEF L!Reuse, L!Spawn, L!Does, L!Then, Early, Tables
<1>4. CASE L!SpawnFails
  <2>1. /\ client.pc = "ensure" /\ client' = L!Waiting /\ UNCHANGED pending
        /\ L!Reply({client.req}, 0)
    BY <1>4 DEF L!SpawnFails, L!Does
  <2>2. client.req \in Reqs /\ Unasked(client.req)
    BY <2>1 DEF Tables, Early
  <2>3. client' # client
    BY <2>1 DEF L!Waiting
  <2>. QED  BY <2>1, <2>2, <2>3, Answering DEF Unasked
<1>5. CASE L!BindDoc
  BY <1>1, <1>5 DEF L!BindDoc, L!Does, L!Then, Early, Tables
<1>6. CASE L!Register
  <2>1. /\ client.pc = "register" /\ client' = [client EXCEPT !.pc = "send"]
        /\ pending' = pending \cup {[req |-> client.req, lang |-> client.lang]}
        /\ UNCHANGED replies
    BY <1>6 DEF L!Register, L!Does, L!Then, L!Sent
  <2>2. client.req \in Reqs /\ Unasked(client.req) /\ client.lang \in Names
    BY <2>1 DEF Tables, Early
  <2>3. /\ client' \in [pc : Early \cup {"idle", "send"}, req : Reqs \cup {NoReq}, lang : Names]
        /\ client'.pc = "send" /\ client'.req = client.req
    BY <2>1 DEF Tables
  <2>. QED  BY <2>1, <2>2, <2>3 DEF Tables, Unasked, Early
<1>7. CASE L!Send
  BY <1>1, <1>7 DEF L!Send
<1>8. CASE L!SendFails
  BY <1>8, TakingOut DEF L!SendFails
<1>9. CASE (\E n \in Langs : L!DidClose(n)) \/ (\E a \in asked : L!ClientAnswers(a))
  BY <1>1, <1>9 DEF L!DidClose, L!ClientAnswers
<1>10. ASSUME NEW g \in Gens, L!BackendAsks(g) \/ L!Exits(g) PROVE Tables'
  BY <1>1, <1>10 DEF L!BackendAsks, L!Exits
<1>11. ASSUME NEW g \in Gens, L!Retire(g) \/ L!RetireDocs(g) \/ L!RetireAsked(g) PROVE Tables'
  BY <1>1, <1>11 DEF L!Retire, L!RetireDocs, L!RetireAsked
<1>12. ASSUME NEW g \in Gens, L!RetirePending(g) PROVE Tables'
  BY <1>12, TakingOut DEF L!RetirePending
<1>13. ASSUME NEW g \in Gens, NEW r \in Reqs, L!Answers(g, r) PROVE Tables'
  BY <1>13, TakingOut DEF L!Answers
<1>14. CASE L!Close \/ L!Closed
  BY <1>1, <1>14 DEF L!Close, L!Closed
<1>15. CASE UNCHANGED LspVars
  BY <1>1, <1>15 DEF LspVars
<1>. QED
  BY <1>2, <1>3, <1>4, <1>5, <1>6, <1>7, <1>8, <1>9, <1>10, <1>11, <1>12, <1>13, <1>14, <1>15
  DEF L!Next, L!ClientStep, L!Reader, Names

\* The provider is sent one answer for each tool call it asked for, in their order,
\* whatever the tools do; and no request to a language server is answered twice, however
\* a failed send, a late answer and the thread that mourns a backend interleave.
THEOREM OneAnswerForEach == Spec => []EachAnsweredOnce
<1>. DEFINE Inv == /\ which = "agent" => Conversation
                   /\ which = "lsp" => Tables
<1>1. Init => Inv
  <2>1. N!Init => Conversation
    BY DEF N!Init, Conversation
  <2>2. L!Init => Tables
    BY DEF L!Init, L!Waiting, Tables, Names, Early
  <2>. QED  BY <2>1, <2>2 DEF Init
<1>2. Inv /\ [Next]_clientsVars => Inv'
  <2>. SUFFICES ASSUME Inv, [Next]_clientsVars PROVE Inv'
    OBVIOUS
  <2>1. which' = "agent" => which = "agent" /\ [N!Next]_AgentVars
    BY DEF Next, clientsVars
  <2>2. which' = "lsp" => which = "lsp" /\ [L!Next]_LspVars
    BY DEF Next, clientsVars
  <2>. QED  BY <2>1, <2>2, AgentStep, LspStep
<1>3. Inv => EachAnsweredOnce
  BY ConversationTaken DEF EachAnsweredOnce, L!AnsweredOnce, Tables
<1>. QED
  BY <1>1, <1>2, <1>3, PTL DEF Spec, clientsVars

-----------------------------------------------------------------------------
(* Tool calls and the leave they need. *)

AskPcs == {"idle", "asking", "waiting", "told", "denied", "ensure", "initializing", "calling",
           "ran", "failed"}
AskOf == [pc : AskPcs, id : Nat, child : Procs \cup {NoProc}]
PersonOf == [pc : {"idle", "update", "learn", "done"}, id : Nat,
             allow : BOOLEAN, remember : BOOLEAN]
SessionOf == [child : Procs \cup {NoProc}, old : BOOLEAN]
ToldOf == [resource : Resources, status : {"pending", "allowed", "denied"}]
SaidOf == [resource : Resources, id : Nat, allow : BOOLEAN, remember : BOOLEAN]

AsksTypes ==
    /\ pref \in [Resources -> {"none", "allow", "deny"}]
    /\ approval \in Seq(ToldOf)
    /\ ask \in [Asks -> AskOf]
    /\ person \in [Persons -> PersonOf]
    /\ said \subseteq SaidOf
    /\ session \in [P!Servers -> SessionOf]
    /\ lock \in Asks \cup {NoOne}
    /\ child \in [Procs -> {"none", "starting", "up", "evicted", "gone"}]

\* Whoever is about to write an answer writes it for an approval that there is.
PersonsKnow ==
    \A p \in Persons : person[p].pc \in {"update", "learn"} => person[p].id \in 1..Len(approval)

\* Who is at a server's session, and how it stands with the process it has: a call
\* that is under way has the process of the session, or one the sweeper gave up.
Gated(c) ==
    /\ ask[c].pc \in {"ensure", "initializing", "calling"} => c \notin Hooks \cup Tools
    /\ ask[c].pc = "initializing" =>
           /\ lock = c /\ ask[c].child \in Procs /\ child[ask[c].child] = "starting"
           /\ session[P!Server(c)].child = NoProc
    /\ ask[c].pc = "calling" =>
           /\ ask[c].child \in Procs
           /\ \/ child[ask[c].child] = "up" /\ session[P!Server(c)].child = ask[c].child
              \/ child[ask[c].child] = "evicted"

GateKept ==
    /\ \A c \in Asks : Gated(c)
    /\ \A s \in P!Servers : session[s].child # NoProc => child[session[s].child] = "up"
    /\ \A s, t \in P!Servers :
           session[s].child # NoProc /\ session[s].child = session[t].child => s = t

\* What is allowed, by whom it was said: an approval by a person for its own id, a
\* preference by one who said that it be remembered.
Protected == {"ensure", "initializing", "calling", "ran"}
SaysAllowed(id) == \E d \in said : d.allow /\ d.id = id /\ d.resource = approval[id].resource
SaysAlways(r) == \E d \in said : d.allow /\ d.remember /\ d.resource = r

LeaveKept ==
    /\ \A c \in Asks : ask[c].pc \in Protected => P!Leave(c)
    /\ \A c \in Asks : ask[c].pc = "waiting" =>
           /\ c \in Hooks /\ ask[c].id \in 1..Len(approval)
           /\ approval[ask[c].id].resource = ResourceOf[c]
    /\ \A id \in 1..Len(approval) : approval[id].status = "allowed" => SaysAllowed(id)
    /\ \A r \in Resources : pref[r] = "allow" => SaysAlways(r)
    /\ \A p \in Persons : person[p].pc = "learn" /\ person[p].allow =>
           SaysAlways(approval[person[p].id].resource)

AsksInv == AsksTypes /\ PersonsKnow /\ GateKept /\ LeaveKept

LEMMA ServerInUse ==
    ASSUME GateKept, NEW c \in Asks, ask[c].pc \in {"ensure", "initializing", "calling"}
    PROVE  P!Server(c) \in P!Servers
  BY DEF GateKept, Gated, P!Server, P!Servers

LEMMA SeqExcept ==
    ASSUME NEW S, NEW s \in Seq(S), NEW i \in 1..Len(s), NEW e \in S
    PROVE  /\ [s EXCEPT ![i] = e] \in Seq(S) /\ Len([s EXCEPT ![i] = e]) = Len(s)
           /\ \A j \in 1..Len(s) : [s EXCEPT ![i] = e][j] = IF j = i THEN e ELSE s[j]
  OBVIOUS

\* What a call's own step does to its record.
LEMMA ToChanges ==
    ASSUME ask \in [Asks -> AskOf], NEW c \in Asks, NEW to \in AskPcs, P!To(c, to)
    PROVE  /\ ask' \in [Asks -> AskOf]
           /\ ask'[c].pc = to /\ ask'[c].id = ask[c].id /\ ask'[c].child = ask[c].child
           /\ \A b \in Asks \ {c} : ask'[b] = ask[b]
<1>1. [ask[c] EXCEPT !.pc = to] \in AskOf
  BY DEF AskOf
<1>2. ask[c] \in AskOf
  OBVIOUS
<1>. QED  BY <1>1, <1>2 DEF P!To, AskOf

LEMMA TakesChanges ==
    ASSUME ask \in [Asks -> AskOf], NEW c \in Asks, NEW to \in AskPcs,
           NEW g \in Procs \cup {NoProc}, P!Takes(c, to, g)
    PROVE  /\ ask' \in [Asks -> AskOf]
           /\ ask'[c].pc = to /\ ask'[c].id = ask[c].id /\ ask'[c].child = g
           /\ \A b \in Asks \ {c} : ask'[b] = ask[b]
<1>1. [ask[c] EXCEPT !.pc = to, !.child = g] \in AskOf
  BY DEF AskOf
<1>2. ask[c] \in AskOf
  OBVIOUS
<1>. QED  BY <1>1, <1>2 DEF P!Takes, AskOf

LEMMA RequestChanges ==
    ASSUME AsksTypes, NEW c \in Asks, P!RequestApproval(c)
    PROVE  /\ approval' \in Seq(ToldOf) /\ Len(approval') = Len(approval) + 1
           /\ \A id \in 1..Len(approval) : approval'[id] = approval[id]
           /\ approval'[Len(approval')].status = "pending"
           /\ approval'[Len(approval')].resource = ResourceOf[c]
           /\ ask' \in [Asks -> AskOf]
           /\ ask'[c].id = Len(approval')
           /\ ask'[c].pc = IF c \in Hooks THEN "waiting" ELSE "told"
           /\ \A b \in Asks \ {c} : ask'[b] = ask[b]
<1>. PICK row : row = [resource |-> ResourceOf[c], status |-> "pending"]
  OBVIOUS
<1>1. row \in ToldOf /\ row.status = "pending" /\ row.resource = ResourceOf[c]
  BY ClientsAssumption DEF AsksAssumption, ToldOf
<1>2. approval' = Append(approval, row) /\ approval \in Seq(ToldOf)
  BY DEF P!RequestApproval, AsksTypes
<1>3. /\ approval' \in Seq(ToldOf) /\ Len(approval') = Len(approval) + 1
      /\ Len(approval') \in Nat /\ approval'[Len(approval')] = row
      /\ \A id \in 1..Len(approval) : approval'[id] = approval[id]
  BY <1>1, <1>2
<1>. PICK to : to = IF c \in Hooks THEN "waiting" ELSE "told"
  OBVIOUS
<1>4. to \in AskPcs
  BY DEF AskPcs
<1>5. ask' = [ask EXCEPT ![c] = [ask[c] EXCEPT !.id = Len(approval'), !.pc = to]]
  BY DEF P!RequestApproval
<1>6. ask[c] \in AskOf /\ ask \in [Asks -> AskOf]
  BY DEF AsksTypes
<1>7. [ask[c] EXCEPT !.id = Len(approval'), !.pc = to] \in AskOf
  BY <1>3, <1>4, <1>6 DEF AskOf
<1>8. ask' \in [Asks -> AskOf] /\ \A b \in Asks \ {c} : ask'[b] = ask[b]
  BY <1>5, <1>6, <1>7
<1>9. ask'[c].id = Len(approval') /\ ask'[c].pc = to
  BY <1>5, <1>6 DEF AskOf
<1>. QED  BY <1>1, <1>3, <1>8, <1>9

LEMMA UpdateChanges ==
    ASSUME AsksTypes, PersonsKnow, NEW p \in Persons, P!Update(p)
    PROVE  /\ person[p].id \in 1..Len(approval)
           /\ approval' \in Seq(ToldOf) /\ Len(approval') = Len(approval)
           /\ \A id \in 1..Len(approval) : approval'[id].resource = approval[id].resource
           /\ approval'[person[p].id].status = IF person[p].allow THEN "allowed" ELSE "denied"
           /\ \A id \in 1..Len(approval) : id # person[p].id => approval'[id] = approval[id]
<1>. PICK i : i = person[p].id
  OBVIOUS
<1>. PICK st : st = IF person[p].allow THEN "allowed" ELSE "denied"
  OBVIOUS
<1>1. i \in 1..Len(approval) /\ approval \in Seq(ToldOf)
  BY DEF P!Update, PersonsKnow, AsksTypes
<1>2. approval' = [approval EXCEPT ![i] = [approval[i] EXCEPT !.status = st]]
  BY DEF P!Update
<1>3. approval[i] \in ToldOf
  BY <1>1
<1>. PICK row : row = [approval[i] EXCEPT !.status = st]
  OBVIOUS
<1>4. row \in ToldOf /\ row.status = st /\ row.resource = approval[i].resource
  BY <1>3 DEF ToldOf
<1>5. /\ approval' \in Seq(ToldOf) /\ Len(approval') = Len(approval)
      /\ \A j \in 1..Len(approval) : approval'[j] = IF j = i THEN row ELSE approval[j]
  BY <1>1, <1>2, <1>4, SeqExcept
<1>. QED  BY <1>1, <1>4, <1>5

LEMMA PersonMoves ==
    ASSUME person \in [Persons -> PersonOf], NEW p \in Persons,
           NEW to \in {"idle", "update", "learn", "done"},
           person' = [person EXCEPT ![p].pc = to]
    PROVE  /\ person' \in [Persons -> PersonOf]
           /\ person'[p].pc = to /\ person'[p].id = person[p].id
           /\ person'[p].allow = person[p].allow
           /\ \A q \in Persons \ {p} : person'[q] = person[q]
<1>1. [person[p] EXCEPT !.pc = to] \in PersonOf /\ person[p] \in PersonOf
  BY DEF PersonOf
<1>. QED  BY <1>1 DEF PersonOf

LEMMA AsksTypesStep ==
    ASSUME AsksTypes, PersonsKnow, GateKept, [P!Next]_AskVars
    PROVE  AsksTypes' /\ PersonsKnow'
<1>. USE DEF P!Table, P!Gate
<1>1. ASSUME UNCHANGED P!Table, ask' \in [Asks -> AskOf],
             session' \in [P!Servers -> SessionOf], lock' \in Asks \cup {NoOne},
             child' \in [Procs -> {"none", "starting", "up", "evicted", "gone"}]
      PROVE  AsksTypes' /\ PersonsKnow'
  BY <1>1 DEF AsksTypes, PersonsKnow, P!Servers
<1>2. ASSUME UNCHANGED P!Gate, ask' \in [Asks -> AskOf],
             pref' \in [Resources -> {"none", "allow", "deny"}], approval' \in Seq(ToldOf),
             Len(approval') >= Len(approval), said' \subseteq SaidOf,
             person' \in [Persons -> PersonOf],
             \A p \in Persons : \/ person'[p] = person[p] 
                                \/ person'[p].id \in 1..Len(approval')
      PROVE  AsksTypes' /\ PersonsKnow'
  <2>1. Len(approval) \in Nat /\ Len(approval') \in Nat
    BY <1>2 DEF AsksTypes
  <2>2. PersonsKnow'
    BY <1>2, <2>1 DEF PersonsKnow
  <2>. QED  BY <1>2, <2>2 DEF AsksTypes, P!Servers
<1>3. ASSUME NEW c \in Asks, P!Check(c) \/ P!Poll(c) \/ P!Deadline(c) \/ P!NoSpawn(c)
      PROVE  AsksTypes' /\ PersonsKnow'
  <2>1. \E to \in AskPcs : P!To(c, to)
    BY <1>3 DEF P!Check, P!Poll, P!Deadline, P!NoSpawn, P!Admitted, AskPcs
  <2>2. UNCHANGED <<P!Table, P!Gate>>
    BY <1>3 DEF P!Check, P!Poll, P!Deadline, P!NoSpawn
  <2>3. ask' \in [Asks -> AskOf]
    BY <2>1, ToChanges DEF AsksTypes
  <2>. QED  BY <1>1, <2>2, <2>3 DEF AsksTypes
<1>4. ASSUME NEW c \in Asks, P!RequestApproval(c) PROVE AsksTypes' /\ PersonsKnow'
  <2>1. UNCHANGED <<pref, person, said, P!Gate>>
    BY <1>4 DEF P!RequestApproval
  <2>2. Len(approval) \in Nat
    BY DEF AsksTypes
  <2>. QED  BY <1>2, <1>4, <2>1, <2>2, RequestChanges DEF AsksTypes
<1>5. ASSUME NEW p \in Persons, P!Resolve(p) PROVE AsksTypes' /\ PersonsKnow'
  <2>1. DOMAIN approval = 1..Len(approval)
    BY DEF AsksTypes
  <2>2. PICK id \in 1..Len(approval), allow \in BOOLEAN, remember \in BOOLEAN :
            person' = [person EXCEPT ![p] = [pc |-> "update", id |-> id, allow |-> allow,
                                             remember |-> remember]]
    BY <1>5, <2>1, Zenon DEF P!Resolve
  <2>3. [pc |-> "update", id |-> id, allow |-> allow, remember |-> remember] \in PersonOf
    BY DEF PersonOf
  <2>4. person' \in [Persons -> PersonOf] /\ person'[p].id = id
    BY <2>2, <2>3 DEF AsksTypes
  <2>5. \A q \in Persons : person'[q] = person[q] \/ person'[q].id \in 1..Len(approval)
    BY <2>2, <2>4 DEF AsksTypes
  <2>6. UNCHANGED <<pref, approval, ask, said, P!Gate>> /\ Len(approval) \in Nat
    BY <1>5 DEF P!Resolve, AsksTypes
  <2>. QED  BY <1>2, <2>4, <2>5, <2>6 DEF AsksTypes
<1>6. ASSUME NEW p \in Persons, P!Update(p) PROVE AsksTypes' /\ PersonsKnow'
  <2>1. person[p].id \in 1..Len(approval) /\ person[p] \in PersonOf
    BY <1>6, UpdateChanges DEF AsksTypes
  <2>2. approval[person[p].id] \in ToldOf
    BY <2>1 DEF AsksTypes
  <2>3. said' \subseteq SaidOf
    BY <1>6, <2>1, <2>2 DEF P!Update, SaidOf, ToldOf, PersonOf, AsksTypes
  <2>4. PICK to \in {"learn", "done"} : person' = [person EXCEPT ![p].pc = to]
    BY <1>6 DEF P!Update
  <2>5. /\ person' \in [Persons -> PersonOf] /\ person'[p].id = person[p].id
        /\ \A q \in Persons \ {p} : person'[q] = person[q]
    BY <2>4, PersonMoves DEF AsksTypes
  <2>6. UNCHANGED <<pref, ask, P!Gate>> /\ Len(approval) \in Nat
    BY <1>6 DEF P!Update, AsksTypes
  <2>7. approval' \in Seq(ToldOf) /\ Len(approval') = Len(approval)
    BY <1>6, UpdateChanges
  <2>8. \A q \in Persons : person'[q] = person[q] \/ person'[q].id \in 1..Len(approval')
    BY <2>1, <2>5, <2>7
  <2>. QED  BY <1>2, <2>3, <2>5, <2>6, <2>7, <2>8 DEF AsksTypes
<1>7. ASSUME NEW p \in Persons, P!Learn(p) PROVE AsksTypes' /\ PersonsKnow'
  <2>1. person' = [person EXCEPT ![p].pc = "done"] /\ UNCHANGED <<approval, ask, said, P!Gate>>
    BY <1>7 DEF P!Learn
  <2>2. pref' \in [Resources -> {"none", "allow", "deny"}]
    BY <1>7 DEF P!Learn, AsksTypes
  <2>3. /\ person' \in [Persons -> PersonOf] /\ person'[p].id = person[p].id
        /\ \A q \in Persons \ {p} : person'[q] = person[q]
    BY <2>1, PersonMoves DEF AsksTypes
  <2>4. person[p].id \in 1..Len(approval) /\ Len(approval) \in Nat
    BY <1>7 DEF P!Learn, PersonsKnow, AsksTypes
  <2>5. \A q \in Persons : person'[q] = person[q] \/ person'[q].id \in 1..Len(approval')
    BY <2>1, <2>3, <2>4
  <2>. QED  BY <1>2, <2>1, <2>2, <2>3, <2>4, <2>5 DEF AsksTypes
<1>8. ASSUME NEW c \in Asks, P!Reuse(c) PROVE AsksTypes' /\ PersonsKnow'
  <2>1. session[P!Server(c)].child \in Procs \cup {NoProc}
    BY <1>8, ServerInUse DEF P!Reuse, P!Is, AsksTypes, SessionOf
  <2>2. ask' \in [Asks -> AskOf]
    BY <1>8, <2>1, TakesChanges DEF P!Reuse, AskPcs, AsksTypes
  <2>3. session' \in [P!Servers -> SessionOf]
    BY <1>8 DEF P!Reuse, AsksTypes, SessionOf
  <2>. QED  BY <1>1, <1>8, <2>2, <2>3 DEF P!Reuse, AsksTypes
<1>9. ASSUME NEW c \in Asks, NEW g \in Procs, P!Spawn(c, g) PROVE AsksTypes' /\ PersonsKnow'
  <2>1. ask' \in [Asks -> AskOf]
    BY <1>9, TakesChanges DEF P!Spawn, AskPcs, AsksTypes
  <2>. QED  BY <1>1, <1>9, <2>1 DEF P!Spawn, AsksTypes
<1>10. ASSUME NEW c \in Asks, P!Initialized(c) \/ P!InitializeFails(c) PROVE AsksTypes' /\ PersonsKnow'
  <2>1. ask' \in [Asks -> AskOf]
    BY <1>10, ToChanges DEF P!Initialized, P!InitializeFails, AskPcs, AsksTypes
  <2>2. session' \in [P!Servers -> SessionOf]
    <3>1. [child |-> ask[c].child, old |-> FALSE] \in SessionOf
      BY DEF AsksTypes, SessionOf, AskOf
    <3>. QED  BY <1>10, <3>1 DEF P!Initialized, P!InitializeFails, AsksTypes
  <2>3. child' \in [Procs -> {"none", "starting", "up", "evicted", "gone"}]
    BY <1>10 DEF P!Initialized, P!InitializeFails, AsksTypes
  <2>. QED  BY <1>1, <1>10, <2>1, <2>2, <2>3 DEF P!Initialized, P!InitializeFails
<1>11. ASSUME NEW c \in Asks, P!CallEnds(c) PROVE AsksTypes' /\ PersonsKnow'
  <2>1. ask' \in [Asks -> AskOf]
    BY <1>11, ToChanges DEF P!CallEnds, AskPcs, AsksTypes
  <2>2. child' \in [Procs -> {"none", "starting", "up", "evicted", "gone"}]
    BY <1>11 DEF P!CallEnds, AsksTypes
  <2>. QED  BY <1>1, <1>11, <2>1, <2>2 DEF P!CallEnds, AsksTypes
<1>12. CASE P!Sweep \/ \E s \in P!Servers : P!Ages(s)
  <2>1. session' \in [P!Servers -> SessionOf]
    <3>1. P!NoSession \in SessionOf /\ \A s \in P!Servers : [session[s] EXCEPT !.old = TRUE] \in SessionOf
      BY DEF P!NoSession, AsksTypes, SessionOf
    <3>. QED  BY <1>12, <3>1 DEF P!Sweep, P!Ages, AsksTypes
  <2>2. child' \in [Procs -> {"none", "starting", "up", "evicted", "gone"}]
    BY <1>12 DEF P!Sweep, P!Ages, AsksTypes
  <2>. QED  BY <1>1, <1>12, <2>1, <2>2 DEF P!Sweep, P!Ages, AsksTypes
<1>13. CASE UNCHANGED AskVars
  BY <1>1, <1>13 DEF AskVars, AsksTypes
<1>14. ASSUME NEW g \in Procs, P!GoesMute(g) PROVE AsksTypes' /\ PersonsKnow'
  BY <1>14 DEF P!GoesMute, AsksTypes, PersonsKnow, P!Servers
<1>. QED
  BY <1>3, <1>4, <1>5, <1>6, <1>7, <1>8, <1>9, <1>10, <1>11, <1>12, <1>13, <1>14
  DEF P!Next, P!Step

\* A call whose record is kept stands as it did, if its process and session do.
LEMMA GateStep ==
    ASSUME AsksTypes, GateKept, [P!Next]_AskVars
    PROVE  GateKept'
<1>1. ASSUME UNCHANGED P!Gate,
             \A c \in Asks : \/ /\ ask'[c].pc = ask[c].pc /\ ask'[c].child = ask[c].child
                             \/ ask'[c].pc \notin {"ensure", "initializing", "calling"}
                             \/ ask'[c].pc = "ensure" /\ c \notin Hooks \cup Tools
      PROVE  GateKept'
  BY <1>1 DEF GateKept, Gated, P!Gate, P!Servers, P!Server
<1>2. ASSUME NEW c \in Asks, P!Check(c) PROVE GateKept'
  <2>. PICK to \in AskPcs : P!To(c, to) /\ (to = "ensure" => c \notin Hooks \cup Tools)
                           /\ to \in {"ensure", "ran", "denied", "asking"}
    BY <1>2, ClientsAssumption DEF P!Check, P!Admitted, AskPcs, AsksAssumption
  <2>1. UNCHANGED P!Gate
    BY <1>2 DEF P!Check
  <2>. QED  BY <1>1, <2>1, ToChanges DEF AsksTypes
<1>3. ASSUME NEW c \in Asks, P!Poll(c) \/ P!Deadline(c) \/ P!NoSpawn(c) PROVE GateKept'
  <2>. PICK to \in AskPcs : P!To(c, to) /\ to \in {"ran", "denied", "failed"}
    BY <1>3 DEF P!Poll, P!Deadline, P!NoSpawn, AskPcs
  <2>1. UNCHANGED P!Gate
    BY <1>3 DEF P!Poll, P!Deadline, P!NoSpawn
  <2>. QED  BY <1>1, <2>1, ToChanges DEF AsksTypes
<1>4. ASSUME NEW c \in Asks, P!RequestApproval(c) PROVE GateKept'
  <2>1. UNCHANGED P!Gate
    BY <1>4 DEF P!RequestApproval
  <2>2. ask'[c].pc \in {"waiting", "told"} /\ \A b \in Asks \ {c} : ask'[b] = ask[b]
    BY <1>4, RequestChanges
  <2>. QED  BY <1>1, <2>1, <2>2
<1>5. ASSUME NEW c \in Asks, P!Reuse(c) PROVE GateKept'
  <2>. PICK s : s = P!Server(c)
    OBVIOUS
  <2>1. /\ s \in P!Servers /\ session[s].child # NoProc /\ session[s].child \in Procs
        /\ child[session[s].child] = "up" /\ c \notin Hooks \cup Tools
    <3>1. ask[c].pc = "ensure" /\ session[s].child # NoProc
      BY <1>5 DEF P!Reuse, P!Is
    <3>2. s \in P!Servers /\ c \notin Hooks \cup Tools
      BY <3>1, ServerInUse DEF GateKept, Gated
    <3>. QED  BY <3>1, <3>2 DEF GateKept, AsksTypes, SessionOf
  <2>2. /\ ask'[c].pc = "calling" /\ ask'[c].child = session[s].child
        /\ \A b \in Asks \ {c} : ask'[b] = ask[b]
    BY <1>5, <2>1, TakesChanges DEF P!Reuse, AskPcs, AsksTypes
  <2>3. UNCHANGED <<lock, child>>
    BY <1>5 DEF P!Reuse
  <2>4. \A t \in P!Servers : session'[t].child = session[t].child
    BY <1>5 DEF P!Reuse, AsksTypes, SessionOf
  <2>5. ASSUME NEW b \in Asks PROVE Gated(b)'
    <3>1. CASE b = c
      BY <2>1, <2>2, <2>3, <2>4, <3>1 DEF Gated, P!Server
    <3>2. CASE b # c
      <4>1. Gated(b) /\ ask'[b] = ask[b]
        BY <2>2, <3>2 DEF GateKept
      <4>2. ask[b].pc \in {"initializing", "calling"} => session'[P!Server(b)].child = session[P!Server(b)].child
        BY <2>4, ServerInUse
      <4>. QED  BY <4>1, <4>2, <2>3 DEF Gated, P!Server
    <3>. QED  BY <3>1, <3>2
  <2>. QED  BY <2>3, <2>4, <2>5 DEF GateKept, P!Servers
<1>6. ASSUME NEW c \in Asks, NEW g \in Procs, P!Spawn(c, g) PROVE GateKept'
  <2>1. /\ ask[c].pc = "ensure" /\ lock = NoOne /\ session[P!Server(c)].child = NoProc
        /\ child[g] = "none" /\ child' = [child EXCEPT ![g] = "starting"] /\ lock' = c
        /\ session' = session
    BY <1>6 DEF P!Spawn, P!Is, P!LockFree
  <2>2. /\ ask'[c].pc = "initializing" /\ ask'[c].child = g
        /\ \A b \in Asks \ {c} : ask'[b] = ask[b]
    BY <1>6, TakesChanges DEF P!Spawn, AskPcs, AsksTypes
  <2>3. child'[g] = "starting" /\ \A h \in Procs : h # g => child'[h] = child[h]
    BY <2>1 DEF AsksTypes
  <2>4. ASSUME NEW b \in Asks PROVE Gated(b)'
    <3>1. CASE b = c
      BY <2>1, <2>2, <2>3, <3>1 DEF Gated, GateKept, P!Server
    <3>2. CASE b # c
      <4>1. Gated(b) /\ ask'[b] = ask[b] /\ ask[b].pc # "initializing"
        BY <2>1, <2>2, <3>2, ClientsAssumption DEF GateKept, Gated, AsksAssumption
      <4>. QED  BY <4>1, <2>1, <2>3 DEF Gated, P!Server
    <3>. QED  BY <3>1, <3>2
  <2>5. \A s \in P!Servers : session'[s].child # NoProc => child'[session'[s].child] = "up"
    BY <2>1, <2>3 DEF GateKept, AsksTypes, SessionOf
  <2>. QED  BY <2>1, <2>4, <2>5 DEF GateKept, P!Servers
<1>7. ASSUME NEW c \in Asks, P!Initialized(c) PROVE GateKept'
  <2>. PICK s, g : s = P!Server(c) /\ g = ask[c].child
    OBVIOUS
  <2>1. /\ ask[c].pc = "initializing" /\ child' = [child EXCEPT ![g] = "up"]
        /\ session' = [session EXCEPT ![s] = [child |-> g, old |-> FALSE]]
        /\ lock' = NoOne
    BY <1>7 DEF P!Initialized, P!Is
  <2>2. /\ ask'[c].pc = "calling" /\ ask'[c].child = g
        /\ \A b \in Asks \ {c} : ask'[b] = ask[b]
    BY <1>7, ToChanges DEF P!Initialized, AskPcs, AsksTypes
  <2>3. /\ s \in P!Servers /\ lock = c /\ g \in Procs /\ child[g] = "starting"
        /\ session[s].child = NoProc /\ c \notin Hooks \cup Tools
    BY <2>1, ServerInUse DEF GateKept, Gated
  <2>4. child'[g] = "up" /\ \A h \in Procs : h # g => child'[h] = child[h]
    BY <2>1, <2>3 DEF AsksTypes
  <2>5. session'[s].child = g /\ \A t \in P!Servers : t # s => session'[t] = session[t]
    BY <2>1, <2>3 DEF AsksTypes
  <2>6. ASSUME NEW b \in Asks PROVE Gated(b)'
    <3>1. CASE b = c
      BY <2>2, <2>3, <2>4, <2>5, <3>1 DEF Gated, P!Server
    <3>2. CASE b # c
      <4>1. Gated(b) /\ ask'[b] = ask[b] /\ ask[b].pc # "initializing"
        BY <2>1, <2>2, <2>3, <3>2 DEF GateKept, Gated
      <4>2. ASSUME ask[b].pc = "calling"
            PROVE  /\ ask[b].child \in Procs
                   /\ \/ child'[ask[b].child] = "up" /\ session'[P!Server(b)].child = ask[b].child
                      \/ child'[ask[b].child] = "evicted"
        <5>1. /\ ask[b].child \in Procs /\ ask[b].child # g
              /\ \/ child[ask[b].child] = "up" /\ session[P!Server(b)].child = ask[b].child
                 \/ child[ask[b].child] = "evicted"
          BY <4>1, <4>2, <2>3 DEF Gated
        <5>2. P!Server(b) \in P!Servers
          BY <4>2, ServerInUse
        <5>3. session[P!Server(b)].child = ask[b].child => P!Server(b) # s
          BY <5>1, <2>3, ClientsAssumption DEF AsksAssumption
        <5>. QED  BY <5>1, <5>2, <5>3, <2>4, <2>5
      <4>. QED  BY <4>1, <4>2 DEF Gated, P!Server
    <3>. QED  BY <3>1, <3>2
  <2>7. ASSUME NEW t \in P!Servers, session'[t].child # NoProc
        PROVE  child'[session'[t].child] = "up" /\ (t # s => session'[t].child # g)
    <3>1. t # s => /\ session'[t].child = session[t].child /\ session[t].child \in Procs
                   /\ child[session[t].child] = "up"
      BY <2>5, <2>7 DEF GateKept, AsksTypes, SessionOf
    <3>. QED  BY <3>1, <2>3, <2>4, <2>5
  <2>8. \A t, u \in P!Servers :
            session'[t].child # NoProc /\ session'[t].child = session'[u].child => t = u
    BY <2>5, <2>7 DEF GateKept
  <2>. QED  BY <2>6, <2>7, <2>8 DEF GateKept, P!Servers
<1>8. ASSUME NEW c \in Asks, P!InitializeFails(c) PROVE GateKept'
  <2>. PICK g : g = ask[c].child
    OBVIOUS
  <2>1. /\ ask[c].pc = "initializing" /\ child' = [child EXCEPT ![g] = "gone"]
        /\ session' = session /\ lock' = NoOne
    BY <1>8 DEF P!InitializeFails, P!Is
  <2>2. ask'[c].pc = "failed" /\ \A b \in Asks \ {c} : ask'[b] = ask[b]
    BY <1>8, ToChanges DEF P!InitializeFails, AskPcs, AsksTypes
  <2>3. lock = c /\ g \in Procs /\ child[g] = "starting"
    BY <2>1 DEF GateKept, Gated
  <2>4. \A h \in Procs : h # g => child'[h] = child[h]
    BY <2>1, <2>3 DEF AsksTypes
  <2>5. ASSUME NEW b \in Asks PROVE Gated(b)'
    <3>1. CASE b = c
      BY <2>2, <3>1 DEF Gated
    <3>2. CASE b # c
      <4>1. Gated(b) /\ ask'[b] = ask[b] /\ ask[b].pc # "initializing"
        BY <2>1, <2>2, <2>3, <3>2 DEF GateKept, Gated
      <4>. QED  BY <4>1, <2>1, <2>3, <2>4 DEF Gated, P!Server
    <3>. QED  BY <3>1, <3>2
  <2>6. \A s \in P!Servers : session'[s].child # NoProc => child'[session'[s].child] = "up"
    BY <2>1, <2>3, <2>4 DEF GateKept, AsksTypes, SessionOf
  <2>. QED  BY <2>1, <2>5, <2>6 DEF GateKept, P!Servers
<1>9. ASSUME NEW c \in Asks, P!CallEnds(c) PROVE GateKept'
  <2>1. /\ ask[c].pc = "calling" /\ UNCHANGED <<session, lock>>
        /\ child' = [g \in Procs |->
               IF g = ask[c].child /\ child[g] = "evicted" /\ ~P!Held(g, c) THEN "gone"
               ELSE child[g]]
    BY <1>9 DEF P!CallEnds, P!Is
  <2>2. ask'[c].pc \in {"ran", "failed"} /\ \A b \in Asks \ {c} : ask'[b] = ask[b]
    BY <1>9, ToChanges DEF P!CallEnds, AskPcs, AsksTypes
  <2>3. \A g \in Procs : \/ child'[g] = child[g]
                         \/ child[g] = "evicted" /\ ~P!Held(g, c)
    BY <2>1
  <2>4. ASSUME NEW b \in Asks PROVE Gated(b)'
    <3>1. CASE b = c
      BY <2>2, <3>1 DEF Gated
    <3>2. CASE b # c
      <4>1. Gated(b) /\ ask'[b] = ask[b]
        BY <2>2, <3>2 DEF GateKept
      <4>2. ask[b].pc = "calling" => child'[ask[b].child] = child[ask[b].child]
        BY <4>1, <2>3, <3>2 DEF Gated, P!Held, P!Is
      <4>3. ask[b].pc = "initializing" => child'[ask[b].child] = child[ask[b].child]
        BY <4>1, <2>3 DEF Gated
      <4>. QED  BY <4>1, <4>2, <4>3, <2>1 DEF Gated, P!Server
    <3>. QED  BY <3>1, <3>2
  <2>5. \A s \in P!Servers : session'[s].child # NoProc => child'[session'[s].child] = "up"
    BY <2>1, <2>3 DEF GateKept, AsksTypes, SessionOf
  <2>. QED  BY <2>1, <2>4, <2>5 DEF GateKept, P!Servers
<1>10. ASSUME NEW s \in P!Servers, P!Ages(s) PROVE GateKept'
  <2>1. \A t \in P!Servers : session'[t].child = session[t].child
    BY <1>10 DEF P!Ages, AsksTypes, SessionOf
  <2>2. UNCHANGED <<ask, lock, child>>
    BY <1>10 DEF P!Ages
  <2>3. ASSUME NEW b \in Asks PROVE Gated(b)'
    <3>1. ask[b].pc \in {"initializing", "calling"} => session'[P!Server(b)].child = session[P!Server(b)].child
      BY <2>1, ServerInUse
    <3>2. Gated(b)
      BY DEF GateKept
    <3>. QED  BY <3>1, <3>2, <2>2 DEF Gated, P!Server
  <2>. QED  BY <2>1, <2>2, <2>3 DEF GateKept, P!Servers
<1>11. CASE P!Sweep
  <2>1. /\ lock = NoOne /\ UNCHANGED <<ask, lock>>
        /\ session' = [s \in P!Servers |-> IF s \in P!Idle THEN P!NoSession ELSE session[s]]
        /\ child' = [g \in Procs |->
               IF \E s \in P!Idle : session[s].child = g
               THEN IF P!Held(g, NoOne) THEN "evicted" ELSE "gone"
               ELSE child[g]]
    BY <1>11 DEF P!Sweep, P!LockFree
  <2>2. P!Idle \subseteq P!Servers
    BY DEF P!Idle
  <2>3. \A g \in Procs : (\E s \in P!Idle : session[s].child = g) => child[g] = "up"
    BY <2>2, ClientsAssumption DEF GateKept, AsksAssumption
  <2>4. \A s \in P!Servers : s \in P!Idle => session'[s].child = NoProc
    BY <2>1 DEF P!NoSession
  <2>5. \A s \in P!Servers : s \notin P!Idle => session'[s] = session[s]
    BY <2>1
  <2>6. ASSUME NEW s \in P!Servers, s \notin P!Idle, session[s].child # NoProc
        PROVE  child'[session[s].child] = "up"
    <3>1. session[s].child \in Procs /\ child[session[s].child] = "up"
      BY <2>6 DEF GateKept, AsksTypes, SessionOf
    <3>2. ~\E t \in P!Idle : session[t].child = session[s].child
      BY <2>2, <2>6 DEF GateKept
    <3>. QED  BY <3>1, <3>2, <2>1
  <2>7. ASSUME NEW b \in Asks PROVE Gated(b)'
    <3>1. Gated(b) /\ ask'[b] = ask[b] /\ ask[b].pc # "initializing"
      BY <2>1, ClientsAssumption DEF GateKept, Gated, AsksAssumption
    <3>2. ASSUME ask[b].pc = "calling"
          PROVE  /\ ask[b].child \in Procs
                 /\ \/ child'[ask[b].child] = "up" /\ session'[P!Server(b)].child = ask[b].child
                    \/ child'[ask[b].child] = "evicted"
      <4>1. P!Server(b) \in P!Servers /\ ask[b].child \in Procs
        BY <3>1, <3>2, ServerInUse DEF Gated
      <4>2. CASE child[ask[b].child] = "evicted"
        BY <4>1, <4>2, <2>1, <2>3
      <4>3. CASE session[P!Server(b)].child = ask[b].child /\ P!Server(b) \notin P!Idle
        BY <4>1, <4>3, <2>5, <2>6, ClientsAssumption DEF AsksAssumption
      <4>4. CASE session[P!Server(b)].child = ask[b].child /\ P!Server(b) \in P!Idle
        <5>1. P!Held(ask[b].child, NoOne)
          BY <3>2, ClientsAssumption DEF P!Held, P!Is, AsksAssumption
        <5>. QED  BY <4>1, <4>4, <5>1, <2>1
      <4>. QED  BY <3>1, <3>2, <4>2, <4>3, <4>4 DEF Gated
    <3>. QED  BY <3>1, <3>2 DEF Gated, P!Server
  <2>8. \A s \in P!Servers : session'[s].child # NoProc => child'[session'[s].child] = "up"
    BY <2>4, <2>5, <2>6
  <2>9. \A s, t \in P!Servers :
            session'[s].child # NoProc /\ session'[s].child = session'[t].child => s = t
    BY <2>4, <2>5 DEF GateKept
  <2>. QED  BY <2>7, <2>8, <2>9 DEF GateKept, P!Servers
<1>12. ASSUME NEW p \in Persons, P!Resolve(p) \/ P!Update(p) \/ P!Learn(p) PROVE GateKept'
  <2>1. UNCHANGED ask /\ UNCHANGED P!Gate
    BY <1>12 DEF P!Resolve, P!Update, P!Learn
  <2>. QED  BY <1>1, <2>1
<1>13. CASE UNCHANGED AskVars
  BY <1>1, <1>13 DEF AskVars, P!Gate
<1>14. ASSUME NEW g \in Procs, P!GoesMute(g) PROVE GateKept'
  BY <1>14 DEF P!GoesMute, GateKept, Gated, P!Servers, P!Server
<1>. QED
  BY <1>2, <1>3, <1>4, <1>5, <1>6, <1>7, <1>8, <1>9, <1>10, <1>11, <1>12, <1>13, <1>14
  DEF P!Next, P!Step

\* The longest of the patterns that decide is one of them.
LEMMA LongestIsOne ==
    ASSUME NEW r \in Resources, NEW hits \in SUBSET {p \in Resources : <<p, r>> \in Covers},
           hits # {}
    PROVE  P!Longest(hits) \in hits
<1>1. \E p \in hits : \A q \in hits : <<q, p>> \in Covers
  BY ClientsAssumption DEF AsksAssumption
<1>. QED  BY <1>1 DEF P!Longest

\* What the verdict lets through has the leave of a rule or of a person.
LEMMA VerdictIsLeave ==
    ASSUME AsksTypes, LeaveKept, NEW c \in Asks, P!Verdict(ResourceOf[c]) = "allow"
    PROVE  P!Leave(c)
<1>. PICK r : r = ResourceOf[c]
  OBVIOUS
<1>0. r \in Resources
  BY ClientsAssumption DEF AsksAssumption
<1>1. CASE P!Decision(Rules, r) # "ask"
  BY <1>1 DEF P!Verdict, P!Leave
<1>2. CASE P!Decision(Rules, r) = "ask"
  <2>. PICK hits : hits = {p \in DOMAIN pref : <<p, r>> \in Covers /\ pref[p] # "none"}
    OBVIOUS
  <2>1. P!Decision(pref, r) = "allow"
    BY <1>2 DEF P!Verdict
  <2>2. hits # {} /\ pref[P!Longest(hits)] = "allow"
    BY <2>1 DEF P!Decision
  <2>3. hits \in SUBSET {p \in Resources : <<p, r>> \in Covers}
    BY DEF AsksTypes
  <2>4. P!Longest(hits) \in hits
    BY <1>0, <2>2, <2>3, LongestIsOne
  <2>. PICK p : p = P!Longest(hits)
    OBVIOUS
  <2>5. p \in Resources /\ <<p, r>> \in Covers /\ pref[p] = "allow"
    BY <2>2, <2>3, <2>4
  <2>6. SaysAlways(p)
    BY <2>5 DEF LeaveKept
  <2>. QED  BY <2>5, <2>6 DEF SaysAlways, P!Leave
<1>. QED  BY <1>1, <1>2

\* Leave is never lost: what was said stays said.
LEMMA LeaveStays ==
    ASSUME NEW c \in Asks, P!Leave(c), said \subseteq said', ask'[c].id = ask[c].id
    PROVE  P!Leave(c)'
  BY DEF P!Leave, P!Decision, P!Longest

LEMMA LeaveStep ==
    ASSUME AsksTypes, PersonsKnow, LeaveKept, [P!Next]_AskVars
    PROVE  LeaveKept'
<1>0. Len(approval) \in Nat
  BY DEF AsksTypes
<1>1. ASSUME UNCHANGED P!Table,
             \A c \in Asks : /\ ask'[c].id = ask[c].id
                             /\ ask'[c].pc # "waiting" \/ ask[c].pc = "waiting"
                             /\ ask'[c].pc \in Protected => ask[c].pc \in Protected \/ P!Leave(c)
      PROVE  LeaveKept'
  <2>1. \A c \in Asks : ask'[c].pc \in Protected => P!Leave(c)'
    BY <1>1, LeaveStays DEF LeaveKept, P!Table
  <2>2. UNCHANGED <<pref, approval, person, said>>
    BY <1>1 DEF P!Table
  <2>. QED  BY <1>1, <2>1, <2>2 DEF LeaveKept, SaysAllowed, SaysAlways
<1>2. ASSUME NEW c \in Asks, NEW to \in AskPcs, P!To(c, to), UNCHANGED P!Table,
             to # "waiting", to \in Protected => ask[c].pc \in Protected \/ P!Leave(c)
      PROVE  LeaveKept'
  <2>1. /\ ask'[c].pc = to /\ ask'[c].id = ask[c].id
        /\ \A b \in Asks \ {c} : ask'[b] = ask[b]
    BY <1>2, ToChanges DEF AsksTypes
  <2>. QED  BY <1>1, <1>2, <2>1
<1>3. ASSUME NEW c \in Asks, P!Check(c) PROVE LeaveKept'
  <2>. PICK to \in AskPcs :
                           /\ P!To(c, to) /\ to # "waiting"
                           /\ (to \in Protected => c \in Listings \/ P!Verdict(ResourceOf[c]) = "allow")
    BY <1>3 DEF P!Check, P!Admitted, AskPcs, Protected
  <2>1. to \in Protected => P!Leave(c)
    BY VerdictIsLeave DEF P!Leave
  <2>2. UNCHANGED P!Table
    BY <1>3 DEF P!Check
  <2>. QED  BY <1>2, <2>1, <2>2
<1>4. ASSUME NEW c \in Asks, P!RequestApproval(c) PROVE LeaveKept'
  <2>1. /\ approval' \in Seq(ToldOf) /\ Len(approval') = Len(approval) + 1
        /\ \A id \in 1..Len(approval) : approval'[id] = approval[id]
        /\ approval'[Len(approval')].status = "pending"
        /\ approval'[Len(approval')].resource = ResourceOf[c]
        /\ ask'[c].id = Len(approval')
        /\ ask'[c].pc = IF c \in Hooks THEN "waiting" ELSE "told"
        /\ \A b \in Asks \ {c} : ask'[b] = ask[b]
    BY <1>4, RequestChanges
  <2>2. UNCHANGED <<pref, person, said>>
    BY <1>4 DEF P!RequestApproval
  <2>3. ASSUME NEW b \in Asks, ask'[b].pc \in Protected PROVE P!Leave(b)'
    <3>1. b # c
      BY <2>1, <2>3 DEF Protected
    <3>. QED  BY <2>1, <2>2, <2>3, <3>1, LeaveStays DEF LeaveKept
  <2>4. ASSUME NEW b \in Asks, ask'[b].pc = "waiting"
        PROVE  /\ b \in Hooks /\ ask'[b].id \in 1..Len(approval')
               /\ approval'[ask'[b].id].resource = ResourceOf[b]
    <3>1. CASE b = c
      BY <1>0, <2>1, <2>4, <3>1
    <3>2. CASE b # c
      BY <1>0, <2>1, <2>4, <3>2 DEF LeaveKept
    <3>. QED  BY <3>1, <3>2
  <2>5. ASSUME NEW id \in 1..Len(approval'), approval'[id].status = "allowed"
        PROVE  SaysAllowed(id)'
    <3>1. id \in 1..Len(approval)
      BY <1>0, <2>1, <2>5
    <3>. QED  BY <2>1, <2>2, <2>5, <3>1 DEF LeaveKept, SaysAllowed
  <2>6. \A r \in Resources : pref'[r] = "allow" => SaysAlways(r)'
    BY <2>2 DEF LeaveKept, SaysAlways
  <2>7. ASSUME NEW p \in Persons, person'[p].pc = "learn", person'[p].allow
        PROVE  SaysAlways(approval[person[p].id].resource)'
    <3>1. person[p].id \in 1..Len(approval)
      BY <2>2, <2>7 DEF PersonsKnow
    <3>. QED  BY <2>1, <2>2, <2>7, <3>1 DEF LeaveKept, SaysAlways
  <2>. QED  BY <2>3, <2>4, <2>5, <2>6, <2>7 DEF LeaveKept
<1>5. ASSUME NEW c \in Asks, P!Poll(c) PROVE LeaveKept'
  <2>1. ask[c].pc = "waiting"
    BY <1>5 DEF P!Poll, P!Is
  <2>. PICK to \in AskPcs :
                           /\ P!To(c, to) /\ to \in {"ran", "denied"}
                           /\ (to = "ran" => approval[ask[c].id].status = "allowed")
    BY <1>5 DEF P!Poll, AskPcs
  <2>2. ASSUME to = "ran" PROVE P!Leave(c)
    <3>1. /\ c \in Hooks /\ SaysAllowed(ask[c].id)
          /\ approval[ask[c].id].resource = ResourceOf[c]
      BY <2>1, <2>2 DEF LeaveKept
    <3>2. <<ResourceOf[c], ResourceOf[c]>> \in Covers
      BY ClientsAssumption DEF AsksAssumption
    <3>. QED  BY <3>1, <3>2 DEF SaysAllowed, P!Leave
  <2>3. UNCHANGED P!Table
    BY <1>5 DEF P!Poll
  <2>. QED  BY <1>2, <2>2, <2>3 DEF Protected
<1>6. ASSUME NEW c \in Asks, P!Deadline(c) \/ P!NoSpawn(c) PROVE LeaveKept'
  <2>. PICK to \in AskPcs : P!To(c, to) /\ to \in {"denied", "failed"}
    BY <1>6 DEF P!Deadline, P!NoSpawn, AskPcs
  <2>1. UNCHANGED P!Table
    BY <1>6 DEF P!Deadline, P!NoSpawn
  <2>. QED  BY <1>2, <2>1 DEF Protected
<1>7. ASSUME NEW c \in Asks, P!Initialized(c) \/ P!InitializeFails(c) \/ P!CallEnds(c) PROVE LeaveKept'
  <2>. PICK to \in AskPcs : P!To(c, to) /\ to \in {"calling", "ran", "failed"}
    BY <1>7 DEF P!Initialized, P!InitializeFails, P!CallEnds, AskPcs
  <2>1. UNCHANGED P!Table /\ ask[c].pc \in Protected
    BY <1>7 DEF P!Initialized, P!InitializeFails, P!CallEnds, P!Is, Protected
  <2>. QED  BY <1>2, <2>1
<1>8. ASSUME NEW c \in Asks, P!Reuse(c) \/ \E g \in Procs : P!Spawn(c, g) PROVE LeaveKept'
  <2>. PICK to \in {"calling", "initializing"} : \E g : P!Takes(c, to, g)
    BY <1>8 DEF P!Reuse, P!Spawn
  <2>. PICK g : P!Takes(c, to, g)
    OBVIOUS
  <2>1. UNCHANGED P!Table /\ ask[c].pc \in Protected
    BY <1>8 DEF P!Reuse, P!Spawn, P!Is, Protected
  <2>2. ask[c] \in AskOf /\ ask \in [Asks -> AskOf]
    BY DEF AsksTypes
  <2>3. ask'[c].pc = to /\ ask'[c].id = ask[c].id
    BY <2>2 DEF P!Takes, AskOf
  <2>4. \A b \in Asks \ {c} : ask'[b] = ask[b]
    BY <2>2 DEF P!Takes
  <2>. QED  BY <1>1, <2>1, <2>3, <2>4
<1>9. ASSUME NEW p \in Persons, P!Resolve(p) PROVE LeaveKept'
  <2>1. UNCHANGED <<pref, approval, ask, said>>
    BY <1>9 DEF P!Resolve
  <2>2. person'[p].pc = "update" /\ \A q \in Persons \ {p} : person'[q] = person[q]
    BY <1>9 DEF P!Resolve, AsksTypes
  <2>3. \A c \in Asks : ask'[c].pc \in Protected => P!Leave(c)'
    BY <2>1, LeaveStays DEF LeaveKept
  <2>. QED  BY <2>1, <2>2, <2>3 DEF LeaveKept, SaysAllowed, SaysAlways
<1>10. ASSUME NEW p \in Persons, P!Update(p) PROVE LeaveKept'
  <2>. PICK i, d : i = person[p].id /\ d = [resource |-> approval[i].resource, id |-> i,
                                          allow |-> person[p].allow, remember |-> person[p].remember]
    OBVIOUS
  <2>1. /\ i \in 1..Len(approval) /\ Len(approval') = Len(approval)
        /\ \A id \in 1..Len(approval) : approval'[id].resource = approval[id].resource
        /\ approval'[i].status = IF person[p].allow THEN "allowed" ELSE "denied"
        /\ \A id \in 1..Len(approval) : id # i => approval'[id] = approval[id]
    BY <1>10, UpdateChanges
  <2>2. UNCHANGED <<pref, ask>> /\ said' = said \cup {d}
    BY <1>10 DEF P!Update
  <2>3. /\ d.resource = approval[i].resource /\ d.id = i
        /\ d.allow = person[p].allow /\ d.remember = person[p].remember /\ d \in said'
    BY <2>2
  <2>4. person' = [person EXCEPT ![p].pc = IF person[p].remember THEN "learn" ELSE "done"]
    BY <1>10 DEF P!Update
  <2>5. /\ person'[p].pc = (IF person[p].remember THEN "learn" ELSE "done")
        /\ person'[p].id = i /\ person'[p].allow = person[p].allow
        /\ \A q \in Persons \ {p} : person'[q] = person[q]
    BY <2>4, PersonMoves DEF AsksTypes
  <2>6. ASSUME NEW c \in Asks, ask'[c].pc \in Protected PROVE P!Leave(c)'
    BY <2>2, <2>6, LeaveStays DEF LeaveKept
  <2>7. ASSUME NEW c \in Asks, ask'[c].pc = "waiting"
        PROVE  /\ c \in Hooks /\ ask'[c].id \in 1..Len(approval')
               /\ approval'[ask'[c].id].resource = ResourceOf[c]
    BY <2>1, <2>2, <2>7 DEF LeaveKept
  <2>8. ASSUME NEW id \in 1..Len(approval'), approval'[id].status = "allowed"
        PROVE  SaysAllowed(id)'
    <3>1. CASE id = i
      BY <2>1, <2>3, <2>8, <3>1 DEF SaysAllowed
    <3>2. CASE id # i
      BY <2>1, <2>2, <2>8, <3>2 DEF SaysAllowed, LeaveKept
    <3>. QED  BY <3>1, <3>2
  <2>9. \A r \in Resources : pref'[r] = "allow" => SaysAlways(r)'
    BY <2>2 DEF LeaveKept, SaysAlways
  <2>10. ASSUME NEW q \in Persons, person'[q].pc = "learn", person'[q].allow
         PROVE  SaysAlways(approval[person[q].id].resource)'
    <3>1. CASE q = p
      BY <2>1, <2>3, <2>5, <2>10, <3>1 DEF SaysAlways
    <3>2. CASE q # p
      <4>1. person'[q] = person[q] /\ person[q].id \in 1..Len(approval)
        BY <2>5, <2>10, <3>2 DEF PersonsKnow
      <4>. QED  BY <2>1, <2>2, <2>10, <4>1 DEF SaysAlways, LeaveKept
    <3>. QED  BY <3>1, <3>2
  <2>. QED  BY <2>6, <2>7, <2>8, <2>9, <2>10 DEF LeaveKept
<1>11. ASSUME NEW p \in Persons, P!Learn(p) PROVE LeaveKept'
  <2>. PICK i : i = person[p].id
    OBVIOUS
  <2>1. /\ person[p].pc = "learn" /\ UNCHANGED <<approval, ask, said>>
        /\ pref' = [pref EXCEPT ![approval[i].resource] = IF person[p].allow THEN "allow" ELSE "deny"]
        /\ person' = [person EXCEPT ![p].pc = "done"]
    BY <1>11 DEF P!Learn
  <2>2. person'[p].pc = "done" /\ \A q \in Persons \ {p} : person'[q] = person[q]
    BY <2>1, PersonMoves DEF AsksTypes
  <2>3. \A c \in Asks : ask'[c].pc \in Protected => P!Leave(c)'
    BY <2>1, LeaveStays DEF LeaveKept
  <2>4. ASSUME NEW r \in Resources, pref'[r] = "allow" PROVE SaysAlways(r)'
    <3>1. CASE r = approval[i].resource /\ person[p].allow
      BY <2>1, <3>1 DEF LeaveKept, SaysAlways
    <3>2. CASE r = approval[i].resource /\ ~person[p].allow
      BY <2>1, <2>4, <3>2 DEF AsksTypes
    <3>3. CASE r # approval[i].resource
      BY <2>1, <2>4, <3>3 DEF AsksTypes, LeaveKept, SaysAlways
    <3>. QED  BY <3>1, <3>2, <3>3
  <2>. QED  BY <2>1, <2>2, <2>3, <2>4 DEF LeaveKept, SaysAllowed, SaysAlways
<1>12. CASE P!Sweep \/ \E s \in P!Servers : P!Ages(s)
  <2>1. UNCHANGED ask /\ UNCHANGED P!Table
    BY <1>12 DEF P!Sweep, P!Ages
  <2>. QED  BY <1>1, <2>1
<1>13. CASE UNCHANGED AskVars
  BY <1>1, <1>13 DEF AskVars, P!Table
<1>14. ASSUME NEW g \in Procs, P!GoesMute(g) PROVE LeaveKept'
  <2>1. UNCHANGED ask /\ UNCHANGED P!Table
    BY <1>14 DEF P!GoesMute
  <2>. QED  BY <1>1, <2>1
<1>. QED
  BY <1>3, <1>4, <1>5, <1>6, <1>7, <1>8, <1>9, <1>10, <1>11, <1>12, <1>13, <1>14
  DEF P!Next, P!Step

\* Whatever the rules, the patterns and the persons are: nothing is done without the
\* leave of a rule or of a person who gave it for this call or said that it be
\* remembered, however persons race each other and calls poll, time out and are
\* retried; and the calls of one MCP server that are under way share one process,
\* whatever the sweeper closes (gateway.rs, preferences.rs).
THEOREM NothingWithoutLeave == Spec => []DoneWithLeave
<1>. DEFINE Inv == which = "approvals" => AsksInv
<1>1. Init => Inv
  <2>. SUFFICES ASSUME P!Init PROVE AsksInv
    BY DEF Init
  <2>1. AsksTypes
    BY DEF P!Init, AsksTypes, P!NoSession, AskOf, PersonOf, SessionOf, AskPcs
  <2>2. approval = <<>> /\ Len(approval) = 0
    BY DEF P!Init
  <2>3. (\A c \in Asks : ask[c].pc = "idle") /\ (\A p \in Persons : person[p].pc = "idle")
    BY DEF P!Init
  <2>4. PersonsKnow /\ LeaveKept
    BY <2>2, <2>3 DEF P!Init, PersonsKnow, LeaveKept, Protected
  <2>5. \A s \in P!Servers : session[s].child = NoProc
    BY DEF P!Init, P!NoSession
  <2>. QED  BY <2>1, <2>3, <2>4, <2>5 DEF AsksInv, GateKept, Gated
<1>2. Inv /\ [Next]_clientsVars => Inv'
  <2>. SUFFICES ASSUME Inv, [Next]_clientsVars, which' = "approvals" PROVE AsksInv'
    OBVIOUS
  <2>1. which = "approvals" /\ [P!Next]_AskVars
    BY DEF Next, clientsVars
  <2>. QED  BY <2>1, AsksTypesStep, GateStep, LeaveStep DEF AsksInv
<1>3. Inv => DoneWithLeave
  <2>. SUFFICES ASSUME AsksInv PROVE P!DoneWithLeave /\ P!OneProcess
    BY DEF DoneWithLeave
  <2>. QED  BY DEF AsksInv, LeaveKept, GateKept, Gated, Protected, P!DoneWithLeave, P!OneProcess, P!Is
<1>. QED
  BY <1>1, <1>2, <1>3, PTL DEF Spec, clientsVars

-----------------------------------------------------------------------------
(* Requests for several agents. *)

Rows == {"none", "running"} \cup O!Ended
Untouched(n) == worker[n] = "none" /\ task[n] = "none"
OfGraph == mode \in {"fixed", "planned"} /\ at # "error"

OrchTypes ==
    /\ task \in [Nodes -> Rows]
    /\ worker \in [Nodes -> {"none", "busy", "held", "ok", "err"}]
    /\ completed \subseteq Nodes /\ joining \subseteq Nodes

\* How a node's thread and its row go together, and what a record stands for.
NodeSound(n) ==
    /\ worker[n] = "none" => task[n] \in {"none", "cancelled"}
    /\ worker[n] \in {"busy", "held", "err"} => task[n] \in {"none", "running"}
    /\ worker[n] = "ok" => task[n] \in O!Ended
    /\ n \in completed => worker[n] = "ok" \/ (worker[n] = "none" /\ task[n] = "cancelled")

\* The threads that are busy are those the request's thread is about to wait for.
BusyAwaited(n) ==
    worker[n] \in {"busy", "held"} =>
        \/ at = "join" /\ n \in joining
        \/ at = "relaying" /\ n \notin completed
        \/ at = "error"

\* A node of a graph is started, or skipped, when all it depends on has a record, and
\* as these tell; what is started is awaited or has a record of its own.
NodeInOrder(n) ==
    Untouched(n) \/ /\ n \in completed \cup joining
                    /\ graph[n].depends_on \subseteq completed
                    /\ worker[n] # "none" <=> O!ShouldRun(n)

\* The relay has one node at work, and those that come later are as they were.
RelayInOrder ==
    /\ at = "step" => \A n \in Nodes \ completed : Untouched(n)
    /\ at = "relaying" =>
           \E f \in Nodes \ completed : worker[f] # "none" /\ \A n \in Nodes \ completed : n = f \/ Untouched(n)

WavesSound ==
    /\ at \in {"plan", "held", "start", "step", "relaying", "wave", "no runnable nodes", "join",
               "finish", "done", "error"}
    /\ \A n \in Nodes : NodeSound(n) /\ BusyAwaited(n)
    /\ at \in {"plan", "held", "start"} => completed = {} /\ joining = {} /\ \A n \in Nodes : Untouched(n)
    /\ at \in {"wave", "finish"} => joining = {}
    /\ at \in {"step", "relaying"} => mode = "relay" /\ RelayInOrder
    /\ OfGraph => \A n \in Nodes : NodeInOrder(n)
    /\ OfGraph /\ at = "finish" => O!Remaining = {}
    /\ OfGraph /\ at = "done" => completed = Nodes

OrchInv == OrchTypes /\ WavesSound

\* While a node's dependencies have their records, nothing changes what it was to do.
LEMMA ShouldRunStays ==
    ASSUME NEW n \in Nodes, graph' = graph, graph[n].depends_on \subseteq completed,
           \A d \in completed : task'[d] = task[d]
    PROVE  O!ShouldRun(n)' <=> O!ShouldRun(n)
<1>1. {task'[d] : d \in graph'[n].depends_on} = {task[d] : d \in graph[n].depends_on}
  OBVIOUS
<1>. QED  BY <1>1 DEF O!ShouldRun

LEMMA OrchTypesStep == ASSUME OrchInv, [O!Next]_OrchVars PROVE OrchTypes'
<1>. USE DEF OrchInv, OrchTypes, O!Request
<1>1. CASE O!Plan \/ O!PlanHeld \/ O!Refused \/ O!Started \/ O!Joined \/ O!Finish \/ O!EventFails
  BY <1>1 DEF O!Plan, O!PlanHeld, O!Refused, O!Started, O!Joined, O!Finish, O!EventFails
<1>2. ASSUME NEW n \in Nodes, O!Relay(n) \/ O!Relayed(n) PROVE OrchTypes'
  BY <1>2 DEF O!Relay, O!Relayed
<1>3. ASSUME NEW n \in Nodes, O!RelayBreaks(n) PROVE OrchTypes'
  BY <1>3 DEF O!RelayBreaks
<1>4. CASE O!Wave
  <2>1. UNCHANGED <<mode, graph>> /\ joining' \subseteq Nodes /\ completed' \subseteq Nodes
    BY <1>4 DEF O!Wave, O!Ready, O!Remaining
  <2>2. task' \in [Nodes -> Rows]
    BY <1>4 DEF O!Wave, Rows, O!Ended
  <2>3. worker' \in [Nodes -> {"none", "busy", "held", "ok", "err"}]
    BY <1>4 DEF O!Wave
  <2>. QED  BY <2>1, <2>2, <2>3
<1>5. ASSUME NEW n \in Nodes, O!Join(n) \/ O!JoinFails(n) PROVE OrchTypes'
  BY <1>5 DEF O!Join, O!JoinFails
<1>6. ASSUME NEW n \in Nodes, O!NoRow(n) \/ O!Row(n) \/ O!TaskEnds(n) \/ O!TaskHeld(n) PROVE OrchTypes'
  BY <1>6 DEF O!NoRow, O!Row, O!TaskEnds, O!TaskHeld, Rows, O!Ended
<1>7. CASE UNCHANGED OrchVars
  BY <1>7 DEF OrchVars
<1>8. CASE O!WaveBreaks
  <2>1. task' \in [Nodes -> Rows] /\ UNCHANGED <<mode, graph, worker, completed, joining>>
    BY <1>8 DEF O!WaveBreaks, Rows, O!Ended
  <2>. QED  BY <2>1
<1>. QED
  BY <1>1, <1>2, <1>3, <1>4, <1>5, <1>6, <1>7, <1>8 DEF O!Next, O!Coordinates, O!Works

\* The request's thread moves and no node does.
LEMMA OnlyMoves ==
    ASSUME OrchTypes, WavesSound,
           \/ O!Plan \/ O!PlanHeld \/ O!Refused \/ O!Started \/ O!Joined \/ O!Finish
           \/ O!EventFails \/ \E n \in Nodes : O!RelayBreaks(n)
    PROVE  WavesSound'
<1>1. UNCHANGED <<mode, graph, task, worker, completed, joining>>
  BY DEF O!Plan, O!PlanHeld, O!Refused, O!Started, O!RelayBreaks, O!EventFails, O!Joined,
         O!Finish, O!Request
<1>2. \A n \in Nodes : NodeSound(n)'
  BY <1>1 DEF WavesSound, NodeSound
<1>3. \A n \in Nodes : NodeInOrder(n) => NodeInOrder(n)'
  BY <1>1 DEF NodeInOrder, Untouched, O!ShouldRun
<1>4. CASE O!Plan \/ O!PlanHeld \/ O!Refused
  <2>1. at \in {"plan", "held", "start"} /\ at' \in {"held", "start", "error"}
    BY <1>4 DEF O!Plan, O!PlanHeld, O!Refused, O!Goes
  <2>2. \A n \in Nodes : BusyAwaited(n)'
    BY <1>1, <2>1 DEF WavesSound, BusyAwaited, Untouched
  <2>. QED  BY <1>1, <1>2, <1>3, <2>1, <2>2 DEF WavesSound, OfGraph, Untouched
<1>5. CASE O!Started
  <2>1. at = "start" /\ at' = IF mode = "relay" THEN "step" ELSE "wave"
    BY <1>5 DEF O!Started, O!Goes
  <2>2. completed = {} /\ joining = {} /\ \A n \in Nodes : Untouched(n)
    BY <2>1 DEF WavesSound
  <2>3. \A n \in Nodes : BusyAwaited(n)'
    BY <1>1, <2>2 DEF BusyAwaited, Untouched
  <2>4. RelayInOrder'
    BY <1>1, <2>1, <2>2 DEF RelayInOrder, Untouched
  <2>. QED  BY <1>1, <1>2, <1>3, <2>1, <2>2, <2>3, <2>4 DEF WavesSound, OfGraph
<1>6. CASE O!EventFails \/ \E n \in Nodes : O!RelayBreaks(n)
  <2>1. at' = "error"
    BY <1>6 DEF O!RelayBreaks, O!EventFails, O!Goes
  <2>. QED  BY <1>2, <2>1 DEF WavesSound, OfGraph, BusyAwaited
<1>7. CASE O!Joined
  <2>1. /\ at = "join" /\ joining = {} /\ at' \in {"finish", "wave"}
        /\ at' = "finish" => O!Remaining = {}
    BY <1>7 DEF O!Joined, O!Goes
  <2>2. \A n \in Nodes : BusyAwaited(n)'
    BY <1>1, <2>1 DEF WavesSound, BusyAwaited
  <2>. QED  BY <1>1, <1>2, <1>3, <2>1, <2>2 DEF WavesSound, OfGraph, O!Remaining
<1>8. CASE O!Finish
  <2>1. /\ at = "finish" \/ (at = "step" /\ completed = Nodes)
        /\ at' \in {"error", "done"}
    BY <1>8 DEF O!Finish, O!Goes
  <2>2. \A n \in Nodes : BusyAwaited(n)'
    BY <1>1, <2>1 DEF WavesSound, BusyAwaited
  <2>3. OfGraph' => completed' = Nodes
    <3>1. SUFFICES ASSUME mode \in {"fixed", "planned"} PROVE completed = Nodes
      BY <1>1 DEF OfGraph
    <3>2. at = "finish"
      BY <2>1, <3>1 DEF WavesSound
    <3>3. O!Remaining = {} /\ joining = {} /\ \A n \in Nodes : NodeInOrder(n)
      BY <3>1, <3>2 DEF WavesSound, OfGraph
    <3>. QED  BY <3>3 DEF O!Remaining, NodeInOrder, Untouched, OrchTypes
  <2>. QED  BY <1>1, <1>2, <1>3, <2>1, <2>2, <2>3 DEF WavesSound, OfGraph
<1>. QED  BY <1>4, <1>5, <1>6, <1>7, <1>8

LEMMA RelaySteps ==
    ASSUME OrchTypes, WavesSound, NEW f \in Nodes, O!Relay(f) \/ O!Relayed(f)
    PROVE  WavesSound'
<1>1. /\ mode = "relay" /\ RelayInOrder /\ f \notin completed
      /\ UNCHANGED <<mode, graph, task, joining>>
  BY DEF O!Relay, O!Relayed, O!Turn, O!Request, WavesSound
<1>2. ~OfGraph'
  BY <1>1 DEF OfGraph
<1>3. CASE O!Relay(f)
  <2>1. /\ at = "step" /\ at' = "relaying" /\ completed' = completed
        /\ worker' = [worker EXCEPT ![f] = "busy"]
    BY <1>3 DEF O!Relay, O!Goes
  <2>2. worker'[f] = "busy" /\ \A n \in Nodes : n # f => worker'[n] = worker[n]
    BY <2>1 DEF OrchTypes
  <2>3. \A n \in Nodes \ completed : Untouched(n)
    BY <1>1, <2>1 DEF RelayInOrder
  <2>4. \A n \in Nodes : NodeSound(n)' /\ BusyAwaited(n)'
    BY <1>1, <2>1, <2>2, <2>3 DEF WavesSound, NodeSound, BusyAwaited, Untouched
  <2>5. RelayInOrder'
    BY <1>1, <2>1, <2>2, <2>3 DEF RelayInOrder, Untouched
  <2>. QED  BY <1>1, <1>2, <2>1, <2>4, <2>5 DEF WavesSound
<1>4. CASE O!Relayed(f)
  <2>1. /\ at = "relaying" /\ at' \in {"done", "step"} /\ worker[f] = "ok"
        /\ completed' = completed \cup {f} /\ worker' = worker
    BY <1>4 DEF O!Relayed, O!Goes
  <2>2. \A n \in Nodes \ completed : n = f \/ Untouched(n)
    BY <1>1, <2>1 DEF RelayInOrder, Untouched
  <2>3. \A n \in Nodes : NodeSound(n)'
    BY <1>1, <2>1 DEF WavesSound, NodeSound
  <2>4. \A n \in Nodes : BusyAwaited(n)'
    BY <2>1, <2>2 DEF WavesSound, BusyAwaited, Untouched
  <2>5. RelayInOrder'
    BY <1>1, <2>1, <2>2 DEF RelayInOrder, Untouched
  <2>. QED  BY <1>1, <1>2, <2>1, <2>3, <2>4, <2>5 DEF WavesSound
<1>. QED  BY <1>3, <1>4

LEMMA WaveSteps ==
    ASSUME OrchTypes, WavesSound, O!Wave
    PROVE  WavesSound'
<1>. PICK run : run = {n \in O!Ready : O!ShouldRun(n)}
  OBVIOUS
<1>1. /\ at = "wave" /\ joining' = run /\ completed' = completed \cup (O!Ready \ run)
      /\ task' = [n \in Nodes |-> IF n \in O!Ready \ run THEN "cancelled" ELSE task[n]]
      /\ worker' = [n \in Nodes |-> IF n \in run THEN "busy" ELSE worker[n]]
      /\ at' \in {"no runnable nodes", "join"} /\ (O!Ready # {} => at' = "join")
      /\ UNCHANGED <<mode, graph>>
  BY DEF O!Wave, O!Goes, O!Request
<1>2. /\ joining = {} /\ run \subseteq O!Ready /\ O!Ready \subseteq Nodes
      /\ \A n \in O!Ready : /\ Untouched(n) /\ n \notin completed
                            /\ graph[n].depends_on \subseteq completed
  BY <1>1 DEF WavesSound, O!Ready, O!Remaining, Untouched, O!Unmet, NodeSound
<1>3. \A n \in Nodes : n \in run => task'[n] = "none" /\ worker'[n] = "busy"
  BY <1>1, <1>2 DEF Untouched
<1>4. \A n \in Nodes : n \in O!Ready \ run => task'[n] = "cancelled" /\ worker'[n] = "none"
  BY <1>1, <1>2 DEF Untouched
<1>5. \A n \in Nodes : n \notin O!Ready => task'[n] = task[n] /\ worker'[n] = worker[n]
  BY <1>1, <1>2
<1>6. \A d \in completed : task'[d] = task[d]
  BY <1>2, <1>5 DEF OrchTypes
<1>7. ASSUME NEW n \in Nodes PROVE NodeSound(n)'
  <2>1. NodeSound(n)
    BY DEF WavesSound
  <2>. QED  BY <1>1, <1>2, <1>3, <1>4, <1>5, <2>1 DEF NodeSound
<1>8. ASSUME NEW n \in Nodes PROVE BusyAwaited(n)'
  <2>1. worker[n] \notin {"busy", "held"}
    BY <1>1 DEF WavesSound, BusyAwaited
  <2>2. worker'[n] \in {"busy", "held"} => n \in run
    BY <1>1, <2>1
  <2>. QED  BY <1>1, <1>2, <2>2 DEF BusyAwaited
<1>9. ASSUME OfGraph, NEW n \in Nodes PROVE NodeInOrder(n)'
  <2>1. NodeInOrder(n)
    BY <1>9 DEF WavesSound
  <2>2. CASE n \in O!Ready
    <3>1. O!ShouldRun(n)' <=> O!ShouldRun(n)
      BY <1>1, <1>2, <1>6, <2>2, ShouldRunStays
    <3>2. worker'[n] # "none" <=> n \in run
      BY <1>3, <1>4, <2>2
    <3>3. n \in run <=> O!ShouldRun(n)
      BY <2>2
    <3>. QED  BY <1>1, <1>2, <2>2, <3>1, <3>2, <3>3 DEF NodeInOrder
  <2>3. CASE n \notin O!Ready /\ Untouched(n)
    BY <1>5, <2>3 DEF NodeInOrder, Untouched
  <2>4. CASE n \notin O!Ready /\ ~Untouched(n)
    <3>1. O!ShouldRun(n)' <=> O!ShouldRun(n)
      BY <1>1, <1>6, <2>1, <2>4, ShouldRunStays DEF NodeInOrder
    <3>. QED  BY <1>1, <1>2, <1>5, <2>1, <2>4, <3>1 DEF NodeInOrder, Untouched
  <2>. QED  BY <2>2, <2>3, <2>4
<1>10. OfGraph' => OfGraph
  BY <1>1 DEF OfGraph
<1>. QED  BY <1>1, <1>7, <1>8, <1>9, <1>10 DEF WavesSound

LEMMA WaveBroken ==
    ASSUME OrchTypes, WavesSound, O!WaveBreaks
    PROVE  WavesSound'
<1>1. at' = "error" /\ UNCHANGED <<mode, graph, worker, completed, joining>>
  BY DEF O!WaveBreaks, O!Goes, O!Request
<1>. PICK some \in SUBSET O!Ready :
         task' = [n \in Nodes |-> IF n \in some THEN "cancelled" ELSE task[n]]
  BY DEF O!WaveBreaks
<1>2. \A n \in some : worker[n] = "none" /\ n \notin completed
  <2>1. at = "wave" /\ \A n \in O!Ready : n \in Nodes /\ worker[n] = "none" /\ task[n] = "none"
    BY DEF O!WaveBreaks, O!Ready, O!Remaining
  <2>. QED  BY <2>1 DEF WavesSound, NodeSound
<1>3. ASSUME NEW n \in Nodes PROVE NodeSound(n)' /\ BusyAwaited(n)'
  <2>1. NodeSound(n)
    BY DEF WavesSound
  <2>2. IF n \in some THEN task'[n] = "cancelled" ELSE task'[n] = task[n]
    OBVIOUS
  <2>. QED  BY <1>1, <1>2, <2>1, <2>2 DEF NodeSound, BusyAwaited
<1>. QED  BY <1>1, <1>3 DEF WavesSound, OfGraph

LEMMA JoinSteps ==
    ASSUME OrchTypes, WavesSound, NEW t \in Nodes, O!Join(t) \/ O!JoinFails(t)
    PROVE  WavesSound'
<1>1. at = "join" /\ t \in joining /\ UNCHANGED <<mode, graph, task, worker>>
  BY DEF O!Join, O!JoinFails, O!Turn, O!Request
<1>2. CASE O!Join(t)
  <2>1. /\ at' = "join" /\ worker[t] = "ok" /\ completed' = completed \cup {t}
        /\ joining' = joining \ {t}
    BY <1>1, <1>2 DEF O!Join
  <2>2. ASSUME NEW n \in Nodes PROVE NodeSound(n)' /\ BusyAwaited(n)'
    <3>1. NodeSound(n) /\ BusyAwaited(n)
      BY DEF WavesSound
    <3>. QED  BY <1>1, <2>1, <3>1 DEF NodeSound, BusyAwaited
  <2>3. ASSUME OfGraph, NEW n \in Nodes PROVE NodeInOrder(n)'
    <3>1. NodeInOrder(n)
      BY <2>3 DEF WavesSound
    <3>2. O!ShouldRun(n)' <=> O!ShouldRun(n)
      BY <1>1 DEF O!ShouldRun
    <3>. QED  BY <1>1, <2>1, <3>1, <3>2 DEF NodeInOrder, Untouched
  <2>. QED  BY <1>1, <2>1, <2>2, <2>3 DEF WavesSound, OfGraph
<1>3. CASE O!JoinFails(t) /\ mode = "parallel"
  <2>1. at' = "join" /\ worker[t] = "err" /\ UNCHANGED completed /\ joining' = joining \ {t}
    BY <1>1, <1>3 DEF O!JoinFails
  <2>2. ASSUME NEW n \in Nodes PROVE NodeSound(n)' /\ BusyAwaited(n)'
    <3>1. NodeSound(n) /\ BusyAwaited(n)
      BY DEF WavesSound
    <3>. QED  BY <1>1, <2>1, <3>1 DEF NodeSound, BusyAwaited
  <2>3. ~OfGraph'
    BY <1>1, <1>3 DEF OfGraph
  <2>. QED  BY <2>1, <2>2, <2>3 DEF WavesSound
<1>4. CASE O!JoinFails(t) /\ mode # "parallel"
  <2>1. at' = "error" /\ UNCHANGED completed
    BY <1>4 DEF O!JoinFails, O!Goes
  <2>2. \A n \in Nodes : NodeSound(n)' /\ BusyAwaited(n)'
    BY <1>1, <2>1 DEF WavesSound, NodeSound, BusyAwaited
  <2>. QED  BY <2>1, <2>2 DEF WavesSound, OfGraph
<1>. QED  BY <1>2, <1>3, <1>4

LEMMA WorkSteps ==
    ASSUME OrchTypes, WavesSound, NEW t \in Nodes,
           O!NoRow(t) \/ O!Row(t) \/ O!TaskEnds(t) \/ O!TaskHeld(t)
    PROVE  WavesSound'
<1>1. worker[t] \in {"busy", "held"} /\ UNCHANGED <<mode, graph, at, completed, joining>>
  BY DEF O!NoRow, O!Row, O!TaskEnds, O!TaskHeld, O!Request
<1>2. \A n \in Nodes : n # t => worker'[n] = worker[n] /\ task'[n] = task[n]
  BY DEF O!NoRow, O!Row, O!TaskEnds, O!TaskHeld, OrchTypes
<1>3. \/ worker'[t] = "err" /\ task'[t] \in {"none", "running"}
      \/ worker'[t] \in {"busy", "held"} /\ task'[t] = "running"
      \/ worker'[t] = "ok" /\ task'[t] \in O!Ended
  BY DEF O!NoRow, O!Row, O!TaskEnds, O!TaskHeld, OrchTypes
<1>4. t \notin completed
  BY <1>1 DEF WavesSound, NodeSound
<1>5. at \in {"join", "relaying", "error"}
  BY <1>1 DEF WavesSound, BusyAwaited
<1>6. ASSUME NEW n \in Nodes PROVE NodeSound(n)' /\ BusyAwaited(n)'
  <2>1. NodeSound(n) /\ BusyAwaited(n)
    BY DEF WavesSound
  <2>2. CASE n = t
    BY <1>1, <1>3, <1>4, <2>1, <2>2 DEF NodeSound, BusyAwaited
  <2>3. CASE n # t
    BY <1>1, <1>2, <2>1, <2>3 DEF NodeSound, BusyAwaited
  <2>. QED  BY <2>2, <2>3
<1>7. ASSUME OfGraph, NEW n \in Nodes PROVE NodeInOrder(n)'
  <2>1. NodeInOrder(n)
    BY <1>7 DEF WavesSound
  <2>2. \A d \in completed : task'[d] = task[d]
    BY <1>2, <1>4 DEF OrchTypes
  <2>3. CASE Untouched(n)
    BY <1>1, <1>2, <2>3 DEF NodeInOrder, Untouched
  <2>4. CASE ~Untouched(n)
    <3>1. O!ShouldRun(n)' <=> O!ShouldRun(n)
      BY <1>1, <2>1, <2>2, <2>4, ShouldRunStays DEF NodeInOrder
    <3>2. worker'[n] # "none" <=> worker[n] # "none"
      BY <1>1, <1>2, <1>3
    <3>. QED  BY <1>1, <2>1, <2>4, <3>1, <3>2 DEF NodeInOrder
  <2>. QED  BY <2>3, <2>4
<1>8. RelayInOrder /\ at = "relaying" => RelayInOrder'
  <2>. SUFFICES ASSUME RelayInOrder, at = "relaying" PROVE RelayInOrder'
    OBVIOUS
  <2>. PICK f \in Nodes \ completed :
           worker[f] # "none" /\ \A n \in Nodes \ completed : n = f \/ Untouched(n)
    BY DEF RelayInOrder
  <2>1. t = f
    BY <1>1, <1>4 DEF Untouched
  <2>2. worker'[f] # "none"
    BY <1>3, <2>1
  <2>. QED  BY <1>1, <1>2, <2>1, <2>2 DEF RelayInOrder, Untouched
<1>. QED  BY <1>1, <1>5, <1>6, <1>7, <1>8 DEF WavesSound, OfGraph

\* For every number of agents and every graph: a request that returns records has
\* nothing under way any more, a graph has a record for each node, and a node was run
\* or skipped as what it depends on ended, whatever rows are written, fail or are
\* cancelled meanwhile (orchestrate.rs, orchestrate_graph.rs).
THEOREM RecordsAreSettled == Spec => []Settled
<1>. DEFINE Inv == which = "orchestrate" => OrchInv
<1>1. Init => Inv
  <2>. SUFFICES ASSUME O!Init PROVE OrchInv
    BY DEF Init
  <2>1. OrchTypes
    BY DEF O!Init, OrchTypes, Rows
  <2>2. \A n \in Nodes : Untouched(n) /\ NodeSound(n) /\ BusyAwaited(n) /\ NodeInOrder(n)
    BY DEF O!Init, Untouched, NodeSound, BusyAwaited, NodeInOrder
  <2>3. at \in {"plan", "start"} /\ completed = {} /\ joining = {}
    BY DEF O!Init
  <2>. QED  BY <2>1, <2>2, <2>3 DEF OrchInv, WavesSound
<1>2. Inv /\ [Next]_clientsVars => Inv'
  <2>. SUFFICES ASSUME Inv, [Next]_clientsVars, which' = "orchestrate" PROVE OrchInv'
    OBVIOUS
  <2>1. which = "orchestrate" /\ [O!Next]_OrchVars
    BY DEF Next, clientsVars
  <2>2. OrchInv /\ OrchTypes'
    BY <2>1, OrchTypesStep
  <2>3. CASE UNCHANGED OrchVars
    <3>1. UNCHANGED <<mode, graph, at, task, worker, completed, joining>>
      BY <2>3 DEF OrchVars
    <3>2. \A n \in Nodes :
              /\ (NodeSound(n) => NodeSound(n)') /\ (BusyAwaited(n) => BusyAwaited(n)')
              /\ (Untouched(n) <=> Untouched(n)')
      BY <3>1 DEF NodeSound, BusyAwaited, Untouched
    <3>3. \A n \in Nodes : NodeInOrder(n) => NodeInOrder(n)'
      BY <3>1 DEF NodeInOrder, Untouched, O!ShouldRun
    <3>4. RelayInOrder => RelayInOrder'
      BY <3>1 DEF RelayInOrder, Untouched
    <3>5. O!Remaining' = O!Remaining /\ (OfGraph' <=> OfGraph)
      BY <3>1 DEF O!Remaining, OfGraph
    <3>. QED
      BY <2>2, <3>1, <3>2, <3>3, <3>4, <3>5 DEF OrchInv, WavesSound
  <2>. QED
    BY <2>1, <2>2, <2>3, OnlyMoves, RelaySteps, WaveSteps, WaveBroken, JoinSteps, WorkSteps
    DEF OrchInv, O!Next, O!Coordinates, O!Works
<1>3. Inv => Settled
  <2>. SUFFICES ASSUME OrchInv, at = "done" PROVE O!Settled
    BY DEF Settled, O!Settled
  <2>1. \A n \in Nodes : worker[n] \notin {"busy", "held"}
    BY DEF OrchInv, WavesSound, BusyAwaited
  <2>2. \A n \in completed : task[n] \in O!Ended
    BY DEF OrchInv, OrchTypes, WavesSound, NodeSound, O!Ended
  <2>3. ASSUME mode \in {"fixed", "planned"}
        PROVE  completed = Nodes /\ \A n \in Nodes : worker[n] = "ok" <=> O!ShouldRun(n)
    <3>1. OfGraph
      BY <2>3 DEF OfGraph
    <3>2. completed = Nodes /\ \A n \in Nodes : NodeInOrder(n)
      BY <3>1 DEF OrchInv, WavesSound
    <3>3. \A n \in Nodes : ~Untouched(n) /\ (worker[n] = "ok" <=> worker[n] # "none")
      BY <3>2 DEF OrchInv, WavesSound, NodeSound, Untouched, O!Ended
    <3>. QED  BY <3>2, <3>3 DEF NodeInOrder
  <2>. QED  BY <2>1, <2>2, <2>3 DEF O!Settled
<1>. QED
  BY <1>1, <1>2, <1>3, PTL DEF Spec, clientsVars
=============================================================================
