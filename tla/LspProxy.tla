-------------------------------- MODULE LspProxy --------------------------------
(***************************************************************************)
(* The language-server proxy, crates/single-lsp/src/proxy.rs with the main    *)
(* loop of main.rs: one thread for the client's messages, one that reads      *)
(* each backend, and backends that exit when they like.  Each lock is held    *)
(* for one step.  A document stands for all documents of its language; the    *)
(* handshake, whose reply is dropped, and messages without an answer are      *)
(* left out but for didClose.                                                *)
(***************************************************************************)
EXTENDS Integers, Sequences

CONSTANTS
    Langs,          \* presets of the registry, by name
    Unknown,        \* a language no preset is registered for
    Reqs,           \* requests of the client
    Gens,           \* processes that may be spawned: 1..n
    NoReq

VARIABLES
    backends,   \* by name, the process that is published, or 0
    docs,       \* uri_to_backend
    pending,    \* requests on their way, with the name they were sent to
    asked,      \* pending_server: what backends want from the client
    proc,       \* each process: its name, whether it runs, what it has been sent
    reader,     \* each process's reader thread
    client,     \* the thread that reads the client's messages
    replies,    \* history: what each request has been answered
    open        \* stdin is open; then draining, then closed

lspVars == <<backends, docs, pending, asked, proc, reader, client, replies, open>>

NoBackend == [lang |-> Unknown, up |-> FALSE, in |-> {}]
Waiting == [pc |-> "idle", req |-> NoReq, lang |-> Unknown]

Init ==
    /\ backends = [n \in Langs |-> 0]
    /\ docs = {} /\ pending = {} /\ asked = {}
    /\ proc = [g \in Gens |-> NoBackend]
    /\ reader = [g \in Gens |-> "none"]
    /\ client = Waiting
    /\ replies = [r \in Reqs |-> <<>>]
    /\ open = "open"

Does(pc) == client.pc = pc
Then(pc) == client' = [client EXCEPT !.pc = pc]
Sent(r) == pending' = pending \cup {[req |-> r, lang |-> client.lang]}
Of(n) == {p \in pending : p.lang = n}

\* The requests of those entries that are still in the table: only who takes an
\* entry out answers it.
TakenAnyway(ps) == {p.req : p \in ps}
Taken(ps) == {p.req : p \in ps \cap pending}

\* Each answer is kept with the process it speaks for, 0 for the proxy itself.
Reply(rs, g) ==
    replies' = [r \in Reqs |-> IF r \in rs THEN Append(replies[r], g) ELSE replies[r]]

Fresh == {g \in Gens : reader[g] = "none"}
Alive(n) == backends[n] # 0 /\ proc[backends[n]].up

-----------------------------------------------------------------------------
(* The client's thread. *)

\* A request of a document, routed by what is known of it or by the registry.
Receive(r, n) ==
    /\ Does("idle") /\ open = "open" /\ replies[r] = <<>>
    /\ \A p \in pending : p.req # r
    /\ IF n = Unknown
       THEN Reply({r}, 0) /\ UNCHANGED client
       ELSE /\ client' = [pc |-> IF n \in docs THEN "register" ELSE "ensure",
                          req |-> r, lang |-> n]
            /\ UNCHANGED replies
    /\ UNCHANGED <<backends, docs, pending, asked, proc, reader, open>>

\* ensure_backend, the lock held: the published process is used as it is ...
Reuse ==
    /\ Does("ensure") /\ backends[client.lang] # 0
    /\ Then("bind")
    /\ UNCHANGED <<backends, docs, pending, asked, proc, reader, replies, open>>

\* ... or one is spawned, initialized, published and read.
Spawn(g) ==
    /\ Does("ensure") /\ backends[client.lang] = 0 /\ g \in Fresh
    /\ backends' = [backends EXCEPT ![client.lang] = g]
    /\ proc' = [proc EXCEPT ![g] = [NoBackend EXCEPT !.lang = client.lang, !.up = TRUE]]
    /\ reader' = [reader EXCEPT ![g] = "reads"]
    /\ Then("bind")
    /\ UNCHANGED <<docs, pending, asked, replies, open>>

SpawnFails ==
    /\ Does("ensure") /\ backends[client.lang] = 0
    /\ Reply({client.req}, 0)
    /\ client' = Waiting
    /\ UNCHANGED <<backends, docs, pending, asked, proc, reader, open>>

\* The document's entry is written after the lock was released.
BindDoc ==
    /\ Does("bind")
    /\ docs' = docs \cup {client.lang}
    /\ Then("register")
    /\ UNCHANGED <<backends, pending, asked, proc, reader, replies, open>>

Register ==
    /\ Does("register")
    /\ Sent(client.req)
    /\ Then("send")
    /\ UNCHANGED <<backends, docs, asked, proc, reader, replies, open>>

Send ==
    /\ Does("send") /\ Alive(client.lang)
    /\ proc' = [proc EXCEPT ![backends[client.lang]].in = @ \cup {client.req}]
    /\ client' = Waiting
    /\ UNCHANGED <<backends, docs, pending, asked, reader, replies, open>>

\* Not running, or its pipe is broken; the request may be answered by now.
SendFails ==
    /\ Does("send") /\ ~Alive(client.lang)
    /\ LET p == [req |-> client.req, lang |-> client.lang] IN
           /\ pending' = pending \ {p}
           /\ Reply(Taken({p}), 0)
    /\ client' = Waiting
    /\ UNCHANGED <<backends, docs, asked, proc, reader, open>>

DidClose(n) ==
    /\ Does("idle") /\ open = "open" /\ n \in docs
    /\ docs' = docs \ {n}
    /\ UNCHANGED <<backends, pending, asked, proc, reader, client, replies, open>>

\* The client answers a request of a backend: it goes to the name.
ClientAnswers(a) ==
    /\ Does("idle") /\ open = "open" /\ a \in asked
    /\ asked' = asked \ {a}
    /\ UNCHANGED <<backends, docs, pending, proc, reader, client, replies, open>>

\* close_client_output: every stdin is dropped, the readers get three seconds.
Close ==
    /\ Does("idle") /\ open = "open"
    /\ open' = "draining"
    /\ backends' = [n \in Langs |-> 0]
    /\ UNCHANGED <<docs, pending, asked, proc, reader, client, replies>>

Closed ==
    /\ open = "draining"
    /\ open' = IF \A g \in Gens : reader[g] \in {"none", "gone"} THEN "closed"
               ELSE "late"
    /\ UNCHANGED <<backends, docs, pending, asked, proc, reader, client, replies>>

-----------------------------------------------------------------------------
(* Backends and their readers. *)

Reads(g) == reader[g] = "reads"
Goes(g, to) == reader' = [reader EXCEPT ![g] = to]

\* A response counts while its request is pending with that name.
Answers(g, r) ==
    /\ Reads(g) /\ proc[g].up /\ r \in proc[g].in
    /\ proc' = [proc EXCEPT ![g].in = @ \ {r}]
    /\ LET p == [req |-> r, lang |-> proc[g].lang] IN
           /\ pending' = pending \ {p}
           /\ Reply(Taken({p}), g)
    /\ UNCHANGED <<backends, docs, asked, reader, client, open>>

BackendAsks(g) ==
    /\ Reads(g) /\ proc[g].up /\ open = "open"
    /\ asked' = asked \cup {[lang |-> proc[g].lang, by |-> g]}
    /\ UNCHANGED <<backends, docs, pending, proc, reader, client, replies, open>>

Exits(g) ==
    /\ proc[g].up
    /\ proc' = [proc EXCEPT ![g].up = FALSE]
    /\ UNCHANGED <<backends, docs, pending, asked, reader, client, replies, open>>

\* retire_backend: one table after the other, by name.
Retire(g) ==
    /\ Reads(g) /\ ~proc[g].up
    /\ backends' = [backends EXCEPT ![proc[g].lang] = 0]
    /\ Goes(g, "docs")
    /\ UNCHANGED <<docs, pending, asked, proc, client, replies, open>>

RetireDocs(g) ==
    /\ reader[g] = "docs"
    /\ docs' = docs \ {proc[g].lang}
    /\ Goes(g, "asked")
    /\ UNCHANGED <<backends, pending, asked, proc, client, replies, open>>

RetireAsked(g) ==
    /\ reader[g] = "asked"
    /\ asked' = {a \in asked : a.lang # proc[g].lang}
    /\ Goes(g, "pending")
    /\ UNCHANGED <<backends, docs, pending, proc, client, replies, open>>

NoneOrphaned(g) == {}
Orphaned(g) == Of(proc[g].lang)
RetirePending(g) ==
    /\ reader[g] = "pending"
    /\ pending' = pending \ Orphaned(g)
    /\ Reply(Taken(Orphaned(g)), 0)
    /\ Goes(g, "gone")
    /\ UNCHANGED <<backends, docs, asked, proc, client, open>>

ClientStep == \/ Reuse \/ SpawnFails \/ BindDoc \/ Register \/ Send \/ SendFails
              \/ \E g \in Gens : Spawn(g)
Reader(g) == \/ Retire(g) \/ RetireDocs(g) \/ RetireAsked(g) \/ RetirePending(g)
             \/ \E r \in Reqs : Answers(g, r)

Next == \/ \E r \in Reqs, n \in Langs \cup {Unknown} : Receive(r, n)
        \/ \E n \in Langs : DidClose(n)
        \/ \E a \in asked : ClientAnswers(a)
        \/ \E g \in Gens : BackendAsks(g) \/ Exits(g) \/ Reader(g)
        \/ ClientStep \/ Close \/ Closed

\* Threads run; a backend answers what it is asked or exits.
Fairness == WF_lspVars(ClientStep) /\ \A g \in Gens : WF_lspVars(Reader(g))
Spec == Init /\ [][Next]_lspVars /\ Fairness

-----------------------------------------------------------------------------
(* Properties. *)

\* No request is answered twice: not by a backend and the thread that mourns it,
\* nor by a failed send and either of them.
AnsweredOnce == \A r \in Reqs : Len(replies[r]) <= 1

\* A request that has reached the table is answered, even if its backend exits
\* before, while or after it is sent, or has just been replaced.
RequestsEnd ==
    \A r \in Reqs : (\E p \in pending : p.req = r) ~> replies[r] # <<>>

\* NOT TRUE.  retire_backend: a backend that exited is forgotten "so the next document for
\* that language spawns a fresh one".  When nobody is at work on the tables, a
\* document that is mapped to a backend has one.
Mourned(n) == \E g \in Gens : /\ proc[g].lang = n /\ reader[g] \notin {"none", "gone"}
                              /\ reader[g] = "reads" => ~proc[g].up
DocumentServed ==
    \A n \in docs : Does("idle") /\ open = "open" =>
        backends[n] # 0 \/ Mourned(n)

\* NOT TRUE.  retire_backend: "fail its outstanding requests": those of the process that
\* exited, not what its successor is about to answer.
FailsItsOwn ==
    [][\A g \in Gens : \A r \in Reqs :
           reader[g] = "pending" /\ reader'[g] = "gone" /\ replies'[r] # replies[r]
           => \A h \in Gens : h # g /\ proc[h].up => r \notin proc[h].in]_lspVars
=============================================================================
