------------------------------ MODULE StoresProofs ------------------------------
(***************************************************************************)
(* What is kept on disk, for every value of the constants: for each part an  *)
(* invariant that each of its steps keeps, and that no step of another part   *)
(* can disturb.                                                              *)
(***************************************************************************)
EXTENDS MCStores, FiniteSetTheorems, WellFoundedInduction, SequenceTheorems, TLAPS

-----------------------------------------------------------------------------
(* Redacted secrets. *)

\* A number of the daemon: drawn, and by one scan only.
Drawn(t) == scan[t].pc = "insert" /\ t \notin Commands
NumbersApart ==
    /\ \A t \in Threads : Drawn(t) => scan[t].n < counter
    /\ \A t, u \in Threads : Drawn(t) /\ Drawn(u) /\ scan[t].n = scan[u].n => t = u

\* What a prompt of the daemon was given stays its own: its number was drawn, is with no
\* scan any more, and its row holds its secret or none, but for what a command wrote there.
PromptsApart ==
    \A p \in prompt : p.life = life =>
        /\ p.name[2] < counter
        /\ \A t \in Threads : Drawn(t) => scan[t].n # p.name[2]
        /\ alias[p.name].secret \in {p.secret, R!Unresolvable} \/ p.name \in beside

\* The types that the two rest on.
Scans == [pc : {"idle", "generate", "encrypt", "insert", "ended"}, scope : Scopes,
          secret : Secrets \cup {R!Unresolvable}, key : Nat, n : Nat]
Numbers ==
    /\ counter \in Nat \ {0} /\ life \in Nat \ {0}
    /\ scan \in [Threads -> Scans]
    /\ alias \in [R!AliasNames -> [secret : Secrets \cup {R!Unresolvable}, key : Nat]]
    /\ \A t \in Threads : /\ scan[t].pc = "insert" => scan[t].n \in 1..MaxAlias
                          /\ scan[t].pc = "generate" => scan[t].n = IF t \in Commands THEN 1 ELSE 0
    /\ prompt \subseteq [name : R!AliasNames, secret : Secrets \cup {R!Unresolvable}, life : 1..life]
    /\ key \in Nat /\ keys \in Nat

Apart == Numbers /\ NumbersApart /\ PromptsApart

LEMMA InitApart == R!Init => Apart
  BY StoresAssumption DEF R!Init, Apart, Numbers, Scans, NumbersApart, PromptsApart, R!NoScan, R!NoAlias, Drawn, R!AliasNames

LEMMA StepApart ==
    ASSUME Apart, [R!Next]_RedactVars
    PROVE  Apart'
<1> USE DEF Drawn
<1>0. Numbers /\ NumbersApart /\ PromptsApart /\ Scopes # {} /\ MaxAlias \in Nat \ {0}
  BY StoresAssumption DEF Apart
<1>1. ASSUME NEW t \in Threads, R!StartScan(t) PROVE Apart'
  <2>1. Numbers'
    <3>0. PICK pc \in {"generate", R!Keyed(t)}, s \in Scopes, v \in Secrets :
             scan' = [scan EXCEPT ![t] = [pc |-> pc, scope |-> s, secret |-> v, key |-> key,
                                          n |-> R!FirstNumber(t)]]
      BY <1>1 DEF R!StartScan, R!Goes
    <3> DEFINE to == [pc |-> pc, scope |-> s, secret |-> v, key |-> key, n |-> R!FirstNumber(t)]
    <3>1. /\ to \in Scans /\ (to.pc = "insert" => to.n \in 1..MaxAlias)
          /\ (to.pc = "generate" => to.n = IF t \in Commands THEN 1 ELSE 0)
      BY <1>0, <3>0 DEF Numbers, Scans, R!FirstNumber, R!Keyed
    <3> HIDE DEF to
    <3>2. \A u \in Threads : scan'[u] = IF u = t THEN to ELSE scan[u]
      BY <1>0, <3>0 DEF Numbers, to
    <3>3. scan' \in [Threads -> Scans]
      BY <1>0, <3>0, <3>1 DEF Numbers, to
    <3> QED
      BY <1>0, <1>1, <3>1, <3>2, <3>3 DEF R!StartScan, Numbers
  <2>2. NumbersApart'
    BY <1>0, <1>1 DEF R!StartScan, R!Goes, R!Keyed, Numbers, NumbersApart
  <2>3. PromptsApart'
    BY <1>0, <1>1 DEF R!StartScan, R!Goes, R!Keyed, Numbers, PromptsApart, R!AliasNames
  <2> QED
    BY <2>1, <2>2, <2>3 DEF Apart
<1>2. ASSUME NEW t \in Threads, R!Generate(t) PROVE Apart'
  <2>1. Numbers'
    <3> DEFINE k == keys + 1
    <3>0. k \in Nat /\ scan'[t] = [scan[t] EXCEPT !.pc = R!Keyed(t), !.key = k]
      BY <1>0, <1>2 DEF R!Generate, R!Goes, Numbers
    <3> HIDE DEF k
    <3>1. scan'[t] \in Scans /\ scan'[t].pc \in {"insert", "encrypt"} /\ scan'[t].n = scan[t].n
      <4>1. scan[t] \in Scans /\ R!Keyed(t) \in {"insert", "encrypt"}
        BY <1>0 DEF Numbers, R!Keyed
      <4> QED
        BY <3>0, <4>1 DEF Scans
    <3>3. scan'[t].pc = "insert" => scan'[t].n = 1
      BY <1>0, <1>2, <3>0, <3>1 DEF R!Generate, R!Keyed, Numbers, Scans
    <3>2. scan' \in [Threads -> Scans]
      BY <1>0, <1>2, <3>1 DEF R!Generate, R!Goes, Numbers
    <3> QED
      BY <1>0, <1>2, <3>1, <3>2, <3>3 DEF R!Generate, R!Goes, Numbers
  <2>2. NumbersApart'
    BY <1>0, <1>2 DEF R!Generate, R!Goes, R!Keyed, Numbers, NumbersApart
  <2>3. PromptsApart'
    BY <1>0, <1>2 DEF R!Generate, R!Goes, R!Keyed, Numbers, PromptsApart, R!AliasNames
  <2> QED
    BY <2>1, <2>2, <2>3 DEF Apart
<1>3. ASSUME NEW t \in Threads, R!Encrypt(t) PROVE Apart'
  <2>1. Numbers'
    <3> DEFINE k == counter
    <3>0. /\ scan[t] \in Scans /\ k \in 1..MaxAlias
          /\ scan'[t] = [scan[t] EXCEPT !.pc = "insert", !.n = k]
          /\ counter' \in Nat \ {0}
      BY <1>0, <1>3 DEF R!Encrypt, R!NextNumber, R!Goes, Numbers
    <3> HIDE DEF k
    <3>1. /\ scan'[t] \in Scans /\ scan'[t].n \in 1..MaxAlias
          /\ scan'[t].pc = "insert"
      <4>1. k \in Nat
        BY <1>0, <3>0
      <4>2. scan'[t] = [scan[t] EXCEPT !.pc = "insert", !.n = k]
        BY <3>0
      <4> QED
        BY <3>0, <4>1, <4>2 DEF Scans
    <3>2. scan' \in [Threads -> Scans]
      BY <1>0, <1>3, <3>1 DEF R!Encrypt, R!Goes, Numbers
    <3> QED
      BY <1>0, <1>3, <3>0, <3>1, <3>2 DEF R!Encrypt, R!Goes, Numbers
  <2>2. NumbersApart'
    BY <1>0, <1>3 DEF R!Encrypt, R!NextNumber, R!Goes, Numbers, NumbersApart
  <2>3. PromptsApart'
    BY <1>0, <1>3 DEF R!Encrypt, R!NextNumber, R!Goes, Numbers, PromptsApart, R!AliasNames
  <2> QED
    BY <2>1, <2>2, <2>3 DEF Apart
<1>4. ASSUME NEW t \in Threads, R!Insert(t) PROVE Apart'
  <2>1. Numbers'
    <3>1. scan[t] \in Scans /\ scan'[t] \in Scans /\ scan'[t].pc \in {"idle", "ended"}
      BY <1>0, <1>4 DEF R!Insert, R!Goes, R!NoScan, Numbers, Scans
    <3>2. scan' \in [Threads -> Scans]
      BY <1>0, <1>4, <3>1 DEF R!Insert, R!Goes, Numbers
    <3>3. <<scan[t].scope, scan[t].n>> \in R!AliasNames
      BY <1>0, <1>4, <3>1 DEF R!Insert, Numbers, Scans, R!AliasNames
    <3>4. alias' \in [R!AliasNames -> [secret : Secrets \cup {R!Unresolvable}, key : Nat]]
      BY <1>0, <1>4, <3>1, <3>3 DEF R!Insert, Numbers, Scans
    <3>5. prompt' \subseteq [name : R!AliasNames, secret : Secrets \cup {R!Unresolvable}, life : 1..life]
      <4>1. [name |-> <<scan[t].scope, scan[t].n>>, secret |-> scan[t].secret, life |-> life]
              \in [name : R!AliasNames, secret : Secrets \cup {R!Unresolvable}, life : 1..life]
        BY <1>0, <3>1, <3>3 DEF Numbers, Scans
      <4> QED
        BY <1>0, <1>4, <4>1 DEF R!Insert, Numbers
    <3> QED
      BY <1>0, <1>4, <3>1, <3>2, <3>4, <3>5 DEF R!Insert, R!Goes, Numbers
  <2>2. NumbersApart'
    BY <1>0, <1>4 DEF R!Insert, R!Goes, R!NoScan, Numbers, NumbersApart
  <2>3. PromptsApart'
    <3> DEFINE a == <<scan[t].scope, scan[t].n>>
    <3>1. /\ a \in R!AliasNames /\ (t \notin Commands => scan[t].n < counter)
          /\ \A u \in Threads \ {t} : scan'[u] = scan[u]
          /\ scan'[t].pc \in {"idle", "ended"} /\ counter' = counter /\ life' = life
      BY <1>0, <1>4 DEF R!Insert, R!Goes, R!NoScan, Numbers, NumbersApart, Scans, R!AliasNames
    <3>2. /\ alias' = [alias EXCEPT ![a] = [secret |-> scan[t].secret, key |-> scan[t].key]]
          /\ beside' = IF t \in Commands THEN beside \cup {a} ELSE beside \ {a}
      BY <1>4 DEF R!Insert
    <3> SUFFICES ASSUME NEW p \in prompt', p.life = life
                 PROVE  /\ p.name[2] < counter
                        /\ \A u \in Threads : Drawn(u)' => scan'[u].n # p.name[2]
                        /\ alias'[p.name].secret \in {p.secret, R!Unresolvable} \/ p.name \in beside'
      BY <3>1 DEF PromptsApart
    <3>3. CASE t \notin Commands /\ p = [name |-> a, secret |-> scan[t].secret, life |-> life]
      <4>1. p.name = a /\ p.name[2] = scan[t].n /\ p.secret = scan[t].secret
        BY <3>3
      <4>2. alias'[a].secret = p.secret
        BY <1>0, <3>1, <3>2, <4>1 DEF Numbers
      <4>3. \A u \in Threads : Drawn(u)' => scan'[u].n # scan[t].n
        BY <1>0, <1>4, <3>1, <3>3 DEF R!Insert, NumbersApart
      <4> QED
        BY <3>1, <3>3, <4>1, <4>2, <4>3
    <3>4. CASE p \in prompt
      <4>1. p.name \in R!AliasNames /\ (t \notin Commands => p.name # a)
        BY <1>0, <1>4, <3>4 DEF R!Insert, Numbers, PromptsApart
      <4>2. CASE p.name = a
        BY <1>0, <3>1, <3>2, <3>4, <4>1, <4>2 DEF Numbers, PromptsApart
      <4>3. CASE p.name # a
        BY <1>0, <3>1, <3>2, <3>4, <4>1, <4>3 DEF Numbers, PromptsApart
      <4> QED
        BY <4>2, <4>3
    <3> QED
      BY <1>4, <3>3, <3>4 DEF R!Insert
  <2> QED
    BY <2>1, <2>2, <2>3 DEF Apart
<1>5. ASSUME NEW p \in prompt, R!Send(p) PROVE Apart'
  <2>1. Numbers'
    BY <1>0, <1>5 DEF R!Send, Numbers
  <2>2. NumbersApart'
    BY <1>0, <1>5 DEF R!Send, Numbers, NumbersApart
  <2>3. PromptsApart'
    BY <1>0, <1>5 DEF R!Send, Numbers, PromptsApart, R!AliasNames
  <2> QED
    BY <2>1, <2>2, <2>3 DEF Apart
<1>6. ASSUME NEW a \in R!AliasNames, R!Promote(a) \/ R!Expire(a) PROVE Apart'
  <2>1. Numbers'
    <3>1. alias' = [alias EXCEPT ![a] = R!NoAlias] /\ UNCHANGED <<key, keys, counter, scan, prompt, beside, life>>
      BY <1>6 DEF R!Promote, R!Expire
    <3>2. R!NoAlias \in [secret : Secrets \cup {R!Unresolvable}, key : Nat]
      BY DEF R!NoAlias
    <3>3. alias' \in [R!AliasNames -> [secret : Secrets \cup {R!Unresolvable}, key : Nat]]
      BY <1>0, <3>1, <3>2 DEF Numbers
    <3> QED
      BY <1>0, <3>1, <3>3 DEF Numbers, Drawn
  <2>2. NumbersApart'
    BY <1>0, <1>6 DEF R!Promote, R!Expire, R!NoAlias, Numbers, NumbersApart
  <2>3. PromptsApart'
    <3>1. alias' = [alias EXCEPT ![a] = R!NoAlias] /\ UNCHANGED <<counter, scan, prompt, beside, life>>
      BY <1>6 DEF R!Promote, R!Expire
    <3>2. R!NoAlias.secret = R!Unresolvable
      BY DEF R!NoAlias
    <3>3. \A b \in R!AliasNames : alias'[b].secret \in {alias[b].secret, R!Unresolvable}
      BY <1>0, <3>1, <3>2 DEF Numbers
    <3>4. \A p \in prompt : p.name \in R!AliasNames
      BY <1>0 DEF Numbers
    <3> QED
      BY <1>0, <3>1, <3>3, <3>4 DEF PromptsApart
  <2> QED
    BY <2>1, <2>2, <2>3 DEF Apart
<1>7. CASE R!Restart
  <2>1. \A t \in Threads : /\ scan'[t] \in {scan[t], R!NoScan}
                           /\ t \notin Commands => scan'[t].pc = "idle"
    BY <1>0, <1>7 DEF R!Restart, R!NoScan, Numbers
  <2>2. R!NoScan \in Scans /\ R!NoScan.pc = "idle"
    BY <1>0 DEF R!NoScan, Scans
  <2>3. Numbers'
    BY <1>0, <1>7, <2>1, <2>2 DEF R!Restart, Numbers
  <2>4. NumbersApart' /\ PromptsApart'
    BY <1>0, <1>7, <2>1 DEF R!Restart, Numbers, NumbersApart, PromptsApart
  <2> QED
    BY <2>3, <2>4 DEF Apart
<1>8. CASE UNCHANGED RedactVars
  BY <1>0, <1>8 DEF Apart, Numbers, RedactVars, NumbersApart, PromptsApart, R!AliasNames
<1> QED
  BY <1>1, <1>2, <1>3, <1>4, <1>5, <1>6, <1>7, <1>8 DEF R!Next

\* For any number of requests, commands, secrets and scopes, a prompt that the daemon has
\* redacted since it started is sent with its own secret or not at all (redact.rs, resolve),
\* but where a command beside it was the last to write the row: the counter gives no number
\* twice in one process, and nothing else writes a row.
THEOREM PromptsGetTheirOwn == Spec => []OwnSecret
<1>1. Init => Apart
  BY InitApart DEF Init
<1>2. Apart /\ [Next]_<<which, StoresVars, ProjectVars, TextVars>> => Apart'
  <2>1. [Next]_<<which, StoresVars, ProjectVars, TextVars>> => [R!Next]_RedactVars
    BY DEF Next, StoresNext, StoresVars, RedactVars
  <2> QED
    BY <2>1, StepApart
<1>3. Apart => OwnSecret
  BY DEF Apart, PromptsApart, OwnSecret, R!OwnSecret, R!Read
<1> QED
  BY <1>1, <1>2, <1>3, PTL DEF Spec

-----------------------------------------------------------------------------
(* Memories and the knowledge graph. *)

\* Of a search: a point whose text is the one its id stands for, and a row likewise.
OwnHits == {[id |-> i, text |-> i] : i \in M!Ids}
OwnFound == {[point |-> i, row |-> i] : i \in M!Ids}
Searches == [pc : {"idle", "get"}, hits : SUBSET OwnHits, found : SUBSET OwnFound]

WritersOf == [pc : {"idle", "embed", "document", "copy"}, id : Nat, text : Nat]

\* An id stands for one text for good: row and point of an id hold that text or none,
\* and so does what a request has yet to write.
Meant ==
    /\ texts \in Nat /\ nextId = texts + 1
    /\ memories \in [M!Ids -> Nat] /\ points \in [M!Ids -> Nat]
    /\ \A i \in M!Ids : memories[i] \in {0, i} /\ points[i] \in {0, i}
    /\ writer \in [Writers -> WritersOf]
    /\ \A w \in Writers : writer[w].id = writer[w].text
    /\ reader \in [Readers -> Searches]

LEMMA InitMeant == M!Init => Meant
  BY StoresAssumption
  DEF M!Init, Meant, M!Ids, M!Idle, M!NoSearch, WritersOf, Searches, OwnHits, OwnFound

\* A step that only says what one request to write does next.
LEMMA WriterMeant ==
    ASSUME Meant, NEW w \in Writers, NEW to \in WritersOf, to.id = to.text,
           writer' = [writer EXCEPT ![w] = to]
    PROVE  /\ writer' \in [Writers -> WritersOf]
           /\ \A v \in Writers : writer'[v].id = writer'[v].text
  BY DEF Meant

\* memory::store gives the next id, which stands for the next text.
LEMMA InsertMeant ==
    ASSUME Meant, M!Insert
    PROVE  /\ texts' \in Nat /\ nextId' = texts' + 1
           /\ memories' \in [M!Ids -> Nat]
           /\ \A i \in M!Ids : memories'[i] \in {0, i}
<1>1. texts + 1 \in Nat /\ memories' = [memories EXCEPT ![texts + 1] = texts + 1]
  BY DEF Meant, M!Insert, M!NewId
<1>2. memories' \in [M!Ids -> Nat] /\ \A i \in M!Ids : memories'[i] \in {0, i}
  BY <1>1 DEF Meant
<1> QED
  BY <1>1, <1>2 DEF Meant, M!Insert, M!NewId

LEMMA StepMeant ==
    ASSUME Meant, [M!Next]_MemoryVars
    PROVE  Meant'
<1> USE DEF M!Memory, M!Notes
<1>1. ASSUME NEW w \in Writers, M!Store(w) \/ M!Ingest(w) PROVE Meant'
  <2>1. PICK pc \in {"embed", "document"} :
           writer' = [writer EXCEPT ![w] = [pc |-> pc, id |-> M!NewId, text |-> texts + 1]]
    BY <1>1 DEF M!Store, M!Ingest, M!Sets
  <2> DEFINE to == [pc |-> pc, id |-> M!NewId, text |-> texts + 1]
  <2>2. to \in WritersOf /\ to.id = to.text
    BY DEF Meant, WritersOf, M!NewId
  <2>3. M!Insert /\ UNCHANGED <<points, reader>>
    BY <1>1 DEF M!Store, M!Ingest
  <2> HIDE DEF to
  <2>4. writer' = [writer EXCEPT ![w] = to]
    BY <2>1 DEF to
  <2> QED
    BY <2>2, <2>3, <2>4, WriterMeant, InsertMeant DEF Meant
<1>2. ASSUME NEW w \in Writers, M!Upsert(w) PROVE Meant'
  <2>1. M!Idle \in WritersOf /\ M!Idle.id = M!Idle.text
    BY DEF M!Idle, WritersOf
  <2>2. writer' = [writer EXCEPT ![w] = M!Idle]
    BY <1>2 DEF M!Upsert, M!Sets
  <2>3. writer[w].id \in Nat /\ writer[w].text \in Nat /\ writer[w].id = writer[w].text
    BY DEF Meant, WritersOf
  <2> QED
    BY <1>2, <2>1, <2>2, <2>3, WriterMeant DEF Meant, M!Upsert
<1>3. ASSUME NEW w \in Writers, M!NotIndexed(w) \/ M!Copied(w) \/ M!IngestFails(w) PROVE Meant'
  <2>1. M!Idle \in WritersOf /\ M!Idle.id = M!Idle.text
    BY DEF M!Idle, WritersOf
  <2>2. /\ writer' = [writer EXCEPT ![w] = M!Idle]
        /\ UNCHANGED <<memories, nextId, texts, points, reader>>
    BY <1>3 DEF M!NotIndexed, M!Copied, M!IngestFails, M!Sets
  <2> QED
    BY <2>1, <2>2, WriterMeant DEF Meant
<1>4. ASSUME NEW w \in Writers, M!DocumentRow(w) PROVE Meant'
  <2>1. writer[w] \in WritersOf /\ writer[w].id = writer[w].text
    BY DEF Meant
  <2>2. /\ [writer[w] EXCEPT !.pc = "copy"] \in WritersOf
        /\ [writer[w] EXCEPT !.pc = "copy"].id = [writer[w] EXCEPT !.pc = "copy"].text
    BY <2>1 DEF WritersOf
  <2>3. /\ writer' = [writer EXCEPT ![w] = [writer[w] EXCEPT !.pc = "copy"]]
        /\ UNCHANGED <<memories, nextId, texts, points, reader>>
    BY <1>4 DEF M!DocumentRow, M!Sets
  <2> QED
    BY <2>2, <2>3, WriterMeant DEF Meant
<1>5. ASSUME NEW i \in M!Ids, M!Forget(i) PROVE Meant'
  BY <1>5 DEF Meant, M!Forget
<1>6. ASSUME NEW q \in Readers, M!Search(q) PROVE Meant'
  <2>1. PICK hits \in SUBSET M!Hits :
           reader' = [reader EXCEPT ![q] = [pc |-> "get", found |-> {},
                          hits |-> {[id |-> i, text |-> points[i]] : i \in hits}]]
    BY <1>6 DEF M!Search
  <2>2. {[id |-> i, text |-> points[i]] : i \in hits} \subseteq OwnHits
    BY DEF M!Hits, Meant, OwnHits
  <2>3. [pc |-> "get", found |-> {}, hits |-> {[id |-> i, text |-> points[i]] : i \in hits}]
           \in Searches
    BY <2>2 DEF Searches
  <2> QED
    BY <1>6, <2>1, <2>3 DEF Meant, M!Search
<1>7. ASSUME NEW q \in Readers, M!Get(q) PROVE Meant'
  <2>1. PICK h \in reader[q].hits :
           reader' = [reader EXCEPT ![q] = [pc |-> "get", hits |-> reader[q].hits \ {h},
               found |-> IF memories[h.id] = 0 THEN reader[q].found
                         ELSE reader[q].found \cup {[point |-> h.text, row |-> memories[h.id]]}]]
    BY <1>7 DEF M!Get
  <2>2. reader[q] \in Searches /\ h \in OwnHits
    BY <2>1 DEF Meant, Searches
  <2>3. PICK i \in M!Ids : h = [id |-> i, text |-> i]
    BY <2>2 DEF OwnHits
  <2>4. memories[h.id] # 0 => [point |-> h.text, row |-> memories[h.id]] \in OwnFound
    BY <2>3 DEF Meant, OwnFound
  <2>5. [pc |-> "get", hits |-> reader[q].hits \ {h},
         found |-> IF memories[h.id] = 0 THEN reader[q].found
                   ELSE reader[q].found \cup {[point |-> h.text, row |-> memories[h.id]]}]
           \in Searches
    BY <2>2, <2>4 DEF Searches
  <2> QED
    BY <1>7, <2>1, <2>5 DEF Meant, M!Get
<1>8. ASSUME NEW q \in Readers, M!Answer(q) PROVE Meant'
  <2>1. M!NoSearch \in Searches
    BY DEF M!NoSearch, Searches
  <2> QED
    BY <1>8, <2>1 DEF Meant, M!Answer
<1>9. CASE UNCHANGED <<memories, nextId, texts, points, writer, reader>>
  BY <1>9 DEF Meant
<1> QED
  BY <1>1, <1>2, <1>3, <1>4, <1>5, <1>6, <1>7, <1>8, <1>9
  DEF M!Next, M!Leave, M!NotesRead, M!Preamble, M!MarkRead, MemoryVars

\* Every writer of the graph looks first and inserts later, and the insert itself looks
\* again.
LEMMA StepClosed ==
    ASSUME K!GraphClosed, [K!Next]_GraphVars
    PROVE  K!GraphClosed'
<1> USE DEF K!GraphClosed
<1>1. ASSUME NEW n \in EntityNames, K!CreateEntity(n) PROVE K!GraphClosed'
  BY <1>1 DEF K!CreateEntity
<1>2. ASSUME NEW n \in EntityNames, K!DeleteEntity(n) PROVE K!GraphClosed'
  BY <1>2 DEF K!DeleteEntity, K!Cascade
<1>3. ASSUME NEW c \in Clients, K!AddObservation(c) PROVE K!GraphClosed'
  BY <1>3 DEF K!AddObservation, K!Accepted
<1>4. ASSUME NEW c \in Clients, K!CreateRelation(c) PROVE K!GraphClosed'
  BY <1>4 DEF K!CreateRelation, K!Accepted
<1>5. CASE UNCHANGED <<entities, observations, relations>>
  BY <1>5
<1> QED
  BY <1>1, <1>2, <1>3, <1>4, <1>5
  DEF K!Next, K!Observe, K!Relate, K!Other, K!ReadNames, K!ReadEntity, K!Dumped, GraphVars

-----------------------------------------------------------------------------
(* The choice of an agent. *)

\* Of a set of numbers that has at least k there is the one up to which it has k.
LEMMA KthThere ==
    ASSUME NEW N \in Nat, NEW S \in SUBSET (1..N), NEW k \in 1..Cardinality(S)
    PROVE  \E i \in S : Cardinality(S \cap 1..i) = k
<1>. DEFINE upto(i) == S \cap 1..i
            count(i) == Cardinality(upto(i))
            enough == {i \in 0..N : count(i) >= k}
<1>1. IsFiniteSet(S)
  <2>1. IsFiniteSet(1..N)
    BY FS_Interval
  <2>. QED  BY <2>1, FS_Subset
<1>2. \A i \in Nat : IsFiniteSet(upto(i)) /\ count(i) \in Nat
  <2>. SUFFICES ASSUME NEW i \in Nat PROVE IsFiniteSet(upto(i)) /\ count(i) \in Nat
    OBVIOUS
  <2>1. upto(i) \in SUBSET S
    OBVIOUS
  <2>. HIDE DEF upto
  <2>2. IsFiniteSet(upto(i))
    BY <1>1, <2>1, FS_Subset
  <2>. QED  BY <2>2, FS_CardinalityType
<1>3. Cardinality(S) \in Nat /\ k \in Nat /\ k > 0
  BY <1>1, FS_CardinalityType
<1>4. N \in enough
  <2>1. upto(N) = S
    OBVIOUS
  <2>. QED  BY <1>3, <2>1
<1>. HIDE DEF count
<1>5. PICK i \in enough : \A j \in enough : ~(j < i)
  <2>1. \A x, y \in enough : <<y, x>> \notin OpToRel(<, Nat) => ~(y < x)
    BY DEF OpToRel
  <2>2. enough \subseteq Nat /\ enough # {}
    BY <1>4
  <2>. HIDE DEF enough
  <2>3. \E x \in enough : \A y \in enough : <<y, x>> \notin OpToRel(<, Nat)
    BY <2>2, WFMin, NatLessThanWellFounded
  <2>. QED  BY <2>1, <2>3
<1>6. i \in 0..N /\ count(i) >= k
  OBVIOUS
<1>7. i # 0
  <2>1. upto(0) = {}
    OBVIOUS
  <2>2. count(0) = 0
    BY <2>1, FS_EmptySet DEF count
  <2>. QED  BY <1>3, <1>6, <2>2
<1>. DEFINE h == i - 1
<1>8. h \in Nat /\ h < i /\ h \in 0..N
  BY <1>6, <1>7
<1>9. count(h) < k
  <2>1. ~(count(h) >= k)
    BY <1>5, <1>8
  <2>2. count(h) \in Nat
    BY <1>2, <1>8
  <2>. HIDE DEF h
  <2>. QED  BY <1>3, <2>1, <2>2
<1>10. i \in S
  <2>. SUFFICES ASSUME i \notin S PROVE FALSE
    OBVIOUS
  <2>1. upto(i) = upto(h)
    BY <1>6, <1>8
  <2>2. count(i) = count(h) /\ count(h) \in Nat
    BY <1>2, <1>8, <2>1 DEF count
  <2>. HIDE DEF h
  <2>. QED  BY <1>3, <1>6, <1>9, <2>2
<1>11. upto(i) = upto(h) \cup {i} /\ i \notin upto(h)
  BY <1>6, <1>8, <1>10
<1>12. count(i) = count(h) + 1
  <2>. HIDE DEF upto, h
  <2>. QED  BY <1>2, <1>8, <1>11, FS_AddElement DEF count
<1>13. count(i) = k
  <2>1. count(h) \in Nat
    BY <1>2, <1>8
  <2>. HIDE DEF h
  <2>. QED  BY <1>3, <1>6, <1>9, <1>12, <2>1
<1>. QED  BY <1>10, <1>13 DEF count


LEMMA RoutesCount == ASSUME NEW S PROVE T!Cardinality(S) = Cardinality(S)
  BY DEF T!Cardinality, Cardinality

LEMMA LeastOf ==
    ASSUME NEW S \in SUBSET Nat, S # {}
    PROVE  T!Min(S) \in S /\ \A x \in S : T!Min(S) <= x
<1>1. \E x \in S : \A y \in S : <<y, x>> \notin OpToRel(<, Nat)
  BY WFMin, NatLessThanWellFounded
<1>2. \A x, y \in S : <<y, x>> \notin OpToRel(<, Nat) => x <= y
  BY DEF OpToRel
<1>3. \E x \in S : \A y \in S : x <= y
  BY <1>1, <1>2
<1>. QED  BY <1>3 DEF T!Min

\* The k-th of a set of numbers comes before the l-th, and each of them is some k-th.
LEMMA NthOf ==
    ASSUME NEW N \in Nat, NEW S \in SUBSET (1..N)
    PROVE  /\ Cardinality(S) \in Nat
           /\ \A k \in 1..Cardinality(S) : T!Nth(S, k) \in S
           /\ \A k, l \in 1..Cardinality(S) : k <= l => T!Nth(S, k) <= T!Nth(S, l)
           /\ \A i \in S : \E k \in 1..Cardinality(S) : T!Nth(S, k) = i
<1>. DEFINE count(i) == Cardinality(S \cap 1..i)
<1>1. IsFiniteSet(S) /\ Cardinality(S) \in Nat
  <2>1. IsFiniteSet(1..N)
    BY FS_Interval
  <2>2. IsFiniteSet(S)
    BY <2>1, FS_Subset
  <2>. QED  BY <2>2, FS_CardinalityType
<1>s. S \subseteq Nat
  OBVIOUS
<1>2. ASSUME NEW i \in S, NEW j \in S, i < j
      PROVE  count(i) < count(j)
  <2>1. S \cap 1..i \in SUBSET (S \cap 1..j) /\ j \in S \cap 1..j /\ j \notin S \cap 1..i
    BY <1>2
  <2>2. IsFiniteSet(S \cap 1..j) /\ IsFiniteSet(S \cap 1..i)
    BY <1>1, FS_Subset
  <2>3. count(i) <= count(j) /\ count(i) # count(j)
    BY <2>1, <2>2, FS_Subset
  <2>4. count(i) \in Nat /\ count(j) \in Nat
    BY <2>2, FS_CardinalityType
  <2>. HIDE DEF count
  <2>. QED  BY <2>3, <2>4
<1>3. ASSUME NEW k \in 1..Cardinality(S)
      PROVE  T!Nth(S, k) \in S /\ count(T!Nth(S, k)) = k
  <2>1. \E i \in S : count(i) = k
    BY KthThere
  <2>2. T!Nth(S, k) = CHOOSE i \in S : count(i) = k
    BY RoutesCount DEF T!Nth
  <2>. HIDE DEF count
  <2>. QED  BY <2>1, <2>2
<1>4. ASSUME NEW i \in S
      PROVE  \E k \in 1..Cardinality(S) : T!Nth(S, k) = i
  <2>1. IsFiniteSet(S \cap 1..i) /\ i \in S \cap 1..i
    BY <1>1, FS_Subset
  <2>2. count(i) \in Nat /\ count(i) # 0 /\ count(i) <= Cardinality(S)
    BY <1>1, <2>1, FS_CardinalityType, FS_EmptySet, FS_Subset
  <2>. DEFINE k == count(i)
  <2>3. k \in 1..Cardinality(S)
    BY <1>1, <2>2
  <2>4. T!Nth(S, k) \in S /\ count(T!Nth(S, k)) = count(i)
    BY <1>3, <2>3
  <2>5. \A j \in S : count(j) = count(i) => j = i
    <3>. SUFFICES ASSUME NEW j \in S, count(j) = count(i) PROVE j = i
      OBVIOUS
    <3>1. i < j => count(i) < count(j)
      BY <1>2
    <3>2. j < i => count(j) < count(i)
      BY <1>2
    <3>3. count(i) \in Nat /\ i \in Nat /\ j \in Nat
      BY <1>s, <2>2
    <3>. HIDE DEF count
    <3>. QED  BY <3>1, <3>2, <3>3
  <2>. QED  BY <2>3, <2>4, <2>5
<1>5. ASSUME NEW k \in 1..Cardinality(S), NEW l \in 1..Cardinality(S), k <= l
      PROVE  T!Nth(S, k) <= T!Nth(S, l)
  <2>1. /\ T!Nth(S, k) \in S /\ T!Nth(S, l) \in S
        /\ count(T!Nth(S, k)) = k /\ count(T!Nth(S, l)) = l
    BY <1>3
  <2>2. PICK i \in S, j \in S : i = T!Nth(S, k) /\ j = T!Nth(S, l) /\ count(i) = k /\ count(j) = l
    BY <2>1
  <2>3. j < i => count(j) < count(i)
    BY <1>2
  <2>4. i \in Nat /\ j \in Nat /\ k \in Int /\ l \in Int
    BY <1>s
  <2>. HIDE DEF count
  <2>. QED  BY <1>5, <2>2, <2>3, <2>4
<1>. QED  BY <1>1, <1>3, <1>4, <1>5

\* Each agent of a list is there once, where it came first.
LEMMA OnceOf ==
    ASSUME NEW s \in Seq(STRING)
    PROVE  LET place(k) == T!Nth(T!Firsts(s), k)
               once == T!Once(s)
           IN  /\ DOMAIN once \subseteq Nat
               /\ \A k \in DOMAIN once : /\ place(k) \in DOMAIN s /\ once[k] = s[place(k)]
                                         /\ T!Min({i \in DOMAIN s : s[i] = once[k]}) = place(k)
               /\ \A k, l \in DOMAIN once : k <= l => place(k) <= place(l)
               /\ \A a \in T!Range(s) : \E k \in DOMAIN once : once[k] = a
<1>. DEFINE F == T!Firsts(s)
            place(k) == T!Nth(F, k)
            once == T!Once(s)
            stands(a) == {i \in DOMAIN s : s[i] = a}
<1>1. Len(s) \in Nat /\ DOMAIN s = 1..Len(s) /\ F \in SUBSET (1..Len(s))
  BY DEF T!Firsts
<1>2. once = [k \in 1..Cardinality(F) |-> s[place(k)]]
  BY RoutesCount DEF T!Once
<1>3. \A i \in F : T!Min(stands(s[i])) = i
  <2>. SUFFICES ASSUME NEW i \in F PROVE T!Min(stands(s[i])) = i
    OBVIOUS
  <2>1. i \in 1..Len(s) /\ \A j \in 1..(i - 1) : s[j] # s[i]
    BY <1>1 DEF T!Firsts
  <2>2. stands(s[i]) \in SUBSET Nat /\ i \in stands(s[i])
    BY <1>1, <2>1
  <2>3. T!Min(stands(s[i])) \in stands(s[i]) /\ T!Min(stands(s[i])) <= i
    BY <2>2, LeastOf
  <2>. QED  BY <1>1, <2>1, <2>3
<1>4. \A a \in T!Range(s) : \E i \in F : s[i] = a
  <2>. SUFFICES ASSUME NEW a \in T!Range(s) PROVE \E i \in F : s[i] = a
    OBVIOUS
  <2>1. stands(a) \in SUBSET Nat /\ stands(a) # {}
    BY <1>1 DEF T!Range
  <2>2. PICK i \in stands(a) : \A j \in stands(a) : i <= j
    BY <2>1, LeastOf
  <2>. QED  BY <1>1, <2>2 DEF T!Firsts
<1>5. /\ \A k \in 1..Cardinality(F) : place(k) \in F
      /\ \A k, l \in 1..Cardinality(F) : k <= l => place(k) <= place(l)
      /\ \A i \in F : \E k \in 1..Cardinality(F) : place(k) = i
      /\ Cardinality(F) \in Nat
  <2>. HIDE DEF F
  <2>. QED  BY <1>1, NthOf
<1>6. DOMAIN once = 1..Cardinality(F) /\ \A k \in 1..Cardinality(F) : once[k] = s[place(k)]
  BY <1>2
<1>0. DOMAIN once \subseteq Nat
  <2>. HIDE DEF F, once, place
  <2>. QED  BY <1>5, <1>6
<1>. HIDE DEF F, place, once
<1>7. \A k \in DOMAIN once : /\ place(k) \in DOMAIN s /\ once[k] = s[place(k)]
                             /\ T!Min(stands(once[k])) = place(k)
  BY <1>1, <1>3, <1>5, <1>6
<1>8. \A a \in T!Range(s) : \E k \in DOMAIN once : once[k] = a
  BY <1>4, <1>5, <1>6
<1>9. \A k, l \in DOMAIN once : k <= l => place(k) <= place(l)
  BY <1>5, <1>6
<1>. QED  BY <1>0, <1>7, <1>8, <1>9 DEF F, place, once

\* A table that is read has lists that are lists; the health is about agents of the registry.
RouteTables == Tables \cup {DefaultTable}

Routed ==
    /\ table \in RouteTables \cup {Absent, Malformed, Unreadable}
    /\ time \in Nat /\ onPath \subseteq Programs /\ limited \in [Programs -> Nat \cup {Never}]
    /\ loader = [r \in Loaders |-> [at |-> loader[r].at, table |-> loader[r].table]]
    /\ \A r \in Loaders : loader[r].table \in RouteTables

LEMMA RoutedChooses == Routed => T!ChosenIsFirstUsable
<1>. SUFFICES ASSUME Routed, NEW r \in Loaders, NEW effort \in Efforts, onPath # {}
              PROVE  LET t == loader[r].table
                         chosen == T!SelectAgentWithPreferPool(t, effort, T!Health, FALSE)
                         can == {a \in T!Range(T!Ranked(t, effort)) :
                                   \/ a = Pool
                                   \/ /\ a \in onPath
                                      /\ limited[a] = Never \/ time - limited[a] > RateWindow}
                     IN  IF can = {} THEN chosen = Never
                         ELSE /\ chosen \in can
                              /\ \A a \in can : T!Rank(t, effort, chosen) <= T!Rank(t, effort, a)
  BY DEF T!ChosenIsFirstUsable
<1>. DEFINE t == loader[r].table
            s == T!Ranked(t, effort)
            once == T!Once(s)
            fit(a) == T!Usable(T!Health, a)
            chosen == T!SelectAgent(t, effort, T!Health)
            usable == {i \in DOMAIN once : fit(once[i])}
            can == {a \in T!Range(s) : fit(a)}
            place(k) == T!Nth(T!Firsts(s), k)
<1>1. \A a : fit(a) <=> \/ a = Pool
                        \/ /\ a \in onPath
                           /\ limited[a] = Never \/ time - limited[a] > RateWindow
  <2>. SUFFICES ASSUME NEW a \in onPath
                PROVE  a \notin T!Health.limited <=> limited[a] = Never \/ time - limited[a] > RateWindow
    BY DEF T!Usable, T!Health
  <2>1. a \in Programs /\ limited[a] \in Nat \cup {Never} /\ time \in Nat /\ RateWindow \in Nat
    BY StoresAssumption DEF Routed
  <2>2. a \notin T!Health.limited <=> (limited[a] = Never \/ ~(limited[a] >= time - RateWindow))
    BY <2>1 DEF T!Health
  <2>. QED  BY <2>1, <2>2
<1>2. s \in Seq(STRING)
  <2>1. /\ t.lists[effort] \in Seq(STRING) /\ t.lists[Standard] \in Seq(STRING) /\ t.fallback \in Seq(STRING)
    BY StoresAssumption DEF Routed, RouteTables
  <2>. HIDE DEF t
  <2>. QED  BY <2>1, ConcatProperties DEF T!Ranked
<1>3. /\ DOMAIN once \subseteq Nat
      /\ \A k \in DOMAIN once : /\ place(k) \in DOMAIN s /\ once[k] = s[place(k)]
                                /\ T!Rank(t, effort, once[k]) = place(k)
      /\ \A k, l \in DOMAIN once : k <= l => place(k) <= place(l)
      /\ \A a \in T!Range(s) : \E k \in DOMAIN once : once[k] = a
  <2>. HIDE DEF t, s
  <2>1. \A a : T!Rank(t, effort, a) = T!Min({i \in DOMAIN s : s[i] = a})
    BY DEF T!Rank, s
  <2>. QED  BY <1>2, <2>1, OnceOf
<1>4. T!SelectAgentWithPreferPool(t, effort, T!Health, FALSE) = chosen
  BY DEF T!SelectAgentWithPreferPool
<1>5. chosen = IF usable # {} THEN once[T!Min(usable)] ELSE Never
  <2>1. T!Candidates(t, effort) = once /\ T!Health.detected # {}
    BY DEF T!Candidates, T!Ranked, T!Health
  <2>. QED  BY <2>1 DEF T!SelectAgent
<1>6. \A k \in DOMAIN once : once[k] \in T!Range(s)
  BY <1>3 DEF T!Range
<1>7. usable \in SUBSET Nat
  BY <1>3
<1>. HIDE DEF t, s, once, fit, chosen, place
<1>8. CASE can = {}
  <2>1. usable = {}
    BY <1>6, <1>8
  <2>. QED  BY <1>1, <1>4, <1>5, <1>8, <2>1 DEF t, s
<1>9. CASE can # {}
  <2>1. usable # {}
    BY <1>3, <1>9
  <2>2. PICK k \in usable : chosen = once[k] /\ \A l \in usable : k <= l
    BY <1>5, <1>7, <2>1, LeastOf
  <2>3. chosen \in can
    BY <1>6, <2>2
  <2>4. ASSUME NEW a \in can PROVE T!Rank(t, effort, chosen) <= T!Rank(t, effort, a)
    <3>1. PICK l \in DOMAIN once : once[l] = a
      BY <1>3
    <3>2. k <= l
      BY <2>2, <3>1
    <3>. QED  BY <1>3, <2>2, <3>1, <3>2
  <2>. QED  BY <1>1, <1>4, <1>9, <2>3, <2>4 DEF t, s
<1>. QED  BY <1>8, <1>9

LEMMA InitRouted == T!Init => Routed
  BY StoresAssumption DEF T!Init, T!NoTable, Routed, RouteTables

LEMMA StepRouted == ASSUME Routed, [T!Next]_RouteVars PROVE Routed'
<1>1. CASE UNCHANGED RouteVars
  BY <1>1 DEF Routed, RouteVars
<1>2. ASSUME NEW r \in Loaders, T!Read(r) PROVE Routed'
  <2>1. UNCHANGED <<table, onPath, limited, time>>
    BY <1>2 DEF T!Read
  <2>2. \E to \in {"write", "done"}, t \in RouteTables :
           loader' = [loader EXCEPT ![r] = [at |-> to, table |-> t]]
    <3>1. CASE table \in {Absent, Unreadable}
      BY <1>2, <3>1 DEF T!Read, RouteTables
    <3>2. CASE table = Malformed /\ table \notin {Absent, Unreadable}
      BY <1>2, <3>2 DEF T!Read, RouteTables
    <3>3. CASE table \in RouteTables /\ table # Malformed /\ table \notin {Absent, Unreadable}
      BY <1>2, <3>3 DEF T!Read
    <3>. QED  BY <3>1, <3>2, <3>3 DEF Routed
  <2>. QED  BY <2>1, <2>2 DEF Routed
<1>3. ASSUME NEW r \in Loaders, T!WriteDefault(r) PROVE Routed'
  BY <1>3 DEF T!WriteDefault, Routed, RouteTables
<1>4. ASSUME NEW r \in Loaders, T!NextTick(r) PROVE Routed'
  BY <1>4 DEF T!NextTick, T!NoTable, Routed, RouteTables
<1>5. ASSUME NEW t \in RouteTables \cup {Malformed, Unreadable}, T!Edit(t) PROVE Routed'
  BY <1>5 DEF T!Edit, Routed
<1>6. ASSUME NEW a \in Programs, T!Installed(a) PROVE Routed'
  BY <1>6 DEF T!Installed, Routed
<1>7. ASSUME NEW a \in Programs, T!RateLimited(a) PROVE Routed'
  BY <1>7 DEF T!RateLimited, Routed
<1>8. CASE T!Passes
  BY <1>8 DEF T!Passes, Routed
<1>. QED  BY <1>1, <1>2, <1>3, <1>4, <1>5, <1>6, <1>7, <1>8 DEF T!Next, RouteTables

-----------------------------------------------------------------------------
(* What is looked up. *)

\* For any number of texts, writers and searches, a search by meaning never answers with
\* the row of another text (memory.rs, embeddings.rs: ids are AUTOINCREMENT); for any number
\* of clients no observation or relation is about an entity that has gone
\* (knowledge_graph.rs: REFERENCES ... ON DELETE CASCADE); and for any tables, agents and
\* readers a node goes to the first agent of its lists that can run and was not rate-limited
\* within the window (routing.rs:180-183, 274-276), nobody else and nobody only when there
\* is none.
THEOREM LookupsDoAgree == Spec => []LookupsAgree
<1>1. Init => Meant /\ K!GraphClosed /\ Routed
  BY InitMeant, InitRouted DEF Init, K!Init, K!GraphClosed
<1>2. Meant /\ K!GraphClosed /\ Routed /\ [Next]_<<which, StoresVars, ProjectVars, TextVars>>
        => Meant' /\ K!GraphClosed' /\ Routed'
  <2>1. [Next]_<<which, StoresVars, ProjectVars, TextVars>>
          => [M!Next]_MemoryVars /\ [K!Next]_GraphVars /\ [T!Next]_RouteVars
    BY DEF Next, StoresNext, StoresVars, ProjectNext, ProjectVars
  <2> QED
    BY <2>1, StepMeant, StepClosed, StepRouted
<1>3. Meant /\ K!GraphClosed /\ Routed => LookupsAgree
  BY RoutedChooses DEF Meant, Searches, OwnFound, LookupsAgree, M!FoundIsMeant
<1> QED
  BY <1>1, <1>2, <1>3, PTL DEF Spec

-----------------------------------------------------------------------------
(* The configuration of an agent's CLI. *)

\* What the requests write, and so what their edits name: never the user's own entry.
Others == C!Names \ {C!Own}
Edits == [applies : BOOLEAN, on : SUBSET Others, off : SUBSET Others, cut : SUBSET Others]

LEMMA TasksNameOthers == C!Tasks \subseteq Seq(Edits) \ {<<>>}
<1>1. /\ Servers \subseteq Others
      /\ {C!Gateway, C!Delegate, "lsp", "provider", "hook"} \subseteq Others
  BY StoresAssumption DEF Others, C!Names, C!Own, C!Gateway, C!Delegate
<1>2. ASSUME NEW on \in SUBSET Others, NEW off \in SUBSET Others
      PROVE  C!Applies(on, off) \in Edits /\ C!Removes(on) \in Edits
  BY DEF C!Applies, C!Removes, Edits
<1>3. \A on \in SUBSET Servers, off \in SUBSET Servers, gateway \in BOOLEAN :
         C!InstallEdits(gateway, on, off) \in Seq(Edits) \ {<<>>}
  <2> TAKE on \in SUBSET Servers, off \in SUBSET Servers, gateway \in BOOLEAN
  <2>1. on \cup off \in SUBSET Others /\ on \cup {C!Delegate} \in SUBSET Others
        /\ off \in SUBSET Others /\ {C!Gateway} \in SUBSET Others
        /\ {C!Gateway, C!Delegate} \in SUBSET Others /\ {} \in SUBSET Others
    BY <1>1
  <2>2. /\ C!Removes(on \cup off) \in Edits
        /\ C!Applies({C!Gateway, C!Delegate}, {}) \in Edits
        /\ C!Removes({C!Gateway}) \in Edits
        /\ C!Applies(on \cup {C!Delegate}, off) \in Edits
    BY <1>2, <2>1
  <2> QED
    BY <2>2 DEF C!InstallEdits
<1>4. \A on \in BOOLEAN : C!LspEdits(on) \in Seq(Edits)
  <2>1. C!Applies({"lsp"}, {}) \in Edits
    BY <1>1, <1>2
  <2>2. [C!Removes({"lsp"}) EXCEPT !.applies = TRUE] \in Edits
    BY <1>1 DEF C!Removes, Edits
  <2> QED
    BY <2>1, <2>2 DEF C!LspEdits
<1>5. \A s \in SUBSET Servers : C!UninstallEdits(s) \in Seq(Edits) \ {<<>>}
  <2> TAKE s \in SUBSET Servers
  <2>1. C!Removes(s \cup {C!Gateway, C!Delegate}) \in Edits /\ C!Removes({"lsp"}) \in Edits
    BY <1>1, <1>2
  <2> QED
    BY <2>1 DEF C!UninstallEdits
<1>6. ASSUME NEW servers \in SUBSET Servers
      PROVE  C!InstallTasks(servers) \subseteq Seq(Edits) \ {<<>>}
  <2> SUFFICES ASSUME NEW set \in [gateway : BOOLEAN, on : SUBSET servers, lsp : BOOLEAN]
               PROVE  C!InstallEdits(set.gateway, set.on, servers \ set.on) \o C!LspEdits(set.lsp)
                        \in Seq(Edits) \ {<<>>}
    BY DEF C!InstallTasks
  <2>1. /\ set.gateway \in BOOLEAN /\ set.lsp \in BOOLEAN
        /\ set.on \in SUBSET Servers /\ servers \ set.on \in SUBSET Servers
    OBVIOUS
  <2>2. /\ C!InstallEdits(set.gateway, set.on, servers \ set.on) \in Seq(Edits) \ {<<>>}
        /\ C!LspEdits(set.lsp) \in Seq(Edits)
    BY <1>3, <1>4, <2>1
  <2> QED
    BY <2>2
<1>8. C!ServerTasks \subseteq Seq(Edits) \ {<<>>}
  BY <1>5, <1>6, Zenon DEF C!ServerTasks
<1>7. <<C!Applies({"provider"}, {})>> \in Seq(Edits) \ {<<>>}
  <2>1. C!Applies({"provider"}, {}) \in Edits
    BY <1>1, <1>2
  <2> QED
    BY <2>1
<1> QED
  BY <1>7, <1>8, Zenon DEF C!Tasks

\* A text that can be read has the user's entry.
HasOwn(text) == text.is \in {"whole", "alien"} => text.has[C!Own] = "own"

\* Of a request: its edits name nothing of the user's, and it has one to do until it rests.
Working(j) ==
    /\ j = [todo |-> j.todo, at |-> j.at, copy |-> j.copy]
    /\ j.todo \in Seq(Edits)
    /\ j.at # "idle" => j.todo # <<>>

\* What is on disk, and what is about to be written there, has the user's entry or
\* cannot be read.
OwnSafe(j) == j.at \in {"backup", "truncate", "fill"} => j.copy.is # "absent" /\ HasOwn(j.copy)
OwnInv ==
    /\ kindOf \in Kinds
    /\ job = [r \in Requests |-> job[r]]
    /\ \A r \in Requests : Working(job[r])
    /\ mine => /\ config.is # "absent" /\ HasOwn(config)
               /\ \A r \in Requests : OwnSafe(job[r])

\* The files of the theorem: JSON, where a value of another shape is refused.
Strict == \A k \in Kinds : C!Format[k].text = "json" /\ C!Format[k].alien = "refused"

LEMMA InitOwn == C!Init => OwnInv
<1> SUFFICES ASSUME C!Init PROVE OwnInv
  OBVIOUS
<1>1. Working(C!Idle) /\ OwnSafe(C!Idle)
  BY DEF Working, OwnSafe, C!Idle
<1>2. mine => config.is # "absent" /\ HasOwn(config)
  BY DEF C!Init, HasOwn, C!AsIs, C!Bare, C!Names
<1> QED
  BY <1>1, <1>2 DEF C!Init, OwnInv

\* A step by which one request goes on.
LEMMA JobStep ==
    ASSUME OwnInv, NEW r \in Requests, NEW to, Working(to), mine => OwnSafe(to),
           job' = [job EXCEPT ![r] = to], UNCHANGED <<kindOf, mine>>,
           mine => config'.is # "absent" /\ HasOwn(config')
    PROVE  OwnInv'
  BY DEF OwnInv

\* A request that is to read the file for its next edit.
LEMMA ReadsNext ==
    ASSUME NEW todo \in Seq(Edits), todo # <<>>, NEW j,
           \/ j = [C!Idle EXCEPT !.todo = todo, !.at = "read"]
           \/ j = [C!Idle EXCEPT !.at = "read", !.todo = todo]
    PROVE  Working(j) /\ OwnSafe(j)
<1>1. j = [todo |-> todo, at |-> "read", copy |-> C!NoConfig]
  BY DEF C!Idle
<1> QED
  BY <1>1 DEF Working, OwnSafe

\* A request whose file is as it was takes the next step of its edit.
LEMMA SameEdit ==
    ASSUME OwnInv, NEW r \in Requests, job[r].at # "idle",
           mine => HasOwn(job[r].copy) /\ job[r].copy.is # "absent",
           NEW next \in {"backup", "truncate", "fill"},
           job' = [job EXCEPT ![r].at = next],
           UNCHANGED <<kindOf, mine>>, mine => config'.is # "absent" /\ HasOwn(config')
    PROVE  OwnInv'
<1> DEFINE to == [job[r] EXCEPT !.at = next]
<1>1. Working(job[r])
  BY DEF OwnInv
<1>2. to = [todo |-> job[r].todo, at |-> next, copy |-> job[r].copy]
  BY <1>1 DEF Working
<1>3. job' = [job EXCEPT ![r] = to]
  OBVIOUS
<1> HIDE DEF to
<1>4. Working(to) /\ (mine => OwnSafe(to))
  BY <1>1, <1>2 DEF Working, OwnSafe
<1> QED
  BY <1>3, <1>4, JobStep

\* An edit is over: the next one, or rest.
LEMMA AdvanceOwn ==
    ASSUME OwnInv, NEW r \in Requests, NEW rest \in Seq(Edits), C!Advance(r, rest),
           UNCHANGED <<kindOf, mine>>, mine => config'.is # "absent" /\ HasOwn(config')
    PROVE  OwnInv'
<1> DEFINE to == IF rest = <<>> THEN C!Idle ELSE [C!Idle EXCEPT !.todo = rest, !.at = "read"]
<1>1. Working(to) /\ OwnSafe(to)
  BY DEF Working, OwnSafe, C!Idle
<1>2. job' = [job EXCEPT ![r] = to]
  BY DEF C!Advance
<1> HIDE DEF to
<1> QED
  BY <1>1, <1>2, JobStep

\* An edit of a file that can be read keeps the user's entry.
LEMMA RewrittenHasOwn ==
    ASSUME Strict, OwnInv, mine, NEW e \in Edits, ~C!Refuses(e)
    PROVE  C!Rewritten(e).is # "absent" /\ HasOwn(C!Rewritten(e))
<1>1. C!F.text = "json" /\ C!F.alien = "refused"
  BY DEF Strict, OwnInv, C!F
<1>2. config.is \in {"whole", "alien"} /\ config.has[C!Own] = "own"
  BY <1>1 DEF C!Refuses, C!Reads, OwnInv, HasOwn
<1>3. C!Edited(e, config.has)[C!Own] = "own"
  <2>1. C!Own \in C!Names /\ C!Own \notin e.on /\ C!Own \notin e.off /\ C!Own \notin e.cut
    BY DEF Edits, Others, C!Names
  <2> QED
    BY <1>2, <2>1 DEF C!Edited
<1>4. config.is = "alien" => ~e.applies
  BY <1>1 DEF C!Refuses
<1> QED
  BY <1>2, <1>3, <1>4 DEF C!Rewritten, C!AsIs, HasOwn

LEMMA StepOwn ==
    ASSUME Strict, OwnInv, [C!Next]_ConfigVars
    PROVE  OwnInv'
<1>0. /\ \A r \in Requests : Working(job[r])
      /\ mine => config.is # "absent" /\ HasOwn(config)
  BY DEF OwnInv
<1>1. ASSUME NEW r \in Requests, C!Begin(r) PROVE OwnInv'
  <2>1. PICK todo \in C!Tasks : job' = [job EXCEPT ![r] = [C!Idle EXCEPT !.todo = todo, !.at = "read"]]
    BY <1>1 DEF C!Begin
  <2> DEFINE to == [C!Idle EXCEPT !.todo = todo, !.at = "read"]
  <2>2. Working(to) /\ OwnSafe(to)
    BY TasksNameOthers, ReadsNext
  <2> HIDE DEF to
  <2>3. job' = [job EXCEPT ![r] = to]
    BY <2>1 DEF to
  <2> QED
    BY <1>0, <1>1, <2>2, <2>3, JobStep DEF C!Begin, HasOwn
<1>2. ASSUME NEW r \in Requests, C!BeginHook(r) PROVE OwnInv'
  <2> DEFINE edit == IF hooked' THEN C!Applies({"hook"}, {}) ELSE C!Removes({"hook"})
             to == [C!Idle EXCEPT !.at = "read", !.todo = <<edit>>]
  <2>1. "hook" \in Others
    BY DEF Others, C!Names, C!Own
  <2>2. edit \in Edits
    BY <2>1 DEF C!Applies, C!Removes, Edits
  <2>3. job' = [job EXCEPT ![r] = to]
    BY <1>2 DEF C!BeginHook
  <2> HIDE DEF edit
  <2>4. <<edit>> \in Seq(Edits) /\ <<edit>> # <<>>
    BY <2>2
  <2>5. Working(to) /\ OwnSafe(to)
    BY <2>4, ReadsNext
  <2> HIDE DEF to
  <2> QED
    BY <1>0, <1>2, <2>3, <2>5, JobStep DEF C!BeginHook, HasOwn
<1>3. ASSUME NEW r \in Requests, C!Read(r) PROVE OwnInv'
  <2> DEFINE e == Head(job[r].todo)
  <2>1. job[r].todo \in Seq(Edits) /\ job[r].todo # <<>>
    BY <1>0, <1>3 DEF C!Read, Working
  <2>2. e \in Edits /\ Tail(job[r].todo) \in Seq(Edits) /\ <<>> \in Seq(Edits)
    BY <2>1
  <2>3. UNCHANGED <<kindOf, mine, config>>
    BY <1>3 DEF C!Read
  <2>4. \/ C!Advance(r, <<>>) \/ C!Advance(r, Tail(job[r].todo))
        \/ /\ ~C!Refuses(e)
           /\ job' = [job EXCEPT ![r] = [todo |-> job[r].todo, at |-> "backup",
                                              copy |-> C!Rewritten(e)]]
    BY <1>3 DEF C!Read
  <2>5. CASE /\ ~C!Refuses(e)
             /\ job' = [job EXCEPT ![r] = [todo |-> job[r].todo, at |-> "backup",
                                              copy |-> C!Rewritten(e)]]
    <3> DEFINE to == [todo |-> job[r].todo, at |-> "backup", copy |-> C!Rewritten(e)]
    <3>1. job' = [job EXCEPT ![r] = to]
      BY <2>5
    <3>2. Working(to)
      BY <2>1 DEF Working
    <3>3. mine => OwnSafe(to)
      BY <2>2, <2>5, RewrittenHasOwn DEF OwnSafe
    <3> HIDE DEF to
    <3> QED
      BY <1>0, <2>3, <3>1, <3>2, <3>3, JobStep DEF HasOwn
  <2> HIDE DEF e
  <2> QED
    BY <1>0, <2>2, <2>3, <2>4, <2>5, AdvanceOwn DEF HasOwn
<1>4. ASSUME NEW r \in Requests, C!Backup(r) PROVE OwnInv'
  BY <1>0, <1>4, SameEdit DEF C!Backup, OwnSafe, HasOwn, OwnInv
<1>5. ASSUME NEW r \in Requests, C!Truncate(r) PROVE OwnInv'
  BY <1>0, <1>5, SameEdit DEF C!Truncate, C!AsIs, OwnSafe, HasOwn, OwnInv
<1>6. ASSUME NEW r \in Requests, C!Fill(r) PROVE OwnInv'
  <2>1. job[r].todo \in Seq(Edits) /\ job[r].todo # <<>>
    BY <1>0, <1>6 DEF C!Fill, Working
  <2>2. Tail(job[r].todo) \in Seq(Edits)
    BY <2>1
  <2>3. mine => config'.is # "absent" /\ HasOwn(config')
    BY <1>6 DEF C!Fill, C!AsIs, HasOwn, OwnInv, OwnSafe
  <2> QED
    BY <1>6, <2>2, <2>3, AdvanceOwn DEF C!Fill
<1>7. ASSUME NEW r \in Requests, C!Dies(r) PROVE OwnInv'
  <2>1. <<>> \in Seq(Edits)
    OBVIOUS
  <2>2. mine => config'.is # "absent" /\ HasOwn(config')
    BY <1>0, <1>7 DEF C!Dies, C!AsIs, HasOwn
  <2> QED
    BY <1>7, <2>1, <2>2, AdvanceOwn DEF C!Dies
<1>8. CASE UNCHANGED <<kindOf, mine, config, job>>
  BY <1>8 DEF OwnInv, HasOwn, OwnSafe, Working
<1> QED
  BY <1>1, <1>2, <1>3, <1>4, <1>5, <1>6, <1>7, <1>8 DEF C!Next, C!Tick, ConfigVars

\* Whatever requests overlap, and wherever they die, a JSON configuration that can be read
\* has the user's own entry (formats/claude.rs:51-52, "anything else untouched"): an edit
\* copies what it could read, and a text that was cut is refused.  Formats that make
\* something of a cut text, or replace a value of another shape, are outside the theorem,
\* as they are outside the property.
THEOREM OwnIsKept == ASSUME Strict PROVE Spec => []OwnKept
<1>1. Init => OwnInv
  BY InitOwn DEF Init
<1>2. OwnInv /\ [Next]_<<which, StoresVars, ProjectVars, TextVars>> => OwnInv'
  <2>1. [Next]_<<which, StoresVars, ProjectVars, TextVars>> => [C!Next]_ConfigVars
    BY DEF Next, StoresNext, StoresVars
  <2> QED
    BY <2>1, StepOwn
<1>3. OwnInv => OwnKept
  BY DEF OwnInv, HasOwn, OwnKept, C!OwnKept
<1> QED
  BY <1>1, <1>2, <1>3, PTL DEF Spec

-----------------------------------------------------------------------------
(* The working trees of tasks. *)

\* The invariant that MergeAttended needs: what a request may be at.
CallsTyped == call \in [Callers -> [at : {"idle", "merge", "abort"}, of : Isolated \cup {W!Nothing}]]
Attended == CallsTyped /\ W!MergeAttended

LEMMA StepAttended ==
    ASSUME Attended, [W!Next]_TreeVars
    PROVE  Attended'
<1> USE DEF Attended, CallsTyped, W!MergeAttended
<1>0. W!Nothing \notin Isolated /\ W!Users \notin Isolated
  BY StoresAssumption DEF W!Nothing, W!Users
<1>1. CASE UNCHANGED <<call, merging, leftover>>
  BY <1>1
<1>2. ASSUME NEW c \in Callers, NEW t \in Isolated, W!MergeApply(c, t) PROVE Attended'
  BY <1>2 DEF W!MergeApply, W!Idle, W!TaskSame
<1>3. ASSUME NEW c \in Callers, NEW t \in Isolated, NEW allow \in BOOLEAN, W!Resolve(c, t, allow)
      PROVE  Attended'
  BY <1>3 DEF W!Resolve, W!Idle, W!TaskSame
<1>4. ASSUME NEW c \in Callers, W!GitMerge(c) PROVE Attended'
  BY <1>0, <1>4 DEF W!GitMerge, W!FailsThen, W!Idle, W!TaskSame
<1>5. ASSUME NEW c \in Callers, W!GitAbort(c) PROVE Attended'
  BY <1>0, <1>5 DEF W!GitAbort, W!FailsThen, W!Idle, W!TaskSame
<1>6. CASE W!UserMerges
  BY <1>0, <1>6 DEF W!UserMerges, W!TaskSame
<1>7. ASSUME NEW c \in Callers, W!Dies(c) PROVE Attended'
  BY <1>0, <1>7 DEF W!Dies, W!Idle, W!TaskSame
<1> QED
  BY <1>1, <1>2, <1>3, <1>4, <1>5, <1>6, <1>7
  DEF W!Next, W!Add, W!Work, W!End, W!Offer, W!Cleanup, W!GitSame, W!TaskSame, TreeVars

\* For any number of tasks and requests, a repository in the middle of merging a
\* task's branch has a request that goes on to abort it, or has been left by one whose
\* abort failed, and which said so, or whose process ended (worktree.rs:150-180): only a
\* merge that fails begins one, its request goes on to the abort, and an abort, whosever
\* it is, that takes a request from there ends the merge or says that it could not.
THEOREM MergesAreAttended == Spec => []MergeAttended
<1>1. Init => Attended
  <2>1. Init => W!Init
    BY DEF Init
  <2>2. W!Nothing \notin Isolated
    BY StoresAssumption DEF W!Nothing
  <2>3. W!Init => Attended
    BY <2>2 DEF W!Init, Attended, CallsTyped, W!MergeAttended, W!Idle
  <2> QED
    BY <2>1, <2>3
<1>2. Attended /\ [Next]_<<which, StoresVars, ProjectVars, TextVars>> => Attended'
  <2>1. [Next]_<<which, StoresVars, ProjectVars, TextVars>> => [W!Next]_TreeVars
    BY DEF Next, ProjectNext, ProjectVars
  <2> QED
    BY <2>1, StepAttended
<1>3. Attended => MergeAttended
  BY DEF Attended, MergeAttended
<1> QED
  BY <1>1, <1>2, <1>3, PTL DEF Spec

-----------------------------------------------------------------------------
(* Hooks at the end of tasks, and changes of health. *)

IsRun(h) == h = [task |-> h.task, place |-> h.place, rule |-> h.rule,
                 status |-> h.status, state |-> h.state]

\* A task has hooks only once it has told its end, which it does once and with a row
\* that has come to an end; their runs are as they should be.
Told ==
    /\ status = [t \in Isolated |-> status[t]]
    /\ at = [t \in Isolated |-> at[t]]
    /\ notice = [t \in Isolated |-> notice[t]]
    /\ \A t \in Isolated : at[t] = "notify" => status[t] \in H!Terminal
    /\ \A h \in fired : IsRun(h) /\ h.task \in Isolated /\ at[h.task] = "returned"
    /\ H!FiredOnceForItsStatus

LEMMA StepTold ==
    ASSUME Told, [H!Next]_HookVars
    PROVE  Told'
<1>1. ASSUME NEW t \in Isolated, NEW s \in H!Terminal, H!Finish(t, s) PROVE Told'
  BY <1>1 DEF H!Finish, Told, H!FiredOnceForItsStatus
<1>2. ASSUME NEW t \in Isolated, H!Fire(t) PROVE Told'
  <2> DEFINE new == {H!Entry(t, p) : p \in H!Matching(status[t])}
  <2>1. /\ at[t] = "notify" /\ at' = [at EXCEPT ![t] = "returned"]
        /\ notice' = [notice EXCEPT ![t] = [status |-> status[t], rules |-> hookFile]]
        /\ fired' = fired \cup new /\ UNCHANGED status
    BY <1>2 DEF H!Fire
  <2>2. /\ notice'[t] = [status |-> status[t], rules |-> hookFile]
        /\ \A u \in Isolated \ {t} : notice'[u] = notice[u] /\ at'[u] = at[u]
        /\ at'[t] = "returned"
    BY <2>1 DEF Told
  <2>3. \A h \in new : /\ IsRun(h) /\ h.task = t
                       /\ h.place \in DOMAIN hookFile /\ h.rule = hookFile[h.place]
                       /\ h.status = status[t] /\ h.status \in AskedFor(h.rule) \cap H!Terminal
    BY <2>1 DEF Told, H!Matching, H!Entry, IsRun
  <2>4. \A h, i \in new : h.place = i.place => h = i
    BY DEF H!Entry
  <2>5. \A p \in DOMAIN hookFile : status[t] \in AskedFor(hookFile[p]) =>
           \E h \in new : h.task = t /\ h.place = p
    <3> SUFFICES ASSUME NEW p \in DOMAIN hookFile, status[t] \in AskedFor(hookFile[p])
                 PROVE  \E h \in new : h.task = t /\ h.place = p
      OBVIOUS
    <3>1. H!Entry(t, p) \in new
      BY DEF H!Matching
    <3> QED
      BY <3>1 DEF H!Entry
  <2>6. \A h \in fired : h.task \in Isolated \ {t}
    BY <2>1 DEF Told
  <2> HIDE DEF new
  <2>7. /\ status' = [u \in Isolated |-> status'[u]]
        /\ at' = [u \in Isolated |-> at'[u]]
        /\ notice' = [u \in Isolated |-> notice'[u]]
        /\ \A u \in Isolated : at'[u] = "notify" => status'[u] \in H!Terminal
        /\ \A h \in fired' : IsRun(h) /\ h.task \in Isolated /\ at'[h.task] = "returned"
    BY <2>1, <2>2, <2>3, <2>6 DEF Told
  <2>8. \A h \in fired' : /\ h.place \in DOMAIN notice'[h.task].rules
                          /\ h.rule = notice'[h.task].rules[h.place]
                          /\ h.status = notice'[h.task].status
                          /\ h.status \in AskedFor(h.rule) \cap H!Terminal
    BY <2>1, <2>2, <2>3, <2>6 DEF Told, H!FiredOnceForItsStatus
  <2>9. \A h, i \in fired' : h.task = i.task /\ h.place = i.place => h = i
    BY <2>1, <2>3, <2>4, <2>6 DEF Told, H!FiredOnceForItsStatus
  <2>10. ASSUME NEW u \in Isolated, at'[u] = "returned", NEW p \in DOMAIN notice'[u].rules,
                notice'[u].status \in AskedFor(notice'[u].rules[p])
         PROVE  \E h \in fired' : h.task = u /\ h.place = p
    <3>1. CASE u = t
      BY <2>1, <2>2, <2>5, <2>10, <3>1
    <3>2. CASE u # t
      BY <2>1, <2>2, <2>10, <3>2 DEF Told, H!FiredOnceForItsStatus
    <3> QED
      BY <3>1, <3>2
  <2> QED
    BY <2>7, <2>8, <2>9, <2>10 DEF Told, H!FiredOnceForItsStatus
<1>3. ASSUME NEW h \in fired, H!HookEnds(h) PROVE Told'
  <2> DEFINE to == [h EXCEPT !.state = "ended"]
  <2>1. fired' = (fired \ {h}) \cup {to} /\ UNCHANGED <<status, at, notice>>
    BY <1>3 DEF H!HookEnds
  <2>2. /\ IsRun(to) /\ to.task = h.task /\ to.place = h.place
        /\ to.rule = h.rule /\ to.status = h.status
    <3>1. IsRun(h)
      BY DEF Told
    <3>2. to = [task |-> h.task, place |-> h.place, rule |-> h.rule,
                status |-> h.status, state |-> "ended"]
      BY <3>1 DEF IsRun
    <3> QED
      BY <3>2 DEF IsRun
  <2>3. \A i \in fired' : i = to \/ (i \in fired /\ i # h)
    BY <2>1
  <2>4. ASSUME NEW i \in fired', NEW j \in fired', i.task = j.task, i.place = j.place
        PROVE  i = j
    <3>1. \A k, l \in fired : k.task = l.task /\ k.place = l.place => k = l
      BY DEF Told, H!FiredOnceForItsStatus
    <3> QED
      BY <1>3, <2>2, <2>3, <2>4, <3>1
  <2>5. ASSUME NEW i \in fired PROVE \E j \in fired' : j.task = i.task /\ j.place = i.place
    BY <2>1, <2>2
  <2>6. ASSUME NEW i \in fired'
        PROVE  /\ IsRun(i) /\ i.task \in Isolated /\ at'[i.task] = "returned"
               /\ i.place \in DOMAIN notice'[i.task].rules
               /\ i.rule = notice'[i.task].rules[i.place]
               /\ i.status = notice'[i.task].status
               /\ i.status \in AskedFor(i.rule) \cap H!Terminal
    <3>1. CASE i = to
      <4>1. /\ h.task \in Isolated /\ at[h.task] = "returned"
            /\ h.place \in DOMAIN notice[h.task].rules
            /\ h.rule = notice[h.task].rules[h.place]
            /\ h.status = notice[h.task].status
            /\ h.status \in AskedFor(h.rule) \cap H!Terminal
        BY <1>3 DEF Told, H!FiredOnceForItsStatus
      <4> QED
        BY <2>1, <2>2, <3>1, <4>1
    <3>2. CASE i \in fired
      BY <2>1, <3>2 DEF Told, H!FiredOnceForItsStatus
    <3> QED
      BY <2>3, <3>1, <3>2
  <2>7. ASSUME NEW t \in Isolated, at'[t] = "returned", NEW p \in DOMAIN notice'[t].rules,
               notice'[t].status \in AskedFor(notice'[t].rules[p])
        PROVE  \E j \in fired' : j.task = t /\ j.place = p
    <3>1. PICK i \in fired : i.task = t /\ i.place = p
      BY <2>1, <2>7 DEF Told, H!FiredOnceForItsStatus
    <3> QED
      BY <2>5, <3>1
  <2>8. H!FiredOnceForItsStatus'
    BY <2>4, <2>6, <2>7 DEF H!FiredOnceForItsStatus
  <2>9. \A i \in fired' : IsRun(i) /\ i.task \in Isolated /\ at'[i.task] = "returned"
    BY <2>6
  <2> QED
    BY <2>1, <2>8, <2>9 DEF Told
<1>4. ASSUME NEW t \in Isolated, H!ForceReads(t) \/ H!ForceWrites(t) PROVE Told'
  BY <1>4 DEF Told, H!FiredOnceForItsStatus, H!ForceReads, H!ForceWrites, H!Terminal
<1>5. CASE UNCHANGED <<status, at, notice, fired>>
  BY <1>5 DEF Told, IsRun, H!FiredOnceForItsStatus
<1> QED
  BY <1>1, <1>2, <1>3, <1>4, <1>5
  DEF H!Next, H!Truncate, H!Save, H!Load, H!TasksSame, HookVars

\* While the mode is as it was changed last, the time since then is no less than what
\* `since` counts, so that the next change comes a grace later.
Counts ==
    /\ clock \in Nat /\ mode \in {"normal", "degraded"}
    /\ since \in Nat \cup {Never}
    /\ flips.last \in Nat \cup {Never}
    /\ flips.last = Never => flips.before = Never
    /\ flips.last # Never => flips.last <= clock /\ (since # Never => since >= flips.last)
    /\ flips.before \in Nat \cup {Never} /\ D!NeverFlaps

LEMMA StepCounts ==
    ASSUME Counts, [D!Next]_HealthVars
    PROVE  Counts'
<1>n. Never \notin Nat /\ EntryGrace \in Nat /\ ExitGrace \in Nat
  BY StoresAssumption
<1>c. clock \in Nat /\ clock # Never
  BY <1>n DEF Counts
<1>m. mode \in {"normal", "degraded"}
  BY DEF Counts
<1>l. \/ flips.last = Never /\ flips.before = Never
      \/ /\ flips.last \in Nat /\ flips.last # Never /\ flips.last <= clock
         /\ \/ since = Never
            \/ since \in Nat /\ since >= flips.last
  BY <1>n DEF Counts
<1>s. since \in Nat \cup {Never} /\ flips.before \in Nat \cup {Never}
  BY DEF Counts
<1>1. CASE D!Next
  <2>1. PICK step \in 1..2 : clock' = clock + step
    BY <1>1 DEF D!Next
  <2>2. PICK enabled \in 0..MaxEnabled : \E usable \in 0..enabled : D!Tick(usable, enabled)
    BY <1>1 DEF D!Next
  <2>3. PICK usable \in 0..enabled : D!Tick(usable, enabled)
    BY <2>2
  <2> DEFINE from == IF since = Never THEN clock ELSE since
  <2>4. \/ since' = Never /\ UNCHANGED <<mode, flips>>
        \/ /\ clock - from >= D!Grace
           /\ mode' = D!Other /\ since' = clock
           /\ flips' = [last |-> clock, before |-> flips.last]
        \/ since' = from /\ UNCHANGED <<mode, flips>>
    BY <2>3 DEF D!Tick
  <2>5. from \in Nat /\ (flips.last # Never => from >= flips.last)
    BY <1>c, <1>l, <1>s
  <2> HIDE DEF from
  <2>6. clock' \in Nat /\ clock' > clock
    BY <1>c, <2>1
  <2>7. CASE (since' = Never \/ since' = from) /\ UNCHANGED <<mode, flips>>
    <3>1. since' \in Nat \cup {Never}
      BY <2>5, <2>7
    <3>2. flips'.last # Never => flips'.last <= clock' /\ (since' # Never => since' >= flips'.last)
      <4>1. flips.last # Never => flips.last \in Nat /\ flips.last <= clock'
        BY <1>c, <1>l, <2>6
      <4> QED
        BY <2>5, <2>7, <4>1
    <3>3. D!NeverFlaps'
      BY <2>7 DEF Counts, D!NeverFlaps
    <3> QED
      BY <1>m, <2>6, <2>7, <3>1, <3>2, <3>3 DEF Counts
  <2>8. CASE /\ clock - from >= D!Grace
             /\ mode' = D!Other /\ since' = clock
             /\ flips' = [last |-> clock, before |-> flips.last]
    <3>1. flips'.last = clock /\ flips'.before = flips.last
      BY <2>8
    <3>2. D!Grace \in Nat
      BY <1>n DEF D!Grace
    <3>3. flips.last # Never => flips.last \in Nat /\ clock - flips.last >= D!Grace
      BY <1>c, <1>l, <2>5, <2>8, <3>2
    <3>4. mode' \in {"normal", "degraded"} /\ D!Grace = (IF mode' = "degraded" THEN EntryGrace ELSE ExitGrace)
      BY <1>m, <2>8 DEF D!Grace, D!Other
    <3>5. D!NeverFlaps'
      BY <3>1, <3>3, <3>4 DEF D!NeverFlaps
    <3>6. clock <= clock' /\ clock >= clock
      BY <1>c, <2>6
    <3>7. flips'.before \in Nat \cup {Never} /\ flips'.last \in Nat /\ since' \in Nat
      BY <1>c, <1>l, <2>8, <3>1
    <3> QED
      BY <1>c, <2>6, <2>8, <3>1, <3>4, <3>5, <3>6, <3>7 DEF Counts
  <2> QED
    BY <2>4, <2>7, <2>8
<1>2. CASE UNCHANGED HealthVars
  BY <1>2 DEF HealthVars, Counts, D!NeverFlaps
<1> QED
  BY <1>1, <1>2

-----------------------------------------------------------------------------
(* The ledger of the pool. *)

CallOf == [at : {"begin", "acquire", "ask", "request", "tokens", "done"},
           model : Models, since : Nat \cup {None}]
EventOf == [of : Calls, model : Models, kind : {"request", "tokens"}, at : Nat]
RequestsIn(S) == {e \in S : e.kind = "request"}
Remembered == {memory[i] : i \in 1..Len(memory)}
Events == usage \cup Remembered

\* What is recorded is of its call as it is; a call has one request on record, in the table
\* or in memory, or else one lease, for it gives its lease back before it records.
Booked ==
    /\ instant \in Nat /\ dispatch \in [Calls -> CallOf] /\ memory \in Seq(EventOf)
    /\ \A c \in Calls : dispatch[c].at # "begin" => dispatch[c].since # None
    /\ \A e \in Events : /\ e \in EventOf /\ e = Q!Event(e.of, e.kind)
                         /\ dispatch[e.of].at \in {"tokens", "done"}
    /\ \A e \in RequestsIn(usage), f \in RequestsIn(Remembered) : e.of # f.of
    /\ \A l \in lease : /\ l = [of |-> l.of, model |-> dispatch[l.of].model, at |-> l.at]
                        /\ l.of \in Calls /\ dispatch[l.of].at \in {"ask", "done"}
    /\ \A l, k \in lease : l.of = k.of => l = k
    /\ \A l \in lease, e \in RequestsIn(Events) : e.of # l.of

\* A call that goes on is the one it was.
LEMMA CallGoesOn ==
    ASSUME Booked, NEW c \in Calls, dispatch[c].at # "begin",
           NEW to \in {"ask", "request", "tokens", "done"}, Q!Goes(c, to)
    PROVE  /\ dispatch' \in [Calls -> CallOf] /\ dispatch'[c].at = to
           /\ \A d \in Calls : /\ d # c => dispatch'[d].at = dispatch[d].at
                               /\ dispatch'[d].model = dispatch[d].model
                               /\ dispatch'[d].since = dispatch[d].since
                               /\ dispatch'[d].at # "begin" => dispatch'[d].since # None
                               /\ \A kind : Q!Event(d, kind)' = Q!Event(d, kind)
<1>1. dispatch \in [Calls -> CallOf] /\ dispatch' = [dispatch EXCEPT ![c].at = to]
  BY DEF Booked, Q!Goes
<1>2. dispatch[c] \in CallOf
  BY <1>1
<1>3. [dispatch[c] EXCEPT !.at = to] \in CallOf
  BY <1>2 DEF CallOf
<1>4. dispatch' \in [Calls -> CallOf]
  BY <1>1, <1>3
<1>5. \A d \in Calls : /\ d # c => dispatch'[d] = dispatch[d]
                       /\ dispatch'[c] = [dispatch[c] EXCEPT !.at = to]
  BY <1>1
<1>6. dispatch'[c].at = to /\ dispatch'[c].model = dispatch[c].model /\ dispatch'[c].since = dispatch[c].since
  BY <1>2, <1>5 DEF CallOf
<1>7. \A d \in Calls : /\ d # c => dispatch'[d].at = dispatch[d].at
                       /\ dispatch'[d].model = dispatch[d].model
                       /\ dispatch'[d].since = dispatch[d].since
                       /\ dispatch'[d].at # "begin" => dispatch'[d].since # None
  BY <1>5, <1>6 DEF Booked
<1>. QED  BY <1>4, <1>6, <1>7 DEF Q!Event

LEMMA InitBooked == Q!Init => Booked
<1>. SUFFICES ASSUME Q!Init PROVE Booked
  OBVIOUS
<1>1. instant = Day /\ lease = {} /\ usage = {} /\ memory = <<>> /\ Day \in Nat
  BY StoresAssumption DEF Q!Init
<1>2. dispatch \in [Calls -> CallOf] /\ \A c \in Calls : dispatch[c].at = "begin"
  BY DEF Q!Init, CallOf
<1>3. Events = {} /\ Remembered = {} /\ memory \in Seq(EventOf)
  BY <1>1 DEF Events, Remembered
<1>. QED  BY <1>1, <1>2, <1>3 DEF Booked, RequestsIn

\* An event that is put into memory, perhaps in the place of the oldest one.
LEMMA Remembers ==
    ASSUME NEW e \in EventOf, MemoryCap \in Nat \ {0}, memory \in Seq(EventOf),
           memory' = Append(IF Len(memory) >= MemoryCap THEN Tail(memory) ELSE memory, e)
    PROVE  memory' \in Seq(EventOf) /\ Remembered' \subseteq Remembered \cup {e}
<1>. DEFINE s == IF Len(memory) >= MemoryCap THEN Tail(memory) ELSE memory
<1>0. s \in Seq(EventOf)
  <2>1. Len(memory) >= MemoryCap => memory # <<>>
    OBVIOUS
  <2>. QED  BY <2>1, HeadTailProperties
<1>. HIDE DEF s
<1>1. /\ memory' \in Seq(EventOf) /\ Len(memory') = Len(s) + 1 /\ Len(s) \in Nat
      /\ memory'[Len(s) + 1] = e /\ \A i \in 1..Len(s) : memory'[i] = s[i]
  BY <1>0, AppendProperties DEF s
<1>2. \A i \in 1..Len(s) : s[i] \in Remembered
  <2>1. CASE s = memory
    BY <2>1 DEF Remembered
  <2>2. CASE Len(memory) >= MemoryCap /\ s = Tail(memory)
    <3>1. memory # <<>> /\ Len(memory) \in Nat
      BY <2>2
    <3>2. Len(s) = Len(memory) - 1 /\ \A i \in 1..Len(s) : s[i] = memory[i + 1]
      BY <2>2, <3>1, HeadTailProperties
    <3>. QED  BY <3>1, <3>2 DEF Remembered
  <2>. QED  BY <2>1, <2>2 DEF s
<1>. QED  BY <1>1, <1>2 DEF Remembered

LEMMA LedgerCount == ASSUME NEW S PROVE Q!Cardinality(S) = Cardinality(S)
  BY DEF Q!Cardinality, Cardinality

LEMMA StepBooked ==
    ASSUME Booked, [Q!Next]_QuotaVars
    PROVE  Booked'
<1>b. /\ instant \in Nat /\ dispatch \in [Calls -> CallOf] /\ memory \in Seq(EventOf)
      /\ \A c \in Calls : dispatch[c] \in CallOf
  BY DEF Booked
<1>1. ASSUME NEW c \in Calls, Q!Begin(c) PROVE Booked'
  <2>1. /\ dispatch[c].at = "begin" /\ UNCHANGED <<instant, lease, usage, memory>>
        /\ dispatch' = [dispatch EXCEPT ![c].at = "acquire", ![c].since = instant]
    BY <1>1 DEF Q!Begin
  <2>2. dispatch' = [dispatch EXCEPT ![c] = [dispatch[c] EXCEPT !.at = "acquire", !.since = instant]]
    BY <1>b, <2>1
  <2>3. [dispatch[c] EXCEPT !.at = "acquire", !.since = instant] \in CallOf
    BY <1>b DEF CallOf
  <2>4. /\ dispatch' \in [Calls -> CallOf] /\ dispatch'[c].since # None
        /\ \A d \in Calls \ {c} : dispatch'[d] = dispatch[d]
    BY <1>b, <2>2, <2>3, StoresAssumption DEF CallOf
  <2>5. \A e \in Events : e.of # c
    BY <2>1 DEF Booked
  <2>6. \A l \in lease : l.of # c
    BY <2>1 DEF Booked
  <2>7. Events' = Events /\ Remembered' = Remembered
    BY <2>1 DEF Events, Remembered
  <2>8. \A e \in Events : e \in EventOf /\ e.of \in Calls
    BY DEF Booked, EventOf
  <2>9. \A d \in Calls \ {c} : \A kind : Q!Event(d, kind)' = Q!Event(d, kind)
    BY <2>4 DEF Q!Event
  <2>. QED  BY <1>b, <2>1, <2>4, <2>5, <2>6, <2>7, <2>8, <2>9 DEF Booked, RequestsIn
<1>2. ASSUME NEW c \in Calls, Q!AcquireLease(c) PROVE Booked'
  <2>. DEFINE new == [of |-> c, model |-> dispatch[c].model, at |-> instant]
  <2>1. /\ dispatch[c].at = "acquire" /\ UNCHANGED <<instant, usage, memory>> /\ Q!Goes(c, "ask")
        /\ lease' = lease \cup {new}
    BY <1>2 DEF Q!AcquireLease
  <2>2. /\ dispatch' \in [Calls -> CallOf] /\ dispatch'[c].at = "ask"
        /\ \A d \in Calls : /\ d # c => dispatch'[d].at = dispatch[d].at
                            /\ dispatch'[d].model = dispatch[d].model
                            /\ dispatch'[d].since = dispatch[d].since
                            /\ dispatch'[d].at # "begin" => dispatch'[d].since # None
                            /\ \A kind : Q!Event(d, kind)' = Q!Event(d, kind)
    BY <2>1, CallGoesOn
  <2>3. \A e \in Events : e \in EventOf /\ e.of \in Calls /\ e.of # c
    BY <2>1 DEF Booked, EventOf
  <2>4. \A l \in lease : l.of # c
    BY <2>1 DEF Booked
  <2>5. Events' = Events /\ Remembered' = Remembered
    BY <2>1 DEF Events, Remembered
  <2>6. new.of = c /\ new = [of |-> new.of, model |-> dispatch'[new.of].model, at |-> new.at]
    BY <2>2
  <2>. HIDE DEF new
  <2>. QED  BY <1>b, <2>1, <2>2, <2>3, <2>4, <2>5, <2>6 DEF Booked, RequestsIn
<1>3. ASSUME NEW c \in Calls, Q!ReleaseLease(c) PROVE Booked'
  <2>1. PICK to \in {"request", "done"} :
           /\ dispatch[c].at = "ask" /\ UNCHANGED <<instant, usage, memory>> /\ Q!Goes(c, to)
           /\ lease' = {l \in lease : l.of # c}
    BY <1>3 DEF Q!ReleaseLease, Q!Released
  <2>2. /\ dispatch' \in [Calls -> CallOf]
        /\ \A d \in Calls : /\ d # c => dispatch'[d].at = dispatch[d].at
                            /\ dispatch'[d].model = dispatch[d].model
                            /\ dispatch'[d].at # "begin" => dispatch'[d].since # None
                            /\ \A kind : Q!Event(d, kind)' = Q!Event(d, kind)
    BY <2>1, CallGoesOn
  <2>3. \A e \in Events : e \in EventOf /\ e.of \in Calls /\ e.of # c
    BY <2>1 DEF Booked, EventOf
  <2>4. Events' = Events /\ Remembered' = Remembered
    BY <2>1 DEF Events, Remembered
  <2>. QED  BY <1>b, <2>1, <2>2, <2>3, <2>4 DEF Booked, RequestsIn
<1>4. ASSUME NEW c \in Calls, Q!Record(c) PROVE Booked'
  <2>p. PICK kind : kind = dispatch[c].at
    OBVIOUS
  <2>q. PICK new : new = Q!Event(c, kind)
    OBVIOUS
  <2>1. /\ kind \in {"request", "tokens"} /\ UNCHANGED <<instant, lease>>
        /\ \/ usage' = usage \cup {new} /\ UNCHANGED memory
           \/ /\ memory' = Append(IF Len(memory) >= MemoryCap THEN Tail(memory) ELSE memory, new)
              /\ UNCHANGED usage
    BY <1>4, <2>p, <2>q DEF Q!Record
  <2>2. PICK to \in {"tokens", "done"} : Q!Goes(c, to)
    BY <1>4 DEF Q!Record
  <2>3. /\ dispatch' \in [Calls -> CallOf] /\ dispatch'[c].at = to
        /\ \A d \in Calls : /\ d # c => dispatch'[d].at = dispatch[d].at
                            /\ dispatch'[d].model = dispatch[d].model
                            /\ dispatch'[d].at # "begin" => dispatch'[d].since # None
                            /\ \A k : Q!Event(d, k)' = Q!Event(d, k)
    BY <2>1, <2>2, <2>p, CallGoesOn
  <2>4. /\ new \in EventOf /\ new.of = c /\ new.kind = kind
    <3>1. dispatch[c].since \in Nat /\ dispatch[c].model \in Models
      BY <1>b, <2>1, <2>p DEF Booked, CallOf
    <3>. QED  BY <2>1, <2>p, <2>q, <3>1 DEF Q!Event, EventOf
  <2>5. /\ memory' \in Seq(EventOf) /\ Remembered' \subseteq Remembered \cup {new} /\ usage' \subseteq usage \cup {new}
        /\ UNCHANGED memory \/ UNCHANGED usage
    BY <1>b, <2>1, <2>4, Remembers, StoresAssumption DEF Remembered
  <2>6. kind = "request" => \A e \in Events : e.of # c
    BY <2>p DEF Booked
  <2>7. \A l \in lease : l.of # c
    BY <2>1, <2>p DEF Booked
  <2>8. UNCHANGED memory => Remembered' = Remembered
    BY DEF Remembered
  <2>9. new = Q!Event(c, kind)'
    BY <2>3, <2>q
  <2>10. Events' \subseteq Events \cup {new} /\ RequestsIn(usage) \subseteq Events /\ RequestsIn(Remembered) \subseteq Events
    BY <2>5 DEF Events, RequestsIn
  <2>11. \A e \in Events' : /\ e \in EventOf /\ e = Q!Event(e.of, e.kind)'
                            /\ dispatch'[e.of].at \in {"tokens", "done"}
    <3>1. \A e \in Events : e.of \in Calls /\ dispatch[e.of].at \in {"tokens", "done"} /\ e = Q!Event(e.of, e.kind)
                            /\ e \in EventOf
      BY DEF Booked, EventOf
    <3>2. \A e \in Events : dispatch'[e.of].at \in {"tokens", "done"} /\ e = Q!Event(e.of, e.kind)'
      BY <2>3, <3>1
    <3>3. dispatch'[new.of].at \in {"tokens", "done"} /\ new = Q!Event(new.of, new.kind)'
      BY <2>3, <2>4, <2>9
    <3>. QED  BY <2>4, <2>10, <3>1, <3>2, <3>3
  <2>12. \A e \in RequestsIn(usage)', f \in RequestsIn(Remembered)' : e.of # f.of
    <3>1. \A e \in RequestsIn(usage), f \in RequestsIn(Remembered) : e.of # f.of
      BY DEF Booked
    <3>. QED  BY <2>4, <2>5, <2>6, <2>8, <2>10, <3>1 DEF RequestsIn
  <2>13. \A l \in lease', e \in RequestsIn(Events)' : e.of # l.of
    BY <2>1, <2>4, <2>7, <2>10 DEF Booked, RequestsIn
  <2>14. \A l \in lease' : /\ l = [of |-> l.of, model |-> dispatch'[l.of].model, at |-> l.at]
                           /\ l.of \in Calls /\ dispatch'[l.of].at \in {"ask", "done"}
    BY <2>1, <2>3, <2>7 DEF Booked
  <2>. QED  BY <1>b, <2>1, <2>3, <2>5, <2>11, <2>12, <2>13, <2>14 DEF Booked
<1>5. CASE Q!LiveLeases
  <2>1. UNCHANGED <<instant, usage, memory, dispatch>> /\ lease' \subseteq lease
    BY <1>5 DEF Q!LiveLeases, Q!Live
  <2>2. Events' = Events /\ Remembered' = Remembered /\ \A d, kind : Q!Event(d, kind)' = Q!Event(d, kind)
    BY <2>1 DEF Events, Remembered, Q!Event
  <2>. QED  BY <2>1, <2>2 DEF Booked, RequestsIn
<1>6. CASE Q!Restart
  <2>1. /\ memory' = <<>> /\ UNCHANGED <<instant, lease, usage>>
        /\ dispatch' = [c \in Calls |-> IF dispatch[c].at = "begin" THEN dispatch[c]
                                        ELSE [dispatch[c] EXCEPT !.at = "done"]]
    BY <1>6 DEF Q!Restart
  <2>2. \A c \in Calls : /\ dispatch[c].at = "begin" => dispatch'[c] = dispatch[c]
                         /\ dispatch[c].at # "begin" => dispatch'[c].at = "done"
                         /\ dispatch'[c] \in CallOf
                         /\ dispatch'[c].model = dispatch[c].model /\ dispatch'[c].since = dispatch[c].since
    BY <1>b, <2>1 DEF CallOf
  <2>3. dispatch' \in [Calls -> CallOf]
    BY <2>1, <2>2
  <2>4. memory' \in Seq(EventOf) /\ Remembered' = {} /\ Events' \subseteq Events
    BY <2>1 DEF Remembered, Events
  <2>5. \A c \in Calls : \A kind : Q!Event(c, kind)' = Q!Event(c, kind)
    BY <2>2 DEF Q!Event
  <2>6. \A e \in Events : e \in EventOf /\ e.of \in Calls /\ dispatch[e.of].at # "begin" /\ e = Q!Event(e.of, e.kind)
    BY DEF Booked, EventOf
  <2>7. \A e \in Events' : /\ e \in EventOf /\ e = Q!Event(e.of, e.kind)'
                            /\ dispatch'[e.of].at \in {"tokens", "done"}
    BY <2>2, <2>4, <2>5, <2>6
  <2>8. \A l \in lease' : /\ l = [of |-> l.of, model |-> dispatch'[l.of].model, at |-> l.at]
                          /\ l.of \in Calls /\ dispatch'[l.of].at \in {"ask", "done"}
    BY <2>1, <2>2 DEF Booked
  <2>9. \A c \in Calls : dispatch'[c].at # "begin" => dispatch'[c].since # None
    BY <2>2 DEF Booked
  <2>. QED  BY <1>b, <2>1, <2>3, <2>4, <2>7, <2>8, <2>9 DEF Booked, RequestsIn
<1>7. CASE Q!Tick
  <2>1. UNCHANGED <<lease, usage, memory, dispatch>> /\ instant' \in Nat
    BY <1>b, <1>7 DEF Q!Tick
  <2>2. Events' = Events /\ Remembered' = Remembered /\ \A d, kind : Q!Event(d, kind)' = Q!Event(d, kind)
    BY <2>1 DEF Events, Remembered, Q!Event
  <2>. QED  BY <2>1, <2>2 DEF Booked, RequestsIn
<1>8. CASE UNCHANGED QuotaVars
  <2>1. UNCHANGED <<instant, lease, usage, memory, dispatch>>
    BY <1>8 DEF QuotaVars
  <2>2. Events' = Events /\ Remembered' = Remembered /\ \A d, kind : Q!Event(d, kind)' = Q!Event(d, kind)
    BY <2>1 DEF Events, Remembered, Q!Event
  <2>. QED  BY <2>1, <2>2 DEF Booked, RequestsIn
<1>. QED  BY <1>1, <1>2, <1>3, <1>4, <1>5, <1>6, <1>7, <1>8 DEF Q!Next

\* The events and the leases that admission counts are of different calls.
LEMMA BookedOnce == Booked => Q!NeverOvercounts
<1>. SUFFICES ASSUME Booked, NEW m \in Models, NEW w \in {"rpm", "rpd"}
              PROVE  Q!Recorded(m, w, instant) + Q!InFlight({l \in Q!Live(instant) : l.model = m}, w)
                        <= Cardinality(Q!Begun(m, Q!WindowStart(w, instant)))
  BY LedgerCount DEF Q!NeverOvercounts
<1>. DEFINE from == Q!WindowStart(w, instant)
            kept == {e \in Q!Of(usage, m) : e.kind = "request" /\ e.at >= from}
            recalled == {e \in Q!Of(Q!Range(memory), m) : e.kind = "request" /\ e.at >= from}
            leased == {l \in Q!Live(instant) : l.model = m}
            begun == Q!Begun(m, from)
            of == [x \in kept \cup recalled \cup leased |-> x.of]
<1>1. /\ Q!Recorded(m, w, instant) = Cardinality(kept) + Cardinality(recalled)
      /\ Q!InFlight(leased, w) = Cardinality(leased)
  BY LedgerCount DEF Q!Recorded, Q!Counted, Q!KindOf, Q!InFlight
<1>2. IsFiniteSet(begun)
  <2>1. begun \in SUBSET Calls
    BY DEF Q!Begun
  <2>. QED  BY <2>1, FS_Subset, StoresAssumption
<1>3. /\ kept \subseteq RequestsIn(usage) /\ recalled \subseteq RequestsIn(Remembered) /\ leased \subseteq lease
      /\ kept \cup recalled \subseteq RequestsIn(Events)
  BY DEF Q!Of, Q!Range, RequestsIn, Events, Remembered, Q!Live, Booked
<1>4. \A e \in kept \cup recalled : /\ e.of \in begun /\ e = Q!Event(e.of, "request")
  <2>. SUFFICES ASSUME NEW e \in kept \cup recalled PROVE e.of \in begun /\ e = Q!Event(e.of, "request")
    OBVIOUS
  <2>1. /\ e.model = m /\ e.at >= from /\ e.kind = "request" /\ e \in EventOf
        /\ e = Q!Event(e.of, e.kind) /\ dispatch[e.of].at # "begin"
    BY <1>3 DEF Q!Of, RequestsIn, Booked
  <2>2. e.of \in Calls /\ dispatch[e.of].model = m /\ dispatch[e.of].since = e.at /\ dispatch[e.of].since # None
    BY <2>1 DEF Q!Event, EventOf, Booked
  <2>. HIDE DEF from
  <2>. QED  BY <2>1, <2>2 DEF Q!Begun
<1>5. \A l \in leased : l.of \in begun
  <2>. SUFFICES ASSUME NEW l \in leased PROVE l.of \in begun
    OBVIOUS
  <2>1. l \in lease /\ l.model = m /\ l \in Q!Live(instant)
    BY <1>3
  <2>2. l.of \in Calls /\ dispatch[l.of].model = m /\ dispatch[l.of].since # None
    BY <2>1 DEF Booked
  <2>. QED  BY <2>1, <2>2 DEF Q!Begun
<1>. HIDE DEF kept, recalled, leased, begun
<1>6. /\ \A e \in kept, f \in recalled : e.of # f.of
      /\ \A e \in kept \cup recalled, l \in leased : e.of # l.of
      /\ \A l, k \in leased : l.of = k.of => l = k
  BY <1>3 DEF Booked
<1>7. of \in Injection(kept \cup recalled \cup leased, begun)
  <2>1. of \in [kept \cup recalled \cup leased -> begun]
    BY <1>4, <1>5
  <2>2. ASSUME NEW x \in kept \cup recalled \cup leased, NEW y \in kept \cup recalled \cup leased, x.of = y.of
        PROVE  x = y
    BY <1>4, <1>6, <2>2
  <2>. QED  BY <2>1, <2>2 DEF Injection, IsInjective
<1>8. IsFiniteSet(kept \cup recalled \cup leased) /\ Cardinality(kept \cup recalled \cup leased) <= Cardinality(begun)
  <2>. HIDE DEF of
  <2>. QED  BY <1>2, <1>7, FS_Injection
<1>9. IsFiniteSet(kept) /\ IsFiniteSet(recalled) /\ IsFiniteSet(leased) /\ IsFiniteSet(kept \cup recalled)
  BY <1>8, FS_Subset
<1>10. kept \cap recalled = {} /\ (kept \cup recalled) \cap leased = {}
  BY <1>6
<1>11. Cardinality(kept \cup recalled \cup leased) = Cardinality(kept) + Cardinality(recalled) + Cardinality(leased)
  <2>1. Cardinality(kept \cup recalled) = Cardinality(kept) + Cardinality(recalled) - 0
    BY <1>9, <1>10, FS_Union, FS_EmptySet
  <2>2. Cardinality((kept \cup recalled) \cup leased) = Cardinality(kept \cup recalled) + Cardinality(leased) - 0
    BY <1>9, <1>10, FS_Union, FS_EmptySet
  <2>3. Cardinality(kept) \in Nat /\ Cardinality(recalled) \in Nat /\ Cardinality(leased) \in Nat
    BY <1>9, FS_CardinalityType
  <2>. QED  BY <2>1, <2>2, <2>3
<1>. QED  BY <1>1, <1>8, <1>11 DEF begun, leased

-----------------------------------------------------------------------------
(* What is told and counted. *)

\* For any number of tasks and rules, the runs of a task's hooks are one of each entry of
\* the list that its one notification read which asks for the status told, whatever is
\* forced, added or removed meanwhile (task_hooks.rs:41-47, 115-145);
\* for any graces, two changes of health are the grace of the second apart
\* (degrade.rs:76-80), whatever the ratio does in between; and for any number of calls and
\* any room in memory the admission of the pool counts no call twice, on record or by its
\* lease (quota.rs), and none that was not begun.
THEOREM NothingIsToldTwice == Spec => []OnceOnly
<1>1. Init => Told /\ Counts /\ Booked
  <2>1. Init => H!Init /\ D!Init /\ Q!Init
    BY DEF Init
  <2>2. H!Init => Told
    BY DEF H!Init, Told, H!FiredOnceForItsStatus
  <2>3. D!Init => Counts
    BY DEF D!Init, Counts, D!NeverFlaps
  <2> QED
    BY <2>1, <2>2, <2>3, InitBooked
<1>2. Told /\ Counts /\ Booked /\ [Next]_<<which, StoresVars, ProjectVars, TextVars>>
        => Told' /\ Counts' /\ Booked'
  <2>1. [Next]_<<which, StoresVars, ProjectVars, TextVars>>
          => [H!Next]_HookVars /\ [D!Next]_HealthVars /\ [Q!Next]_QuotaVars
    BY DEF Next, ProjectNext, ProjectVars
  <2> QED
    BY <2>1, StepTold, StepCounts, StepBooked
<1>3. Told /\ Counts /\ Booked => OnceOnly
  BY BookedOnce DEF Told, Counts, OnceOnly, H!FiredOnceForItsStatus, D!NeverFlaps
<1> QED
  BY <1>1, <1>2, <1>3, PTL DEF Spec

-----------------------------------------------------------------------------
(* An update. *)

FileOf == [version : Nat, whole : BOOLEAN, runs : BOOLEAN]
RunOf == [at : {"idle", "replace", "copy", "rename", "chmod"}, as : Nat, next : Nat \ {0},
          has : SUBSET U!Places, new : FileOf, old : [U!Places -> FileOf],
          told : {"nothing", "latest", "updated", "failed"}]

\* An update that is under way is at a binary, and the file that it copies, has copied or
\* has put in place is its own.
Replacing(r, files, copied) ==
    /\ r.next \in U!Places /\ r.new.whole = TRUE /\ r.new.version > 0 /\ r.told = "nothing"
    /\ r.at # "replace" => r.next \in r.has
    /\ r.at = "copy" => copied[r.next] = U!Cut(r.new)
    /\ r.at = "rename" => copied[r.next] = r.new
    /\ r.at = "chmod" => files[r.next] = r.new

Updated ==
    /\ latest \in Nat /\ latest > 0
    /\ installed \in [U!Places -> FileOf] /\ tmp \in [U!Places -> FileOf]
    /\ run \in [Updaters -> RunOf]
    /\ U!InstalledWhole
    /\ \A u \in Updaters : run[u].at # "idle" => Replacing(run[u], installed, tmp)

\* One update at a time.
OneUpdate == \A u, v \in Updaters : u = v

\* What a run says of a binary.
Stands(r, b, file) ==
    /\ b < r.next /\ b \in r.has => file = U!Executable(r.new)
    /\ b > r.next \/ b \notin r.has => file = r.old[b]
    /\ b = r.next => file \in {r.old[b], r.new}

\* With one update it is enough to look at its own run.
LEMMA OneRun ==
    ASSUME OneUpdate, NEW u \in Updaters, run' \in [Updaters -> RunOf],
           latest' \in Nat, latest' > 0,
           installed' \in [U!Places -> FileOf], tmp' \in [U!Places -> FileOf],
           \A b \in U!Places : installed'[b].whole /\ Stands(run'[u], b, installed'[b]),
           run'[u].told = "updated" => run'[u].next > Binaries,
           run'[u].at # "idle" => Replacing(run'[u], installed', tmp')
    PROVE  Updated'
<1>1. \A v \in Updaters : v = u
  BY DEF OneUpdate
<1>2. U!InstalledWhole'
  BY <1>1 DEF U!InstalledWhole, Stands
<1>3. \A v \in Updaters : run'[v].at # "idle" => Replacing(run'[v], installed', tmp')
  BY <1>1
<1> QED
  BY <1>2, <1>3 DEF Updated

\* A file is as it says.
LEMMA FilesAreTyped ==
    /\ U!NoFile \in FileOf
    /\ \A f \in FileOf : /\ U!Cut(f) \in FileOf /\ U!Executable(f) \in FileOf
                         /\ U!Executable(f).whole = f.whole /\ U!Cut(f).version = f.version
    /\ \A v \in Nat, x \in BOOLEAN : /\ U!File(v, TRUE, x) \in FileOf
                                     /\ U!File(v, TRUE, x).whole = TRUE
                                     /\ U!File(v, TRUE, x).version = v
  BY DEF FileOf, U!NoFile, U!File, U!Cut, U!Executable

\* The fields of a run that begins.
LEMMA BeginsTyped ==
    ASSUME NEW step \in {"idle", "replace"}, NEW v \in Nat, NEW has \in SUBSET U!Places,
           NEW new \in FileOf, NEW said \in {"nothing", "latest"},
           installed \in [U!Places -> FileOf]
    PROVE  LET r == U!Begins(step, v, has, new, said)
           IN  /\ r \in RunOf /\ r.at = step /\ r.next = 1 /\ r.has = has
               /\ r.new = new /\ r.old = installed /\ r.told = said
  BY DEF U!Begins, RunOf

LEMMA InitUpdated == U!Init => Updated
<1> SUFFICES ASSUME U!Init PROVE Updated
  OBVIOUS
<1>1. latest = 1 /\ installed \in [U!Places -> FileOf] /\ tmp \in [U!Places -> FileOf]
  BY FilesAreTyped DEF U!Init
<1>2. \A b \in U!Places : installed[b].whole
  BY FilesAreTyped DEF U!Init
<1>3. U!NoFile \in FileOf /\ {} \in SUBSET U!Places
  BY FilesAreTyped
<1> DEFINE r == U!Begins("idle", 0, {}, U!NoFile, "nothing")
<1>4. /\ r \in RunOf /\ r.at = "idle" /\ r.next = 1 /\ r.has = {}
      /\ r.old = installed /\ r.told = "nothing"
  BY <1>1, <1>3, BeginsTyped
<1>5. run = [u \in Updaters |-> r]
  BY DEF U!Init
<1> HIDE DEF r
<1>6. U!InstalledWhole
  BY <1>2, <1>4, <1>5 DEF U!InstalledWhole
<1> QED
  BY <1>1, <1>4, <1>5, <1>6 DEF Updated

\* The run goes on to the next binary.
LEMMA Advances ==
    ASSUME Updated, OneUpdate, NEW u \in Updaters, run[u].at # "idle", U!Advance(u),
           UNCHANGED <<latest, tmp>>, installed' \in [U!Places -> FileOf],
           \A b \in U!Places : installed'[b].whole,
           \A b \in U!Places : b # run[u].next => installed'[b] = installed[b],
           installed'[run[u].next] = IF run[u].next \in run[u].has THEN U!Executable(run[u].new)
                                     ELSE run[u].old[run[u].next]
    PROVE  Updated'
<1> DEFINE r == run[u]
           last == r.next = Binaries
           to == [at |-> IF last THEN "idle" ELSE "replace", as |-> r.as, next |-> r.next + 1,
                  has |-> r.has, new |-> r.new, old |-> r.old,
                  told |-> IF ~last THEN r.told ELSE IF r.has = {} THEN "failed" ELSE "updated"]
<1>1. r \in RunOf /\ Replacing(r, installed, tmp) /\ r.next \in U!Places /\ r.next \in Nat /\ Binaries \in Nat
  BY StoresAssumption DEF Updated, Replacing, U!Places
<1>2. r.as \in Nat /\ r.has \in SUBSET U!Places /\ r.new \in FileOf /\ r.old \in [U!Places -> FileOf]
      /\ r.told = "nothing" /\ r.new.whole = TRUE /\ r.new.version > 0
  BY <1>1 DEF RunOf, Replacing
<1>3. run' = [run EXCEPT ![u] = to] /\ run \in [Updaters -> RunOf]
  BY <1>1 DEF U!Advance, Updated, RunOf
<1>4. to \in RunOf
  BY <1>1, <1>2 DEF RunOf
<1>5. run'[u] = to /\ run' \in [Updaters -> RunOf]
  BY <1>3, <1>4
<1>6. ASSUME NEW b \in U!Places PROVE Stands(to, b, installed'[b])
  <2>1. Stands(r, b, installed[b])
    BY DEF Updated, U!InstalledWhole, Stands
  <2>2. b \in Nat
    BY DEF U!Places
  <2>3. CASE b = r.next
    BY <1>1, <2>2, <2>3 DEF Stands
  <2>4. CASE b # r.next
    BY <1>1, <2>1, <2>2, <2>4 DEF Stands
  <2> QED
    BY <2>3, <2>4
<1>7. to.told = "updated" => to.next > Binaries
  BY <1>1, <1>2
<1>8. to.at # "idle" => Replacing(to, installed', tmp')
  BY <1>1, <1>2 DEF Replacing, U!Places
<1> HIDE DEF to
<1>9. Replacing(to, installed', tmp') => Replacing(run'[u], installed', tmp')
  BY <1>5 DEF Replacing
<1> QED
  BY <1>5, <1>6, <1>7, <1>8, <1>9, OneRun DEF Updated

\* The run goes on with the same binary.
LEMMA SameBinary ==
    ASSUME Updated, OneUpdate, NEW u \in Updaters, run[u].at # "idle",
           NEW step \in {"copy", "rename", "chmod"},
           run' = [run EXCEPT ![u].at = step], UNCHANGED latest, run[u].next \in run[u].has,
           NEW file \in FileOf,
           \/ /\ tmp' = [tmp EXCEPT ![run[u].next] = file] /\ UNCHANGED installed
              /\ \/ step = "copy" /\ file = U!Cut(run[u].new)
                 \/ step = "rename" /\ file = run[u].new
           \/ /\ installed' = [installed EXCEPT ![run[u].next] = run[u].new]
              /\ step = "chmod" /\ tmp' \in [U!Places -> FileOf]
    PROVE  Updated'
<1> DEFINE r == run[u]
           to == [at |-> step, as |-> r.as, next |-> r.next, has |-> r.has, new |-> r.new,
                  old |-> r.old, told |-> r.told]
<1>1. r \in RunOf /\ Replacing(r, installed, tmp) /\ r.next \in U!Places
  BY DEF Updated, Replacing
<1>2. r.new \in FileOf /\ r.new.whole = TRUE /\ r.new.version > 0 /\ r.told = "nothing"
  BY <1>1 DEF RunOf, Replacing
<1>3. run' = [run EXCEPT ![u] = to] /\ run \in [Updaters -> RunOf]
  <2>1. run \in [Updaters -> RunOf]
    BY DEF Updated
  <2>2. to = [r EXCEPT !.at = step]
    BY <1>1 DEF RunOf
  <2> QED
    BY <2>1, <2>2
<1>4. to \in RunOf
  BY <1>1 DEF RunOf
<1>5. run'[u] = to /\ run' \in [Updaters -> RunOf]
  BY <1>3, <1>4
<1>6. installed' \in [U!Places -> FileOf] /\ tmp' \in [U!Places -> FileOf]
  BY <1>1, <1>2 DEF Updated
<1>7. ASSUME NEW b \in U!Places PROVE installed'[b].whole /\ Stands(to, b, installed'[b])
  <2>1. installed[b].whole /\ Stands(r, b, installed[b]) /\ installed \in [U!Places -> FileOf]
    BY DEF Updated, U!InstalledWhole, Stands
  <2>2. Stands(to, b, installed[b])
    BY <2>1 DEF Stands
  <2>3. CASE b # r.next \/ UNCHANGED installed
    BY <2>1, <2>2, <2>3
  <2>4. CASE b = r.next /\ installed' = [installed EXCEPT ![r.next] = r.new]
    BY <1>1, <1>2, <2>1, <2>2, <2>4 DEF Stands, U!Places
  <2> QED
    BY <2>3, <2>4
<1>8. Replacing(to, installed', tmp')
  BY <1>1, <1>2, <1>6 DEF Replacing, Updated
<1> HIDE DEF to
<1>9. Replacing(run'[u], installed', tmp') /\ run'[u].told # "updated"
  BY <1>2, <1>5, <1>8 DEF Replacing
<1> QED
  BY <1>5, <1>6, <1>7, <1>9, OneRun DEF Updated

LEMMA StepUpdated ==
    ASSUME Updated, OneUpdate, [U!Next]_UpdateVars
    PROVE  Updated'
<1>1. CASE U!Release
  <2>1. latest' \in Nat /\ latest' > 0 /\ UNCHANGED <<installed, tmp, run>>
    BY <1>1 DEF U!Release, Updated
  <2> QED
    BY <2>1 DEF Updated, U!InstalledWhole, Replacing
<1>2. ASSUME NEW u \in Updaters, NEW channel \in {"stable", "nightly"}, U!Start(u, channel)
      PROVE  Updated'
  <2> DEFINE own == installed[1].version
  <2>1. PICK has \in SUBSET U!Places, runs \in BOOLEAN :
           \/ run' = [run EXCEPT ![u] = U!Begins("idle", own, {}, U!NoFile, "latest")]
           \/ run' = [run EXCEPT ![u] = U!Begins("replace", own, has, U!File(latest, TRUE, runs), "nothing")]
    BY <1>2 DEF U!Start
  <2>2. UNCHANGED <<latest, installed, tmp>> /\ installed \in [U!Places -> FileOf]
        /\ run \in [Updaters -> RunOf] /\ latest \in Nat /\ latest > 0
    BY <1>2 DEF U!Start, Updated
  <2>3. own \in Nat /\ 1 \in U!Places /\ {} \in SUBSET U!Places
    BY <2>2, StoresAssumption DEF FileOf, U!Places
  <2>4. \A b \in U!Places : installed[b].whole
    BY DEF Updated, U!InstalledWhole
  <2>5. ASSUME NEW r \in RunOf, run' = [run EXCEPT ![u] = r], r.next = 1, r.old = installed,
               r.told # "updated", r.at # "idle" => Replacing(r, installed, tmp)
        PROVE  Updated'
    <3>1. run'[u] = r /\ run' \in [Updaters -> RunOf]
      BY <2>2, <2>5
    <3>2. ASSUME NEW b \in U!Places PROVE installed'[b].whole /\ Stands(run'[u], b, installed'[b])
      <4>1. b \in Nat /\ b >= 1
        BY DEF U!Places
      <4>2. installed'[b] = r.old[b] /\ installed'[b].whole
        BY <2>2, <2>4, <2>5
      <4> QED
        BY <2>5, <3>1, <4>1, <4>2 DEF Stands
    <3>3. run'[u].at # "idle" => Replacing(run'[u], installed', tmp')
      BY <2>2, <2>5, <3>1 DEF Replacing
    <3> QED
      BY <2>2, <2>5, <3>1, <3>2, <3>3, OneRun DEF Updated
  <2>6. CASE run' = [run EXCEPT ![u] = U!Begins("idle", own, {}, U!NoFile, "latest")]
    <3> DEFINE r == U!Begins("idle", own, {}, U!NoFile, "latest")
    <3>1. r \in RunOf /\ r.at = "idle" /\ r.next = 1 /\ r.old = installed /\ r.told = "latest"
      BY <2>2, <2>3, FilesAreTyped, BeginsTyped
    <3>2. run' = [run EXCEPT ![u] = r]
      BY <2>6
    <3> HIDE DEF r
    <3> QED
      BY <2>5, <3>1, <3>2
  <2>7. CASE run' = [run EXCEPT ![u] = U!Begins("replace", own, has, U!File(latest, TRUE, runs), "nothing")]
    <3> DEFINE new == U!File(latest, TRUE, runs)
               r == U!Begins("replace", own, has, new, "nothing")
    <3>1. new \in FileOf /\ new.whole = TRUE /\ new.version > 0
      BY <2>2, FilesAreTyped
    <3>2. run' = [run EXCEPT ![u] = r]
      BY <2>7
    <3> HIDE DEF new
    <3>3. /\ r \in RunOf /\ r.at = "replace" /\ r.next = 1 /\ r.new = new
          /\ r.old = installed /\ r.told = "nothing"
      BY <2>2, <2>3, <3>1, BeginsTyped
    <3> HIDE DEF r
    <3>4. Replacing(r, installed, tmp)
      BY <2>3, <3>1, <3>3 DEF Replacing
    <3> QED
      BY <2>5, <3>2, <3>3, <3>4
  <2> QED
    BY <2>1, <2>6, <2>7
<1>3. ASSUME NEW u \in Updaters, U!Skip(u) PROVE Updated'
  <2>1. /\ run[u].at # "idle" /\ run[u].next \notin run[u].has /\ U!Advance(u)
        /\ UNCHANGED <<latest, installed, tmp>>
    BY <1>3 DEF U!Skip
  <2>2. run[u].next \in U!Places
    BY <2>1 DEF Updated, Replacing
  <2>3. installed[run[u].next] = run[u].old[run[u].next] /\ \A b \in U!Places : installed[b].whole
    BY <2>1, <2>2 DEF Updated, U!InstalledWhole
  <2>4. installed' \in [U!Places -> FileOf]
    BY <2>1 DEF Updated
  <2> QED
    BY <2>1, <2>3, <2>4, Advances
<1>4. ASSUME NEW u \in Updaters, U!Replace(u) PROVE Updated'
  <2>1. run[u].at = "replace" /\ run[u].next \in run[u].has
    BY <1>4 DEF U!Replace
  <2>2. run[u].new \in FileOf /\ U!Cut(run[u].new) \in FileOf /\ tmp \in [U!Places -> FileOf]
    BY FilesAreTyped DEF Updated, RunOf
  <2>3. \/ /\ installed' = [installed EXCEPT ![run[u].next] = run[u].new]
           /\ run' = [run EXCEPT ![u].at = "chmod"] /\ UNCHANGED <<latest, tmp>>
        \/ /\ tmp' = [tmp EXCEPT ![run[u].next] = U!Cut(run[u].new)]
           /\ run' = [run EXCEPT ![u].at = "copy"] /\ UNCHANGED <<latest, installed>>
    BY <1>4 DEF U!Replace
  <2> QED
    BY <2>1, <2>2, <2>3, SameBinary
<1>5. ASSUME NEW u \in Updaters, U!Copied(u) PROVE Updated'
  <2>1. run[u].at = "copy" /\ Replacing(run[u], installed, tmp) /\ run[u].new \in FileOf
    BY <1>5 DEF U!Copied, Updated, RunOf
  <2>2. tmp[run[u].next] # U!NoFile /\ run[u].next \in run[u].has
    <3>1. tmp[run[u].next].version = run[u].new.version /\ run[u].new.version > 0
      BY <2>1, FilesAreTyped DEF Replacing
    <3>2. U!NoFile.version = 0 /\ run[u].new.version \in Nat
      BY <2>1 DEF U!NoFile, U!File, FileOf
    <3> QED
      BY <2>1, <3>1, <3>2 DEF Replacing
  <2>3. /\ tmp' = [tmp EXCEPT ![run[u].next] = run[u].new] /\ UNCHANGED <<latest, installed>>
        /\ run' = [run EXCEPT ![u].at = "rename"]
    BY <1>5, <2>2 DEF U!Copied
  <2> QED
    BY <2>1, <2>2, <2>3, SameBinary
<1>6. ASSUME NEW u \in Updaters, U!Rename(u) PROVE Updated'
  <2>1. run[u].at = "rename" /\ Replacing(run[u], installed, tmp) /\ run[u].new \in FileOf
    BY <1>6 DEF U!Rename, Updated, RunOf
  <2>2. tmp[run[u].next] = run[u].new /\ run[u].next \in run[u].has /\ U!NoFile \in FileOf
    BY <2>1, FilesAreTyped DEF Replacing
  <2>3. /\ installed' = [installed EXCEPT ![run[u].next] = run[u].new]
        /\ tmp' = [tmp EXCEPT ![run[u].next] = U!NoFile]
        /\ run' = [run EXCEPT ![u].at = "chmod"] /\ UNCHANGED latest
    BY <1>6, <2>2 DEF U!Rename
  <2>4. tmp' \in [U!Places -> FileOf]
    BY <2>2, <2>3 DEF Updated
  <2> QED
    BY <2>1, <2>2, <2>3, <2>4, SameBinary
<1>7. ASSUME NEW u \in Updaters, U!SetPermissions(u) PROVE Updated'
  <2>1. /\ run[u].at = "chmod" /\ Replacing(run[u], installed, tmp) /\ run[u].new \in FileOf
        /\ installed \in [U!Places -> FileOf]
    BY <1>7 DEF U!SetPermissions, Updated, RunOf
  <2>2. /\ installed[run[u].next] = run[u].new /\ run[u].next \in run[u].has
        /\ run[u].next \in U!Places /\ run[u].new.whole = TRUE
    BY <2>1 DEF Replacing
  <2>3. /\ installed' = [installed EXCEPT ![run[u].next] = U!Executable(run[u].new)]
        /\ U!Advance(u) /\ UNCHANGED <<latest, tmp>>
    BY <1>7, <2>2 DEF U!SetPermissions
  <2>4. U!Executable(run[u].new) \in FileOf /\ U!Executable(run[u].new).whole = TRUE
    BY <2>1, <2>2, FilesAreTyped
  <2>5. \A b \in U!Places : installed[b].whole
    BY DEF Updated, U!InstalledWhole
  <2>6. /\ installed' \in [U!Places -> FileOf]
        /\ \A b \in U!Places : installed'[b].whole
        /\ \A b \in U!Places : b # run[u].next => installed'[b] = installed[b]
        /\ installed'[run[u].next] = U!Executable(run[u].new)
    BY <2>1, <2>2, <2>3, <2>4, <2>5
  <2> QED
    BY <2>1, <2>2, <2>3, <2>6, Advances
<1>8. ASSUME NEW u \in Updaters, U!Ends(u) PROVE Updated'
  <2> DEFINE r == run[u]
             to == U!Failed(r)
  <2>1. r \in RunOf /\ run \in [Updaters -> RunOf]
    BY DEF Updated
  <2>2. run' = [run EXCEPT ![u] = to] /\ UNCHANGED <<latest, installed, tmp>>
    BY <1>8 DEF U!Ends
  <2>3. /\ to \in RunOf /\ to.at = "idle" /\ to.told = "failed"
        /\ to.next = r.next /\ to.has = r.has /\ to.new = r.new /\ to.old = r.old
    BY <2>1 DEF U!Failed, RunOf
  <2> HIDE DEF to
  <2>4. run'[u] = to /\ run' \in [Updaters -> RunOf]
    BY <2>1, <2>2, <2>3
  <2>5. ASSUME NEW b \in U!Places PROVE installed'[b].whole /\ Stands(to, b, installed'[b])
    BY <2>2, <2>3 DEF Updated, U!InstalledWhole, Stands
  <2> QED
    BY <2>2, <2>3, <2>4, <2>5, OneRun DEF Updated
<1>9. CASE UNCHANGED UpdateVars
  BY <1>9 DEF UpdateVars, Updated, U!InstalledWhole, Replacing
<1> QED
  BY <1>1, <1>2, <1>3, <1>4, <1>5, <1>6, <1>7, <1>8, <1>9 DEF U!Next

LEMMA UpdatedIsWhole == Updated => U!InstalledWhole
  BY DEF Updated

-----------------------------------------------------------------------------
(* A backup and its import. *)

Copies == [0..MaxSeconds -> B!Contents]
ArchiveOf == [pass : {"right", "wrong", "empty"}, files : [BackedUp -> B!Contents],
              secrets : [{"k1"} -> B!Contents]]
ImportOf == [dry : BOOLEAN, left : SUBSET (BackedUp \cup Unsafe), file : BackedUp \cup {None},
             secrets : BOOLEAN, ok : SUBSET (BackedUp \cup Unsafe \cup {"k1"}),
             failed : SUBSET (BackedUp \cup Unsafe \cup {"k1"}), replaced : SUBSET BackedUp,
             had : [BackedUp -> B!Contents], late : SUBSET BackedUp, touched : SUBSET BackedUp]

\* Nothing that is excluded is read, nothing excluded is in the archive.
Archived ==
    /\ ring \in [{"k1"} -> B!Contents]
    /\ reading # None =>
          /\ reading \in [pass : {"right", "wrong", "empty"}, left : SUBSET BackedUp,
                          files : [BackedUp -> B!Contents]]
          /\ \A f \in Excluded : reading.files[f] = None
    /\ archive # None => /\ archive \in ArchiveOf
                         /\ \A f \in Excluded : archive.files[f] = None

\* Some copy of a file has a text.
Has(saved, x) == \E n \in 0..MaxSeconds : saved[n] = x

\* Of an import that writes: the file it is about to replace has a copy of what it says,
\* unless it was written since; one that it reports is that of the archive, unless it was
\* written since; what it replaced has a copy, and is left no more.
Restoring(m, files, keychain, from, saved) ==
    /\ m.file # None => /\ m.file \in m.left
                        /\ \/ m.file \in m.late \/ files[m.file] = None
                           \/ Has(saved[m.file], files[m.file])
    /\ \A f \in BackedUp : f \in m.ok => f \in m.replaced /\ (files[f] = from.files[f] \/ f \in m.touched)
    /\ \A f \in BackedUp : f \in m.replaced => f \notin m.left
    /\ \A f \in BackedUp : m.had[f] # None => f \in m.replaced /\ (f \in m.late \/ Has(saved[f], m.had[f]))
    /\ "k1" \in m.ok => m.secrets /\ keychain["k1"] = from.secrets["k1"]

Restorable ==
    /\ Archived
    /\ disk \in [BackedUp -> B!Contents] /\ copies \in [BackedUp -> Copies]
    /\ second \in 0..MaxSeconds
    /\ import # None => /\ reading = None /\ archive # None
                        /\ import \in ImportOf
                        /\ ~import.dry => Restoring(import, disk, ring, archive, copies)

LEMMA InitRestorable == B!Init => Restorable
<1> SUFFICES ASSUME B!Init PROVE Restorable
  OBVIOUS
<1>1. None \in B!Contents /\ MaxSeconds \in Nat
  BY StoresAssumption DEF B!Contents
<1>2. [n \in 0..MaxSeconds |-> None] \in Copies
  BY <1>1 DEF Copies
<1> QED
  BY <1>1, <1>2 DEF B!Init, Restorable, Archived

\* What an import says of an entry changes nothing else of it.
LEMMA OneReported ==
    ASSUME NEW m \in ImportOf, NEW x \in BackedUp \cup Unsafe, NEW good \in BOOLEAN
    PROVE  LET to == B!Reports(m, x, good)
           IN  /\ to \in ImportOf /\ to.dry = m.dry /\ to.had = m.had /\ to.secrets = m.secrets
               /\ to.replaced = m.replaced /\ to.late = m.late /\ to.touched = m.touched
               /\ to.left = m.left \ {x} /\ to.file = None
               /\ to.ok = IF good THEN m.ok \cup {x} ELSE m.ok
<1>1. m.left \ {x} \in SUBSET (BackedUp \cup Unsafe)
  BY DEF ImportOf
<1> QED
  BY <1>1 DEF ImportOf, B!Reports

LEMMA StepAddFile ==
    ASSUME Restorable, NEW f \in BackedUp, B!AddFile(f)
    PROVE  Restorable'
<1> DEFINE files == [reading.files EXCEPT ![f] = IF f \in Excluded THEN None ELSE disk[f]]
<1>1. /\ reading # None /\ import = None
      /\ UNCHANGED <<disk, ring, locked, archive, import, copies, second>>
  BY DEF B!AddFile, Restorable
<1>2. Archived /\ disk \in [BackedUp -> B!Contents] /\ None \in B!Contents
  BY DEF Restorable, B!Contents
<1>3. /\ reading \in [pass : {"right", "wrong", "empty"}, left : SUBSET BackedUp,
                      files : [BackedUp -> B!Contents]]
      /\ \A g \in Excluded : reading.files[g] = None
  BY <1>1, <1>2 DEF Archived
<1>4. reading' = [reading EXCEPT !.left = @ \ {f}, !.files = files]
  BY <1>3 DEF B!AddFile
<1>5. files \in [BackedUp -> B!Contents] /\ \A g \in Excluded : files[g] = None
  BY <1>2, <1>3, StoresAssumption
<1> HIDE DEF files
<1>6. /\ reading' \in [pass : {"right", "wrong", "empty"}, left : SUBSET BackedUp,
                       files : [BackedUp -> B!Contents]]
      /\ reading'.files = files
  BY <1>3, <1>4, <1>5
<1>7. Archived'
  BY <1>1, <1>2, <1>5, <1>6 DEF Archived
<1> QED
  BY <1>1, <1>7 DEF Restorable

\* The copies of one file change, by one that has its text.
LEMMA OneCopied ==
    ASSUME copies \in [BackedUp -> Copies], disk \in [BackedUp -> B!Contents],
           second \in 0..MaxSeconds, NEW f \in BackedUp, copies' = B!Copied(f)
    PROVE  /\ copies' \in [BackedUp -> Copies]
           /\ \A g \in BackedUp : g # f => copies'[g] = copies[g]
           /\ disk[f] # None => Has(copies'[f], disk[f])
<1>1. CASE disk[f] = None
  BY <1>1 DEF B!Copied
<1>2. CASE disk[f] # None
  <2>1. [copies[f] EXCEPT ![second] = disk[f]] \in Copies
    BY DEF Copies
  <2>2. copies' = [copies EXCEPT ![f] = [copies[f] EXCEPT ![second] = disk[f]]]
    BY <1>2 DEF B!Copied
  <2>3. copies'[f][second] = disk[f]
    BY <2>2 DEF Copies
  <2> QED
    BY <2>1, <2>2, <2>3 DEF Has
<1> QED
  BY <1>1, <1>2

LEMMA StepCopyFile ==
    ASSUME Restorable, NEW f \in BackedUp, B!CopyFile(f)
    PROVE  Restorable'
<1>0. /\ import # None /\ import \in ImportOf /\ f \in import.left /\ ~import.dry
      /\ import.file = None /\ reading = None /\ archive # None
      /\ UNCHANGED <<disk, ring, locked, archive, reading, second>>
  BY DEF B!CopyFile, Restorable, B!Same
<1>1. Restoring(import, disk, ring, archive, copies)
  BY <1>0 DEF Restorable
<1>2. /\ disk \in [BackedUp -> B!Contents] /\ copies \in [BackedUp -> Copies]
      /\ second \in 0..MaxSeconds /\ Archived
  BY DEF Restorable
<1>3. f # None
  BY StoresAssumption
<1>4. Archived'
  BY <1>0, <1>2 DEF Archived
<1>5. CASE copies' = B!Copied(f) /\ import' = [import EXCEPT !.file = f]
  <2>1. /\ copies' \in [BackedUp -> Copies]
        /\ \A g \in BackedUp : g # f => copies'[g] = copies[g]
        /\ disk[f] # None => Has(copies'[f], disk[f])
    BY <1>2, <1>5, OneCopied
  <2>2. /\ import' \in ImportOf /\ import'.file = f /\ import'.left = import.left
        /\ import'.ok = import.ok /\ import'.replaced = import.replaced
        /\ import'.had = import.had /\ import'.late = import.late /\ import'.dry = import.dry
        /\ import'.touched = import.touched /\ import'.secrets = import.secrets
    BY <1>0, <1>5 DEF ImportOf
  <2>3. ASSUME NEW g \in BackedUp, import.had[g] # None
        PROVE  g \in import.replaced /\ (g \in import.late \/ Has(copies'[g], import.had[g]))
    BY <1>0, <1>1, <2>1, <2>3 DEF Restoring
  <2>4. Restoring(import', disk', ring', archive', copies')
    BY <1>0, <1>1, <2>1, <2>2, <2>3 DEF Restoring
  <2> QED
    BY <1>0, <1>2, <1>4, <2>1, <2>2, <2>4 DEF Restorable
<1>6. CASE UNCHANGED copies /\ import' = B!Reports(import, f, FALSE)
  <2>1. /\ import' \in ImportOf /\ import'.file = None /\ import'.left = import.left \ {f}
        /\ import'.ok = import.ok /\ import'.replaced = import.replaced
        /\ import'.had = import.had /\ import'.late = import.late /\ import'.dry = import.dry
        /\ import'.touched = import.touched /\ import'.secrets = import.secrets
    BY <1>0, <1>6, OneReported
  <2>2. Restoring(import', disk', ring', archive', copies')
    BY <1>0, <1>1, <1>6, <2>1 DEF Restoring
  <2> QED
    BY <1>0, <1>2, <1>4, <1>6, <2>1, <2>2 DEF Restorable
<1> QED
  BY <1>5, <1>6 DEF B!CopyFile

LEMMA StepRestoreFile ==
    ASSUME Restorable, NEW f \in BackedUp, B!RestoreFile(f)
    PROVE  Restorable'
<1>0. /\ import # None /\ import \in ImportOf /\ import.file = f /\ f # None
      /\ reading = None /\ archive # None /\ archive \in ArchiveOf
      /\ UNCHANGED <<ring, locked, archive, reading, second, copies>>
  BY StoresAssumption DEF B!RestoreFile, Restorable, Archived, B!Same
<1>1. ~import.dry => Restoring(import, disk, ring, archive, copies)
  BY <1>0 DEF Restorable
<1>2. /\ disk \in [BackedUp -> B!Contents] /\ copies \in [BackedUp -> Copies]
      /\ second \in 0..MaxSeconds /\ Archived
  BY DEF Restorable
<1>3. None \in B!Contents /\ archive.files[f] \in B!Contents /\ disk[f] \in B!Contents
  BY <1>0, <1>2 DEF B!Contents, ArchiveOf
<1>4. Archived'
  BY <1>0, <1>2 DEF Archived
<1> DEFINE m == B!Replaces(f)
<1>5. /\ m \in ImportOf /\ m.dry = import.dry /\ m.left = import.left /\ m.ok = import.ok
      /\ m.late = import.late /\ m.touched = import.touched /\ m.secrets = import.secrets
      /\ m.replaced = import.replaced \cup {f}
      /\ m.had = [import.had EXCEPT ![f] = disk[f]]
  <2>1. /\ import.replaced \cup {f} \in SUBSET BackedUp
        /\ [import.had EXCEPT ![f] = disk[f]] \in [BackedUp -> B!Contents]
    BY <1>0, <1>3 DEF ImportOf
  <2> QED
    BY <1>0, <2>1 DEF ImportOf, B!Replaces
<1> HIDE DEF m
<1>6. CASE UNCHANGED disk /\ import' = B!Reports(import, f, FALSE)
  <2>1. /\ import' \in ImportOf /\ import'.file = None /\ import'.left = import.left \ {f}
        /\ import'.ok = import.ok /\ import'.replaced = import.replaced
        /\ import'.had = import.had /\ import'.late = import.late /\ import'.dry = import.dry
        /\ import'.touched = import.touched /\ import'.secrets = import.secrets
    <3>1. import \in ImportOf /\ f \in BackedUp \cup Unsafe /\ FALSE \in BOOLEAN
      BY <1>0
    <3> HIDE DEF ImportOf
    <3> QED
      BY <1>6, <3>1, OneReported
  <2>2. ~import'.dry => Restoring(import', disk', ring', archive', copies')
    BY <1>0, <1>1, <1>6, <2>1 DEF Restoring
  <2> QED
    BY <1>0, <1>2, <1>4, <1>6, <2>1, <2>2 DEF Restorable
<1>7. ASSUME NEW x \in B!Contents, NEW good \in BOOLEAN, good => x = archive.files[f],
             disk' = [disk EXCEPT ![f] = x], import' = B!Reports(m, f, good)
      PROVE  Restorable'
  <2>1. /\ import' \in ImportOf /\ import'.file = None /\ import'.left = import.left \ {f}
        /\ import'.ok = (IF good THEN import.ok \cup {f} ELSE import.ok)
        /\ import'.replaced = import.replaced \cup {f}
        /\ import'.had = [import.had EXCEPT ![f] = disk[f]]
        /\ import'.late = import.late /\ import'.dry = import.dry
        /\ import'.touched = import.touched /\ import'.secrets = import.secrets
    BY <1>5, <1>7, OneReported
  <2>2. disk' \in [BackedUp -> B!Contents] /\ disk'[f] = x
        /\ \A g \in BackedUp : g # f => disk'[g] = disk[g]
    BY <1>2, <1>7
  <2>3. ASSUME ~import'.dry PROVE Restoring(import', disk', ring', archive', copies')
    <3>1. Restoring(import, disk, ring, archive, copies) /\ import.had \in [BackedUp -> B!Contents]
      BY <1>0, <1>1, <2>1, <2>3 DEF ImportOf
    <3>2. ASSUME NEW g \in BackedUp, import'.had[g] # None
          PROVE  g \in import'.replaced /\ (g \in import'.late \/ Has(copies'[g], import'.had[g]))
      <4>1. CASE g = f
        BY <1>0, <2>1, <3>1, <3>2, <4>1 DEF Restoring
      <4>2. CASE g # f
        BY <1>0, <2>1, <3>1, <3>2, <4>2 DEF Restoring
      <4> QED
        BY <4>1, <4>2
    <3>3. ASSUME NEW g \in BackedUp, g \in import'.ok
          PROVE  g \in import'.replaced /\ (disk'[g] = archive'.files[g] \/ g \in import'.touched)
      <4>1. f \notin import.ok
        BY <1>0, <3>1 DEF Restoring
      <4>2. CASE g = f
        BY <1>0, <1>7, <2>1, <2>2, <3>3, <4>1, <4>2
      <4>3. CASE g # f
        BY <1>0, <2>1, <2>2, <3>1, <3>3, <4>3 DEF Restoring
      <4> QED
        BY <4>2, <4>3
    <3>4. \A g \in BackedUp : g \in import'.replaced => g \notin import'.left
      BY <2>1, <3>1 DEF Restoring
    <3>5. "k1" \in import'.ok => import'.secrets /\ ring'["k1"] = archive'.secrets["k1"]
      BY <1>0, <2>1, <3>1, StoresAssumption DEF Restoring
    <3> QED
      BY <2>1, <3>2, <3>3, <3>4, <3>5 DEF Restoring
  <2> QED
    BY <1>0, <1>2, <1>4, <2>1, <2>2, <2>3 DEF Restorable
<1> QED
  BY <1>3, <1>6, <1>7 DEF B!RestoreFile, m

\* Somebody else writes a file.
LEMMA StepWrite ==
    ASSUME Restorable, NEW f \in BackedUp, NEW x \in Texts, B!Write(f, x)
    PROVE  Restorable'
<1>1. /\ disk' = [disk EXCEPT ![f] = x]
      /\ UNCHANGED <<ring, locked, archive, reading, copies, second>>
  BY DEF B!Write
<1>2. /\ disk \in [BackedUp -> B!Contents] /\ copies \in [BackedUp -> Copies]
      /\ second \in 0..MaxSeconds /\ Archived
  BY DEF Restorable
<1>3. /\ disk' \in [BackedUp -> B!Contents] /\ disk'[f] = x
      /\ \A g \in BackedUp : g # f => disk'[g] = disk[g]
  BY <1>1, <1>2 DEF B!Contents
<1>4. Archived'
  BY <1>1, <1>2 DEF Archived
<1>5. CASE import = None
  BY <1>1, <1>2, <1>3, <1>4, <1>5 DEF B!Write, Restorable
<1>6. CASE import # None
  <2>1. /\ reading = None /\ archive # None /\ import \in ImportOf
        /\ ~import.dry => Restoring(import, disk, ring, archive, copies)
    BY <1>6 DEF Restorable
  <2> DEFINE late == IF f = import.file THEN import.late \cup {f} ELSE import.late
             touched == IF f \in import.replaced THEN import.touched \cup {f} ELSE import.touched
  <2>2. import' = [import EXCEPT !.late = late, !.touched = touched]
    BY <1>6, <2>1 DEF B!Write
  <2>3. late \in SUBSET BackedUp /\ touched \in SUBSET BackedUp
    BY <2>1 DEF ImportOf
  <2>4. /\ f = import.file => f \in late
        /\ import.late \subseteq late
        /\ f \in import.replaced => f \in touched
        /\ import.touched \subseteq touched
    OBVIOUS
  <2> HIDE DEF late, touched
  <2>5. /\ import' \in ImportOf /\ import'.late = late /\ import'.touched = touched
        /\ import'.file = import.file /\ import'.left = import.left /\ import'.ok = import.ok
        /\ import'.replaced = import.replaced /\ import'.had = import.had
        /\ import'.dry = import.dry /\ import'.secrets = import.secrets
    BY <2>1, <2>2, <2>3 DEF ImportOf
  <2>6. ASSUME ~import.dry PROVE Restoring(import', disk', ring', archive', copies')
    <3>1. Restoring(import, disk, ring, archive, copies)
      BY <2>1, <2>6
    <3>2. import'.file # None =>
             /\ import'.file \in import'.left
             /\ \/ import'.file \in import'.late \/ disk'[import'.file] = None
                \/ Has(copies'[import'.file], disk'[import'.file])
      <4>1. import.file # None => import.file \in BackedUp
        BY <2>1 DEF ImportOf
      <4> QED
        BY <1>1, <1>3, <2>4, <2>5, <3>1, <4>1 DEF Restoring
    <3>3. \A g \in BackedUp : g \in import'.ok =>
             g \in import'.replaced /\ (disk'[g] = archive'.files[g] \/ g \in import'.touched)
      BY <1>1, <1>3, <2>4, <2>5, <3>1 DEF Restoring
    <3> QED
      BY <1>1, <2>4, <2>5, <3>1, <3>2, <3>3 DEF Restoring
  <2> QED
    BY <1>1, <1>2, <1>3, <1>4, <1>6, <2>1, <2>5, <2>6 DEF Restorable
<1> QED
  BY <1>5, <1>6

LEMMA StepRestorable ==
    ASSUME Restorable, [B!Next]_BackupVars
    PROVE  Restorable'
<1>0. /\ disk \in [BackedUp -> B!Contents] /\ copies \in [BackedUp -> Copies]
      /\ second \in 0..MaxSeconds /\ Archived
  BY DEF Restorable
<1>1. ASSUME NEW f \in BackedUp, B!AddFile(f) PROVE Restorable'
  BY <1>1, StepAddFile
<1>2. ASSUME NEW f \in BackedUp, B!RestoreFile(f) PROVE Restorable'
  BY <1>2, StepRestoreFile
<1>3. ASSUME NEW f \in BackedUp, NEW x \in Texts, B!Write(f, x) PROVE Restorable'
  BY <1>3, StepWrite
<1>4. ASSUME NEW x \in BackedUp \cup Unsafe, B!SkipEntry(x) PROVE Restorable'
  <2>1. /\ import # None /\ import \in ImportOf /\ x \in import.left
        /\ x \in Unsafe \/ import.dry
        /\ import.file = None /\ reading = None /\ archive # None
        /\ UNCHANGED <<disk, ring, locked, archive, reading, copies, second>>
        /\ import' = B!Reports(import, x, x \notin Unsafe)
    BY <1>4 DEF B!SkipEntry, B!Same, Restorable
  <2>2. /\ import' \in ImportOf /\ import'.dry = import.dry /\ import'.secrets = import.secrets
        /\ import'.had = import.had /\ import'.left = import.left \ {x}
        /\ import'.replaced = import.replaced /\ import'.late = import.late
        /\ import'.touched = import.touched /\ import'.file = None
        /\ ~import.dry => import'.ok = import.ok
    <3>2. \/ x \in Unsafe /\ import' = B!Reports(import, x, FALSE)
          \/ import.dry /\ import' = B!Reports(import, x, TRUE)
      BY <2>1
    <3>3. CASE x \in Unsafe /\ import' = B!Reports(import, x, FALSE)
      <4>1. FALSE \in BOOLEAN /\ import \in ImportOf
        BY <2>1
      <4> HIDE DEF ImportOf
      <4> QED
        BY <3>3, <4>1, OneReported
    <3>4. CASE import.dry /\ import' = B!Reports(import, x, TRUE)
      <4>1. TRUE \in BOOLEAN /\ import \in ImportOf
        BY <2>1
      <4> HIDE DEF ImportOf
      <4> QED
        BY <3>4, <4>1, OneReported
    <3> QED
      BY <3>2, <3>3, <3>4
  <2>3. ~import.dry => Restoring(import', disk', ring', archive', copies')
    <3> SUFFICES ASSUME ~import.dry PROVE Restoring(import', disk', ring', archive', copies')
      OBVIOUS
    <3>1. Restoring(import, disk, ring, archive, copies)
      BY <2>1 DEF Restorable
    <3> QED
      BY <2>1, <2>2, <3>1 DEF Restoring
  <2> QED
    BY <1>0, <2>1, <2>2, <2>3 DEF Restorable, Archived
<1>5. ASSUME NEW p \in {"right", "wrong", "empty"}, NEW q \in {"right", "wrong", "empty"},
             B!ExportAsks(p, q)
      PROVE  Restorable'
  <2>1. import = None /\ UNCHANGED <<disk, ring, archive, import, copies, second>>
    BY <1>5 DEF B!ExportAsks
  <2>2. Archived'
    BY <1>0, <1>5, StoresAssumption DEF B!ExportAsks, Archived, B!Contents
  <2> QED
    BY <1>0, <2>1, <2>2 DEF Restorable
<1>6. ASSUME NEW p \in {"right", "wrong"}, NEW dry \in BOOLEAN, NEW stray \in SUBSET Unsafe,
             B!ImportBegins(p, dry, stray)
      PROVE  Restorable'
  <2> DEFINE left == B!Present(archive.files) \cup stray
  <2>1. /\ archive # None /\ reading = None
        /\ UNCHANGED <<disk, ring, locked, archive, reading, copies, second>>
        /\ import' = [dry |-> dry, left |-> left, file |-> None, secrets |-> FALSE,
                      ok |-> {}, failed |-> {}, replaced |-> {},
                      had |-> [f \in BackedUp |-> None], late |-> {}, touched |-> {}]
    BY <1>6 DEF B!ImportBegins
  <2>2. left \in SUBSET (BackedUp \cup Unsafe)
    BY <1>0, <2>1 DEF B!Present, Archived, ArchiveOf
  <2> HIDE DEF left
  <2>3. /\ import' \in ImportOf /\ import'.ok = {} /\ import'.had = [f \in BackedUp |-> None]
        /\ import'.replaced = {} /\ import'.file = None
    BY <1>0, <2>1, <2>2 DEF ImportOf, B!Contents
  <2>4. Restoring(import', disk', ring', archive', copies')
    BY <2>1, <2>3 DEF Restoring
  <2> QED
    BY <1>0, <2>1, <2>3, <2>4 DEF Restorable, Archived
<1>7. CASE B!Lock
  BY <1>7 DEF B!Lock, Restorable, Archived
<1>8. CASE B!Tick
  <2>1. second' \in 0..MaxSeconds /\ UNCHANGED <<disk, ring, locked, archive, reading, import, copies>>
    <3>1. MaxSeconds \in Nat
      BY StoresAssumption
    <3>2. second \in 0..MaxSeconds
      BY <1>0
    <3>3. second < MaxSeconds /\ second' = second + 1
      BY <1>8 DEF B!Tick
    <3>4. second' \in 0..MaxSeconds
      BY <3>1, <3>2, <3>3
    <3> QED
      BY <1>8, <3>4 DEF B!Tick
  <2> QED
    BY <2>1 DEF Restorable, Archived
<1>9. CASE B!ExportEnds
  <2>1. import = None /\ UNCHANGED <<disk, ring, import, copies, second>>
    BY <1>9 DEF B!ExportEnds, Restorable
  <2> DEFINE secrets == IF locked THEN [s \in {"k1"} |-> None] ELSE ring
  <2>2. /\ reading # None /\ reading' = None
        /\ archive' = [pass |-> reading.pass, files |-> reading.files, secrets |-> secrets]
    BY <1>9 DEF B!ExportEnds
  <2>3. secrets \in [{"k1"} -> B!Contents]
    BY <1>0 DEF Archived, B!Contents
  <2> HIDE DEF secrets
  <2>4. /\ reading.pass \in {"right", "wrong", "empty"}
        /\ reading.files \in [BackedUp -> B!Contents]
        /\ \A g \in Excluded : reading.files[g] = None
    BY <1>0, <2>2 DEF Archived
  <2>5. archive' \in ArchiveOf /\ archive'.files = reading.files
    BY <2>2, <2>3, <2>4 DEF ArchiveOf
  <2>6. Archived'
    BY <1>0, <2>1, <2>2, <2>4, <2>5 DEF Archived
  <2> QED
    BY <1>0, <2>1, <2>6 DEF Restorable
<1>10. CASE B!RestoreSecrets
  <2> DEFINE all == B!Present(archive.secrets)
             good == IF import.dry THEN all ELSE IF locked THEN {} ELSE all
  <2>1. /\ import # None /\ import \in ImportOf /\ ~import.secrets
        /\ reading = None /\ archive # None /\ archive \in ArchiveOf
        /\ UNCHANGED <<disk, locked, archive, reading, copies, second>>
    BY <1>10 DEF B!RestoreSecrets, Restorable, Archived
  <2>2. all \subseteq {"k1"} /\ good \subseteq {"k1"}
    BY <2>1 DEF ArchiveOf, B!Present
  <2>3. /\ import' = [import EXCEPT !.secrets = TRUE, !.ok = @ \cup good,
                                    !.failed = @ \cup (all \ good)]
        /\ ring' = IF import.dry THEN ring
                   ELSE [s \in {"k1"} |-> IF s \in good THEN archive.secrets[s] ELSE ring[s]]
    BY <1>10 DEF B!RestoreSecrets
  <2> HIDE DEF all, good
  <2>4. /\ import' \in ImportOf /\ import'.dry = import.dry /\ import'.had = import.had
        /\ import'.left = import.left /\ import'.secrets = TRUE /\ import'.ok = import.ok \cup good
        /\ import'.file = import.file /\ import'.replaced = import.replaced
        /\ import'.late = import.late /\ import'.touched = import.touched
    BY <2>1, <2>2, <2>3 DEF ImportOf
  <2>5. ring' \in [{"k1"} -> B!Contents]
    BY <1>0, <2>1, <2>3 DEF Archived, ArchiveOf
  <2>6. ~import.dry => Restoring(import', disk', ring', archive', copies')
    <3> SUFFICES ASSUME ~import.dry PROVE Restoring(import', disk', ring', archive', copies')
      OBVIOUS
    <3>1. Restoring(import, disk, ring, archive, copies)
      BY <2>1 DEF Restorable
    <3>2. "k1" \notin import.ok
      BY <2>1, <3>1 DEF Restoring
    <3>3. "k1" \in import'.ok => ring'["k1"] = archive'.secrets["k1"]
      BY <2>1, <2>3, <2>4, <3>2
    <3>4. \A f \in BackedUp : f \in import'.ok => f \in import.ok
      BY <2>2, <2>4, StoresAssumption
    <3> QED
      BY <2>1, <2>4, <3>1, <3>3, <3>4 DEF Restoring
  <2> QED
    BY <1>0, <2>1, <2>4, <2>5, <2>6 DEF Restorable, Archived
<1>11. CASE B!ImportEnds
  BY <1>11 DEF B!ImportEnds, Restorable, Archived
<1>13. ASSUME NEW f \in BackedUp, B!CopyFile(f) PROVE Restorable'
  BY <1>13, StepCopyFile
<1>12. CASE UNCHANGED BackupVars
  BY <1>12 DEF BackupVars, Restorable, Archived
<1> QED
  BY <1>1, <1>2, <1>3, <1>4, <1>5, <1>6, <1>7, <1>8, <1>9, <1>10, <1>11, <1>12, <1>13 DEF B!Next

LEMMA RestorableIsReported == Restorable => B!RestoredAsReported
<1> SUFFICES ASSUME Restorable, import # None, ~import.dry PROVE B!RestoredAsReported
  BY DEF B!RestoredAsReported
<1>1. Restoring(import, disk, ring, archive, copies) /\ archive # None /\ import \in ImportOf
  BY DEF Restorable
<1>2. \A f \in Excluded : archive.files[f] = None
  BY <1>1 DEF Restorable, Archived
<1>3. \A f \in BackedUp : import.had[f] = None \/ B!Saved(f, import.had[f]) \/ f \in import.late
  BY <1>1 DEF Restoring, Has, B!Saved
<1>4. \A f \in BackedUp \cap import.ok : disk[f] = archive.files[f] \/ f \in import.touched
  BY <1>1 DEF Restoring
<1>5. import.secrets => \A s \in {"k1"} \cap import.ok : ring[s] = archive.secrets[s]
  BY <1>1 DEF Restoring
<1> QED
  BY <1>2, <1>3, <1>4, <1>5 DEF B!RestoredAsReported

\* With one update at a time, for any number of binaries and releases, whichever of them an
\* archive has, and wherever the update is killed: every binary is whole, those of the
\* archive before the one it is at are the new ones, the others are what they were
\* (update.rs:156-187).  For any set of files, whatever fails and whatever others write
\* meanwhile: what an import says it restored is what the archive holds, nothing excluded
\* is in it, and a text that it replaced has a copy, but for a file that was written between
\* its copy and its replacement (backup.rs:150-230).
THEOREM FilesAreWhole ==
    ASSUME OneUpdate
    PROVE  Spec => []FilesWhole
<1>1. Init => Updated /\ Restorable
  <2>1. Init => U!Init
    BY DEF Init
  <2>2. Init => B!Init
    BY DEF Init
  <2> QED
    BY <2>1, <2>2, InitUpdated, InitRestorable
<1>2. Updated /\ Restorable /\ [Next]_<<which, StoresVars, ProjectVars, TextVars>>
        => Updated' /\ Restorable'
  <2>1. [Next]_<<which, StoresVars, ProjectVars, TextVars>>
          => [U!Next]_UpdateVars /\ [B!Next]_BackupVars
    BY DEF Next, ProjectNext, ProjectVars
  <2> QED
    BY <2>1, StepUpdated, StepRestorable
<1>3. Updated /\ Restorable => FilesWhole
  BY UpdatedIsWhole, RestorableIsReported DEF FilesWhole
<1> QED
  BY <1>1, <1>2, <1>3, PTL DEF Spec

-----------------------------------------------------------------------------
(* Recursive functions, and induction over the positions of a text. *)

\* A set of numbers that is not empty has a least one.
LEMMA LeastNumber ==
    ASSUME NEW S \in SUBSET Nat, S # {}
    PROVE  \E x \in S : \A y \in S : x <= y
<1>1. \E x \in S : \A y \in S : <<y, x>> \notin OpToRel(<, Nat)
  BY WFMin, NatLessThanWellFounded
<1>2. \A x, y \in S : <<y, x>> \notin OpToRel(<, Nat) => x <= y
  BY DEF OpToRel
<1>. QED  BY <1>1, <1>2

\* A set that has a number whenever it has those before it, or those after it, has all.
LEMMA Upward ==
    ASSUME NEW n \in Nat, NEW S,
           \A i \in 0..n : (\A j \in 0..n : j < i => j \in S) => i \in S
    PROVE  0..n \subseteq S
<1>. DEFINE others == {i \in 0..n : i \notin S}
<1>. SUFFICES ASSUME others # {} PROVE FALSE
  OBVIOUS
<1>1. others \in SUBSET Nat
  OBVIOUS
<1>2. PICK x \in others : \A y \in others : x <= y
  <2>. HIDE DEF others
  <2>. QED  BY <1>1, LeastNumber
<1>3. \A j \in 0..n : j < x => j \in S
  BY <1>2
<1>. QED  BY <1>2, <1>3

LEMMA Downward ==
    ASSUME NEW n \in Nat, NEW S,
           \A i \in 0..n : (\A j \in 0..n : j > i => j \in S) => i \in S
    PROVE  0..n \subseteq S
<1>. DEFINE mirror == {i \in 0..n : n - i \in S}
<1>1. ASSUME NEW i \in 0..n, \A j \in 0..n : j < i => j \in mirror
      PROVE  i \in mirror
  <2>1. n - i \in 0..n
    OBVIOUS
  <2>2. ASSUME NEW j \in 0..n, j > n - i PROVE j \in S
    <3>1. n - j \in 0..n /\ n - j < i /\ n - (n - j) = j
      BY <2>2
    <3>2. n - j \in mirror
      BY <1>1, <3>1
    <3>. QED  BY <3>1, <3>2
  <2>3. n - i \in S
    BY <2>1, <2>2
  <2>. QED  BY <2>3
<1>2. 0..n \subseteq mirror
  <2>. HIDE DEF mirror
  <2>. QED  BY <1>1, Upward
<1>3. ASSUME NEW i \in 0..n PROVE i \in S
  <2>1. n - i \in 0..n /\ n - (n - i) = i
    OBVIOUS
  <2>2. n - i \in mirror
    BY <1>2, <2>1
  <2>. QED  BY <2>1, <2>2
<1>. QED  BY <1>3

\* A definition of functions of G by recursion: F is what a function becomes when the
\* definition is applied to it once, and looks at places of a smaller measure only.
Recursive(Dom, G, F, m, Top) ==
    /\ G # {} /\ \A f, g \in G : (\A d \in Dom : f[d] = g[d]) => f = g
    /\ F \in [G -> G]
    /\ m \in [Dom -> Nat] /\ Top \in Nat /\ \A d \in Dom : m[d] < Top
    /\ \A f, g \in G : \A d \in Dom :
           (\A c \in Dom : m[c] < m[d] => f[c] = g[c]) => F[f][d] = F[g][d]

\* Functions that agree everywhere are one.
LEMMA SameFunction ==
    ASSUME NEW Dom, NEW V
    PROVE  \A f, g \in [Dom -> V] : (\A d \in Dom : f[d] = g[d]) => f = g
  OBVIOUS

\* There is a function that the definition leaves as it is.
LEMMA Recursion ==
    ASSUME NEW Dom, NEW G, NEW F, NEW m, NEW Top, Recursive(Dom, G, F, m, Top)
    PROVE  \E f \in G : f = F[f]
<1>. USE DEF Recursive
<1>. DEFINE Good(f, k) == \A d \in Dom : m[d] < k => f[d] = F[f][d]
            S == {k \in 0..Top : \E f \in G : Good(f, k)}
<1>1. ASSUME NEW k \in 0..Top, \A j \in 0..Top : j < k => j \in S
      PROVE  k \in S
  <2>1. CASE k = 0
    <3>1. \A f \in G : Good(f, 0)
      OBVIOUS
    <3>2. PICK f \in G : TRUE
      OBVIOUS
    <3>. QED  BY <2>1, <3>1, <3>2
  <2>2. CASE k # 0
    <3>1. k - 1 \in S
      BY <1>1, <2>2
    <3>2. PICK f \in G : Good(f, k - 1)
      BY <3>1
    <3>3. F[f] \in G
      OBVIOUS
    <3>4. ASSUME NEW d \in Dom, m[d] < k PROVE F[f][d] = F[F[f]][d]
      <4>1. \A c \in Dom : m[c] < m[d] => f[c] = F[f][c]
        <5>. SUFFICES ASSUME NEW c \in Dom, m[c] < m[d] PROVE f[c] = F[f][c]
          OBVIOUS
        <5>1. m[c] \in Nat /\ m[d] \in Nat
          OBVIOUS
        <5>2. m[c] < k - 1
          BY <3>4, <5>1
        <5>. QED  BY <3>2, <5>2
      <4>. QED  BY <3>3, <4>1
    <3>5. Good(F[f], k)
      BY <3>4
    <3>. HIDE DEF Good
    <3>. QED  BY <3>3, <3>5
  <2>. QED  BY <2>1, <2>2
<1>2. Top \in S
  <2>. HIDE DEF S
  <2>1. 0..Top \subseteq S
    BY <1>1, Upward
  <2>. QED  BY <2>1
<1>3. PICK f \in G : Good(f, Top)
  BY <1>2
<1>4. \A d \in Dom : f[d] = F[f][d]
  BY <1>3
<1>5. F[f] \in G
  OBVIOUS
<1>7. f = F[f]
  BY <1>4, <1>5
<1>. QED  BY <1>7

\* What follows the rest of a string, from each position.
LEMMA StringsDefined ==
    ASSUME NEW t \in Seq(STRING)
    PROVE  LET n == Len(t)
               after == J!Strings(t)
           IN  \A j \in 1..(n + 1) :
                   /\ after[j] \in {0} \cup (j + 1)..(n + 1)
                   /\ after[j] = IF j > n THEN 0
                                 ELSE IF t[j] = "q" THEN j + 1
                                 ELSE IF t[j] # "b" THEN after[j + 1]
                                 ELSE IF j < n /\ t[j + 1] \in {"q", "b", "x"} THEN after[j + 2]
                                 ELSE 0
<1>. DEFINE n == Len(t)
            Dom == 1..(n + 1)
            Body(f, j) == IF j > n THEN 0
                          ELSE IF t[j] = "q" THEN j + 1
                          ELSE IF t[j] # "b" THEN f[j + 1]
                          ELSE IF j < n /\ t[j + 1] \in {"q", "b", "x"} THEN f[j + 2]
                          ELSE 0
            G == [Dom -> 0..(n + 1)]
            F == [f \in G |-> [j \in Dom |-> Body(f, j)]]
            m == [j \in Dom |-> n + 1 - j]
            Top == n + 1
            after == J!Strings(t)
<1>n. n \in Nat
  OBVIOUS
<1>. HIDE DEF n
<1>1. F \in [G -> G]
  <2>. SUFFICES ASSUME NEW f \in G, NEW j \in Dom PROVE Body(f, j) \in 0..(n + 1)
    OBVIOUS
  <2>. QED  BY <1>n
<1>2. m \in [Dom -> Nat] /\ Top \in Nat /\ \A j \in Dom : m[j] < Top
  BY <1>n
<1>3. ASSUME NEW f \in G, NEW g \in G, NEW j \in Dom, \A c \in Dom : m[c] < m[j] => f[c] = g[c]
      PROVE  F[f][j] = F[g][j]
  <2>1. j <= n => f[j + 1] = g[j + 1]
    BY <1>n, <1>3
  <2>2. j < n => f[j + 2] = g[j + 2]
    BY <1>n, <1>3
  <2>3. Body(f, j) = Body(g, j)
    BY <1>n, <2>1, <2>2
  <2>. HIDE DEF Body
  <2>. QED  BY <2>3
<1>4. G # {} /\ \A f, g \in G : (\A j \in Dom : f[j] = g[j]) => f = g
  <2>1. [j \in Dom |-> 0] \in G
    BY <1>n
  <2>. QED  BY <2>1, SameFunction
<1>5. PICK f \in G : f = F[f]
  <2>. HIDE DEF G, F, m, Dom, Top
  <2>1. Recursive(Dom, G, F, m, Top)
    BY <1>1, <1>2, <1>3, <1>4 DEF Recursive
  <2>. QED  BY <2>1, Recursion
<1>6. f = [j \in Dom |-> Body(f, j)]
  BY <1>5
<1>7. after = CHOOSE f_1 : f_1 = [j \in Dom |-> Body(f_1, j)]
  BY DEF J!Strings, n
<1>8. after = [j \in Dom |-> Body(after, j)]
  <2>. HIDE DEF Body, Dom, after
  <2>. QED  BY <1>6, <1>7
<1>9. \A j \in Dom : after[j] = Body(after, j)
  <2>. HIDE DEF Body, after
  <2>. QED  BY <1>8
<1>. HIDE DEF after
<1>. DEFINE S == {k \in 0..n : after[k + 1] \in {0} \cup (k + 2)..(n + 1)}
<1>10. ASSUME NEW k \in 0..n, \A l \in 0..n : l > k => l \in S
       PROVE  k \in S
  <2>1. k + 1 \in Dom /\ after[k + 1] = Body(after, k + 1)
    BY <1>9, <1>n
  <2>2. k + 1 <= n => after[k + 2] \in {0} \cup (k + 3)..(n + 1)
    <3>1. k + 1 <= n => k + 1 \in S
      <4>. HIDE DEF S
      <4>. QED  BY <1>10, <1>n
    <3>. QED  BY <3>1, <1>n
  <2>3. k + 1 < n => after[k + 3] \in {0} \cup (k + 4)..(n + 1)
    <3>1. k + 1 < n => k + 2 \in S
      <4>. HIDE DEF S
      <4>. QED  BY <1>10, <1>n
    <3>. QED  BY <3>1, <1>n
  <2>4. Body(after, k + 1) \in {0} \cup (k + 2)..(n + 1)
    BY <1>n, <2>2, <2>3
  <2>. QED  BY <2>1, <2>4
<1>11. 0..n \subseteq S
  <2>. HIDE DEF S
  <2>. QED  BY <1>10, <1>n, Downward
<1>12. ASSUME NEW j \in Dom PROVE after[j] \in {0} \cup (j + 1)..(n + 1)
  <2>1. j - 1 \in 0..n /\ (j - 1) + 1 = j /\ (j - 1) + 2 = j + 1
    BY <1>n
  <2>2. j - 1 \in S
    BY <1>11, <2>1
  <2>. QED  BY <2>1, <2>2
<1>. QED  BY <1>9, <1>12 DEF n, after

\* Where a value, the rest of an array and the rest of an object end.
LEMMA ValuesDefined ==
    ASSUME NEW t \in Seq(STRING)
    PROVE  LET n == Len(t)
               end == J!Values(t)
               after == J!Strings(t)
           IN  /\ \A i \in 0..(n + 1), w \in {"value", "elements", "members"} :
                      end[<<i, w>>] = 0 \/ (i \in 1..n /\ end[<<i, w>>] \in (i + 1)..(n + 1))
               /\ \A i \in 1..n :
                      /\ end[<<i, "value">>] = IF t[i] = "x" THEN i + 1
                                               ELSE IF t[i] = "q" THEN after[i + 1]
                                               ELSE IF t[i] = "[" THEN end[<<i + 1, "elements">>]
                                               ELSE IF t[i] = "{" THEN end[<<i + 1, "members">>]
                                               ELSE 0
                      /\ end[<<i, "elements">>] = IF t[i] = "]" THEN i + 1
                                                  ELSE end[<<end[<<i, "value">>], "elements">>]
                      /\ end[<<i, "members">>] =
                             IF t[i] = "}" THEN i + 1
                             ELSE IF t[i] = "q" THEN end[<<end[<<after[i + 1], "value">>], "members">>]
                             ELSE 0
<1>. DEFINE n == Len(t)
            after == J!Strings(t)
            end == J!Values(t)
            Ways == {"value", "elements", "members"}
            Dom == (0..(n + 1)) \X Ways
            Value(f, i) == IF t[i] = "x" THEN i + 1
                           ELSE IF t[i] = "q" THEN after[i + 1]
                           ELSE IF t[i] = "[" THEN f[<<i + 1, "elements">>]
                           ELSE IF t[i] = "{" THEN f[<<i + 1, "members">>]
                           ELSE 0
            Elements(f, i) == IF t[i] = "]" THEN i + 1 ELSE f[<<f[<<i, "value">>], "elements">>]
            Members(f, i) == IF t[i] = "}" THEN i + 1
                             ELSE IF t[i] = "q" THEN f[<<f[<<after[i + 1], "value">>], "members">>]
                             ELSE 0
            Body(f, p) == IF p[1] = 0 \/ p[1] > n THEN 0
                          ELSE IF p[2] = "value" THEN Value(f, p[1])
                          ELSE IF p[2] = "elements" THEN Elements(f, p[1])
                          ELSE Members(f, p[1])
            In(v, i) == v = 0 \/ (i > 0 /\ v \in (i + 1)..(n + 1))
            G == {f \in [Dom -> 0..(n + 1)] : \A i \in 0..(n + 1), w \in Ways : In(f[<<i, w>>], i)}
            F == [f \in G |-> [p \in Dom |-> Body(f, p)]]
            Memb(i, w) == IF i = 0 THEN 0 ELSE 2 * (n + 1 - i) + (IF w = "value" THEN 0 ELSE 1)
            m == [p \in Dom |-> Memb(p[1], p[2])]
            Top == 2 * n + 2
<1>n. n \in Nat
  OBVIOUS
<1>a. \A j \in 1..(n + 1) : after[j] \in {0} \cup (j + 1)..(n + 1)
  BY StringsDefined
<1>7. end = CHOOSE f_1 : f_1 = [p \in Dom |-> Body(f_1, p)]
  BY DEF J!Values
<1>. HIDE DEF n, after, end
<1>b. ASSUME NEW f, NEW i \in 0..(n + 1)
      PROVE  \A w \in Ways : Body(f, <<i, w>>) =
                                 IF i = 0 \/ i > n THEN 0
                                 ELSE IF w = "value" THEN Value(f, i)
                                 ELSE IF w = "elements" THEN Elements(f, i)
                                 ELSE Members(f, i)
  <2>. HIDE DEF Value, Elements, Members
  <2>. QED  OBVIOUS
<1>c. \A p \in Dom : \E i \in 0..(n + 1), w \in Ways : p = <<i, w>>
  OBVIOUS
<1>d. ASSUME NEW f, NEW i \in 1..n,
             \A j \in 0..(n + 1), w \in Ways : j > i \/ j = 0 => In(f[<<j, w>>], j),
             NEW w \in Ways, w = "value" \/ In(f[<<i, "value">>], i)
      PROVE  In(Body(f, <<i, w>>), i)
  <2>i. i \in 0..(n + 1) /\ i + 1 \in 0..(n + 1) /\ i + 1 \in 1..(n + 1) /\ i # 0 /\ ~(i > n) /\ i + 1 > i
    BY <1>n
  <2>1. In(Value(f, i), i)
    <3>1. In(f[<<i + 1, "elements">>], i + 1) /\ In(f[<<i + 1, "members">>], i + 1)
      BY <1>d, <2>i
    <3>2. In(after[i + 1], i + 1)
      BY <1>a, <2>i
    <3>3. In(i + 1, i) /\ In(0, i)
      BY <1>n
    <3>4. \A v : In(v, i + 1) => In(v, i)
      BY <1>n
    <3>. HIDE DEF In
    <3>. QED  BY <3>1, <3>2, <3>3, <3>4
  <2>2. \A v, w_1 : In(v, i) /\ w_1 \in Ways => In(f[<<v, w_1>>], i)
    <3>. SUFFICES ASSUME NEW v, NEW w_1 \in Ways, In(v, i) PROVE In(f[<<v, w_1>>], i)
      OBVIOUS
    <3>1. v \in 0..(n + 1) /\ (v > i \/ v = 0)
      BY <1>n
    <3>2. In(f[<<v, w_1>>], v)
      BY <1>d, <3>1
    <3>. QED  BY <1>n, <3>1, <3>2
  <2>3. w # "value" => In(Elements(f, i), i)
    <3>1. In(i + 1, i)
      BY <1>n
    <3>. HIDE DEF In
    <3>. QED  BY <1>d, <2>2, <3>1
  <2>4. In(Members(f, i), i)
    <3>1. In(i + 1, i) /\ In(0, i)
      BY <1>n
    <3>2. In(after[i + 1], i)
      BY <1>a, <1>n
    <3>. HIDE DEF In
    <3>. QED  BY <2>2, <3>1, <3>2
  <2>5. Body(f, <<i, w>>) = IF w = "value" THEN Value(f, i)
                            ELSE IF w = "elements" THEN Elements(f, i) ELSE Members(f, i)
    <3>. HIDE DEF Body, Value, Elements, Members
    <3>. QED  BY <1>b, <2>i
  <2>. HIDE DEF Body, Value, Elements, Members, In
  <2>. QED  BY <2>1, <2>3, <2>4, <2>5
<1>e. ASSUME NEW f, NEW i \in 0..(n + 1), i \notin 1..n, NEW w \in Ways
      PROVE  Body(f, <<i, w>>) = 0
  <2>1. i = 0 \/ i > n
    BY <1>n, <1>e
  <2>. HIDE DEF Body, Value, Elements, Members
  <2>. QED  BY <1>b, <2>1
<1>1. F \in [G -> G]
  <2>. SUFFICES ASSUME NEW f \in G
                PROVE  [p \in Dom |-> Body(f, p)] \in G
    <3>. HIDE DEF G, Dom, Body
    <3>. QED  OBVIOUS
  <2>1. ASSUME NEW i \in 0..(n + 1), NEW w \in Ways PROVE In(Body(f, <<i, w>>), i)
    <3>1. \A j \in 0..(n + 1), w_1 \in Ways : In(f[<<j, w_1>>], j)
      OBVIOUS
    <3>. HIDE DEF Body, In, G
    <3>2. i \in 1..n => In(Body(f, <<i, w>>), i)
      BY <1>d, <3>1, <1>n
    <3>3. In(0, i)
      BY DEF In
    <3>. QED  BY <1>e, <3>2, <3>3
  <2>2. \A i \in 0..(n + 1), w \in Ways : Body(f, <<i, w>>) \in 0..(n + 1)
    <3>1. \A v : \A i \in 0..(n + 1) : In(v, i) => v \in 0..(n + 1)
      BY <1>n
    <3>. HIDE DEF Body, G, In
    <3>. QED  BY <2>1, <3>1
  <2>3. [p \in Dom |-> Body(f, p)] \in [Dom -> 0..(n + 1)]
    <3>. HIDE DEF Body, G
    <3>. QED  BY <1>c, <2>2
  <2>. HIDE DEF Body, In
  <2>. QED  BY <2>1, <2>3
<1>2. m \in [Dom -> Nat] /\ Top \in Nat /\ \A p \in Dom : m[p] < Top
  <2>1. \A i \in 0..(n + 1), w \in Ways : Memb(i, w) \in Nat /\ Memb(i, w) < Top
    BY <1>n
  <2>. HIDE DEF Memb, Top
  <2>2. Top \in Nat
    BY <1>n DEF Top
  <2>. QED  BY <2>1, <2>2, <1>c
<1>3. ASSUME NEW f \in G, NEW g \in G, NEW p \in Dom, \A c \in Dom : m[c] < m[p] => f[c] = g[c]
      PROVE  F[f][p] = F[g][p]
  <2>1. PICK i \in 0..(n + 1), w \in Ways : p = <<i, w>>
    BY <1>c
  <2>2. \A j \in 0..(n + 1), w_1 \in Ways : Memb(j, w_1) < Memb(i, w) => f[<<j, w_1>>] = g[<<j, w_1>>]
    <3>. HIDE DEF Memb
    <3>. QED  BY <1>3, <2>1
  <2>3. CASE i \notin 1..n
    <3>1. Body(f, p) = 0 /\ Body(g, p) = 0
      <4>. HIDE DEF Body
      <4>. QED  BY <1>e, <2>1, <2>3
    <3>. HIDE DEF Body
    <3>. QED  BY <3>1
  <2>4. CASE i \in 1..n
    <3>1. Value(f, i) = Value(g, i)
      <4>1. \A w_1 \in Ways : f[<<i + 1, w_1>>] = g[<<i + 1, w_1>>]
        <5>1. \A w_1 \in Ways : Memb(i + 1, w_1) < Memb(i, w) /\ i + 1 \in 0..(n + 1)
          BY <1>n, <2>4
        <5>. HIDE DEF Memb
        <5>. QED  BY <2>2, <5>1
      <4>. QED  BY <4>1
    <3>2. ASSUME NEW v, In(v, i) PROVE \A w_1 \in Ways : f[<<v, w_1>>] = g[<<v, w_1>>]
      <4>1. \A w_1 \in Ways : Memb(v, w_1) < Memb(i, w) /\ v \in 0..(n + 1)
        BY <1>n, <2>4, <3>2
      <4>. HIDE DEF Memb
      <4>. QED  BY <2>2, <4>1
    <3>3. w = "elements" => Elements(f, i) = Elements(g, i)
      <4>. SUFFICES ASSUME w = "elements" PROVE Elements(f, i) = Elements(g, i)
        OBVIOUS
      <4>1. f[<<i, "value">>] = g[<<i, "value">>]
        <5>1. Memb(i, "value") < Memb(i, w) /\ i \in 0..(n + 1)
          BY <1>n, <2>4
        <5>. HIDE DEF Memb
        <5>. QED  BY <2>2, <5>1
      <4>2. In(f[<<i, "value">>], i)
        BY <2>4, <1>n
      <4>. HIDE DEF In
      <4>. QED  BY <3>2, <4>1, <4>2
    <3>4. Members(f, i) = Members(g, i)
      <4>. DEFINE a == after[i + 1]
      <4>1. In(a, i) /\ a \in 0..(n + 1)
        BY <1>a, <1>n, <2>4
      <4>2. f[<<a, "value">>] = g[<<a, "value">>]
        <5>. HIDE DEF In
        <5>. QED  BY <3>2, <4>1
      <4>3. In(f[<<a, "value">>], a)
        <5>. HIDE DEF In, a
        <5>. QED  BY <4>1
      <4>4. In(f[<<a, "value">>], i)
        BY <4>1, <4>3, <1>n
      <4>. HIDE DEF In
      <4>. QED  BY <3>2, <4>2, <4>4
    <3>5. Body(f, p) = Body(g, p)
      <4>. HIDE DEF Body, Value, Elements, Members, G, Dom
      <4>1. \A w_1 \in Ways : Body(f, <<i, w_1>>) =
                                 IF i = 0 \/ i > n THEN 0
                                 ELSE IF w_1 = "value" THEN Value(f, i)
                                 ELSE IF w_1 = "elements" THEN Elements(f, i)
                                 ELSE Members(f, i)
        BY <1>b
      <4>2. \A w_1 \in Ways : Body(g, <<i, w_1>>) =
                                 IF i = 0 \/ i > n THEN 0
                                 ELSE IF w_1 = "value" THEN Value(g, i)
                                 ELSE IF w_1 = "elements" THEN Elements(g, i)
                                 ELSE Members(g, i)
        BY <1>b
      <4>. QED  BY <2>1, <3>1, <3>3, <3>4, <4>1, <4>2
    <3>. HIDE DEF Body
    <3>. QED  BY <3>5
  <2>. QED  BY <2>3, <2>4
<1>4. G # {} /\ \A f, g \in G : (\A p \in Dom : f[p] = g[p]) => f = g
  <2>1. [p \in Dom |-> 0] \in G
    BY <1>n
  <2>2. G \subseteq [Dom -> 0..(n + 1)]
    OBVIOUS
  <2>. HIDE DEF Dom
  <2>3. \A f, g \in [Dom -> 0..(n + 1)] : (\A p \in Dom : f[p] = g[p]) => f = g
    BY SameFunction
  <2>. HIDE DEF G
  <2>. QED  BY <2>1, <2>2, <2>3
<1>5. PICK f \in G : f = F[f]
  <2>. HIDE DEF G, F, m, Dom, Top
  <2>1. Recursive(Dom, G, F, m, Top)
    BY <1>1, <1>2, <1>3, <1>4 DEF Recursive
  <2>. QED  BY <2>1, Recursion
<1>6. f = [p \in Dom |-> Body(f, p)]
  <2>. HIDE DEF Dom, Body
  <2>. QED  BY <1>5
<1>8. end = [p \in Dom |-> Body(end, p)]
  <2>. HIDE DEF Body, Dom
  <2>. QED  BY <1>6, <1>7
<1>9. \A i \in 0..(n + 1), w \in Ways : end[<<i, w>>] = Body(end, <<i, w>>)
  <2>. HIDE DEF Body
  <2>. QED  BY <1>8
<1>. DEFINE S == {i \in 0..(n + 1) : \A w \in Ways : In(end[<<i, w>>], i)}
<1>10. ASSUME NEW i \in 0..(n + 1), \A j \in 0..(n + 1) : j > i => j \in S
       PROVE  i \in S
  <2>0. \A w \in Ways : In(end[<<0, w>>], 0)
    <3>1. \A w \in Ways : end[<<0, w>>] = 0
      <4>1. 0 \in 0..(n + 1) /\ 0 \notin 1..n
        BY <1>n
      <4>. HIDE DEF Body, Ways
      <4>. QED  BY <1>e, <1>9, <4>1
    <3>. QED  BY <3>1
  <2>1. \A j \in 0..(n + 1), w \in Ways : j > i \/ j = 0 => In(end[<<j, w>>], j)
    <3>1. \A j \in S : \A w \in Ways : In(end[<<j, w>>], j)
      OBVIOUS
    <3>. HIDE DEF In, S
    <3>. QED  BY <1>10, <2>0, <3>1
  <2>2. CASE i \notin 1..n
    <3>1. \A w \in Ways : end[<<i, w>>] = 0
      <4>. HIDE DEF Body
      <4>. QED  BY <1>e, <1>9, <2>2
    <3>. QED  BY <3>1
  <2>3. CASE i \in 1..n
    <3>. HIDE DEF Body, In
    <3>1. In(end[<<i, "value">>], i)
      BY <1>d, <1>9, <2>1, <2>3
    <3>2. \A w \in Ways : In(end[<<i, w>>], i)
      BY <1>d, <1>9, <2>1, <2>3, <3>1
    <3>. QED  BY <3>2
  <2>. QED  BY <2>2, <2>3
<1>11. 0..(n + 1) \subseteq S
  <2>. HIDE DEF S
  <2>1. n + 1 \in Nat
    BY <1>n
  <2>. QED  BY <1>10, <2>1, Downward
<1>12. \A i \in 0..(n + 1), w \in Ways :
           end[<<i, w>>] = 0 \/ (i \in 1..n /\ end[<<i, w>>] \in (i + 1)..(n + 1))
  <2>. SUFFICES ASSUME NEW i \in 0..(n + 1), NEW w \in Ways
                PROVE  end[<<i, w>>] = 0 \/ (i \in 1..n /\ end[<<i, w>>] \in (i + 1)..(n + 1))
    OBVIOUS
  <2>1. In(end[<<i, w>>], i)
    BY <1>11
  <2>. QED  BY <1>n, <2>1
<1>13. ASSUME NEW i \in 1..n
       PROVE  /\ end[<<i, "value">>] = Value(end, i)
              /\ end[<<i, "elements">>] = Elements(end, i)
              /\ end[<<i, "members">>] = Members(end, i)
  <2>. HIDE DEF Body, Value, Elements, Members
  <2>. QED  BY <1>b, <1>9, <1>n
<1>14. \A i : Value(end, i) = IF t[i] = "x" THEN i + 1
                              ELSE IF t[i] = "q" THEN after[i + 1]
                              ELSE IF t[i] = "[" THEN end[<<i + 1, "elements">>]
                              ELSE IF t[i] = "{" THEN end[<<i + 1, "members">>]
                              ELSE 0
  OBVIOUS
<1>. HIDE DEF Value, Ways, S, In
<1>. QED  BY <1>12, <1>13, <1>14 DEF n, after, end, Ways

\* What the scan for the end of a span has seen, from byte to byte.
Seen == [inStr : BOOLEAN, escaped : BOOLEAN, depth : Int]

\* A byte leaves the scan in one of its states.
LEMMA CountsSeen ==
    ASSUME NEW s \in Seen, NEW c, NEW open
    PROVE  LET next == J!Counts(s, c, open) IN
           /\ next \in Seen
           /\ ~s.inStr /\ c # "q" =>
                  /\ next.inStr = s.inStr /\ next.escaped = s.escaped
                  /\ next.depth = s.depth + (IF c = open THEN 1 ELSE IF c = J!CloseOf(open) THEN -1 ELSE 0)
           /\ ~s.inStr /\ c = "q" =>
                  next.inStr = TRUE /\ next.escaped = s.escaped /\ next.depth = s.depth
           /\ s.inStr /\ s.escaped =>
                  next.inStr = TRUE /\ next.escaped = FALSE /\ next.depth = s.depth
           /\ s.inStr /\ ~s.escaped /\ c = "b" =>
                  next.inStr = TRUE /\ next.escaped = TRUE /\ next.depth = s.depth
           /\ s.inStr /\ ~s.escaped /\ c # "b" =>
                  next.inStr = (c # "q") /\ next.escaped = FALSE /\ next.depth = s.depth
<1>. DEFINE d == IF c = open THEN 1 ELSE IF c = J!CloseOf(open) THEN -1 ELSE 0
<1>1. d \in Int
  OBVIOUS
<1>2. J!CountsAnywhere(s, c, open) = [s EXCEPT !.depth = s.depth + d]
  BY DEF J!CountsAnywhere
<1>. HIDE DEF d
<1>3. /\ [s EXCEPT !.depth = s.depth + d] \in Seen
      /\ [s EXCEPT !.depth = s.depth + d].inStr = s.inStr
      /\ [s EXCEPT !.depth = s.depth + d].escaped = s.escaped
      /\ [s EXCEPT !.depth = s.depth + d].depth = s.depth + d
  BY <1>1 DEF Seen
<1>4. CASE ~s.inStr /\ c # "q"
  <2>1. J!Counts(s, c, open) = J!CountsAnywhere(s, c, open)
    BY <1>4 DEF J!Counts
  <2>. QED  BY <1>2, <1>3, <1>4, <2>1 DEF d
<1>5. CASE ~s.inStr /\ c = "q"
  <2>1. J!Counts(s, c, open) = [s EXCEPT !.inStr = TRUE]
    BY <1>5 DEF J!Counts
  <2>. QED  BY <1>5, <2>1 DEF Seen
<1>6. CASE s.inStr /\ s.escaped
  <2>1. J!Counts(s, c, open) = [s EXCEPT !.escaped = FALSE]
    BY <1>6 DEF J!Counts
  <2>. QED  BY <1>6, <2>1 DEF Seen
<1>7. CASE s.inStr /\ ~s.escaped /\ c = "b"
  <2>1. J!Counts(s, c, open) = [s EXCEPT !.escaped = TRUE]
    BY <1>7 DEF J!Counts
  <2>. QED  BY <1>7, <2>1 DEF Seen
<1>8. CASE s.inStr /\ ~s.escaped /\ c # "b"
  <2>1. J!Counts(s, c, open) = [s EXCEPT !.inStr = (c # "q")]
    BY <1>8 DEF J!Counts
  <2>. QED  BY <1>8, <2>1 DEF Seen
<1>. QED  BY <1>4, <1>5, <1>6, <1>7, <1>8 DEF Seen

\* What the scan has seen, from the byte at first on.
LEMMA ScannedDefined ==
    ASSUME NEW t \in Seq(STRING), NEW first \in 1..Len(t)
    PROVE  LET state == J!Scanned(t, first) IN
           /\ state[first - 1] = [inStr |-> FALSE, escaped |-> FALSE, depth |-> 0]
           /\ \A j \in first..Len(t) : state[j] = J!Counts(state[j - 1], t[j], t[first])
           /\ \A j \in (first - 1)..Len(t) : state[j] \in Seen
<1>. DEFINE n == Len(t)
            Dom == (first - 1)..n
            Fresh == [inStr |-> FALSE, escaped |-> FALSE, depth |-> 0]
            Body(f, j) == IF j < first THEN Fresh ELSE J!Counts(f[j - 1], t[j], t[first])
            G == [Dom -> Seen]
            F == [f \in G |-> [j \in Dom |-> Body(f, j)]]
            m == [j \in Dom |-> j]
            Top == n + 1
            state == J!Scanned(t, first)
<1>7. state = CHOOSE f_1 : f_1 = [j \in Dom |-> Body(f_1, j)]
  BY DEF J!Scanned
<1>n. n \in Nat /\ first \in Nat /\ first >= 1 /\ first <= n
  OBVIOUS
<1>. HIDE DEF n, state
<1>f. Fresh \in Seen
  BY DEF Seen
<1>s. ASSUME NEW f, NEW j \in Dom, j < first \/ f[j - 1] \in Seen PROVE Body(f, j) \in Seen
  <2>1. j >= first => J!Counts(f[j - 1], t[j], t[first]) \in Seen
    <3>. SUFFICES ASSUME j >= first PROVE J!Counts(f[j - 1], t[j], t[first]) \in Seen
      OBVIOUS
    <3>1. f[j - 1] \in Seen
      BY <1>n, <1>s
    <3>. QED  BY <3>1, CountsSeen, Zenon
  <2>. HIDE DEF Fresh
  <2>. QED  BY <1>n, <1>f, <2>1
<1>1. F \in [G -> G]
  <2>. SUFFICES ASSUME NEW f \in G, NEW j \in Dom PROVE Body(f, j) \in Seen
    OBVIOUS
  <2>1. j < first \/ f[j - 1] \in Seen
    BY <1>n
  <2>. HIDE DEF Body
  <2>. QED  BY <1>s, <2>1
<1>2. m \in [Dom -> Nat] /\ Top \in Nat /\ \A j \in Dom : m[j] < Top
  BY <1>n
<1>3. ASSUME NEW f \in G, NEW g \in G, NEW j \in Dom, \A c \in Dom : m[c] < m[j] => f[c] = g[c]
      PROVE  F[f][j] = F[g][j]
  <2>1. j >= first => f[j - 1] = g[j - 1]
    BY <1>n, <1>3
  <2>2. Body(f, j) = Body(g, j)
    BY <1>n, <2>1
  <2>. HIDE DEF Body
  <2>. QED  BY <2>2
<1>4. G # {} /\ \A f, g \in G : (\A j \in Dom : f[j] = g[j]) => f = g
  <2>1. [j \in Dom |-> Fresh] \in G
    BY <1>f
  <2>. QED  BY <2>1, SameFunction
<1>5. PICK f \in G : f = F[f]
  <2>. HIDE DEF G, F, m, Dom, Top
  <2>1. Recursive(Dom, G, F, m, Top)
    BY <1>1, <1>2, <1>3, <1>4 DEF Recursive
  <2>. QED  BY <2>1, Recursion
<1>6. f = [j \in Dom |-> Body(f, j)]
  <2>. HIDE DEF Dom, Body
  <2>. QED  BY <1>5
<1>8. state = [j \in Dom |-> Body(state, j)]
  <2>. HIDE DEF Body, Dom
  <2>. QED  BY <1>6, <1>7
<1>9. \A j \in Dom : state[j] = Body(state, j)
  <2>. HIDE DEF Body
  <2>. QED  BY <1>8
<1>. DEFINE S == {k \in 0..n : k \in Dom => state[k] \in Seen}
<1>10. ASSUME NEW k \in 0..n, \A l \in 0..n : l < k => l \in S
       PROVE  k \in S
  <2>. SUFFICES ASSUME k \in Dom PROVE state[k] \in Seen
    OBVIOUS
  <2>1. k < first \/ k - 1 \in S
    <3>. HIDE DEF S
    <3>. QED  BY <1>10, <1>n
  <2>2. k < first \/ state[k - 1] \in Seen
    BY <2>1, <1>n
  <2>. HIDE DEF Body, Dom
  <2>. QED  BY <1>s, <1>9, <2>2
<1>11. 0..n \subseteq S
  <2>. HIDE DEF S
  <2>. QED  BY <1>10, <1>n, Upward
<1>12. \A j \in Dom : state[j] \in Seen
  BY <1>11, <1>n
<1>. QED  BY <1>9, <1>12, <1>n DEF n, state

\* Before a byte the scan is in no string, in one, or in one and after a backslash.
Plain(t, first, j) == LET s == J!Scanned(t, first)[j - 1] IN s.inStr = FALSE /\ s.escaped = FALSE
Quoted(t, first, j) == LET s == J!Scanned(t, first)[j - 1] IN s.inStr = TRUE /\ s.escaped = FALSE
Escaping(t, first, j) == LET s == J!Scanned(t, first)[j - 1] IN s.inStr = TRUE /\ s.escaped = TRUE
Depth(t, first, j) == J!Scanned(t, first)[j - 1].depth
Deeper(open, c) == IF c = open THEN 1 ELSE IF c = J!CloseOf(open) THEN -1 ELSE 0

\* What one byte does to the scan, in each of its states.
LEMMA ScanSteps ==
    ASSUME NEW t \in Seq(STRING), NEW first \in 1..Len(t)
    PROVE  /\ Plain(t, first, first) /\ Depth(t, first, first) = 0
           /\ \A j \in first..(Len(t) + 1) : Depth(t, first, j) \in Int
           /\ \A j \in first..Len(t) :
                  /\ Plain(t, first, j) /\ t[j] = "q" =>
                         Quoted(t, first, j + 1) /\ Depth(t, first, j + 1) = Depth(t, first, j)
                  /\ Plain(t, first, j) /\ t[j] # "q" =>
                         /\ Plain(t, first, j + 1)
                         /\ Depth(t, first, j + 1) = Depth(t, first, j) + Deeper(t[first], t[j])
                  /\ Escaping(t, first, j) =>
                         Quoted(t, first, j + 1) /\ Depth(t, first, j + 1) = Depth(t, first, j)
                  /\ Quoted(t, first, j) =>
                         /\ t[j] = "b" => Escaping(t, first, j + 1)
                         /\ t[j] = "q" => Plain(t, first, j + 1)
                         /\ t[j] \notin {"b", "q"} => Quoted(t, first, j + 1)
                         /\ Depth(t, first, j + 1) = Depth(t, first, j)
<1>. DEFINE n == Len(t)
            z == J!Scanned(t, first)
<1>1. /\ z[first - 1] = [inStr |-> FALSE, escaped |-> FALSE, depth |-> 0]
      /\ \A j \in first..n : z[j] = J!Counts(z[j - 1], t[j], t[first])
      /\ \A j \in (first - 1)..n : z[j] \in Seen
  BY ScannedDefined, Zenon
<1>n. n \in Nat /\ first \in Nat /\ first >= 1 /\ first <= n
  OBVIOUS
<1>. HIDE DEF n, z
<1>2. Plain(t, first, first) /\ Depth(t, first, first) = 0
  BY <1>1 DEF Plain, Depth, z
<1>3. ASSUME NEW j \in first..(n + 1) PROVE z[j - 1] \in Seen
  BY <1>1, <1>n
<1>4. \A j \in first..(n + 1) : Depth(t, first, j) \in Int
  BY <1>3 DEF Depth, z, Seen
<1>5. ASSUME NEW j \in first..n
      PROVE  /\ Plain(t, first, j) /\ t[j] = "q" =>
                    Quoted(t, first, j + 1) /\ Depth(t, first, j + 1) = Depth(t, first, j)
             /\ Plain(t, first, j) /\ t[j] # "q" =>
                    /\ Plain(t, first, j + 1)
                    /\ Depth(t, first, j + 1) = Depth(t, first, j) + Deeper(t[first], t[j])
             /\ Escaping(t, first, j) =>
                    Quoted(t, first, j + 1) /\ Depth(t, first, j + 1) = Depth(t, first, j)
             /\ Quoted(t, first, j) =>
                    /\ t[j] = "b" => Escaping(t, first, j + 1)
                    /\ t[j] = "q" => Plain(t, first, j + 1)
                    /\ t[j] \notin {"b", "q"} => Quoted(t, first, j + 1)
                    /\ Depth(t, first, j + 1) = Depth(t, first, j)
  <2>. DEFINE s == z[j - 1]
              next == J!Counts(s, t[j], t[first])
  <2>1. s \in Seen
    BY <1>3, <1>n
  <2>2. z[(j + 1) - 1] = next
    BY <1>1, <1>n
  <2>3. /\ next \in Seen
        /\ ~s.inStr /\ t[j] # "q" =>
               /\ next.inStr = s.inStr /\ next.escaped = s.escaped
               /\ next.depth = s.depth + Deeper(t[first], t[j])
        /\ ~s.inStr /\ t[j] = "q" =>
               next.inStr = TRUE /\ next.escaped = s.escaped /\ next.depth = s.depth
        /\ s.inStr /\ s.escaped =>
               next.inStr = TRUE /\ next.escaped = FALSE /\ next.depth = s.depth
        /\ s.inStr /\ ~s.escaped /\ t[j] = "b" =>
               next.inStr = TRUE /\ next.escaped = TRUE /\ next.depth = s.depth
        /\ s.inStr /\ ~s.escaped /\ t[j] # "b" =>
               next.inStr = (t[j] # "q") /\ next.escaped = FALSE /\ next.depth = s.depth
    BY <2>1, CountsSeen, Zenon DEF Deeper
  <2>. DEFINE p == z[(j + 1) - 1]
  <2>4. /\ Plain(t, first, j) = (s.inStr = FALSE /\ s.escaped = FALSE)
        /\ Quoted(t, first, j) = (s.inStr = TRUE /\ s.escaped = FALSE)
        /\ Escaping(t, first, j) = (s.inStr = TRUE /\ s.escaped = TRUE)
        /\ Depth(t, first, j) = s.depth
    BY DEF Plain, Quoted, Escaping, Depth, z
  <2>5. /\ Plain(t, first, j + 1) = (next.inStr = FALSE /\ next.escaped = FALSE)
        /\ Quoted(t, first, j + 1) = (next.inStr = TRUE /\ next.escaped = FALSE)
        /\ Escaping(t, first, j + 1) = (next.inStr = TRUE /\ next.escaped = TRUE)
        /\ Depth(t, first, j + 1) = next.depth
    <3>. HIDE DEF next
    <3>. QED  BY <2>2 DEF Plain, Quoted, Escaping, Depth, z
  <2>. HIDE DEF next, s
  <2>6. Plain(t, first, j) => ~s.inStr /\ s.escaped = FALSE
    BY <2>4
  <2>7. Quoted(t, first, j) => s.inStr /\ ~s.escaped
    BY <2>4
  <2>8. Escaping(t, first, j) => s.inStr /\ s.escaped
    BY <2>4
  <2>. QED  BY <2>3, <2>4, <2>5, <2>6, <2>7, <2>8, Zenon
<1>. QED  BY <1>2, <1>4, <1>5 DEF n

\* Where a string ends the scan is out of it, at the depth it had when the string began.
LEMMA StringsKeepDepth ==
    ASSUME NEW t \in Seq(STRING), NEW first \in 1..Len(t),
           NEW j \in first..(Len(t) + 1), Quoted(t, first, j), J!Strings(t)[j] # 0
    PROVE  LET e == J!Strings(t)[j] IN
           /\ e \in (j + 1)..(Len(t) + 1) /\ Plain(t, first, e)
           /\ \A k \in j..e : Depth(t, first, k) = Depth(t, first, j)
<1>. DEFINE n == Len(t)
            after == J!Strings(t)
            InStr(i) == Quoted(t, first, i)
            E(i) == Escaping(t, first, i)
            Out(i) == Plain(t, first, i)
            dep(i) == Depth(t, first, i)
            Kept(i) == Out(after[i]) /\ \A k \in i..after[i] : dep(k) = dep(i)
            S == {i \in 0..(n + 1) : i >= first /\ InStr(i) /\ after[i] # 0 => Kept(i)}
<1>n. n \in Nat /\ first \in Nat /\ first >= 1 /\ first <= n /\ n + 1 \in Nat
  OBVIOUS
<1>1. \A i \in 1..(n + 1) :
          /\ after[i] \in {0} \cup (i + 1)..(n + 1)
          /\ after[i] = IF i > n THEN 0
                        ELSE IF t[i] = "q" THEN i + 1
                        ELSE IF t[i] # "b" THEN after[i + 1]
                        ELSE IF i < n /\ t[i + 1] \in {"q", "b", "x"} THEN after[i + 2]
                        ELSE 0
  BY StringsDefined, Zenon
<1>2. \A i \in first..n :
          /\ E(i) => InStr(i + 1) /\ dep(i + 1) = dep(i)
          /\ InStr(i) => /\ t[i] = "b" => E(i + 1)
                         /\ t[i] = "q" => Out(i + 1)
                         /\ t[i] \notin {"b", "q"} => InStr(i + 1)
                         /\ dep(i + 1) = dep(i)
  BY ScanSteps, Zenon
<1>. HIDE DEF n, after, InStr, E, Out, dep
<1>3. ASSUME NEW i \in 0..(n + 1), \A l \in 0..(n + 1) : l > i => l \in S
      PROVE  i \in S
  <2>. SUFFICES ASSUME i >= first, InStr(i), after[i] # 0 PROVE Kept(i)
    OBVIOUS
  <2>1. i \in first..n /\ i \in 1..(n + 1)
    BY <1>1, <1>n
  <2>2. CASE t[i] = "q"
    <3>1. after[i] = i + 1 /\ Out(i + 1) /\ dep(i + 1) = dep(i)
      BY <1>1, <1>2, <2>1, <2>2, <1>n
    <3>2. \A k \in i..(i + 1) : k = i \/ k = i + 1
      BY <2>1, <1>n
    <3>. QED  BY <3>1, <3>2
  <2>3. CASE t[i] \notin {"b", "q"}
    <3>1. after[i] = after[i + 1] /\ InStr(i + 1) /\ dep(i + 1) = dep(i)
      BY <1>1, <1>2, <2>1, <2>3, <1>n
    <3>2. Kept(i + 1)
      <4>1. i + 1 \in S
        <5>. HIDE DEF S
        <5>. QED  BY <1>3, <2>1, <1>n
      <4>2. i + 1 >= first
        BY <2>1, <1>n
      <4>. HIDE DEF Kept
      <4>. QED  BY <3>1, <4>1, <4>2
    <3>3. \A k \in i..after[i] : k = i \/ k \in (i + 1)..after[i + 1]
      BY <3>1, <2>1, <1>1, <1>n
    <3>. QED  BY <3>1, <3>2, <3>3
  <2>4. CASE t[i] = "b"
    <3>1. i < n /\ after[i] = after[i + 2]
      BY <1>1, <2>1, <2>4, <1>n
    <3>2. E(i + 1) /\ dep(i + 1) = dep(i)
      BY <1>2, <2>1, <2>4
    <3>3. InStr(i + 2) /\ dep(i + 2) = dep(i)
      <4>1. i + 1 \in first..n /\ (i + 1) + 1 = i + 2
        BY <2>1, <3>1, <1>n
      <4>2. InStr((i + 1) + 1) /\ dep((i + 1) + 1) = dep(i + 1)
        BY <1>2, <3>2, <4>1
      <4>. QED  BY <3>2, <4>1, <4>2
    <3>4. Kept(i + 2)
      <4>1. i + 2 \in S
        <5>. HIDE DEF S
        <5>. QED  BY <1>3, <2>1, <3>1, <1>n
      <4>2. i + 2 >= first
        BY <2>1, <1>n
      <4>. HIDE DEF Kept
      <4>. QED  BY <3>1, <3>3, <4>1, <4>2
    <3>5. \A k \in i..after[i] : k = i \/ k = i + 1 \/ k \in (i + 2)..after[i + 2]
      BY <3>1, <2>1, <1>1, <1>n
    <3>. QED  BY <3>1, <3>2, <3>3, <3>4, <3>5
  <2>. QED  BY <2>2, <2>3, <2>4
<1>4. 0..(n + 1) \subseteq S
  <2>. HIDE DEF S
  <2>. QED  BY <1>3, <1>n, Downward
<1>5. j \in 0..(n + 1) /\ j >= first /\ j \in 1..(n + 1)
  BY <1>n DEF n
<1>6. InStr(j) /\ after[j] # 0
  BY DEF InStr, after
<1>7. Kept(j)
  BY <1>4, <1>5, <1>6
<1>8. after[j] \in (j + 1)..(n + 1)
  BY <1>1, <1>5, <1>6
<1>. QED  BY <1>7, <1>8 DEF n, after, Out, dep

\* From a plain position to a later one the depth falls by so much, and not before the end.
Ends(t, first, i, e, fall) ==
    /\ e > i /\ Plain(t, first, e) /\ Depth(t, first, e) = Depth(t, first, i) - fall
    /\ \A k \in i..(e - 1) : Depth(t, first, k) >= Depth(t, first, i)

\* Two values, one after the other.
LEMMA EndsChain ==
    ASSUME NEW t \in Seq(STRING), NEW first \in 1..Len(t), NEW fall \in Nat,
           NEW i \in first..(Len(t) + 1), NEW v \in first..(Len(t) + 1), NEW e \in first..(Len(t) + 1),
           Ends(t, first, i, v, 0), Ends(t, first, v, e, fall)
    PROVE  Ends(t, first, i, e, fall)
<1>1. \A k \in first..(Len(t) + 1) : Depth(t, first, k) \in Int
  BY ScanSteps, Zenon
<1>. QED  BY <1>1 DEF Ends

\* Where a value ends the scan is out of every string and at the depth it had before it; where
\* the rest of an array or an object ends, at one less.
LEMMA ValuesKeepDepth ==
    ASSUME NEW t \in Seq(STRING), NEW first \in 1..Len(t), t[first] \in J!Opening,
           NEW i \in first..(Len(t) + 1), Plain(t, first, i)
    PROVE  LET end == J!Values(t) IN
           /\ end[<<i, "value">>] # 0 => Ends(t, first, i, end[<<i, "value">>], 0)
           /\ end[<<i, "elements">>] # 0 =>
                  Ends(t, first, i, end[<<i, "elements">>], IF t[first] = "[" THEN 1 ELSE 0)
           /\ end[<<i, "members">>] # 0 =>
                  Ends(t, first, i, end[<<i, "members">>], IF t[first] = "{" THEN 1 ELSE 0)
<1>. DEFINE n == Len(t)
            open == t[first]
            after == J!Strings(t)
            end == J!Values(t)
            V(l) == end[<<l, "value">>]
            E(l) == end[<<l, "elements">>]
            Memb(l) == end[<<l, "members">>]
            fallE == IF open = "[" THEN 1 ELSE 0
            fallM == IF open = "{" THEN 1 ELSE 0
            Out(l) == Plain(t, first, l)
            InStr(l) == Quoted(t, first, l)
            dep(l) == Depth(t, first, l)
            X(l, e, fall) == Ends(t, first, l, e, fall)
            Good(l) == /\ V(l) # 0 => X(l, V(l), 0)
                       /\ E(l) # 0 => X(l, E(l), fallE)
                       /\ Memb(l) # 0 => X(l, Memb(l), fallM)
            S == {l \in 0..(n + 1) : l >= first /\ Out(l) => Good(l)}
<1>n. n \in Nat /\ first \in Nat /\ first >= 1 /\ first <= n /\ n + 1 \in Nat
  OBVIOUS
<1>1. /\ \A l \in 0..(n + 1), w \in {"value", "elements", "members"} :
             end[<<l, w>>] = 0 \/ (l \in 1..n /\ end[<<l, w>>] \in (l + 1)..(n + 1))
      /\ \A l \in 1..n :
             /\ V(l) = IF t[l] = "x" THEN l + 1
                       ELSE IF t[l] = "q" THEN after[l + 1]
                       ELSE IF t[l] = "[" THEN E(l + 1)
                       ELSE IF t[l] = "{" THEN Memb(l + 1)
                       ELSE 0
             /\ E(l) = IF t[l] = "]" THEN l + 1 ELSE E(V(l))
             /\ Memb(l) = IF t[l] = "}" THEN l + 1
                          ELSE IF t[l] = "q" THEN Memb(V(after[l + 1]))
                          ELSE 0
  BY ValuesDefined, Zenon
<1>2. \A l \in 0..(n + 1) :
          /\ V(l) = 0 \/ (l \in 1..n /\ V(l) \in (l + 1)..(n + 1))
          /\ E(l) = 0 \/ (l \in 1..n /\ E(l) \in (l + 1)..(n + 1))
          /\ Memb(l) = 0 \/ (l \in 1..n /\ Memb(l) \in (l + 1)..(n + 1))
  <2>. HIDE DEF n, end
  <2>. QED  BY <1>1
<1>3. /\ \A l \in first..(n + 1) : dep(l) \in Int
      /\ \A l \in first..n :
             /\ Out(l) /\ t[l] = "q" => InStr(l + 1) /\ dep(l + 1) = dep(l)
             /\ Out(l) /\ t[l] # "q" => Out(l + 1) /\ dep(l + 1) = dep(l) + Deeper(open, t[l])
  BY ScanSteps, Zenon
<1>4. ASSUME NEW l \in first..n, Out(l), t[l] = "q", after[l + 1] # 0
      PROVE  after[l + 1] \in (l + 2)..(n + 1) /\ X(l, after[l + 1], 0)
  <2>1. InStr(l + 1) /\ dep(l + 1) = dep(l)
    BY <1>3, <1>4
  <2>2. l + 1 \in first..(n + 1)
    BY <1>n
  <2>3. /\ after[l + 1] \in ((l + 1) + 1)..(n + 1) /\ Out(after[l + 1])
        /\ \A k \in (l + 1)..after[l + 1] : dep(k) = dep(l + 1)
    BY <1>4, <2>1, <2>2, StringsKeepDepth, Zenon
  <2>. HIDE DEF n, after
  <2>4. after[l + 1] \in (l + 2)..(n + 1)
    BY <2>3, <1>n
  <2>5. \A k \in l..after[l + 1] : dep(k) = dep(l)
    <3>1. \A k \in l..after[l + 1] : k = l \/ k \in (l + 1)..after[l + 1]
      BY <2>4, <1>n
    <3>. HIDE DEF dep
    <3>. QED  BY <2>1, <2>3, <3>1
  <2>6. dep(l) \in Int
    BY <1>3, <1>n
  <2>. QED  BY <2>3, <2>4, <2>5, <2>6, <1>n DEF Ends
<1>5. open = "[" \/ open = "{"
  BY DEF J!Opening
<1>6. /\ Deeper(open, "x") = 0
      /\ Deeper(open, "[") = fallE /\ Deeper(open, "]") = 0 - fallE
      /\ Deeper(open, "{") = fallM /\ Deeper(open, "}") = 0 - fallM
  <2>1. CASE open = "["
    <3>1. J!CloseOf("[") = "]"
      BY DEF J!CloseOf
    <3>2. /\ Deeper("[", "x") = 0 /\ Deeper("[", "[") = 1 /\ Deeper("[", "{") = 0
          /\ Deeper("[", "]") = -1 /\ Deeper("[", "}") = 0
      BY <3>1 DEF Deeper
    <3>3. fallE = 1 /\ fallM = 0 /\ 0 - fallE = -1 /\ 0 - fallM = 0
      BY <2>1
    <3>. HIDE DEF fallE, fallM, open
    <3>. QED  BY <2>1, <3>2, <3>3
  <2>2. CASE open = "{"
    <3>1. J!CloseOf("{") = "}"
      BY DEF J!CloseOf
    <3>2. /\ Deeper("{", "x") = 0 /\ Deeper("{", "[") = 0 /\ Deeper("{", "{") = 1
          /\ Deeper("{", "]") = 0 /\ Deeper("{", "}") = -1
      BY <3>1 DEF Deeper
    <3>3. fallE = 0 /\ fallM = 1 /\ 0 - fallE = 0 /\ 0 - fallM = -1
      <4>1. fallE = 0 /\ fallM = 1
        BY <2>2
      <4>. HIDE DEF fallE, fallM
      <4>. QED  BY <4>1
    <3>. HIDE DEF fallE, fallM, open
    <3>. QED  BY <2>2, <3>2, <3>3
  <2>. QED  BY <1>5, <2>1, <2>2
<1>f. fallE \in Nat /\ fallM \in Nat
  OBVIOUS
<1>7. \A l \in first..(n + 1), v \in first..(n + 1), e \in first..(n + 1) :
          \A fall \in Nat : X(l, v, 0) /\ X(v, e, fall) => X(l, e, fall)
  BY EndsChain, Zenon
\* One byte, and what comes after it.
<1>8. ASSUME NEW l \in first..n, Out(l + 1), NEW fall \in Int, dep(l + 1) = dep(l) - fall
      PROVE  X(l, l + 1, fall)
  <2>1. \A k \in l..((l + 1) - 1) : k = l
    BY <1>n
  <2>2. dep(l) \in Int
    BY <1>3, <1>n
  <2>. QED  BY <1>8, <2>1, <2>2, <1>n DEF Ends
<1>9. ASSUME NEW l \in first..n, NEW e \in (l + 2)..(n + 1), NEW fall \in Nat,
             dep(l + 1) = dep(l) + fall, X(l + 1, e, fall)
      PROVE  X(l, e, 0)
  <2>1. \A k \in l..(e - 1) : k = l \/ k \in (l + 1)..(e - 1)
    BY <1>n
  <2>2. dep(l) \in Int /\ dep(l + 1) \in Int /\ \A k \in (l + 1)..(e - 1) : dep(k) \in Int
    BY <1>3, <1>n
  <2>. QED  BY <1>9, <2>1, <2>2, <1>n DEF Ends
<1>. HIDE DEF n, after, end, open, Out, InStr, dep, X, fallE, fallM, V, E, Memb
<1>10. ASSUME NEW l \in 0..(n + 1), \A j \in 0..(n + 1) : j > l => j \in S
       PROVE  l \in S
  <2>. SUFFICES ASSUME l >= first, Out(l) PROVE Good(l)
    OBVIOUS
  <2>l. l \in first..(n + 1)
    BY <1>n
  <2>g. \A j \in first..(n + 1) : j > l /\ Out(j) => Good(j)
    <3>1. \A j \in first..(n + 1) : j > l => j \in S /\ j >= first
      <4>. HIDE DEF S
      <4>. QED  BY <1>10, <1>n
    <3>. HIDE DEF Good
    <3>. QED  BY <3>1
  <2>1. ASSUME V(l) # 0 PROVE X(l, V(l), 0)
    <3>1. l \in first..n /\ l \in 1..n /\ V(l) \in (l + 1)..(n + 1)
      BY <1>2, <2>1, <1>n
    <3>2. CASE t[l] = "x"
      <4>1. V(l) = l + 1 /\ Out(l + 1) /\ dep(l + 1) = dep(l) + Deeper(open, t[l]) /\ Deeper(open, t[l]) = 0
        BY <1>1, <1>3, <1>6, <3>1, <3>2
      <4>2. dep(l) \in Int
        BY <1>3, <3>1, <1>n
      <4>3. dep(l + 1) = dep(l) - 0
        BY <4>1, <4>2
      <4>. QED  BY <1>8, <3>1, <4>1, <4>3
    <3>3. CASE t[l] = "q"
      <4>1. V(l) = after[l + 1]
        BY <1>1, <3>1, <3>3
      <4>. QED  BY <1>4, <2>1, <3>1, <3>3, <4>1
    <3>4. CASE t[l] = "["
      <4>1. V(l) = E(l + 1) /\ Out(l + 1) /\ dep(l + 1) = dep(l) + fallE
        BY <1>1, <1>3, <1>6, <3>1, <3>4
      <4>2. l + 1 \in first..(n + 1) /\ l + 1 > l /\ l + 1 \in 0..(n + 1)
        BY <3>1, <1>n
      <4>3. X(l + 1, E(l + 1), fallE)
        BY <2>1, <2>g, <4>1, <4>2
      <4>4. E(l + 1) \in (l + 2)..(n + 1)
        BY <1>2, <2>1, <4>1, <4>2, <1>n
      <4>. QED  BY <1>9, <1>f, <3>1, <4>1, <4>3, <4>4
    <3>5. CASE t[l] = "{"
      <4>1. V(l) = Memb(l + 1) /\ Out(l + 1) /\ dep(l + 1) = dep(l) + fallM
        BY <1>1, <1>3, <1>6, <3>1, <3>5
      <4>2. l + 1 \in first..(n + 1) /\ l + 1 > l /\ l + 1 \in 0..(n + 1)
        BY <3>1, <1>n
      <4>3. X(l + 1, Memb(l + 1), fallM)
        BY <2>1, <2>g, <4>1, <4>2
      <4>4. Memb(l + 1) \in (l + 2)..(n + 1)
        BY <1>2, <2>1, <4>1, <4>2, <1>n
      <4>. QED  BY <1>9, <1>f, <3>1, <4>1, <4>3, <4>4
    <3>. QED  BY <1>1, <2>1, <3>1, <3>2, <3>3, <3>4, <3>5
  <2>2. ASSUME E(l) # 0 PROVE X(l, E(l), fallE)
    <3>1. l \in first..n /\ l \in 1..n /\ E(l) \in (l + 1)..(n + 1)
      BY <1>2, <2>2, <1>n
    <3>2. CASE t[l] = "]"
      <4>1. E(l) = l + 1 /\ Out(l + 1) /\ dep(l + 1) = dep(l) + (0 - fallE)
        BY <1>1, <1>3, <1>6, <3>1, <3>2
      <4>2. dep(l) \in Int
        BY <1>3, <3>1, <1>n
      <4>3. dep(l + 1) = dep(l) - fallE
        BY <4>1, <4>2, <1>f
      <4>. QED  BY <1>8, <1>f, <3>1, <4>1, <4>3
    <3>3. CASE t[l] # "]"
      <4>1. E(l) = E(V(l))
        BY <1>1, <3>1, <3>3
      <4>2. V(l) # 0
        <5>1. E(0) = 0
          BY <1>2, <1>n
        <5>. QED  BY <2>2, <4>1, <5>1
      <4>3. V(l) \in (l + 1)..(n + 1) /\ V(l) \in first..(n + 1) /\ V(l) \in 0..(n + 1) /\ V(l) > l
        BY <1>2, <3>1, <4>2, <1>n
      <4>4. X(l, V(l), 0)
        BY <2>1, <4>2
      <4>5. Out(V(l))
        BY <4>4 DEF X, Out, Ends
      <4>6. X(V(l), E(V(l)), fallE)
        BY <2>2, <2>g, <4>1, <4>3, <4>5
      <4>7. E(V(l)) \in first..(n + 1)
        BY <3>1, <4>1, <1>n
      <4>. QED  BY <1>7, <1>f, <2>l, <4>1, <4>3, <4>4, <4>6, <4>7
    <3>. QED  BY <3>2, <3>3
  <2>3. ASSUME Memb(l) # 0 PROVE X(l, Memb(l), fallM)
    <3>1. l \in first..n /\ l \in 1..n /\ Memb(l) \in (l + 1)..(n + 1)
      BY <1>2, <2>3, <1>n
    <3>2. CASE t[l] = "}"
      <4>1. Memb(l) = l + 1 /\ Out(l + 1) /\ dep(l + 1) = dep(l) + (0 - fallM)
        BY <1>1, <1>3, <1>6, <3>1, <3>2
      <4>2. dep(l) \in Int
        BY <1>3, <3>1, <1>n
      <4>3. dep(l + 1) = dep(l) - fallM
        BY <4>1, <4>2, <1>f
      <4>. QED  BY <1>8, <1>f, <3>1, <4>1, <4>3
    <3>3. CASE t[l] # "}"
      <4>. DEFINE a == after[l + 1]
                  v == V(a)
      <4>0. t[l] = "q" /\ Memb(l) = Memb(v)
        BY <1>1, <2>3, <3>1, <3>3
      <4>1. Memb(0) = 0 /\ V(0) = 0
        BY <1>2, <1>n
      <4>2. a # 0 /\ v # 0
        BY <2>3, <4>0, <4>1
      <4>3. a \in (l + 2)..(n + 1) /\ X(l, a, 0)
        BY <1>4, <3>1, <4>0, <4>2
      <4>4. a \in first..(n + 1) /\ a \in 0..(n + 1) /\ a > l /\ Out(a)
        BY <3>1, <4>3, <1>n DEF X, Out, Ends
      <4>5. v \in (a + 1)..(n + 1)
        BY <1>2, <4>2, <4>4
      <4>6. v \in first..(n + 1) /\ v > l
        BY <4>4, <4>5, <3>1, <1>n
      <4>7. X(a, v, 0)
        BY <2>g, <4>2, <4>4
      <4>8. Out(v)
        BY <4>7 DEF X, Out, Ends
      <4>9. X(v, Memb(v), fallM)
        BY <2>3, <2>g, <4>0, <4>6, <4>8
      <4>10. Memb(v) \in first..(n + 1)
        BY <3>1, <4>0, <1>n
      <4>. HIDE DEF a, v
      <4>11. X(l, v, 0)
        BY <1>7, <2>l, <4>3, <4>4, <4>6, <4>7
      <4>. QED  BY <1>7, <1>f, <2>l, <4>0, <4>6, <4>9, <4>10, <4>11
    <3>. QED  BY <3>2, <3>3
  <2>. QED  BY <2>1, <2>2, <2>3
<1>11. 0..(n + 1) \subseteq S
  <2>. HIDE DEF S
  <2>. QED  BY <1>10, <1>n, Downward
<1>12. Good(i)
  <2>1. i \in 0..(n + 1) /\ i >= first /\ Out(i)
    BY <1>n DEF n, Out
  <2>. HIDE DEF Good
  <2>. QED  BY <1>11, <2>1
<1>. QED  BY <1>12 DEF X, V, E, Memb, end, fallE, fallM, open

\* Where serde_json finds a value the scan finds its span.
LEMMA SpanOfValue ==
    ASSUME NEW t \in Seq(STRING), NEW first \in 1..Len(t), t[first] \in J!Opening,
           J!Parse(t, first) # 0
    PROVE  J!SpanEnd(t, first) = J!Parse(t, first)
<1>. DEFINE n == Len(t)
            open == t[first]
            end == J!Values(t)
            e == J!Parse(t, first)
            dep(j) == Depth(t, first, j)
            closed == {j \in first..n : J!Scanned(t, first)[j].depth = 0}
<1>n. n \in Nat /\ first \in Nat /\ first >= 1 /\ first <= n
  OBVIOUS
<1>1. /\ Plain(t, first, first) /\ dep(first) = 0
      /\ \A j \in first..(n + 1) : dep(j) \in Int
      /\ t[first] # "q" => /\ Plain(t, first, first + 1)
                           /\ dep(first + 1) = dep(first) + Deeper(t[first], t[first])
  <2>1. /\ Plain(t, first, first) /\ dep(first) = 0
        /\ \A j \in first..(n + 1) : dep(j) \in Int
        /\ \A j \in first..n : Plain(t, first, j) /\ t[j] # "q" =>
               Plain(t, first, j + 1) /\ dep(j + 1) = dep(j) + Deeper(t[first], t[j])
    BY ScanSteps, Zenon
  <2>. HIDE DEF n, dep
  <2>. QED  BY <2>1, <1>n
<1>2. t[first] # "q" /\ (open = "[" \/ open = "{")
  BY DEF J!Opening
<1>3. Plain(t, first, first + 1) /\ dep(first + 1) = 1
  <2>1. Deeper(t[first], t[first]) = 1
    BY DEF Deeper
  <2>2. dep(first + 1) = 0 + 1 /\ Plain(t, first, first + 1)
    <3>. HIDE DEF dep
    <3>. QED  BY <1>1, <1>2, <2>1
  <2>. HIDE DEF dep
  <2>. QED  BY <2>2
<1>4. /\ end[<<first, "value">>] = IF t[first] = "x" THEN first + 1
                                   ELSE IF t[first] = "q" THEN J!Strings(t)[first + 1]
                                   ELSE IF t[first] = "[" THEN end[<<first + 1, "elements">>]
                                   ELSE IF t[first] = "{" THEN end[<<first + 1, "members">>]
                                   ELSE 0
      /\ first + 1 \in 0..(n + 1)
  <2>1. \A i \in 1..n :
            end[<<i, "value">>] = IF t[i] = "x" THEN i + 1
                                  ELSE IF t[i] = "q" THEN J!Strings(t)[i + 1]
                                  ELSE IF t[i] = "[" THEN end[<<i + 1, "elements">>]
                                  ELSE IF t[i] = "{" THEN end[<<i + 1, "members">>]
                                  ELSE 0
    BY ValuesDefined, Zenon
  <2>2. first \in 1..n /\ first + 1 \in 0..(n + 1)
    BY <1>n
  <2>. QED  BY <2>1, <2>2, Zenon
<1>5. e = IF open = "[" THEN end[<<first + 1, "elements">>] ELSE end[<<first + 1, "members">>]
  BY <1>2, <1>4 DEF J!Parse
<1>6. first + 1 \in first..(Len(t) + 1)
  BY <1>n
<1>7. Ends(t, first, first + 1, e, 1)
  <2>1. /\ end[<<first + 1, "elements">>] # 0 =>
               Ends(t, first, first + 1, end[<<first + 1, "elements">>], IF t[first] = "[" THEN 1 ELSE 0)
        /\ end[<<first + 1, "members">>] # 0 =>
               Ends(t, first, first + 1, end[<<first + 1, "members">>], IF t[first] = "{" THEN 1 ELSE 0)
    BY <1>3, <1>6, ValuesKeepDepth, Zenon
  <2>e. e # 0
    OBVIOUS
  <2>. HIDE DEF end, e
  <2>2. CASE open = "["
    <3>1. e = end[<<first + 1, "elements">>] /\ (IF t[first] = "[" THEN 1 ELSE 0) = 1
      BY <1>5, <2>2
    <3>. QED  BY <2>1, <2>e, <3>1
  <2>3. CASE open = "{"
    <3>1. e = end[<<first + 1, "members">>] /\ (IF t[first] = "{" THEN 1 ELSE 0) = 1
      BY <1>5, <2>3
    <3>. QED  BY <2>1, <2>e, <3>1
  <2>. QED  BY <1>2, <2>2, <2>3
<1>8. e \in (first + 2)..(n + 1)
  <2>1. \A i \in 0..(n + 1), w \in {"value", "elements", "members"} :
            end[<<i, w>>] = 0 \/ (i \in 1..n /\ end[<<i, w>>] \in (i + 1)..(n + 1))
    BY ValuesDefined, Zenon
  <2>2. /\ end[<<first + 1, "elements">>] = 0 \/ end[<<first + 1, "elements">>] \in (first + 2)..(n + 1)
        /\ end[<<first + 1, "members">>] = 0 \/ end[<<first + 1, "members">>] \in (first + 2)..(n + 1)
    <3>1. (first + 1) + 1 = first + 2
      BY <1>n
    <3>. HIDE DEF end, n
    <3>. QED  BY <1>4, <2>1, <3>1
  <2>e. e # 0
    OBVIOUS
  <2>. HIDE DEF end, e
  <2>. QED  BY <1>5, <2>2, <2>e
<1>9. \A j \in first..n : J!Scanned(t, first)[j].depth = dep(j + 1)
  BY <1>n DEF Depth
<1>. HIDE DEF n, dep, e
<1>10. dep(e) = 0 /\ \A k \in (first + 1)..(e - 1) : dep(k) >= 1
  BY <1>3, <1>7 DEF Ends, dep
<1>11. e - 1 \in closed /\ \A j \in closed : e - 1 <= j
  <2>1. e - 1 \in first..n /\ (e - 1) + 1 = e
    BY <1>8, <1>n
  <2>2. ASSUME NEW j \in closed PROVE e - 1 <= j
    <3>1. j \in first..n /\ dep(j + 1) = 0
      BY <1>9
    <3>2. ~(j + 1 \in (first + 1)..(e - 1))
      BY <1>10, <3>1
    <3>. QED  BY <1>8, <1>n, <3>1, <3>2
  <2>. QED  BY <1>9, <1>10, <2>1, <2>2
<1>12. e - 1 = CHOOSE j \in closed : \A k \in closed : j <= k
  <2>1. closed \subseteq Int
    BY <1>n
  <2>2. \A j \in closed : (\A k \in closed : j <= k) => j = e - 1
    <3>1. e - 1 \in Int
      BY <1>8
    <3>. HIDE DEF closed
    <3>. QED  BY <1>11, <2>1, <3>1
  <2>. HIDE DEF closed
  <2>. QED  BY <1>11, <2>2
<1>13. J!SpanEnd(t, first) = 1 + (e - 1)
  <2>1. closed # {}
    BY <1>11
  <2>2. J!SpanEnd(t, first) = IF closed = {} THEN 0
                              ELSE 1 + (CHOOSE j \in closed : \A k \in closed : j <= k)
    BY DEF J!SpanEnd, n
  <2>. HIDE DEF closed
  <2>. QED  BY <1>12, <2>1, <2>2
<1>14. J!SpanEnd(t, first) = e
  BY <1>8, <1>13
<1>. QED  BY <1>14 DEF e

\* The search for an answer: no value begins before the position it has come to, an answer
\* begins there, and it is judged when there is one or the reply is over.
Looked ==
    /\ rec.artifact \in Replied \cup {Absent} /\ rec.summary \in Summaries
    /\ reply = Absent => start = 1 /\ answer = Absent /\ verdict = Absent
    /\ reply # Absent =>
           /\ reply \in Seq(STRING) /\ start \in 1..(Len(reply) + 1)
           /\ \A i \in 1..(start - 1) : reply[i] \in J!Opening => J!Parse(reply, i) = 0
           /\ answer # Absent =>
                  /\ start \in 1..Len(reply) /\ reply[start] \in J!Opening
                  /\ answer = <<start, J!Parse(reply, start)>> /\ J!Parse(reply, start) # 0
           /\ verdict # Absent => answer # Absent \/ start > Len(reply)

\* Each step of a role keeps it.
LEMMA StepLooked ==
    ASSUME Looked, [J!Next]_ReplyVars
    PROVE  Looked'
<1>1. CASE UNCHANGED ReplyVars
  BY <1>1 DEF Looked, ReplyVars
<1>2. CASE J!Read
  <2>1. reply' \in Seq(STRING) /\ UNCHANGED <<rec, start, answer, verdict>>
    BY <1>2, TextsAssumption DEF Looked, J!Read
  <2>2. start' = 1 /\ answer' = Absent /\ verdict' = Absent
    BY <1>2, <2>1 DEF Looked, J!Read
  <2>3. 1 \in 1..(Len(reply') + 1) /\ 1..(1 - 1) = {}
    BY <2>1
  <2>. QED  BY <2>1, <2>2, <2>3 DEF Looked
<1>3. CASE J!Found
  <2>1. /\ reply # Absent /\ answer = Absent /\ start <= Len(reply) /\ reply[start] \in J!Opening
        /\ J!Parse(reply, start) # 0 /\ answer' = <<start, J!Parse(reply, start)>>
        /\ UNCHANGED <<rec, reply, start, verdict>>
    BY <1>3 DEF J!Found, J!Searching
  <2>2. start \in 1..Len(reply)
    BY <2>1 DEF Looked
  <2>3. verdict = Absent
    BY <2>1, <2>2 DEF Looked
  <2>. QED  BY <2>1, <2>2, <2>3 DEF Looked
<1>4. CASE J!Advance
  <2>1. /\ reply # Absent /\ answer = Absent /\ start <= Len(reply) /\ start' = start + 1
        /\ UNCHANGED <<rec, reply, answer, verdict>>
    BY <1>4 DEF J!Advance, J!Searching
  <2>2. reply \in Seq(STRING) /\ start \in 1..Len(reply)
    BY <2>1 DEF Looked
  <2>3. verdict = Absent
    BY <2>1, <2>2 DEF Looked
  <2>4. reply[start] \in J!Opening => J!Parse(reply, start) = 0
    BY <1>4, <2>2, SpanOfValue DEF J!Advance
  <2>5. \A i \in 1..(start' - 1) : i \in 1..(start - 1) \/ i = start
    BY <2>1, <2>2
  <2>6. start' \in 1..(Len(reply) + 1)
    BY <2>1, <2>2
  <2>7. \A i \in 1..(start' - 1) : reply[i] \in J!Opening => J!Parse(reply, i) = 0
    BY <2>1, <2>4, <2>5 DEF Looked
  <2>. QED  BY <2>1, <2>2, <2>3, <2>6, <2>7 DEF Looked
<1>5. ASSUME NEW role \in J!Roles, J!Judge(role) PROVE Looked'
  <2>1. /\ reply # Absent /\ (answer # Absent \/ start > Len(reply))
        /\ UNCHANGED <<rec, reply, start, answer>>
    BY <1>5 DEF J!Judge
  <2>. QED  BY <2>1 DEF Looked
<1>. QED  BY <1>1, <1>2, <1>3, <1>4, <1>5 DEF J!Next

LEMMA InitLooked == J!Init => Looked
<1>. SUFFICES ASSUME J!Init PROVE Looked
  OBVIOUS
<1>1. rec.artifact \in Replied \cup {Absent} /\ rec.summary \in Summaries
  BY DEF J!Init
<1>. QED  BY <1>1 DEF J!Init, Looked

\* The answer that is judged is the first value of the reply.
LEMMA LookedAnswers == Looked => J!FirstValueAnswers
<1>. SUFFICES ASSUME Looked, verdict # Absent PROVE J!FirstValueAnswers
  BY DEF J!FirstValueAnswers
<1>. DEFINE begins == {i \in DOMAIN reply : reply[i] \in J!Opening /\ J!Parse(reply, i) # 0}
<1>1. /\ reply # Absent /\ reply \in Seq(STRING) /\ start \in 1..(Len(reply) + 1)
      /\ \A i \in 1..(start - 1) : reply[i] \in J!Opening => J!Parse(reply, i) = 0
      /\ answer # Absent \/ start > Len(reply)
  BY DEF Looked
<1>2. \A i \in begins : i \in 1..Len(reply) /\ start <= i
  BY <1>1
<1>3. CASE answer = Absent
  <2>1. begins = {}
    BY <1>1, <1>2, <1>3
  <2>. QED  BY <1>3, <2>1 DEF J!FirstValueAnswers
<1>4. CASE answer # Absent
  <2>1. /\ start \in 1..Len(reply) /\ reply[start] \in J!Opening
        /\ answer = <<start, J!Parse(reply, start)>> /\ J!Parse(reply, start) # 0
    BY <1>1, <1>4 DEF Looked
  <2>2. answer[1] \in begins /\ answer[2] = J!Parse(reply, answer[1]) /\ answer[1] = start
    BY <1>1, <2>1
  <2>. HIDE DEF begins
  <2>3. \A i \in begins : answer[1] <= i
    BY <1>2, <2>2
  <2>. QED  BY <1>4, <2>2, <2>3 DEF J!FirstValueAnswers, begins
<1>. QED  BY <1>3, <1>4

-----------------------------------------------------------------------------
(* The secrets of a prompt. *)

\* A piece of a text; of open and close the provers do not know that they are strings.
Piece == STRING \cup {"open", "close"}

\* A run of pieces ends at the first that is not of its kind, or with the text.
LEMMA RunEndsAt ==
    ASSUME NEW t \in Seq(Piece), NEW i \in 1..(Len(t) + 1), NEW S
    PROVE  /\ P!RunEnd(t, i, S) \in i..(Len(t) + 1)
           /\ \A j \in i..(P!RunEnd(t, i, S) - 1) : t[j] \in S
           /\ P!RunEnd(t, i, S) <= Len(t) => t[P!RunEnd(t, i, S)] \notin S
<1>. DEFINE n == Len(t)
            over == {e \in i..(n + 1) : e <= n => t[e] \notin S}
<1>n. n \in Nat /\ i \in Nat /\ i <= n + 1
  OBVIOUS
<1>. HIDE DEF n
<1>1. over \subseteq Nat /\ n + 1 \in over
  BY <1>n
<1>2. PICK e \in over : \A x \in over : e <= x
  <2>. HIDE DEF over
  <2>. QED  BY <1>1, LeastNumber
<1>3. /\ e \in i..(n + 1)
      /\ \A j \in i..(e - 1) : t[j] \in S
      /\ e <= n => t[e] \notin S
  <2>1. ASSUME NEW j \in i..(e - 1) PROVE t[j] \in S
    <3>1. j \in i..(n + 1) /\ j <= n /\ ~(e <= j)
      BY <1>n, <1>2
    <3>2. j \notin over
      <4>. HIDE DEF over
      <4>. QED  BY <1>2, <3>1
    <3>. QED  BY <3>1, <3>2
  <2>. QED  BY <1>2, <2>1
<1>. QED  BY <1>3 DEF P!RunEnd, n

\* A part of a text that is not empty.
SpansOf(t) == {s \in (1..Len(t)) \X (1..(Len(t) + 1)) : s[1] < s[2]}

\* Spans of which no two begin together, in their order.
LEMMA InOrderOf ==
    ASSUME NEW n \in Nat, NEW S \in SUBSET ((1..n) \X Nat),
           \A x, y \in S : x[1] = y[1] => x = y
    PROVE  LET q == P!InOrder(S)
               c == Cardinality(S)
           IN  /\ c \in Nat /\ q = [k \in 1..c |-> q[k]] /\ q \in Seq(S) /\ Len(q) = c
               /\ \A k, l \in 1..c : k < l => q[k][1] < q[l][1]
               /\ \A s \in S : \E k \in 1..c : q[k] = s
<1>. DEFINE q == P!InOrder(S)
            c == Cardinality(S)
            First == {s[1] : s \in S}
            before(s) == {x \in S : P!Before(x, s)}
            f == [s \in S |-> s[1]]
<1>1. First \in SUBSET (1..n)
  OBVIOUS
<1>2. IsFiniteSet(First)
  <2>1. IsFiniteSet(1..n)
    BY FS_Interval
  <2>. HIDE DEF First
  <2>. QED  BY <1>1, <2>1, FS_Subset
<1>3. ASSUME NEW A \in SUBSET S
      PROVE  IsFiniteSet(A) /\ Cardinality(A) = Cardinality({s[1] : s \in A}) /\ Cardinality(A) \in Nat
  <2>. DEFINE g == [i \in {s[1] : s \in A} |-> CHOOSE s \in A : s[1] = i]
  <2>1. \A i \in {s[1] : s \in A} : g[i] \in A /\ g[i][1] = i
    OBVIOUS
  <2>2. g \in Bijection({s[1] : s \in A}, A)
    <3>. HIDE DEF g
    <3>1. g = [i \in {s[1] : s \in A} |-> g[i]]
      BY DEF g
    <3>2. \A s \in A : g[s[1]] = s
      BY <2>1
    <3>3. g \in [{s[1] : s \in A} -> A]
      BY <2>1, <3>1
    <3>4. \A i, j \in {s[1] : s \in A} : i # j => g[i] # g[j]
      BY <2>1
    <3>5. \A s \in A : \E i \in {x[1] : x \in A} : g[i] = s
      BY <3>2
    <3>. QED  BY <3>3, <3>4, <3>5 DEF Bijection, Injection, Surjection, IsInjective
  <2>3. IsFiniteSet({s[1] : s \in A})
    <3>1. {s[1] : s \in A} \in SUBSET First
      OBVIOUS
    <3>. QED  BY <1>2, <3>1, FS_Subset
  <2>4. IsFiniteSet(A) /\ Cardinality(A) = Cardinality({s[1] : s \in A})
    <3>. DEFINE Dom == {s[1] : s \in A}
    <3>. HIDE DEF g, Dom
    <3>1. ExistsBijection(Dom, A) /\ IsFiniteSet(Dom)
      BY <2>2, <2>3 DEF Dom, ExistsBijection
    <3>2. IsFiniteSet(A) /\ Cardinality(A) = Cardinality(Dom)
      BY <3>1, FS_Bijection
    <3>. QED  BY <3>2 DEF Dom
  <2>. QED  BY <2>4, FS_CardinalityType
<1>p. \A s \in S : s[1] \in 1..n /\ s[2] \in Nat
  OBVIOUS
<1>b. \A s \in S : before(s) = {x \in S : x[1] <= s[1]}
  <2>. SUFFICES ASSUME NEW s \in S, NEW x \in S PROVE P!Before(x, s) <=> x[1] <= s[1]
    OBVIOUS
  <2>1. x[1] = s[1] => x = s
    OBVIOUS
  <2>. QED  BY <1>p, <2>1 DEF P!Before
<1>. DEFINE count(s) == Cardinality(before(s))
<1>4. \A s \in S : count(s) = Cardinality(First \cap 1..s[1])
  <2>. SUFFICES ASSUME NEW s \in S PROVE count(s) = Cardinality(First \cap 1..s[1])
    OBVIOUS
  <2>1. {x[1] : x \in before(s)} = First \cap 1..s[1]
    <3>1. before(s) = {x \in S : x[1] <= s[1]}
      BY <1>b
    <3>. HIDE DEF before
    <3>. QED  BY <1>p, <3>1
  <2>2. before(s) \in SUBSET S
    OBVIOUS
  <2>. HIDE DEF before, First
  <2>. QED  BY <1>3, <2>1, <2>2
<1>5. c = Cardinality(First) /\ c \in Nat
  BY <1>3
<1>6. \A k \in 1..c : \E s \in S : count(s) = k
  <2>. SUFFICES ASSUME NEW k \in 1..c PROVE \E s \in S : count(s) = k
    OBVIOUS
  <2>1. PICK i \in First : Cardinality(First \cap 1..i) = k
    <3>. HIDE DEF First, c
    <3>. QED  BY <1>1, <1>5, KthThere
  <2>2. PICK s \in S : s[1] = i
    OBVIOUS
  <2>. HIDE DEF count, First
  <2>. QED  BY <1>4, <2>1, <2>2
<1>7. ASSUME NEW x \in S, NEW y \in S, x[1] < y[1] PROVE count(x) < count(y)
  <2>1. before(x) = {z \in S : z[1] <= x[1]} /\ before(y) = {z \in S : z[1] <= y[1]}
    BY <1>b
  <2>. HIDE DEF before
  <2>2. before(x) \in SUBSET before(y) /\ y \in before(y) /\ y \notin before(x)
    BY <1>7, <1>p, <2>1
  <2>3. /\ IsFiniteSet(before(y)) /\ count(x) \in Nat /\ count(y) \in Nat
    BY <1>3, <2>1
  <2>4. count(x) <= count(y) /\ count(x) # count(y)
    BY <2>2, <2>3, FS_Subset
  <2>. HIDE DEF count
  <2>. QED  BY <2>3, <2>4
<1>8. ASSUME NEW x \in S, NEW y \in S, count(x) = count(y) PROVE x = y
  <2>1. count(x) \in Nat /\ count(y) \in Nat
    <3>1. before(x) \in SUBSET S /\ before(y) \in SUBSET S
      OBVIOUS
    <3>. HIDE DEF before
    <3>. QED  BY <1>3, <3>1
  <2>. HIDE DEF count
  <2>2. ~(x[1] < y[1]) /\ ~(y[1] < x[1])
    BY <1>7, <1>8, <2>1
  <2>. QED  BY <1>p, <2>2
<1>9. q = [k \in 1..c |-> CHOOSE s \in S : count(s) = k]
  BY DEF P!InOrder, P!Cardinality, Cardinality
<1>10. ASSUME NEW k \in 1..c PROVE q[k] \in S /\ count(q[k]) = k
  <2>. HIDE DEF count, q, c
  <2>. QED  BY <1>6, <1>9
<1>11. ASSUME NEW k \in 1..c, NEW l \in 1..c, k < l PROVE q[k][1] < q[l][1]
  <2>1. q[k] \in S /\ q[l] \in S /\ count(q[k]) = k /\ count(q[l]) = l
    BY <1>10
  <2>2. q[l][1] < q[k][1] => count(q[l]) < count(q[k])
    <3>. HIDE DEF count, q
    <3>. QED  BY <1>7, <2>1
  <2>3. q[l][1] = q[k][1] => q[l] = q[k]
    <3>. HIDE DEF count, q
    <3>. QED  BY <2>1
  <2>4. q[l][1] \in Nat /\ q[k][1] \in Nat
    <3>. HIDE DEF count, q
    <3>. QED  BY <1>p, <2>1
  <2>5. k \in Nat /\ l \in Nat
    BY <1>5
  <2>. HIDE DEF count, q, c
  <2>. QED  BY <1>11, <2>1, <2>2, <2>3, <2>4, <2>5
<1>12. ASSUME NEW s \in S PROVE \E k \in 1..c : q[k] = s
  <2>1. before(s) \in SUBSET S /\ s \in before(s)
    BY <1>p DEF P!Before
  <2>2. IsFiniteSet(S) /\ IsFiniteSet(before(s)) /\ count(s) \in Nat /\ count(s) <= c /\ count(s) # 0
    <3>. HIDE DEF before
    <3>1. IsFiniteSet(S) /\ IsFiniteSet(before(s)) /\ count(s) \in Nat
      BY <1>3, <2>1
    <3>. QED  BY <2>1, <3>1, FS_Subset, FS_EmptySet
  <2>3. count(s) \in 1..c
    <3>. HIDE DEF count, c
    <3>. QED  BY <1>5, <2>2
  <2>4. q[count(s)] \in S /\ count(q[count(s)]) = count(s)
    BY <1>10, <2>3
  <2>5. q[count(s)] = s
    <3>. HIDE DEF count, q
    <3>. QED  BY <1>8, <2>4
  <2>. QED  BY <2>3, <2>5
<1>13. q = [k \in 1..c |-> q[k]]
  <2>. HIDE DEF count, c
  <2>. QED  BY <1>9
<1>14. q \in Seq(S) /\ Len(q) = c
  <2>. HIDE DEF count, c, q
  <2>1. q \in [1..c -> S]
    BY <1>10, <1>13
  <2>2. c \in Nat
    BY <1>5
  <2>. QED  BY <2>1, <2>2, SeqDef, LenProperties
<1>. HIDE DEF q, c
<1>15. /\ c \in Nat /\ q = [k \in 1..c |-> q[k]] /\ q \in Seq(S) /\ Len(q) = c
       /\ \A k, l \in 1..c : k < l => q[k][1] < q[l][1]
       /\ \A s \in S : \E k \in 1..c : q[k] = s
  BY <1>5, <1>11, <1>12, <1>13, <1>14
<1>. QED  BY <1>15 DEF q, c

\* Spans whose end follows from where they begin, in their order.
LEMMA SpansInOrder ==
    ASSUME NEW t \in Seq(Piece), NEW S \in SUBSET SpansOf(t),
           \A x, y \in S : x[1] = y[1] => x = y
    PROVE  LET q == P!InOrder(S) IN
           /\ q \in Seq(SpansOf(t)) /\ \A k \in 1..Len(q) : q[k] \in S
           /\ \A k, l \in 1..Len(q) : k < l => q[k][1] < q[l][1]
           /\ \A s \in S : \E k \in 1..Len(q) : q[k] = s
<1>. DEFINE n == Len(t)
            q == P!InOrder(S)
            c == Cardinality(S)
<1>1. n \in Nat /\ S \in SUBSET ((1..n) \X Nat)
  <2>1. SpansOf(t) \subseteq (1..n) \X Nat
    BY DEF SpansOf
  <2>. QED  BY <2>1
<1>2. /\ c \in Nat /\ q \in Seq(S) /\ Len(q) = c
      /\ \A k, l \in 1..c : k < l => q[k][1] < q[l][1]
      /\ \A s \in S : \E k \in 1..c : q[k] = s
  BY <1>1, InOrderOf, Zenon
<1>3. q \in Seq(SpansOf(t)) /\ \A k \in 1..Len(q) : q[k] \in S
  <2>. HIDE DEF q
  <2>1. q \in Seq(SpansOf(t))
    BY <1>2, SeqMonotonic
  <2>. QED  BY <1>2, <2>1, ElementOfSeq
<1>. HIDE DEF q, c
<1>4. /\ q \in Seq(SpansOf(t)) /\ \A k \in 1..Len(q) : q[k] \in S
      /\ \A k, l \in 1..Len(q) : k < l => q[k][1] < q[l][1]
      /\ \A s \in S : \E k \in 1..Len(q) : q[k] = s
  BY <1>2, <1>3
<1>. QED  BY <1>4 DEF q

\* Lists of spans, one after the other, are spans.
LEMMA JoinedSpans ==
    ASSUME NEW V, NEW n \in Nat, NEW lists, DOMAIN lists = 1..n, Len(lists) = n,
           \A i \in 1..n : lists[i] \in Seq(V)
    PROVE  P!Joined(lists) \in Seq(V)
<1>. DEFINE Dom == 0..n
            Vals == Seq(V)
            Body(f, k) == IF k = 0 THEN <<>> ELSE f[k - 1] \o lists[k]
            G == [Dom -> Vals]
            F == [f \in G |-> [k \in Dom |-> Body(f, k)]]
            m == [k \in Dom |-> k]
            Top == n + 1
            all == CHOOSE f_1 : f_1 = [k \in Dom |-> Body(f_1, k)]
<1>e. <<>> \in Vals
  OBVIOUS
<1>c. \A a, b \in Vals : a \o b \in Vals
  OBVIOUS
<1>7. P!Joined(lists) = all[n]
  BY DEF P!Joined
<1>l. \A i \in 1..n : lists[i] \in Vals
  OBVIOUS
<1>. HIDE DEF Vals
<1>1. F \in [G -> G]
  <2>. SUFFICES ASSUME NEW f \in G, NEW k \in Dom PROVE Body(f, k) \in Vals
    OBVIOUS
  <2>1. k # 0 => f[k - 1] \in Vals /\ lists[k] \in Vals
    BY <1>l
  <2>. QED  BY <1>c, <1>e, <2>1
<1>2. m \in [Dom -> Nat] /\ Top \in Nat /\ \A k \in Dom : m[k] < Top
  OBVIOUS
<1>3. ASSUME NEW f \in G, NEW g \in G, NEW k \in Dom, \A x \in Dom : m[x] < m[k] => f[x] = g[x]
      PROVE  F[f][k] = F[g][k]
  <2>1. k # 0 => f[k - 1] = g[k - 1]
    BY <1>3
  <2>2. Body(f, k) = Body(g, k)
    BY <2>1
  <2>. HIDE DEF Body
  <2>. QED  BY <2>2
<1>4. G # {} /\ \A f, g \in G : (\A k \in Dom : f[k] = g[k]) => f = g
  <2>1. [k \in Dom |-> <<>>] \in G
    BY <1>e
  <2>2. \A f, g \in G : (\A k \in Dom : f[k] = g[k]) => f = g
    <3>. HIDE DEF Dom
    <3>. QED  BY SameFunction
  <2>. QED  BY <2>1, <2>2
<1>5. PICK f \in G : f = F[f]
  <2>. HIDE DEF G, F, m, Dom, Top
  <2>1. Recursive(Dom, G, F, m, Top)
    BY <1>1, <1>2, <1>3, <1>4 DEF Recursive
  <2>. QED  BY <2>1, Recursion
<1>6. f = [k \in Dom |-> Body(f, k)]
  <2>. HIDE DEF Dom, Body
  <2>. QED  BY <1>5
<1>8. all = [k \in Dom |-> Body(all, k)]
  <2>. HIDE DEF Body, Dom
  <2>. QED  BY <1>6
<1>9. \A k \in Dom : all[k] = Body(all, k)
  <2>. HIDE DEF Body, all
  <2>. QED  BY <1>8
<1>. HIDE DEF all
<1>. DEFINE S == {k \in 0..n : all[k] \in Vals}
<1>10. ASSUME NEW k \in 0..n, \A x \in 0..n : x < k => x \in S
       PROVE  k \in S
  <2>1. k # 0 => k - 1 \in S
    <3>. HIDE DEF S
    <3>. QED  BY <1>10
  <2>2. k # 0 => all[k - 1] \in Vals /\ lists[k] \in Vals
    BY <1>l, <2>1
  <2>3. Body(all, k) \in Vals
    BY <1>c, <1>e, <2>2
  <2>. HIDE DEF Body
  <2>. QED  BY <1>9, <2>3
<1>11. 0..n \subseteq S
  <2>. HIDE DEF S
  <2>. QED  BY <1>10, Upward
<1>12. all[n] \in Vals
  BY <1>11
<1>. QED  BY <1>7, <1>12 DEF Vals

\* The keys of one vendor are spans,
LEMMA KeysAreSpans ==
    ASSUME NEW t \in Seq(Piece), NEW vendor
    PROVE  P!KeysOf(t, vendor) \in Seq(SpansOf(t))
<1>. DEFINE n == Len(t)
            end(i) == P!RunEnd(t, i + 1, P!TokenPieces)
            S == {s \in {<<i, end(i)>> : i \in {j \in DOMAIN t : t[j] = vendor.prefix}} :
                     s[2] - s[1] >= vendor.least}
<1>1. P!KeysOf(t, vendor) = P!InOrder(S)
  BY DEF P!KeysOf
<1>2. \A i \in 1..n : end(i) \in (i + 1)..(n + 1)
  <2>. SUFFICES ASSUME NEW i \in 1..n PROVE end(i) \in (i + 1)..(n + 1)
    OBVIOUS
  <2>1. i + 1 \in 1..(n + 1)
    OBVIOUS
  <2>. QED  BY <2>1, RunEndsAt
<1>3. DOMAIN t = 1..n /\ n \in Nat
  OBVIOUS
<1>. HIDE DEF n, end
<1>4. S \in SUBSET SpansOf(t)
  <2>. SUFFICES ASSUME NEW i \in 1..n PROVE <<i, end(i)>> \in SpansOf(t)
    BY <1>3
  <2>. QED  BY <1>2, <1>3 DEF SpansOf, n
<1>5. \A x, y \in S : x[1] = y[1] => x = y
  OBVIOUS
<1>. HIDE DEF S
<1>. QED  BY <1>1, <1>4, <1>5, SpansInOrder

\* and those of all of them,
LEMMA VendorSpansOf ==
    ASSUME NEW t \in Seq(Piece)
    PROVE  P!VendorSpans(t) \in Seq(SpansOf(t))
<1>. DEFINE lists == [v \in DOMAIN Vendors |-> P!KeysOf(t, Vendors[v])]
            n == Len(Vendors)
<1>1. n \in Nat /\ DOMAIN Vendors = 1..n
  BY TextsAssumption
<1>2. DOMAIN lists = 1..n /\ Len(lists) = n
  <2>. HIDE DEF n
  <2>. QED  BY <1>1
<1>3. \A i \in 1..n : lists[i] \in Seq(SpansOf(t))
  BY <1>1, KeysAreSpans
<1>4. P!VendorSpans(t) = P!Joined(lists)
  BY DEF P!VendorSpans
<1>. HIDE DEF lists, n
<1>. QED  BY <1>1, <1>2, <1>3, <1>4, JoinedSpans

LEMMA SpansCount == ASSUME NEW S PROVE P!Cardinality(S) = Cardinality(S)
  BY DEF P!Cardinality, Cardinality

\* values behind a label are spans,
LEMMA ValuesAreSpans ==
    ASSUME NEW t \in Seq(Piece), NEW label
    PROVE  P!ValuesOf(t, label) \in Seq(SpansOf(t))
<1>. DEFINE n == Len(t)
            from(i) == P!ValueStart(t, i)
            Bytes == P!BytesOfValue(t)
            behind == {P!AfterLabel(t, j) : j \in {x \in DOMAIN t : t[x] = label}}
            places == {x \in behind : x <= Len(t) /\ P!At(t, P!NotBlank(t, x)) = "="}
            end(i) == P!RunEnd(t, from(i), Bytes)
            S == {s \in {<<from(i), end(i)>> : i \in places} : s[2] - s[1] >= MinValue}
<1>n. n \in Nat /\ DOMAIN t = 1..n
  OBVIOUS
<1>1. P!ValuesOf(t, label) = P!InOrder(S)
  BY DEF P!ValuesOf
<1>b. \A i \in behind : i \in Nat /\ i >= 1
  <2>. SUFFICES ASSUME NEW j \in 1..n PROVE P!AfterLabel(t, j) \in Nat /\ P!AfterLabel(t, j) >= 1
    BY <1>n
  <2>1. Cardinality({i \in 1..j : t[i] = "i2"}) \in Nat
    <3>1. IsFiniteSet(1..j)
      BY FS_Interval
    <3>2. IsFiniteSet({i \in 1..j : t[i] = "i2"})
      BY <3>1, FS_Subset
    <3>. QED  BY <3>2, FS_CardinalityType
  <2>2. P!AfterLabel(t, j) = j + 1 + Cardinality({i \in 1..j : t[i] = "i2"})
    BY SpansCount, Zenon DEF P!AfterLabel
  <2>3. \A c \in Nat : j + 1 + c \in Nat /\ j + 1 + c >= 1
    BY <1>n
  <2>4. j + 1 + Cardinality({i \in 1..j : t[i] = "i2"}) \in Nat
        /\ j + 1 + Cardinality({i \in 1..j : t[i] = "i2"}) >= 1
    BY <2>1, <2>3, Zenon
  <2>. QED  BY <2>2, <2>4, Zenon
<1>2. \A i \in 1..(n + 1) : P!NotBlank(t, i) \in i..(n + 1)
  <2>. SUFFICES ASSUME NEW i \in 1..(n + 1) PROVE P!NotBlank(t, i) \in i..(n + 1)
    OBVIOUS
  <2>. QED  BY RunEndsAt DEF P!NotBlank
<1>3. \A i : P!At(t, i) # "end" /\ P!At(t, i) \in {"=", "q"} => i <= n
  BY DEF P!At
<1>p. \A i \in places : i \in 1..n /\ P!At(t, P!NotBlank(t, i)) = "="
  <2>. HIDE DEF behind
  <2>. QED  BY <1>b, <1>n
<1>. HIDE DEF n, places, behind
<1>4. ASSUME NEW i \in places PROVE from(i) \in 1..(n + 1)
  <2>. DEFINE e == P!NotBlank(t, i)
              v == P!NotBlank(t, e + 1)
  <2>1. i \in 1..n /\ P!At(t, e) = "="
    BY <1>p
  <2>2. i \in 1..(n + 1)
    BY <1>n, <2>1
  <2>3. e \in i..(n + 1)
    BY <1>2, <2>2
  <2>4. e <= n
    BY <1>3, <2>1
  <2>5. e + 1 \in 1..(n + 1)
    BY <1>n, <2>2, <2>3, <2>4
  <2>6. v \in (e + 1)..(n + 1)
    <3>. HIDE DEF e
    <3>. QED  BY <1>2, <2>5
  <2>7. from(i) = IF P!At(t, v) = "q" THEN v + 1 ELSE v
    BY DEF P!ValueStart
  <2>8. P!At(t, v) = "q" => v <= n
    BY <1>3
  <2>. HIDE DEF e, v
  <2>. QED  BY <1>n, <2>5, <2>6, <2>7, <2>8
<1>5. \A i \in places : end(i) \in from(i)..(n + 1)
  <2>. SUFFICES ASSUME NEW i \in places PROVE end(i) \in from(i)..(n + 1)
    OBVIOUS
  <2>1. from(i) \in 1..(Len(t) + 1)
    BY <1>4 DEF n
  <2>. HIDE DEF from, Bytes
  <2>. QED  BY <2>1, RunEndsAt DEF n
<1>. HIDE DEF from
<1>6. S \in SUBSET SpansOf(t)
  <2>. SUFFICES ASSUME NEW i \in places, end(i) - from(i) >= MinValue
                PROVE  <<from(i), end(i)>> \in SpansOf(t)
    OBVIOUS
  <2>1. from(i) \in 1..(n + 1) /\ end(i) \in from(i)..(n + 1)
    BY <1>4, <1>5
  <2>2. MinValue \in Nat \ {0}
    BY TextsAssumption
  <2>. HIDE DEF end
  <2>. QED  BY <1>n, <2>1, <2>2 DEF SpansOf, n
<1>7. \A x, y \in S : x[1] = y[1] => x = y
  BY DEF end
<1>. HIDE DEF S
<1>. QED  BY <1>1, <1>6, <1>7, SpansInOrder

LEMMA AssignedSpansOf ==
    ASSUME NEW t \in Seq(Piece)
    PROVE  P!AssignedSpans(t) \in Seq(SpansOf(t))
<1>. DEFINE lists == [l \in DOMAIN Labels |-> P!ValuesOf(t, Labels[l])]
            n == Len(Labels)
<1>1. n \in Nat /\ DOMAIN Labels = 1..n
  BY TextsAssumption
<1>2. DOMAIN lists = 1..n /\ Len(lists) = n
  <2>. HIDE DEF n
  <2>. QED  BY <1>1
<1>3. \A i \in 1..n : lists[i] \in Seq(SpansOf(t))
  BY <1>1, ValuesAreSpans
<1>4. P!AssignedSpans(t) = P!Joined(lists)
  BY DEF P!AssignedSpans
<1>. HIDE DEF lists, n
<1>. QED  BY <1>1, <1>2, <1>3, <1>4, JoinedSpans

\* and so are the words of a high entropy,
LEMMA EntropySpansOf ==
    ASSUME NEW t \in Seq(Piece)
    PROVE  P!EntropySpans(t) \in Seq(SpansOf(t))
<1>. DEFINE n == Len(t)
            Ways == P!Range(t) \ {"_"}
            end(i) == P!RunEnd(t, i, Ways)
            first == {j \in DOMAIN t : t[j] # "_" /\ (j = 1 \/ t[j - 1] = "_")}
            HasSecret(s) == LET w == SubSeq(t, s[1], s[2] - 1)
                            IN  /\ Len(w) >= MinWord
                                /\ ~P!Hexadecimal(w) /\ ~P!Filename(w)
                                /\ P!Range(w) \cap P!Structure = {}
                                /\ P!HighEntropy(w)
            S == {s \in {<<i, end(i)>> : i \in first} : HasSecret(s)}
<1>n. n \in Nat /\ DOMAIN t = 1..n
  OBVIOUS
<1>1. P!EntropySpans(t) = P!InOrder(S)
  BY DEF P!EntropySpans, P!Words
<1>f. \A i \in first : i \in 1..n /\ t[i] # "_"
  <2>. HIDE DEF n
  <2>. QED  BY <1>n
<1>. HIDE DEF first, n
<1>2. \A i \in first : end(i) \in (i + 1)..(n + 1) /\ i \in 1..n
  <2>. SUFFICES ASSUME NEW i \in first PROVE end(i) \in (i + 1)..(n + 1) /\ i \in 1..n
    OBVIOUS
  <2>1. i \in 1..n /\ t[i] \in Ways
    BY <1>f, <1>n DEF P!Range
  <2>2. i \in 1..(n + 1)
    <3>1. \A j \in 1..n : j \in 1..(n + 1)
      BY <1>n
    <3>. QED  BY <2>1, <3>1
  <2>3. end(i) \in i..(n + 1) /\ (end(i) <= n => t[end(i)] \notin Ways)
    <3>. HIDE DEF Ways
    <3>. QED  BY <2>2, RunEndsAt DEF n
  <2>4. end(i) # i
    <3>. HIDE DEF Ways, end
    <3>. QED  BY <2>1, <2>3
  <2>. HIDE DEF Ways, end
  <2>. QED  BY <1>n, <2>1, <2>3, <2>4
<1>. HIDE DEF HasSecret, end
<1>3. S \in SUBSET SpansOf(t)
  <2>. SUFFICES ASSUME NEW i \in first PROVE <<i, end(i)>> \in SpansOf(t)
    OBVIOUS
  <2>. QED  BY <1>n, <1>2 DEF SpansOf, n
<1>4. \A x, y \in S : x[1] = y[1] => x = y
  OBVIOUS
<1>. HIDE DEF S
<1>. QED  BY <1>1, <1>3, <1>4, SpansInOrder

\* and what has three segments, each after the end of the one before.
LEMMA JwtEnds ==
    ASSUME NEW t \in Seq(Piece), NEW i \in 1..Len(t), P!JwtEnd(t, i) # 0
    PROVE  P!JwtEnd(t, i) \in (i + 1)..(Len(t) + 1)
<1>. DEFINE n == Len(t)
            Toks == P!TokenPieces
            e1 == P!RunEnd(t, i, Toks)
            e2 == IF P!At(t, e1) = "." THEN P!RunEnd(t, e1 + 1, Toks) ELSE i
            e3 == IF P!At(t, e2) = "." /\ e2 > e1 THEN P!RunEnd(t, e2 + 1, Toks) ELSE i
<1>n. n \in Nat /\ i \in 1..n /\ i \in 1..(n + 1) /\ MinSegment \in Nat
  <2>1. n \in Nat /\ i \in 1..n
    OBVIOUS
  <2>. HIDE DEF n
  <2>. QED  BY <2>1, TextsAssumption
<1>1. P!JwtEnd(t, i) = IF e1 - i >= MinSegment /\ e2 - e1 > MinSegment /\ e3 - e2 > MinSegment THEN e3 ELSE 0
  BY DEF P!JwtEnd
<1>2. \A j : P!At(t, j) = "." => j <= n
  BY DEF P!At
<1>3. \A j \in 1..(n + 1) : P!RunEnd(t, j, Toks) \in j..(n + 1)
  <2>. HIDE DEF Toks
  <2>. QED  BY RunEndsAt
<1>. HIDE DEF n, Toks
<1>4. e1 \in i..(n + 1)
  BY <1>n, <1>3
<1>5. e2 \in 1..(n + 1)
  <2>1. P!At(t, e1) = "." => e1 <= n
    BY <1>2
  <2>. HIDE DEF e1
  <2>2. P!At(t, e1) = "." => e1 + 1 \in 1..(n + 1)
    BY <1>n, <1>4, <2>1
  <2>3. P!At(t, e1) = "." => P!RunEnd(t, e1 + 1, Toks) \in (e1 + 1)..(n + 1)
    BY <1>3, <2>2
  <2>. QED  BY <1>n, <1>4, <2>3
<1>. HIDE DEF e1, e2
<1>6. e3 = i \/ e3 \in (e2 + 1)..(n + 1)
  <2>1. P!At(t, e2) = "." => e2 <= n
    BY <1>2
  <2>2. P!At(t, e2) = "." => e2 + 1 \in 1..(n + 1)
    BY <1>n, <1>5, <2>1
  <2>. QED  BY <1>3, <2>2
<1>. HIDE DEF e3
<1>7. P!JwtEnd(t, i) = e3 /\ e2 - e1 > MinSegment /\ e3 - e2 > MinSegment
  BY <1>1
<1>8. e1 \in Int /\ e2 \in Int /\ e3 \in Int
  BY <1>n, <1>4, <1>5, <1>6
<1>9. e3 > i /\ e3 <= n + 1
  BY <1>n, <1>4, <1>5, <1>6, <1>7, <1>8
<1>. QED  BY <1>n, <1>7, <1>8, <1>9 DEF n

LEMMA JwtSpansOf ==
    ASSUME NEW t \in Seq(Piece)
    PROVE  P!JwtSpans(t) \in Seq(SpansOf(t))
<1>. DEFINE n == Len(t)
            Dom == 1..(n + 1)
            Vals == Seq(SpansOf(t))
            J0(i) == P!JwtEnd(t, i)
            Body(f, i) == IF i > n THEN <<>>
                          ELSE IF J0(i) = 0 THEN f[i + 1]
                          ELSE <<<<i, J0(i)>>>> \o f[J0(i)]
            G == [Dom -> Vals]
            F == [f \in G |-> [i \in Dom |-> Body(f, i)]]
            m == [i \in Dom |-> n + 1 - i]
            Top == n + 1
            from == CHOOSE f_1 : f_1 = [i \in Dom |-> Body(f_1, i)]
<1>n. n \in Nat
  OBVIOUS
<1>j. \A i \in 1..n : J0(i) # 0 => J0(i) \in (i + 1)..(n + 1)
  BY JwtEnds
<1>7. P!JwtSpans(t) = from[1]
  BY DEF P!JwtSpans
<1>p. \A i \in 1..n : J0(i) # 0 => <<i, J0(i)>> \in SpansOf(t)
  <2>. SUFFICES ASSUME NEW i \in 1..n, J0(i) # 0 PROVE <<i, J0(i)>> \in SpansOf(t)
    OBVIOUS
  <2>1. J0(i) \in (i + 1)..(n + 1)
    BY <1>j
  <2>. HIDE DEF J0
  <2>. QED  BY <2>1 DEF SpansOf
<1>r. <<>> \in Vals /\ \A s \in SpansOf(t), r \in Vals : <<s>> \o r \in Vals
  <2>1. ASSUME NEW s \in SpansOf(t), NEW r \in Vals PROVE <<s>> \o r \in Vals
    <3>1. <<s>> \in Vals
      OBVIOUS
    <3>. HIDE DEF Vals
    <3>. QED  BY <3>1, ConcatProperties DEF Vals
  <2>. QED  BY <2>1, EmptySeq
<1>. HIDE DEF n, J0, Vals
<1>s. ASSUME NEW f, NEW i \in Dom, i < n + 1 => f[i + 1] \in Vals,
             \A c \in (i + 1)..(n + 1) : f[c] \in Vals
      PROVE  Body(f, i) \in Vals
  <2>1. CASE i > n
    BY <1>r, <2>1
  <2>2. CASE i <= n
    <3>1. i \in 1..n
      BY <1>n, <2>2
    <3>2. J0(i) # 0 => <<i, J0(i)>> \in SpansOf(t) /\ f[J0(i)] \in Vals
      BY <1>j, <1>p, <1>s, <3>1
    <3>3. f[i + 1] \in Vals
      BY <1>n, <1>s, <3>1
    <3>4. ~(i > n)
      BY <1>n, <3>1
    <3>. QED  BY <1>r, <3>2, <3>3, <3>4
  <2>. QED  BY <1>n, <2>1, <2>2
<1>1. F \in [G -> G]
  <2>. SUFFICES ASSUME NEW f \in G, NEW i \in Dom PROVE Body(f, i) \in Vals
    OBVIOUS
  <2>1. (i < n + 1 => f[i + 1] \in Vals) /\ \A c \in (i + 1)..(n + 1) : f[c] \in Vals
    BY <1>n
  <2>. HIDE DEF Body, G
  <2>. QED  BY <1>s, <2>1
<1>2. m \in [Dom -> Nat] /\ Top \in Nat /\ \A i \in Dom : m[i] < Top
  BY <1>n
<1>3. ASSUME NEW f \in G, NEW g \in G, NEW i \in Dom, \A c \in Dom : m[c] < m[i] => f[c] = g[c]
      PROVE  F[f][i] = F[g][i]
  <2>1. i <= n => f[i + 1] = g[i + 1]
    BY <1>n, <1>3
  <2>2. i <= n /\ J0(i) # 0 => f[J0(i)] = g[J0(i)]
    <3>. SUFFICES ASSUME i <= n, J0(i) # 0 PROVE f[J0(i)] = g[J0(i)]
      OBVIOUS
    <3>1. J0(i) \in (i + 1)..(n + 1)
      BY <1>j, <1>n
    <3>. QED  BY <1>n, <1>3, <3>1
  <2>3. Body(f, i) = Body(g, i)
    BY <1>n, <2>1, <2>2
  <2>. HIDE DEF Body
  <2>. QED  BY <2>3
<1>4. G # {} /\ \A f, g \in G : (\A i \in Dom : f[i] = g[i]) => f = g
  <2>1. [i \in Dom |-> <<>>] \in G
    BY <1>r
  <2>. QED  BY <2>1, SameFunction
<1>5. PICK f \in G : f = F[f]
  <2>. HIDE DEF G, F, m, Dom, Top
  <2>1. Recursive(Dom, G, F, m, Top)
    BY <1>1, <1>2, <1>3, <1>4 DEF Recursive
  <2>. QED  BY <2>1, Recursion
<1>6. f = [i \in Dom |-> Body(f, i)]
  <2>. HIDE DEF Dom, Body
  <2>. QED  BY <1>5
<1>8. from = [i \in Dom |-> Body(from, i)]
  <2>. HIDE DEF Body, Dom
  <2>. QED  BY <1>6
<1>. HIDE DEF from
<1>9. \A i \in Dom : from[i] = Body(from, i)
  <2>. HIDE DEF Body
  <2>. QED  BY <1>8
<1>. DEFINE S == {k \in 0..n : from[k + 1] \in Vals}
<1>10. ASSUME NEW k \in 0..n, \A l \in 0..n : l > k => l \in S
       PROVE  k \in S
  <2>1. \A c \in ((k + 1) + 1)..(n + 1) : from[c] \in Vals
    <3>. SUFFICES ASSUME NEW c \in ((k + 1) + 1)..(n + 1) PROVE from[c] \in Vals
      OBVIOUS
    <3>1. c - 1 \in 0..n /\ c - 1 > k /\ (c - 1) + 1 = c
      BY <1>n
    <3>2. c - 1 \in S
      <4>. HIDE DEF S
      <4>. QED  BY <1>10, <3>1
    <3>. QED  BY <3>1, <3>2
  <2>2. k + 1 \in Dom
    BY <1>n
  <2>3. k + 1 < n + 1 => from[(k + 1) + 1] \in Vals
    BY <1>n, <2>1
  <2>4. Body(from, k + 1) \in Vals
    <3>. HIDE DEF Body, Dom
    <3>. QED  BY <1>s, <2>1, <2>2, <2>3
  <2>. HIDE DEF Body
  <2>. QED  BY <1>9, <2>2, <2>4
<1>11. 0..n \subseteq S
  <2>. HIDE DEF S
  <2>. QED  BY <1>10, <1>n, Downward
<1>12. 0 \in S /\ 0 + 1 = 1
  BY <1>11, <1>n
<1>. QED  BY <1>7, <1>12 DEF Vals

\* The candidates are spans.
LEMMA CandidatesOf ==
    ASSUME NEW t \in Seq(Piece)
    PROVE  P!Candidates(t) \in Seq(SpansOf(t))
<1>. DEFINE Vals == SpansOf(t)
<1>1. /\ P!VendorSpans(t) \in Seq(Vals) /\ P!JwtSpans(t) \in Seq(Vals)
      /\ P!AssignedSpans(t) \in Seq(Vals) /\ P!EntropySpans(t) \in Seq(Vals)
  BY VendorSpansOf, JwtSpansOf, AssignedSpansOf, EntropySpansOf, Zenon
<1>. HIDE DEF Vals
<1>2. \A a, b \in Seq(Vals) : a \o b \in Seq(Vals)
  OBVIOUS
<1>3. P!Candidates(t) \in Seq(Vals)
  BY <1>1, <1>2 DEF P!Candidates
<1>. QED  BY <1>3 DEF Vals

\* What is taken of the candidates: no two overlap, and each candidate overlaps one that
\* is not later than itself.
LEMMA TakenOf ==
    ASSUME NEW t \in Seq(Piece), NEW c \in Seq(SpansOf(t))
    PROVE  LET Got == P!Taken(c) IN
           /\ \A x \in Got : \E k \in 1..Len(c) : x = c[k]
           /\ \A x, y \in Got : x # y => ~P!Overlap(x, y)
           /\ \A k \in 1..Len(c) : \E j \in 1..k : c[j] \in Got /\ P!Overlap(c[j], c[k])
<1>. DEFINE n == Len(c)
            Dom == 0..n
            Vals == SpansOf(t)
            Body(f, k) == IF k = 0 THEN {} ELSE P!PushIfFree(f[k - 1], c[k])
            G == [Dom -> SUBSET Vals]
            F == [f \in G |-> [k \in Dom |-> Body(f, k)]]
            m == [k \in Dom |-> k]
            Top == n + 1
            taken == CHOOSE f_1 : f_1 = [k \in Dom |-> Body(f_1, k)]
<1>n. n \in Nat /\ \A k \in 1..n : c[k] \in Vals
  OBVIOUS
<1>7. P!Taken(c) = taken[n]
  BY DEF P!Taken
<1>. HIDE DEF n, Vals
<1>p. \A Got, s : P!PushIfFree(Got, s) = IF \E x \in Got : P!Overlap(x, s) THEN Got ELSE Got \cup {s}
  BY DEF P!PushIfFree
<1>1. F \in [G -> G]
  <2>. SUFFICES ASSUME NEW f \in G, NEW k \in Dom PROVE Body(f, k) \in SUBSET Vals
    OBVIOUS
  <2>1. k # 0 => f[k - 1] \in SUBSET Vals /\ c[k] \in Vals
    BY <1>n
  <2>. QED  BY <1>p, <2>1
<1>2. m \in [Dom -> Nat] /\ Top \in Nat /\ \A k \in Dom : m[k] < Top
  BY <1>n
<1>3. ASSUME NEW f \in G, NEW g \in G, NEW k \in Dom, \A j \in Dom : m[j] < m[k] => f[j] = g[j]
      PROVE  F[f][k] = F[g][k]
  <2>1. k # 0 => f[k - 1] = g[k - 1]
    BY <1>n, <1>3
  <2>2. Body(f, k) = Body(g, k)
    BY <2>1
  <2>. HIDE DEF Body
  <2>. QED  BY <2>2
<1>4. G # {} /\ \A f, g \in G : (\A k \in Dom : f[k] = g[k]) => f = g
  <2>1. [k \in Dom |-> {}] \in G
    OBVIOUS
  <2>. QED  BY <2>1, SameFunction
<1>5. PICK f \in G : f = F[f]
  <2>. HIDE DEF G, F, m, Dom, Top
  <2>1. Recursive(Dom, G, F, m, Top)
    BY <1>1, <1>2, <1>3, <1>4 DEF Recursive
  <2>. QED  BY <2>1, Recursion
<1>6. f = [k \in Dom |-> Body(f, k)]
  <2>. HIDE DEF Dom, Body
  <2>. QED  BY <1>5
<1>8. taken = [k \in Dom |-> Body(taken, k)]
  <2>. HIDE DEF Body, Dom
  <2>. QED  BY <1>6
<1>. HIDE DEF taken
<1>9. \A k \in Dom : taken[k] = Body(taken, k)
  <2>. HIDE DEF Body
  <2>. QED  BY <1>8
<1>. DEFINE From(Got, k) == \A x \in Got : \E j \in 1..k : x = c[j]
            Separate(Got) == \A x, y \in Got : x # y => ~P!Overlap(x, y)
            Hit(Got, k) == \A i \in 1..k : \E j \in 1..i : c[j] \in Got /\ P!Overlap(c[j], c[i])
            S == {k \in 0..n : From(taken[k], k) /\ Separate(taken[k]) /\ Hit(taken[k], k)}
<1>o. \A x, y \in Vals : P!Overlap(x, y) => P!Overlap(y, x)
  BY DEF P!Overlap
<1>q. \A x \in Vals : P!Overlap(x, x)
  BY DEF P!Overlap, Vals, SpansOf
<1>10. ASSUME NEW k \in 0..n, \A j \in 0..n : j < k => j \in S
       PROVE  k \in S
  <2>1. CASE k = 0
    <3>1. taken[0] = {}
      BY <1>9, <1>n, <2>1
    <3>. HIDE DEF P!Overlap
    <3>. QED  BY <2>1, <3>1
  <2>2. CASE k # 0
    <3>. DEFINE old == taken[k - 1]
                new == taken[k]
                s == c[k]
    <3>1. k - 1 \in S
      <4>1. k - 1 \in 0..n /\ k - 1 < k
        BY <1>n, <2>2
      <4>. HIDE DEF S
      <4>. QED  BY <1>10, <4>1
    <3>2. From(old, k - 1) /\ Separate(old) /\ Hit(old, k - 1)
      BY <3>1
    <3>3. new = IF \E x \in old : P!Overlap(x, s) THEN old ELSE old \cup {s}
      <4>1. new = Body(taken, k)
        BY <1>9
      <4>2. Body(taken, k) = P!PushIfFree(old, s)
        BY <2>2
      <4>. HIDE DEF Body, old, new, s
      <4>. QED  BY <1>p, <4>1, <4>2
    <3>4. s \in Vals /\ k \in 1..n /\ k - 1 \in Nat
      BY <1>n, <2>2
    <3>5. \A x \in old : x \in Vals /\ \E j \in 1..(k - 1) : x = c[j]
      <4>1. \A j \in 1..(k - 1) : c[j] \in Vals
        BY <1>n, <2>2
      <4>. HIDE DEF old
      <4>. QED  BY <3>2, <4>1
    <3>k. \A j \in 1..k : j = k \/ j \in 1..(k - 1)
      BY <3>4
    <3>l. \A j \in 1..(k - 1) : j \in 1..k
      BY <3>4
    <3>m. k \in 1..k
      BY <3>4
    <3>. HIDE DEF old, new
    <3>6. From(new, k)
      BY <3>2, <3>3, <3>l, <3>m
    <3>7. Separate(new)
      <4>1. CASE \E x \in old : P!Overlap(x, s)
        BY <3>2, <3>3, <4>1
      <4>2. CASE ~\E x \in old : P!Overlap(x, s)
        <5>1. new = old \cup {s}
          BY <3>3, <4>2
        <5>2. \A x \in old : ~P!Overlap(x, s) /\ ~P!Overlap(s, x)
          BY <1>o, <3>4, <3>5, <4>2
        <5>. HIDE DEF s
        <5>. QED  BY <3>2, <5>1, <5>2
      <4>. QED  BY <4>1, <4>2
    <3>8. Hit(new, k)
      <4>1. old \subseteq new
        BY <3>3
      <4>2. \E j \in 1..k : c[j] \in new /\ P!Overlap(c[j], s)
        <5>1. CASE \E x \in old : P!Overlap(x, s)
          BY <3>5, <3>l, <4>1, <5>1
        <5>2. CASE ~\E x \in old : P!Overlap(x, s)
          BY <1>q, <3>3, <3>4, <3>m, <5>2
        <5>. QED  BY <5>1, <5>2
      <4>3. \A i \in 1..(k - 1) : \E j \in 1..i : c[j] \in new /\ P!Overlap(c[j], c[i])
        BY <3>2, <4>1
      <4>. QED  BY <3>k, <4>2, <4>3
    <3>. HIDE DEF From, Separate, Hit
    <3>. QED  BY <3>6, <3>7, <3>8 DEF new
  <2>. QED  BY <2>1, <2>2
<1>11. 0..n \subseteq S
  <2>. HIDE DEF S
  <2>. QED  BY <1>10, <1>n, Upward
<1>12. n \in S
  <2>1. n \in 0..n
    BY <1>n
  <2>. HIDE DEF S
  <2>. QED  BY <1>11, <2>1
<1>13. From(taken[n], n) /\ Separate(taken[n]) /\ Hit(taken[n], n)
  BY <1>12
<1>. QED  BY <1>7, <1>13 DEF n

\* What is taken for secrets: spans one after the other, which between them overlap every
\* candidate.
LEMMA SecretSpansOf ==
    ASSUME NEW t \in Seq(Piece)
    PROVE  LET q == P!SecretSpans(t) IN
           /\ q \in Seq(SpansOf(t))
           /\ \A k, l \in 1..Len(q) : k < l => q[k][2] <= q[l][1]
           /\ \A s \in P!Range(P!Candidates(t)) : \E k \in 1..Len(q) : P!Overlap(q[k], s)
<1>. DEFINE Vals == SpansOf(t)
            c == P!Candidates(t)
            Got == P!Taken(c)
            q == P!SecretSpans(t)
<1>1. c \in Seq(Vals)
  BY CandidatesOf, Zenon
<1>3. /\ \A x \in Got : \E k \in 1..Len(c) : x = c[k]
      /\ \A x, y \in Got : x # y => ~P!Overlap(x, y)
      /\ \A k \in 1..Len(c) : \E j \in 1..k : c[j] \in Got /\ P!Overlap(c[j], c[k])
  <2>1. c \in Seq(SpansOf(t))
    BY <1>1
  <2>. HIDE DEF c, Vals
  <2>. QED  BY <2>1, TakenOf, Zenon
<1>4. q = P!InOrder(Got)
  BY DEF P!SecretSpans
<1>r. \A x \in Vals : x[1] \in Nat /\ x[2] \in Nat /\ x[1] < x[2]
  BY DEF SpansOf
<1>. HIDE DEF c, Got, q, Vals
<1>5. Got \in SUBSET Vals /\ \A k \in 1..Len(c) : c[k] \in Vals
  <2>1. \A k \in 1..Len(c) : c[k] \in Vals
    BY <1>1, ElementOfSeq
  <2>. QED  BY <1>3, <2>1
<1>6. ASSUME NEW x \in Got, NEW y \in Got, x[1] = y[1] PROVE x = y
  <2>1. P!Overlap(x, y)
    BY <1>5, <1>6, <1>r DEF P!Overlap
  <2>. QED  BY <1>3, <2>1
<1>7. /\ q \in Seq(Vals) /\ \A k \in 1..Len(q) : q[k] \in Got
      /\ \A k, l \in 1..Len(q) : k < l => q[k][1] < q[l][1]
      /\ \A s \in Got : \E k \in 1..Len(q) : q[k] = s
  BY <1>4, <1>5, <1>6, SpansInOrder DEF Vals
<1>8. ASSUME NEW k \in 1..Len(q), NEW l \in 1..Len(q), k < l PROVE q[k][2] <= q[l][1]
  <2>1. q[k] \in Got /\ q[l] \in Got /\ q[k][1] < q[l][1]
    BY <1>7, <1>8
  <2>2. q[k] \in Vals /\ q[l] \in Vals
    BY <1>5, <2>1
  <2>3. q[k] # q[l]
    BY <1>r, <2>1, <2>2
  <2>4. ~P!Overlap(q[k], q[l])
    BY <1>3, <2>1, <2>3
  <2>. QED  BY <1>r, <2>1, <2>2, <2>4 DEF P!Overlap
<1>9. ASSUME NEW s \in P!Range(c) PROVE \E k \in 1..Len(q) : P!Overlap(q[k], s)
  <2>1. PICK i \in 1..Len(c) : s = c[i]
    BY <1>1 DEF P!Range
  <2>2. PICK j \in 1..i : c[j] \in Got /\ P!Overlap(c[j], c[i])
    BY <1>3
  <2>3. PICK k \in 1..Len(q) : q[k] = c[j]
    BY <1>7, <2>2
  <2>. QED  BY <2>1, <2>2, <2>3
<1>. QED  BY <1>7, <1>8, <1>9 DEF c, q, Vals

-----------------------------------------------------------------------------
(* A text with spans replaced. *)

\* Spans of a text, one after the other; what stands before the i-th; what follows the last.
RowsOf(t) == {q \in Seq(SpansOf(t)) : \A k, l \in 1..Len(q) : k < l => q[k][2] <= q[l][1]}
Gap(t, q, i) == SubSeq(t, P!After(q, i - 1), q[i][1] - 1)
Rest(t, q) == SubSeq(t, P!After(q, Len(q)), Len(t))

\* What is between the spans, piece by piece.
LEMMA GapOf ==
    ASSUME NEW t \in Seq(Piece), NEW q \in RowsOf(t)
    PROVE  /\ \A i \in 1..Len(q) :
                  LET a == P!After(q, i - 1) IN
                  /\ q[i][1] \in 1..Len(t) /\ q[i][2] \in (q[i][1] + 1)..(Len(t) + 1)
                  /\ a \in 1..q[i][1] /\ P!After(q, i) = q[i][2]
                  /\ Gap(t, q, i) \in Seq(Piece) /\ Len(Gap(t, q, i)) = q[i][1] - a
                  /\ \A x \in 1..(q[i][1] - a) : Gap(t, q, i)[x] = t[a - 1 + x]
           /\ LET a == P!After(q, Len(q)) IN
                  /\ a \in 1..(Len(t) + 1)
                  /\ Rest(t, q) \in Seq(Piece) /\ Len(Rest(t, q)) = Len(t) + 1 - a
                  /\ \A x \in 1..(Len(t) + 1 - a) : Rest(t, q)[x] = t[a - 1 + x]
<1>. DEFINE n == Len(t)
            m == Len(q)
<1>1. /\ n \in Nat /\ m \in Nat /\ q \in Seq(SpansOf(t))
      /\ \A k, l \in 1..m : k < l => q[k][2] <= q[l][1]
  BY DEF RowsOf
<1>2. \A i \in 1..m : q[i] \in SpansOf(t)
  BY <1>1, ElementOfSeq
<1>3. \A i \in 1..m : q[i][1] \in 1..n /\ q[i][2] \in (q[i][1] + 1)..(n + 1)
  <2>1. \A s \in SpansOf(t) : s[1] \in 1..n /\ s[2] \in (s[1] + 1)..(n + 1)
    BY DEF SpansOf
  <2>. QED  BY <1>2, <2>1
<1>4. \A i \in 1..n : t[i] \in Piece
  BY ElementOfSeq
<1>. HIDE DEF n, m
<1>5. ASSUME NEW i \in 1..m
      PROVE  P!After(q, i - 1) \in 1..q[i][1] /\ P!After(q, i) = q[i][2]
  <2>1. CASE i = 1
    <3>1. i - 1 = 0 /\ i # 0 /\ q[i][1] \in 1..n
      BY <1>1, <1>3, <2>1
    <3>2. P!After(q, i - 1) = 1 /\ P!After(q, i) = q[i][2]
      BY <3>1 DEF P!After
    <3>. QED  BY <1>1, <3>1, <3>2
  <2>2. CASE i # 1
    <3>1. i - 1 \in 1..m /\ i - 1 # 0 /\ i # 0 /\ i - 1 < i
      BY <1>1, <2>2
    <3>2. P!After(q, i - 1) = q[i - 1][2] /\ P!After(q, i) = q[i][2] /\ q[i - 1][2] <= q[i][1]
      BY <1>1, <3>1 DEF P!After
    <3>3. q[i - 1][2] \in 1..(n + 1) /\ q[i][1] \in 1..n
      <4>1. q[i - 1][1] \in 1..n /\ q[i - 1][2] \in (q[i - 1][1] + 1)..(n + 1)
        BY <1>3, <3>1
      <4>. QED  BY <1>1, <1>3, <4>1
    <3>. QED  BY <1>1, <3>2, <3>3
  <2>. QED  BY <2>1, <2>2
<1>6. P!After(q, m) \in 1..(n + 1)
  <2>1. m # 0 => P!After(q, m) = q[m][2] /\ m \in 1..m
    BY <1>1 DEF P!After
  <2>2. m = 0 => P!After(q, m) = 1
    BY DEF P!After
  <2>3. m # 0 => q[m][1] \in 1..n /\ q[m][2] \in (q[m][1] + 1)..(n + 1)
    BY <1>3, <2>1
  <2>. QED  BY <1>1, <2>1, <2>2, <2>3
<1>7. ASSUME NEW a \in 1..(n + 1), NEW b \in 0..n, a <= b + 1
      PROVE  /\ SubSeq(t, a, b) \in Seq(Piece) /\ Len(SubSeq(t, a, b)) = b + 1 - a
             /\ \A x \in 1..(b + 1 - a) : SubSeq(t, a, b)[x] = t[a - 1 + x]
  <2>1. a \in Int /\ b \in Int /\ \A i \in a..b : t[i] \in Piece
    BY <1>1, <1>4, <1>7
  <2>2. /\ SubSeq(t, a, b) \in Seq(Piece)
        /\ Len(SubSeq(t, a, b)) = IF a <= b THEN b - a + 1 ELSE 0
        /\ \A x \in 1..(b - a + 1) : SubSeq(t, a, b)[x] = t[a + x - 1]
    BY <2>1, SubSeqProperties
  <2>3. b - a + 1 = b + 1 - a /\ (IF a <= b THEN b - a + 1 ELSE 0) = b + 1 - a
    BY <1>7, <2>1
  <2>4. \A x \in 1..(b + 1 - a) : a + x - 1 = a - 1 + x
    BY <2>1
  <2>. QED  BY <2>2, <2>3, <2>4
<1>8. ASSUME NEW i \in 1..m
      PROVE  LET a == P!After(q, i - 1) IN
             /\ Gap(t, q, i) \in Seq(Piece) /\ Len(Gap(t, q, i)) = q[i][1] - a
             /\ \A x \in 1..(q[i][1] - a) : Gap(t, q, i)[x] = t[a - 1 + x]
  <2>. DEFINE a == P!After(q, i - 1)
              b == q[i][1] - 1
  <2>1. a \in 1..q[i][1] /\ q[i][1] \in 1..n
    BY <1>3, <1>5
  <2>2. a \in 1..(n + 1) /\ b \in 0..n /\ a <= b + 1 /\ b + 1 = q[i][1]
    BY <1>1, <2>1
  <2>3. Gap(t, q, i) = SubSeq(t, a, b)
    BY DEF Gap
  <2>. HIDE DEF a, b
  <2>4. /\ SubSeq(t, a, b) \in Seq(Piece) /\ Len(SubSeq(t, a, b)) = b + 1 - a
        /\ \A x \in 1..(b + 1 - a) : SubSeq(t, a, b)[x] = t[a - 1 + x]
    BY <1>7, <2>2
  <2>. QED  BY <2>2, <2>3, <2>4 DEF a
<1>9. LET a == P!After(q, m) IN
      /\ Rest(t, q) \in Seq(Piece) /\ Len(Rest(t, q)) = n + 1 - a
      /\ \A x \in 1..(n + 1 - a) : Rest(t, q)[x] = t[a - 1 + x]
  <2>1. n \in 0..n /\ P!After(q, m) <= n + 1
    BY <1>1, <1>6
  <2>2. Rest(t, q) = SubSeq(t, P!After(q, m), n)
    BY DEF Rest, n, m
  <2>. QED  BY <1>6, <1>7, <2>1, <2>2
<1>10. \A i \in 1..m :
          LET a == P!After(q, i - 1) IN
          /\ q[i][1] \in 1..n /\ q[i][2] \in (q[i][1] + 1)..(n + 1)
          /\ a \in 1..q[i][1] /\ P!After(q, i) = q[i][2]
          /\ Gap(t, q, i) \in Seq(Piece) /\ Len(Gap(t, q, i)) = q[i][1] - a
          /\ \A x \in 1..(q[i][1] - a) : Gap(t, q, i)[x] = t[a - 1 + x]
  BY <1>3, <1>5, <1>8, Zenon
<1>. QED  BY <1>6, <1>9, <1>10, Zenon DEF n, m

\* The text with spans replaced, span by span.
LEMMA ThroughDefined ==
    ASSUME NEW t \in Seq(Piece), NEW q \in RowsOf(t), NEW by \in [1..Len(q) -> Seq(Piece)]
    PROVE  LET out == P!Through(t, q, by) IN
           /\ out \in [0..Len(q) -> Seq(Piece)] /\ out[0] = <<>>
           /\ \A i \in 1..Len(q) : out[i] = (out[i - 1] \o Gap(t, q, i)) \o by[i]
           /\ P!Substituted(t, q, by) = out[Len(q)] \o Rest(t, q)
<1>. DEFINE n == Len(q)
            Dom == 0..n
            Vals == Seq(Piece)
            Body(f, i) == IF i = 0 THEN <<>> ELSE (f[i - 1] \o Gap(t, q, i)) \o by[i]
            G == [Dom -> Vals]
            F == [f \in G |-> [i \in Dom |-> Body(f, i)]]
            m == [i \in Dom |-> i]
            Top == n + 1
            out == CHOOSE f_1 : f_1 = [i \in Dom |-> Body(f_1, i)]
<1>n. n \in Nat /\ by \in [1..n -> Vals]
  <2>1. q \in Seq(SpansOf(t))
    BY DEF RowsOf
  <2>. QED  BY <2>1
<1>g. \A i \in 1..n : Gap(t, q, i) \in Vals
  BY GapOf
<1>7. P!Through(t, q, by) = out
  BY DEF P!Through, Gap
<1>8. P!Substituted(t, q, by) = P!Through(t, q, by)[n] \o Rest(t, q)
  BY DEF P!Substituted, Rest
<1>r. <<>> \in Vals /\ \A x, y \in Vals : x \o y \in Vals
  BY EmptySeq, ConcatProperties
<1>. HIDE DEF n, Vals
<1>s. ASSUME NEW f, NEW i \in Dom, i # 0 => f[i - 1] \in Vals PROVE Body(f, i) \in Vals
  <2>1. CASE i = 0
    BY <1>r, <2>1
  <2>2. CASE i # 0
    <3>1. f[i - 1] \in Vals /\ Gap(t, q, i) \in Vals /\ by[i] \in Vals
      BY <1>g, <1>n, <1>s, <2>2
    <3>2. f[i - 1] \o Gap(t, q, i) \in Vals
      BY <1>r, <3>1
    <3>3. (f[i - 1] \o Gap(t, q, i)) \o by[i] \in Vals
      BY <1>r, <3>1, <3>2
    <3>. QED  BY <2>2, <3>3
  <2>. QED  BY <2>1, <2>2
<1>1. F \in [G -> G]
  <2>. SUFFICES ASSUME NEW f \in G, NEW i \in Dom PROVE Body(f, i) \in Vals
    OBVIOUS
  <2>1. i # 0 => f[i - 1] \in Vals
    BY <1>n
  <2>. HIDE DEF Body, G
  <2>. QED  BY <1>s, <2>1
<1>2. m \in [Dom -> Nat] /\ Top \in Nat /\ \A i \in Dom : m[i] < Top
  BY <1>n
<1>3. ASSUME NEW f \in G, NEW g \in G, NEW i \in Dom, \A j \in Dom : m[j] < m[i] => f[j] = g[j]
      PROVE  F[f][i] = F[g][i]
  <2>1. i # 0 => f[i - 1] = g[i - 1]
    BY <1>n, <1>3
  <2>2. Body(f, i) = Body(g, i)
    BY <2>1
  <2>. HIDE DEF Body
  <2>. QED  BY <2>2
<1>4. G # {} /\ \A f, g \in G : (\A i \in Dom : f[i] = g[i]) => f = g
  <2>1. [i \in Dom |-> <<>>] \in G
    BY <1>r
  <2>. QED  BY <2>1, SameFunction
<1>5. PICK f \in G : f = F[f]
  <2>. HIDE DEF G, F, m, Dom, Top
  <2>1. Recursive(Dom, G, F, m, Top)
    BY <1>1, <1>2, <1>3, <1>4 DEF Recursive
  <2>. QED  BY <2>1, Recursion
<1>6. f = [i \in Dom |-> Body(f, i)]
  <2>. HIDE DEF Dom, Body
  <2>. QED  BY <1>5
<1>9. out = [i \in Dom |-> Body(out, i)]
  <2>. HIDE DEF Body, Dom
  <2>. QED  BY <1>6
<1>. HIDE DEF out
<1>10. \A i \in Dom : out[i] = Body(out, i)
  <2>. HIDE DEF Body
  <2>. QED  BY <1>9
<1>. DEFINE S == {i \in 0..n : out[i] \in Vals}
<1>11. ASSUME NEW i \in 0..n, \A j \in 0..n : j < i => j \in S
       PROVE  i \in S
  <2>1. i # 0 => out[i - 1] \in Vals
    <3>. SUFFICES ASSUME i # 0 PROVE out[i - 1] \in Vals
      OBVIOUS
    <3>1. i - 1 \in 0..n /\ i - 1 < i
      BY <1>n
    <3>2. i - 1 \in S
      <4>. HIDE DEF S
      <4>. QED  BY <1>11, <3>1
    <3>. QED  BY <3>2
  <2>2. Body(out, i) \in Vals
    <3>. HIDE DEF Body
    <3>. QED  BY <1>s, <2>1
  <2>. HIDE DEF Body
  <2>. QED  BY <1>10, <2>2
<1>12. 0..n \subseteq S
  <2>. HIDE DEF S
  <2>. QED  BY <1>11, <1>n, Upward
<1>13. out \in [0..n -> Vals]
  <2>1. DOMAIN out = 0..n
    <3>. HIDE DEF Body
    <3>. QED  BY <1>9
  <2>2. out = [i \in 0..n |-> out[i]]
    <3>1. out = [i \in Dom |-> Body(out, i)]
      BY <1>9
    <3>. HIDE DEF Body
    <3>. QED  BY <3>1
  <2>. QED  BY <1>12, <2>2
<1>14. out[0] = <<>> /\ \A i \in 1..n : out[i] = (out[i - 1] \o Gap(t, q, i)) \o by[i]
  <2>1. 0 \in Dom /\ \A i \in 1..n : i \in Dom /\ i # 0
    BY <1>n
  <2>. QED  BY <1>10, <2>1
<1>. QED  BY <1>7, <1>8, <1>13, <1>14 DEF n, Vals

\* Where the pieces of a text go when names of aliases stand for its spans: L[i] is the
\* length of the new text p as far as the i-th alias.
Places(t, q, names, p, L) ==
    /\ p \in Seq(Piece) /\ L \in [0..Len(q) -> Nat] /\ L[0] = 0
    /\ \A i \in 1..Len(q) :
           LET a == P!After(q, i - 1) IN
           /\ L[i] = L[i - 1] + (q[i][1] - a) + 3 /\ L[i] <= Len(p)
           /\ \A x \in 1..(q[i][1] - a) : p[L[i - 1] + x] = t[a - 1 + x]
           /\ p[L[i] - 2] = "open" /\ p[L[i] - 1] = names[i] /\ p[L[i]] = "close"
    /\ LET a == P!After(q, Len(q)) IN
           /\ Len(p) = L[Len(q)] + (Len(t) + 1 - a)
           /\ \A x \in 1..(Len(t) + 1 - a) : p[L[Len(q)] + x] = t[a - 1 + x]

\* There are such places, for any spans of any text.
LEMMA PlacesThere ==
    ASSUME NEW t \in Seq(Piece), NEW q \in RowsOf(t), NEW names \in [1..Len(q) -> Piece]
    PROVE  \E L : Places(t, q, names,
                         P!Substituted(t, q, [i \in 1..Len(q) |-> <<"open", names[i], "close">>]), L)
<1>. DEFINE n == Len(t)
            m == Len(q)
            Vals == Seq(Piece)
            by == [i \in 1..m |-> <<"open", names[i], "close">>]
            p == P!Substituted(t, q, by)
            out == P!Through(t, q, by)
            L == [i \in 0..m |-> Len(out[i])]
            g(i) == q[i][1] - P!After(q, i - 1)
            rest == n + 1 - P!After(q, m)
<1>n. n \in Nat /\ m \in Nat
  <2>1. q \in Seq(SpansOf(t))
    BY DEF RowsOf
  <2>. QED  BY <2>1
<1>0. by \in [1..m -> Vals] /\ \A i \in 1..m : Len(by[i]) = 3 /\ by[i] = <<"open", names[i], "close">>
  <2>1. ASSUME NEW x \in Piece PROVE <<"open", x, "close">> \in Vals /\ Len(<<"open", x, "close">>) = 3
    <3>1. ASSUME NEW a \in Piece, NEW c \in Piece PROVE <<a, x, c>> \in Seq(Piece)
      OBVIOUS
    <3>2. \A a, c : Len(<<a, x, c>>) = 3
      OBVIOUS
    <3>3. "open" \in Piece /\ "close" \in Piece
      BY DEF Piece
    <3>. QED  BY <3>1, <3>2, <3>3
  <2>2. \A i \in 1..m : names[i] \in Piece
    OBVIOUS
  <2>. HIDE DEF m, Vals
  <2>. QED  BY <2>1, <2>2
<1>1. /\ out \in [0..m -> Vals] /\ out[0] = <<>>
      /\ \A i \in 1..m : out[i] = (out[i - 1] \o Gap(t, q, i)) \o by[i]
      /\ p = out[m] \o Rest(t, q)
  <2>1. by \in [1..Len(q) -> Seq(Piece)]
    BY <1>0
  <2>. HIDE DEF by
  <2>. QED  BY <2>1, ThroughDefined, Zenon
<1>. HIDE DEF by, out, p
<1>2. /\ \A i \in 1..m :
            /\ g(i) \in Nat /\ Gap(t, q, i) \in Vals /\ Len(Gap(t, q, i)) = g(i)
            /\ \A x \in 1..g(i) : Gap(t, q, i)[x] = t[P!After(q, i - 1) - 1 + x]
      /\ rest \in Nat /\ Rest(t, q) \in Vals /\ Len(Rest(t, q)) = rest
      /\ \A x \in 1..rest : Rest(t, q)[x] = t[P!After(q, m) - 1 + x]
  <2>1. \A a, b : b \in Nat /\ a \in 1..b => b - a \in Nat
    OBVIOUS
  <2>2. /\ \A i \in 1..m :
              /\ q[i][1] \in Nat /\ P!After(q, i - 1) \in 1..q[i][1]
              /\ Gap(t, q, i) \in Vals /\ Len(Gap(t, q, i)) = g(i)
              /\ \A x \in 1..g(i) : Gap(t, q, i)[x] = t[P!After(q, i - 1) - 1 + x]
        /\ P!After(q, m) \in 1..(n + 1) /\ n + 1 \in Nat
        /\ Rest(t, q) \in Vals /\ Len(Rest(t, q)) = rest
        /\ \A x \in 1..rest : Rest(t, q)[x] = t[P!After(q, m) - 1 + x]
    <3>1. \A i \in 1..m : q[i][1] \in 1..n
      BY GapOf, Zenon
    <3>2. \A i \in 1..m : q[i][1] \in Nat
      BY <3>1
    <3>3. n + 1 \in Nat
      BY <1>n
    <3>. QED  BY <3>2, <3>3, GapOf, Zenon
  <2>. QED  BY <2>1, <2>2
<1>. HIDE DEF n, m, g, rest
<1>3. L \in [0..m -> Nat] /\ L[0] = 0 /\ \A i \in 0..m : L[i] = Len(out[i]) /\ out[i] \in Vals
  <2>1. \A i \in 0..m : out[i] \in Vals /\ Len(out[i]) \in Nat
    BY <1>1, LenProperties DEF Vals
  <2>2. 0 \in 0..m
    BY <1>n
  <2>3. Len(out[0]) = 0
    BY <1>1
  <2>. QED  BY <2>1, <2>2, <2>3
<1>c. \A x, y \in Vals :
         /\ x \o y \in Vals /\ Len(x \o y) = Len(x) + Len(y) /\ Len(x) \in Nat /\ Len(y) \in Nat
         /\ \A i \in 1..(Len(x) + Len(y)) : (x \o y)[i] = IF i <= Len(x) THEN x[i] ELSE y[i - Len(x)]
  BY ConcatProperties, LenProperties
<1>. HIDE DEF L, Vals
<1>4. ASSUME NEW i \in 1..m
      PROVE  /\ L[i - 1] \in Nat /\ L[i] = L[i - 1] + g(i) + 3
             /\ \A x \in 1..L[i - 1] : out[i][x] = out[i - 1][x]
             /\ \A x \in 1..g(i) : out[i][L[i - 1] + x] = Gap(t, q, i)[x]
             /\ \A x \in 1..3 : out[i][L[i - 1] + g(i) + x] = by[i][x]
  <2>. DEFINE a == out[i - 1]
              b == Gap(t, q, i)
              c == by[i]
              ab == a \o b
              l == L[i - 1]
              w == g(i)
  <2>1. a \in Vals /\ b \in Vals /\ c \in Vals /\ Len(a) = l /\ Len(b) = w /\ Len(c) = 3 /\ Len(out[i]) = L[i]
        /\ l \in Nat /\ w \in Nat
    <3>1. i - 1 \in 0..m /\ i \in 0..m
      BY <1>n
    <3>2. a \in Vals /\ Len(a) = l /\ l \in Nat /\ Len(out[i]) = L[i]
      BY <1>3, <3>1
    <3>3. c \in Vals /\ Len(c) = 3
      BY <1>0
    <3>. QED  BY <1>2, <3>2, <3>3
  <2>2. out[i] = ab \o c
    BY <1>1
  <2>. HIDE DEF a, b, c, l, w
  <2>3. /\ ab \in Vals /\ Len(ab) = l + w
        /\ \A x \in 1..(l + w) : ab[x] = IF x <= l THEN a[x] ELSE b[x - l]
    <3>1. /\ a \o b \in Vals /\ Len(a \o b) = Len(a) + Len(b)
          /\ \A x \in 1..(Len(a) + Len(b)) : (a \o b)[x] = IF x <= Len(a) THEN a[x] ELSE b[x - Len(a)]
      BY <1>c, <2>1
    <3>. QED  BY <2>1, <3>1
  <2>. HIDE DEF ab
  <2>4. /\ Len(out[i]) = (l + w) + 3
        /\ \A x \in 1..((l + w) + 3) : out[i][x] = IF x <= l + w THEN ab[x] ELSE c[x - (l + w)]
    <3>1. /\ Len(ab \o c) = Len(ab) + Len(c)
          /\ \A x \in 1..(Len(ab) + Len(c)) : (ab \o c)[x] = IF x <= Len(ab) THEN ab[x] ELSE c[x - Len(ab)]
      BY <1>c, <2>1, <2>3
    <3>. QED  BY <2>1, <2>2, <2>3, <3>1
  <2>5. ASSUME NEW x \in 1..l PROVE out[i][x] = a[x]
    <3>1. x \in 1..((l + w) + 3) /\ x \in 1..(l + w) /\ x <= l + w /\ x <= l
      BY <2>1
    <3>. QED  BY <2>3, <2>4, <3>1
  <2>6. ASSUME NEW x \in 1..w PROVE out[i][l + x] = b[x]
    <3>. DEFINE y == l + x
    <3>1. /\ y \in 1..((l + w) + 3) /\ y \in 1..(l + w)
          /\ y <= l + w /\ ~(y <= l) /\ y - l = x
      BY <2>1
    <3>. HIDE DEF y
    <3>2. out[i][y] = b[x]
      BY <2>3, <2>4, <3>1
    <3>. QED  BY <3>2 DEF y
  <2>7. ASSUME NEW x \in 1..3 PROVE out[i][l + w + x] = c[x]
    <3>. DEFINE y == l + w + x
    <3>1. y \in 1..((l + w) + 3) /\ ~(y <= l + w) /\ y - (l + w) = x
      BY <2>1
    <3>. HIDE DEF y
    <3>2. out[i][y] = c[x]
      BY <2>4, <3>1
    <3>. QED  BY <3>2 DEF y
  <2>8. L[i] = l + w + 3
    BY <2>1, <2>4
  <2>. QED  BY <2>1, <2>5, <2>6, <2>7, <2>8 DEF a, b, c, l, w
<1>5. /\ p \in Vals /\ Len(p) = L[m] + rest
      /\ \A x \in 1..L[m] : p[x] = out[m][x]
      /\ \A x \in 1..rest : p[L[m] + x] = Rest(t, q)[x]
  <2>1. out[m] \in Vals /\ Len(out[m]) = L[m] /\ L[m] \in Nat /\ Rest(t, q) \in Vals /\ Len(Rest(t, q)) = rest /\ rest \in Nat
    <3>1. m \in 0..m
      BY <1>n
    <3>. QED  BY <1>2, <1>3, <3>1
  <2>2. /\ p \in Vals /\ Len(p) = L[m] + rest
        /\ \A x \in 1..(L[m] + rest) : p[x] = IF x <= L[m] THEN out[m][x] ELSE Rest(t, q)[x - L[m]]
    <3>. DEFINE a == out[m]
                b == Rest(t, q)
                l == L[m]
    <3>1. /\ a \o b \in Vals /\ Len(a \o b) = Len(a) + Len(b)
          /\ \A x \in 1..(Len(a) + Len(b)) : (a \o b)[x] = IF x <= Len(a) THEN a[x] ELSE b[x - Len(a)]
      <4>1. a \in Vals /\ b \in Vals
        BY <2>1
      <4>. HIDE DEF a, b
      <4>. QED  BY <1>c, <4>1
    <3>2. Len(a) = l /\ Len(b) = rest /\ p = a \o b
      BY <1>1, <2>1
    <3>. HIDE DEF a, b, l
    <3>3. /\ p \in Vals /\ Len(p) = l + rest
          /\ \A x \in 1..(l + rest) : p[x] = IF x <= l THEN a[x] ELSE b[x - l]
      BY <3>1, <3>2
    <3>. QED  BY <3>3 DEF a, b, l
  <2>3. \A x \in 1..L[m] : x \in 1..(L[m] + rest) /\ x <= L[m]
    BY <2>1
  <2>4. \A x \in 1..rest : L[m] + x \in 1..(L[m] + rest) /\ ~(L[m] + x <= L[m]) /\ (L[m] + x) - L[m] = x
    BY <2>1
  <2>. QED  BY <2>2, <2>3, <2>4
<1>. DEFINE S == {i \in 0..m : L[i] <= Len(p) /\ \A x \in 1..L[i] : p[x] = out[i][x]}
<1>p. Len(p) \in Nat
  BY <1>5, LenProperties DEF Vals
<1>6. ASSUME NEW i \in 0..m, \A j \in 0..m : j > i => j \in S
      PROVE  i \in S
  <2>1. CASE i = m
    <3>1. L[m] <= Len(p)
      <4>1. L[m] \in Nat
        BY <1>3, <2>1
      <4>. QED  BY <1>2, <1>5, <4>1
    <3>. QED  BY <1>5, <2>1, <3>1
  <2>2. CASE i # m
    <3>1. i + 1 \in 1..m /\ (i + 1) - 1 = i /\ i + 1 \in 0..m /\ i + 1 > i
      BY <1>n, <2>2
    <3>2. i + 1 \in S
      <4>. HIDE DEF S
      <4>. QED  BY <1>6, <3>1
    <3>3. L[i] \in Nat /\ L[i + 1] = L[i] + g(i + 1) + 3 /\ \A x \in 1..L[i] : out[i + 1][x] = out[i][x]
      BY <1>4, <3>1
    <3>4. g(i + 1) \in Nat
      BY <1>2, <3>1
    <3>5. L[i] <= L[i + 1] /\ \A x \in 1..L[i] : x \in 1..L[i + 1]
      BY <3>3, <3>4
    <3>6. L[i] <= Len(p)
      BY <1>p, <3>2, <3>3, <3>4
    <3>. QED  BY <3>2, <3>3, <3>5, <3>6
  <2>. QED  BY <2>1, <2>2
<1>7. 0..m \subseteq S
  <2>. HIDE DEF S
  <2>. QED  BY <1>6, <1>n, Downward
<1>8. ASSUME NEW i \in 1..m
      PROVE  LET a == P!After(q, i - 1) IN
             /\ L[i] = L[i - 1] + (q[i][1] - a) + 3 /\ L[i] <= Len(p)
             /\ \A x \in 1..(q[i][1] - a) : p[L[i - 1] + x] = t[a - 1 + x]
             /\ p[L[i] - 2] = "open" /\ p[L[i] - 1] = names[i] /\ p[L[i]] = "close"
  <2>. DEFINE a == P!After(q, i - 1)
              w == g(i)
              l == L[i - 1]
  <2>1. i \in 0..m
    BY <1>n
  <2>2. L[i] <= Len(p) /\ \A x \in 1..L[i] : p[x] = out[i][x]
    BY <1>7, <2>1
  <2>3. /\ l \in Nat /\ w \in Nat /\ L[i] = l + w + 3
        /\ \A x \in 1..w : out[i][l + x] = Gap(t, q, i)[x] /\ Gap(t, q, i)[x] = t[a - 1 + x]
        /\ out[i][l + w + 1] = by[i][1] /\ out[i][l + w + 2] = by[i][2] /\ out[i][l + w + 3] = by[i][3]
    <3>1. 1 \in 1..3 /\ 2 \in 1..3 /\ 3 \in 1..3
      OBVIOUS
    <3>. QED  BY <1>2, <1>4, <3>1
  <2>. HIDE DEF l, w
  <2>4. ASSUME NEW x \in 1..w PROVE p[l + x] = t[a - 1 + x]
    <3>1. l + x \in 1..L[i]
      BY <2>3
    <3>. QED  BY <2>2, <2>3, <3>1
  <2>5. /\ l + w + 1 \in 1..L[i] /\ l + w + 2 \in 1..L[i] /\ l + w + 3 \in 1..L[i]
        /\ L[i] - 2 = l + w + 1 /\ L[i] - 1 = l + w + 2 /\ L[i] = l + w + 3
    BY <2>3
  <2>6. by[i][1] = "open" /\ by[i][2] = names[i] /\ by[i][3] = "close"
    BY <1>0
  <2>7. p[L[i] - 2] = "open" /\ p[L[i] - 1] = names[i] /\ p[L[i]] = "close"
    BY <2>2, <2>3, <2>5, <2>6
  <2>. HIDE DEF a
  <2>8. L[i] = l + w + 3 /\ L[i] <= Len(p)
    BY <2>2, <2>3
  <2>. QED  BY <2>4, <2>7, <2>8 DEF a, l, w, g
<1>9. LET a == P!After(q, m) IN
      /\ Len(p) = L[m] + (n + 1 - a)
      /\ \A x \in 1..(n + 1 - a) : p[L[m] + x] = t[a - 1 + x]
  BY <1>2, <1>5 DEF rest
<1>10. Places(t, q, names, p, L)
  <2>1. /\ p \in Seq(Piece) /\ L \in [0..Len(q) -> Nat] /\ L[0] = 0
    BY <1>3, <1>5 DEF m, Vals
  <2>. QED  BY <1>8, <1>9, <2>1, Zenon DEF Places, m, n
<1>11. p = P!Substituted(t, q, [i \in 1..Len(q) |-> <<"open", names[i], "close">>])
  BY DEF p, by, m
<1>. QED  BY <1>10, <1>11, Zenon

-----------------------------------------------------------------------------
(* The names of aliases are found again. *)

\* A token ends with the first closing after its opening.
LEMMA TokenEnds ==
    ASSUME NEW t \in Seq(Piece), NEW i \in 1..Len(t), NEW e \in i..Len(t),
           t[e] = "close", \A j \in i..(e - 1) : t[j] # "close"
    PROVE  P!TokenEnd(t, i) = 1 + e
<1>. DEFINE n == Len(t)
            Is(x) == t[x] = "close" /\ \A j \in i..(x - 1) : t[j] # "close"
<1>1. \A x \in i..n : Is(x) => x = e
  <2>. SUFFICES ASSUME NEW x \in i..n, Is(x) PROVE x = e
    OBVIOUS
  <2>n. n \in Nat /\ i \in Nat /\ x \in Nat /\ e \in Nat
    OBVIOUS
  <2>1. ~(e < x)
    <3>. SUFFICES ASSUME e < x PROVE FALSE
      OBVIOUS
    <3>1. e \in i..(x - 1)
      BY <2>n
    <3>. QED  BY <3>1
  <2>2. ~(x < e)
    <3>. SUFFICES ASSUME x < e PROVE FALSE
      OBVIOUS
    <3>1. x \in i..(e - 1)
      BY <2>n
    <3>. QED  BY <3>1
  <2>. QED  BY <2>n, <2>1, <2>2
<1>2. e \in i..n /\ Is(e)
  OBVIOUS
<1>. HIDE DEF n, Is
<1>3. (CHOOSE x \in i..n : Is(x)) = e
  BY <1>1, <1>2
<1>. QED  BY <1>3 DEF P!TokenEnd, n, Is

\* What find_alias_tokens finds from a position on.
TokensFrom(t, f, i) ==
    IF i > Len(t) THEN <<>>
    ELSE IF t[i] # "open" THEN f[i + 1]
    ELSE IF \A j \in i..Len(t) : t[j] # "close" THEN <<>>
    ELSE IF t[P!TokenEnd(t, i) - 2] \in P!Range(NamesOfAliases)
         THEN <<<<i, P!TokenEnd(t, i)>>>> \o f[P!TokenEnd(t, i)]
    ELSE f[P!TokenEnd(t, i)]

\* find_alias_tokens is what it finds from each position on.
LEMMA TokensDefined ==
    ASSUME NEW t \in Seq(Piece)
    PROVE  \E from : /\ P!AliasTokens(t) = from[1]
                     /\ \A i \in 1..(Len(t) + 1) : from[i] = TokensFrom(t, from, i)
<1>. DEFINE n == Len(t)
            Dom == 1..(n + 1)
            Vals == Seq(Int \X Int)
            Body(f, i) == TokensFrom(t, f, i)
            G == [Dom -> Vals]
            F == [f \in G |-> [i \in Dom |-> Body(f, i)]]
            m == [i \in Dom |-> n + 1 - i]
            Top == n + 1
            closed(i) == \E j \in i..n : t[j] = "close"
            end(i) == P!TokenEnd(t, i)
            known(i) == t[end(i) - 2] \in P!Range(NamesOfAliases)
            from == CHOOSE f_1 : f_1 = [i \in Dom |-> Body(f_1, i)]
<1>n. n \in Nat
  OBVIOUS
<1>7. P!AliasTokens(t) = from[1]
  BY DEF P!AliasTokens, TokensFrom
<1>e. ASSUME NEW i \in 1..n, closed(i) PROVE end(i) \in (i + 1)..(n + 1)
  <2>. DEFINE S == {j \in i..n : t[j] = "close"}
  <2>1. S \in SUBSET Nat /\ S # {}
    BY <1>n, <1>e
  <2>2. PICK e \in S : \A x \in S : e <= x
    <3>. HIDE DEF S
    <3>. QED  BY <2>1, LeastNumber
  <2>3. e \in i..Len(t) /\ t[e] = "close"
    BY <2>2
  <2>4. \A j \in i..(e - 1) : t[j] # "close"
    <3>. SUFFICES ASSUME NEW j \in i..(e - 1), t[j] = "close" PROVE FALSE
      OBVIOUS
    <3>1. j \in S /\ ~(e <= j)
      BY <1>n, <2>3
    <3>. QED  BY <2>2, <3>1
  <2>5. end(i) = 1 + e
    BY <2>3, <2>4, TokenEnds
  <2>. QED  BY <1>n, <2>3, <2>5
<1>b. ASSUME NEW f, NEW i \in Dom
      PROVE  /\ i > n => Body(f, i) = <<>>
             /\ i <= n /\ t[i] # "open" => Body(f, i) = f[i + 1]
             /\ i <= n /\ t[i] = "open" /\ ~closed(i) => Body(f, i) = <<>>
             /\ i <= n /\ t[i] = "open" /\ closed(i) /\ known(i) => Body(f, i) = <<<<i, end(i)>>>> \o f[end(i)]
             /\ i <= n /\ t[i] = "open" /\ closed(i) /\ ~known(i) => Body(f, i) = f[end(i)]
  <2>1. i > n <=> ~(i <= n)
    BY <1>n
  <2>. QED  BY <2>1 DEF TokensFrom
<1>r. <<>> \in Vals /\ \A s \in Int \X Int, r \in Vals : <<s>> \o r \in Vals
  <2>1. ASSUME NEW s \in Int \X Int, NEW r \in Vals PROVE <<s>> \o r \in Vals
    <3>1. <<s>> \in Vals
      OBVIOUS
    <3>. HIDE DEF Vals
    <3>. QED  BY <3>1, ConcatProperties DEF Vals
  <2>. QED  BY <2>1, EmptySeq
<1>. HIDE DEF n, Vals, Body, closed, end, known
<1>d. \A i \in Dom : i > n \/ (i <= n /\ i \in 1..n /\ i + 1 \in Dom)
  BY <1>n
<1>f. \A i \in 1..n : closed(i) => end(i) \in Dom /\ <<i, end(i)>> \in Int \X Int
  <2>. SUFFICES ASSUME NEW i \in 1..n, closed(i) PROVE end(i) \in Dom /\ <<i, end(i)>> \in Int \X Int
    OBVIOUS
  <2>1. end(i) \in (i + 1)..(n + 1)
    BY <1>e
  <2>. QED  BY <1>n, <2>1
<1>s. ASSUME NEW f \in G, NEW i \in Dom PROVE Body(f, i) \in Vals
  <2>1. \A c \in Dom : f[c] \in Vals
    OBVIOUS
  <2>. HIDE DEF G, Dom
  <2>2. CASE i > n
    BY <1>b, <1>r, <2>2
  <2>3. CASE i <= n
    <3>1. i \in 1..n /\ i + 1 \in Dom
      BY <1>d, <1>n, <2>3 DEF Dom
    <3>2. closed(i) => end(i) \in Dom /\ <<i, end(i)>> \in Int \X Int
      BY <1>f, <3>1
    <3>3. CASE t[i] # "open"
      BY <1>b, <2>1, <2>3, <3>1, <3>3
    <3>4. CASE t[i] = "open" /\ ~closed(i)
      BY <1>b, <1>r, <2>3, <3>4
    <3>5. CASE t[i] = "open" /\ closed(i) /\ known(i)
      BY <1>b, <1>r, <2>1, <2>3, <3>2, <3>5
    <3>6. CASE t[i] = "open" /\ closed(i) /\ ~known(i)
      BY <1>b, <2>1, <2>3, <3>2, <3>6
    <3>. QED  BY <3>3, <3>4, <3>5, <3>6
  <2>. QED  BY <1>d, <2>2, <2>3
<1>1. F \in [G -> G]
  <2>. SUFFICES ASSUME NEW f \in G, NEW i \in Dom PROVE Body(f, i) \in Vals
    OBVIOUS
  <2>. HIDE DEF G
  <2>. QED  BY <1>s
<1>2. m \in [Dom -> Nat] /\ Top \in Nat /\ \A i \in Dom : m[i] < Top
  BY <1>n
<1>3. ASSUME NEW f \in G, NEW g \in G, NEW i \in Dom, \A c \in Dom : m[c] < m[i] => f[c] = g[c]
      PROVE  F[f][i] = F[g][i]
  <2>1. i <= n => f[i + 1] = g[i + 1]
    BY <1>n, <1>3
  <2>2. i <= n /\ closed(i) => f[end(i)] = g[end(i)]
    <3>. SUFFICES ASSUME i <= n, closed(i) PROVE f[end(i)] = g[end(i)]
      OBVIOUS
    <3>0. i \in 1..n
      BY <1>n
    <3>1. end(i) \in (i + 1)..(n + 1)
      BY <1>e, <3>0
    <3>2. end(i) \in Dom /\ m[end(i)] < m[i]
      BY <1>n, <3>1
    <3>. QED  BY <1>3, <3>2
  <2>3. Body(f, i) = Body(g, i)
    <3>. HIDE DEF Dom
    <3>1. i > n \/ i <= n
      BY <1>d
    <3>. QED  BY <1>b, <2>1, <2>2, <3>1
  <2>. QED  BY <2>3
<1>4. G # {} /\ \A f, g \in G : (\A i \in Dom : f[i] = g[i]) => f = g
  <2>1. [i \in Dom |-> <<>>] \in G
    BY <1>r
  <2>. QED  BY <2>1, SameFunction
<1>5. PICK f \in G : f = F[f]
  <2>. HIDE DEF G, F, m, Dom, Top
  <2>1. Recursive(Dom, G, F, m, Top)
    BY <1>1, <1>2, <1>3, <1>4 DEF Recursive
  <2>. QED  BY <2>1, Recursion
<1>6. f = [i \in Dom |-> Body(f, i)]
  <2>. HIDE DEF Dom
  <2>. QED  BY <1>5
<1>8. from = [i \in Dom |-> Body(from, i)]
  <2>. HIDE DEF Dom
  <2>. QED  BY <1>6
<1>. HIDE DEF from
<1>9. \A i \in Dom : from[i] = Body(from, i)
  BY <1>8
<1>. QED  BY <1>7, <1>9 DEF Body, n

\* In a text that had no opening of its own, the tokens are those that were put there.
LEMMA TokensOf ==
    ASSUME NEW t \in Seq(Piece), NEW q \in RowsOf(t), NEW names, NEW p, NEW L,
           Places(t, q, names, p, L),
           \A x \in 1..Len(t) : t[x] # "open",
           \A i \in 1..Len(q) : /\ names[i] \in P!Range(NamesOfAliases)
                                /\ names[i] # "open" /\ names[i] # "close"
    PROVE  P!AliasTokens(p) = [i \in 1..Len(q) |-> <<L[i] - 2, L[i] + 1>>]
<1>. DEFINE n == Len(t)
            m == Len(q)
            N == Len(p)
            g(i) == q[i][1] - P!After(q, i - 1)
            rest == n + 1 - P!After(q, m)
            tok(i) == <<L[i] - 2, L[i] + 1>>
            Ahead(a) == [k \in 1..(m - a) |-> tok(a + k)]
<1>n. n \in Nat /\ m \in Nat /\ N \in Nat /\ p \in Seq(Piece)
  <2>1. q \in Seq(SpansOf(t)) /\ p \in Seq(Piece)
    BY DEF RowsOf, Places
  <2>. QED  BY <2>1, LenProperties
<1>1. \A i \in 1..m : /\ L[i] = L[i - 1] + g(i) + 3 /\ L[i] <= N
                      /\ \A x \in 1..g(i) : p[L[i - 1] + x] = t[P!After(q, i - 1) - 1 + x]
                      /\ p[L[i] - 2] = "open" /\ p[L[i] - 1] = names[i] /\ p[L[i]] = "close"
  BY Zenon DEF Places
<1>2. /\ L \in [0..m -> Nat] /\ L[0] = 0 /\ N = L[m] + rest
      /\ \A x \in 1..rest : p[L[m] + x] = t[P!After(q, m) - 1 + x]
  BY Zenon DEF Places
<1>3. /\ \A i \in 1..m : /\ g(i) \in Nat
                         /\ \A x \in 1..g(i) : P!After(q, i - 1) - 1 + x \in 1..n
      /\ rest \in Nat /\ \A x \in 1..rest : P!After(q, m) - 1 + x \in 1..n
  <2>1. /\ \A i \in 1..m : P!After(q, i - 1) \in 1..q[i][1]
        /\ \A i \in 1..m : q[i][1] \in 1..n
        /\ P!After(q, m) \in 1..(n + 1)
    BY GapOf, Zenon
  <2>. HIDE DEF n, m
  <2>2. ASSUME NEW i \in 1..m
        PROVE  g(i) \in Nat /\ \A x \in 1..g(i) : P!After(q, i - 1) - 1 + x \in 1..n
    <3>. DEFINE a == P!After(q, i - 1)
                b == q[i][1]
    <3>1. a \in 1..b /\ b \in 1..n
      BY <2>1
    <3>. HIDE DEF a, b
    <3>2. b - a \in Nat /\ \A x \in 1..(b - a) : a - 1 + x \in 1..n
      BY <1>n, <3>1
    <3>. QED  BY <3>2 DEF a, b
  <2>3. rest \in Nat /\ \A x \in 1..rest : P!After(q, m) - 1 + x \in 1..n
    BY <1>n, <2>1
  <2>. QED  BY <2>2, <2>3
<1>t. \A x \in 1..n : t[x] # "open"
  OBVIOUS
<1>u. \A i \in 1..m : /\ names[i] \in P!Range(NamesOfAliases)
                      /\ names[i] # "open" /\ names[i] # "close"
  OBVIOUS
<1>4. PICK from : /\ P!AliasTokens(p) = from[1]
                  /\ \A i \in 1..(Len(p) + 1) : from[i] = TokensFrom(p, from, i)
  BY <1>n, TokensDefined
<1>5. ASSUME NEW i \in 1..N
      PROVE  /\ p[i] # "open" => from[i] = from[i + 1]
             /\ \A e \in i..N :
                    /\ p[i] = "open" /\ p[e] = "close" /\ \A j \in i..(e - 1) : p[j] # "close"
                    /\ p[e - 1] \in P!Range(NamesOfAliases)
                    => from[i] = <<<<i, e + 1>>>> \o from[e + 1]
  <2>1. i \in 1..(Len(p) + 1) /\ ~(i > Len(p))
    BY <1>n
  <2>2. from[i] = TokensFrom(p, from, i)
    BY <1>4, <2>1
  <2>3. p[i] # "open" => from[i] = from[i + 1]
    BY <2>1, <2>2 DEF TokensFrom
  <2>4. ASSUME NEW e \in i..N, p[i] = "open", p[e] = "close", \A j \in i..(e - 1) : p[j] # "close",
               p[e - 1] \in P!Range(NamesOfAliases)
        PROVE  from[i] = <<<<i, e + 1>>>> \o from[e + 1]
    <3>1. P!TokenEnd(p, i) = 1 + e
      BY <1>n, <2>4, TokenEnds
    <3>2. e \in Int /\ 1 + e = e + 1 /\ (e + 1) - 2 = e - 1
      BY <1>n
    <3>3. P!TokenEnd(p, i) = e + 1
      BY <3>1, <3>2
    <3>4. ~(\A j \in i..Len(p) : p[j] # "close")
      BY <2>4
    <3>5. p[P!TokenEnd(p, i) - 2] \in P!Range(NamesOfAliases)
      BY <2>4, <3>2, <3>3
    <3>6. from[i] = <<<<i, P!TokenEnd(p, i)>>>> \o from[P!TokenEnd(p, i)]
      BY <2>1, <2>2, <2>4, <3>4, <3>5 DEF TokensFrom
    <3>. QED  BY <3>3, <3>6
  <2>. QED  BY <2>3, <2>4
<1>6. from[N + 1] = <<>>
  <2>1. N + 1 \in 1..(Len(p) + 1) /\ N + 1 > Len(p)
    BY <1>n
  <2>. QED  BY <1>4, <2>1 DEF TokensFrom
<1>. HIDE DEF n, m, N, g, rest
<1>7. Ahead(m) = <<>> /\ \A a \in 0..m : a < m => <<tok(a + 1)>> \o Ahead(a + 1) = Ahead(a)
  <2>. DEFINE Vals == Int \X Int
  <2>0. \A i \in 1..m : tok(i) \in Vals
    <3>. SUFFICES ASSUME NEW i \in 1..m PROVE tok(i) \in Vals
      OBVIOUS
    <3>1. L[i] \in Nat
      BY <1>2, <1>n
    <3>. QED  BY <3>1
  <2>. HIDE DEF tok, Vals
  <2>1. ASSUME NEW a \in 0..m PROVE Ahead(a) \in Seq(Vals) /\ Len(Ahead(a)) = m - a
    <3>1. m - a \in Nat /\ \A k \in 1..(m - a) : a + k \in 1..m
      BY <1>n
    <3>2. \A k \in 1..(m - a) : tok(a + k) \in Vals
      BY <2>0, <3>1
    <3>3. Ahead(a) \in [1..(m - a) -> Vals]
      BY <3>2
    <3>. HIDE DEF Ahead
    <3>. QED  BY <3>1, <3>3, SeqDef, LenProperties
  <2>2. Ahead(m) = <<>>
    <3>1. m \in 0..m /\ m - m = 0
      BY <1>n
    <3>. HIDE DEF Ahead
    <3>2. Ahead(m) \in Seq(Vals) /\ Len(Ahead(m)) = 0
      BY <2>1, <3>1
    <3>. QED  BY <3>2, EmptySeq
  <2>3. ASSUME NEW a \in 0..m, a < m PROVE <<tok(a + 1)>> \o Ahead(a + 1) = Ahead(a)
    <3>. DEFINE h == <<tok(a + 1)>>
                u == Ahead(a + 1)
                v == Ahead(a)
                w == m - a
    <3>1. a + 1 \in 0..m /\ a + 1 \in 1..m /\ a \in Nat
      BY <1>n, <2>3
    <3>2. h \in Seq(Vals) /\ Len(h) = 1 /\ h[1] = tok(a + 1)
      BY <2>0, <3>1
    <3>3. w \in Nat \ {0} /\ m - (a + 1) = w - 1 /\ \A k \in 1..(w - 1) : (a + 1) + k = a + (k + 1)
      BY <1>n, <2>3
    <3>4. u \in Seq(Vals) /\ Len(u) = w - 1 /\ v \in Seq(Vals) /\ Len(v) = w
      <4>. HIDE DEF Ahead, w
      <4>1. Ahead(a + 1) \in Seq(Vals) /\ Len(Ahead(a + 1)) = m - (a + 1) /\ Ahead(a) \in Seq(Vals) /\ Len(Ahead(a)) = m - a
        BY <2>1, <3>1
      <4>. QED  BY <3>3, <4>1 DEF w
    <3>5. \A k \in 1..(w - 1) : u[k] = tok(a + (k + 1))
      <4>1. u = [k \in 1..(w - 1) |-> tok((a + 1) + k)]
        BY <3>3
      <4>. HIDE DEF u, w
      <4>. QED  BY <3>3, <4>1
    <3>6. \A k \in 1..w : v[k] = tok(a + k)
      OBVIOUS
    <3>. HIDE DEF h, u, v, w
    <3>7. /\ h \o u \in Seq(Vals) /\ Len(h \o u) = 1 + (w - 1)
          /\ \A k \in 1..(1 + (w - 1)) : (h \o u)[k] = IF k <= 1 THEN h[k] ELSE u[k - 1]
      <4>1. /\ h \o u \in Seq(Vals) /\ Len(h \o u) = Len(h) + Len(u)
            /\ \A k \in 1..(Len(h) + Len(u)) : (h \o u)[k] = IF k <= Len(h) THEN h[k] ELSE u[k - Len(h)]
        BY <3>2, <3>4, ConcatProperties
      <4>. QED  BY <3>2, <3>4, <4>1
    <3>8. 1 + (w - 1) = w
      BY <3>3
    <3>9. ASSUME NEW k \in 1..w PROVE (h \o u)[k] = v[k]
      <4>1. (h \o u)[k] = IF k <= 1 THEN h[k] ELSE u[k - 1]
        BY <3>7, <3>8
      <4>2. CASE k = 1
        BY <3>2, <3>6, <4>1, <4>2
      <4>3. CASE k # 1
        <5>1. k - 1 \in 1..(w - 1) /\ ~(k <= 1) /\ (k - 1) + 1 = k
          BY <3>3, <4>3
        <5>2. u[k - 1] = tok(a + ((k - 1) + 1))
          BY <3>5, <5>1
        <5>. QED  BY <3>6, <4>1, <5>1, <5>2
      <4>. QED  BY <4>2, <4>3
    <3>10. Len(h \o u) = Len(v)
      BY <3>4, <3>7, <3>8
    <3>11. Len(h \o u) = w
      BY <3>7, <3>8
    <3>12. h \o u = v
      BY <3>4, <3>7, <3>9, <3>10, <3>11, SeqEqual
    <3>. QED  BY <3>12 DEF h, u, v
  <2>. QED  BY <2>2, <2>3
<1>. HIDE DEF Ahead
<1>. DEFINE At0(x, a) == L[a] < x /\ (a < m => x <= L[a + 1] - 2)
            S == {k \in 0..N : \A a \in 0..m : At0(k + 1, a) => from[k + 1] = Ahead(a)}
<1>8. ASSUME NEW k \in 0..N, \A l \in 0..N : l > k => l \in S
      PROVE  k \in S
  <2>. SUFFICES ASSUME NEW a \in 0..m, At0(k + 1, a) PROVE from[k + 1] = Ahead(a)
    OBVIOUS
  <2>. DEFINE x == k + 1
  <2>s. \A l \in 0..N : l > k => \A b \in 0..m : At0(l + 1, b) => from[l + 1] = Ahead(b)
    BY <1>8
  <2>. HIDE DEF S
  <2>0. L[a] \in Nat /\ k \in Nat /\ L[a] < x
    BY <1>2, <1>n
  <2>a. a < m => /\ a + 1 \in 1..m /\ (a + 1) - 1 = a /\ L[a + 1] = L[a] + g(a + 1) + 3
                 /\ L[a + 1] <= N /\ x <= L[a + 1] - 2 /\ g(a + 1) \in Nat
    <3>. SUFFICES ASSUME a < m
                  PROVE  /\ a + 1 \in 1..m /\ (a + 1) - 1 = a /\ L[a + 1] = L[a] + g(a + 1) + 3
                         /\ L[a + 1] <= N /\ x <= L[a + 1] - 2 /\ g(a + 1) \in Nat
      OBVIOUS
    <3>1. a + 1 \in 1..m /\ (a + 1) - 1 = a
      BY <1>n
    <3>. QED  BY <1>1, <1>3, <3>1
  <2>1. CASE k = N
    <3>1. ~(a < m)
      BY <2>0, <2>1, <2>a, <1>n
    <3>2. a = m
      BY <1>n, <3>1
    <3>. QED  BY <1>6, <1>7, <2>1, <3>2
  <2>2. CASE k < N /\ a = m
    <3>1. x \in 1..N /\ x - L[m] \in 1..rest /\ L[m] + (x - L[m]) = x
      BY <1>2, <1>3, <1>n, <2>0, <2>2
    <3>2. p[x] # "open"
      <4>1. p[L[m] + (x - L[m])] = t[P!After(q, m) - 1 + (x - L[m])]
        BY <1>2, <3>1
      <4>2. P!After(q, m) - 1 + (x - L[m]) \in 1..n
        BY <1>3, <3>1
      <4>. QED  BY <1>t, <3>1, <4>1, <4>2
    <3>3. from[x] = from[x + 1]
      BY <1>5, <3>1, <3>2
    <3>4. k + 1 \in 0..N /\ k + 1 > k /\ At0((k + 1) + 1, a)
      BY <1>n, <2>0, <2>2
    <3>5. from[(k + 1) + 1] = Ahead(a)
      <4>. HIDE DEF At0
      <4>. QED  BY <2>s, <3>4
    <3>. QED  BY <3>3, <3>5
  <2>3. CASE k < N /\ a < m /\ x < L[a + 1] - 2
    <3>1. x \in 1..N /\ x - L[a] \in 1..g(a + 1) /\ L[a] + (x - L[a]) = x
      BY <1>n, <2>0, <2>3, <2>a
    <3>2. p[x] # "open"
      <4>1. p[L[a] + (x - L[a])] = t[P!After(q, (a + 1) - 1) - 1 + (x - L[a])]
        BY <1>1, <2>3, <2>a, <3>1
      <4>2. P!After(q, (a + 1) - 1) - 1 + (x - L[a]) \in 1..n
        BY <1>3, <2>3, <2>a, <3>1
      <4>. QED  BY <1>t, <3>1, <4>1, <4>2
    <3>3. from[x] = from[x + 1]
      BY <1>5, <3>1, <3>2
    <3>4. k + 1 \in 0..N /\ k + 1 > k /\ At0((k + 1) + 1, a)
      BY <1>n, <2>0, <2>3, <2>a
    <3>5. from[(k + 1) + 1] = Ahead(a)
      <4>. HIDE DEF At0
      <4>. QED  BY <2>s, <3>4
    <3>. QED  BY <3>3, <3>5
  <2>4. CASE k < N /\ a < m /\ x = L[a + 1] - 2
    <3>. DEFINE e == L[a + 1]
    <3>0. e \in Nat /\ e <= N /\ a + 1 \in 1..m
      BY <2>0, <2>4, <2>a
    <3>1. /\ p[e - 2] = "open" /\ p[e - 1] = names[a + 1] /\ p[e] = "close"
      BY <1>1, <3>0
    <3>2. names[a + 1] \in P!Range(NamesOfAliases) /\ names[a + 1] # "close"
      BY <1>u, <3>0
    <3>. HIDE DEF e
    <3>3. x \in 1..N /\ e \in x..N /\ x = e - 2
      BY <1>n, <2>0, <2>4, <3>0 DEF e
    <3>4. \A j \in x..(e - 1) : p[j] # "close"
      <4>1. \A j \in x..(e - 1) : j = e - 2 \/ j = e - 1
        BY <3>0, <3>3
      <4>. QED  BY <3>1, <3>2, <4>1
    <3>5. p[x] = "open" /\ p[e - 1] \in P!Range(NamesOfAliases)
      BY <3>1, <3>2, <3>3
    <3>6. from[x] = <<<<x, e + 1>>>> \o from[e + 1]
      <4>. HIDE DEF x
      <4>. QED  BY <1>5, <3>1, <3>3, <3>4, <3>5
    <3>7. e \in 0..N /\ e > k /\ a + 1 \in 0..m
      BY <1>n, <2>0, <3>0, <3>3
    <3>8. At0(e + 1, a + 1)
      <4>1. L[a + 1] < e + 1
        BY <3>0 DEF e
      <4>2. ASSUME a + 1 < m PROVE e + 1 <= L[(a + 1) + 1] - 2
        <5>1. (a + 1) + 1 \in 1..m /\ ((a + 1) + 1) - 1 = a + 1
          BY <1>n, <3>0, <4>2
        <5>2. L[(a + 1) + 1] = L[a + 1] + g((a + 1) + 1) + 3 /\ g((a + 1) + 1) \in Nat
          BY <1>1, <1>3, <5>1
        <5>. QED  BY <3>0, <5>2 DEF e
      <4>. QED  BY <4>1, <4>2
    <3>9. from[e + 1] = Ahead(a + 1)
      <4>. HIDE DEF At0
      <4>. QED  BY <2>s, <3>7, <3>8
    <3>10. <<x, e + 1>> = tok(a + 1)
      BY <3>3 DEF e
    <3>11. <<tok(a + 1)>> \o Ahead(a + 1) = Ahead(a)
      BY <1>7, <2>4
    <3>. HIDE DEF tok, x
    <3>12. from[x] = Ahead(a)
      BY <3>6, <3>9, <3>10, <3>11
    <3>. QED  BY <3>12 DEF x
  <2>5. k = N \/ (k < N /\ a = m) \/ (k < N /\ a < m /\ x < L[a + 1] - 2) \/ (k < N /\ a < m /\ x = L[a + 1] - 2)
    <3>1. (k = N \/ k < N) /\ (a = m \/ a < m)
      BY <1>n
    <3>2. a < m => x < L[a + 1] - 2 \/ x = L[a + 1] - 2
      BY <2>0, <2>a
    <3>. QED  BY <3>1, <3>2
  <2>. QED  BY <2>1, <2>2, <2>3, <2>4, <2>5
<1>9. 0..N \subseteq S
  <2>. HIDE DEF S
  <2>. QED  BY <1>8, <1>n, Downward
<1>10. At0(0 + 1, 0) /\ 0 \in 0..m /\ 0 \in 0..N
  <2>1. 0 < m => L[0 + 1] - 2 >= 1
    <3>. SUFFICES ASSUME 0 < m PROVE L[1] - 2 >= 1
      OBVIOUS
    <3>1. 1 \in 1..m /\ 1 - 1 = 0
      BY <1>n
    <3>2. L[1] = L[0] + g(1) + 3 /\ g(1) \in Nat
      BY <1>1, <1>3, <3>1
    <3>. QED  BY <1>2, <3>2
  <2>2. 0 < m => L[0 + 1] \in Nat
    BY <1>2, <1>n
  <2>. QED  BY <1>2, <1>n, <2>1, <2>2
<1>11. from[0 + 1] = Ahead(0)
  <2>. HIDE DEF At0
  <2>. QED  BY <1>9, <1>10
<1>12. Ahead(0) = [i \in 1..m |-> tok(i)]
  <2>1. m - 0 = m /\ \A k \in 1..m : 0 + k = k
    BY <1>n
  <2>. HIDE DEF tok
  <2>. QED  BY <2>1 DEF Ahead
<1>13. from[1] = [i \in 1..m |-> tok(i)]
  <2>1. 0 + 1 = 1
    OBVIOUS
  <2>. HIDE DEF tok
  <2>. QED  BY <1>11, <1>12, <2>1
<1>. QED  BY <1>4, <1>13 DEF m

\* The secrets put where the aliases are: the text as it was.
LEMMA BackAgain ==
    ASSUME NEW t \in Seq(Piece), NEW q \in RowsOf(t), NEW names, NEW p, NEW L,
           Places(t, q, names, p, L)
    PROVE  P!Substituted(p, [i \in 1..Len(q) |-> <<L[i] - 2, L[i] + 1>>],
                            [i \in 1..Len(q) |-> SubSeq(t, q[i][1], q[i][2] - 1)]) = t
<1>. DEFINE n == Len(t)
            m == Len(q)
            N == Len(p)
            A(i) == P!After(q, i)
            g(i) == q[i][1] - A(i - 1)
            rest == n + 1 - A(m)
            tok == [i \in 1..m |-> <<L[i] - 2, L[i] + 1>>]
            secrets == [i \in 1..m |-> SubSeq(t, q[i][1], q[i][2] - 1)]
            out == P!Through(p, tok, secrets)
<1>n. n \in Nat /\ m \in Nat /\ N \in Nat /\ p \in Seq(Piece) /\ L \in [0..m -> Nat] /\ L[0] = 0
  <2>1. q \in Seq(SpansOf(t)) /\ p \in Seq(Piece) /\ L \in [0..m -> Nat] /\ L[0] = 0
    BY DEF RowsOf, Places
  <2>. QED  BY <2>1, LenProperties
<1>1. \A i \in 1..m : /\ L[i] = L[i - 1] + g(i) + 3 /\ L[i] <= N
                      /\ \A x \in 1..g(i) : p[L[i - 1] + x] = t[A(i - 1) - 1 + x]
  BY Zenon DEF Places
<1>2. /\ N = L[m] + rest
      /\ \A x \in 1..rest : p[L[m] + x] = t[A(m) - 1 + x]
  BY Zenon DEF Places
<1>3. /\ \A i \in 1..m : /\ q[i][1] \in 1..n /\ q[i][2] \in (q[i][1] + 1)..(n + 1)
                         /\ A(i - 1) \in 1..q[i][1] /\ A(i) = q[i][2]
                         /\ Gap(t, q, i) \in Seq(Piece) /\ Len(Gap(t, q, i)) = g(i)
                         /\ \A x \in 1..g(i) : Gap(t, q, i)[x] = t[A(i - 1) - 1 + x]
      /\ A(m) \in 1..(n + 1)
      /\ Rest(t, q) \in Seq(Piece) /\ Len(Rest(t, q)) = rest
      /\ \A x \in 1..rest : Rest(t, q)[x] = t[A(m) - 1 + x]
  BY GapOf, Zenon
<1>. HIDE DEF A, n, m, N
<1>a. A(0) = 1
  BY DEF A, P!After
<1>g. /\ \A i \in 1..m : g(i) \in Nat /\ L[i - 1] \in Nat /\ L[i] \in Nat
      /\ rest \in Nat
  <2>1. ASSUME NEW i \in 1..m PROVE g(i) \in Nat /\ L[i - 1] \in Nat /\ L[i] \in Nat
    <3>1. i - 1 \in 0..m /\ i \in 0..m
      BY <1>n
    <3>2. q[i][1] \in 1..n /\ A(i - 1) \in 1..q[i][1]
      BY <1>3
    <3>. QED  BY <1>n, <3>1, <3>2
  <2>2. rest \in Nat
    BY <1>3, <1>n
  <2>. QED  BY <2>1, <2>2
<1>. HIDE DEF g, rest
<1>4. ASSUME NEW k \in 0..m PROVE \A l \in 0..m : k <= l => L[k] <= L[l]
  <2>. DEFINE S == {l \in 0..m : k <= l => L[k] <= L[l]}
  <2>1. ASSUME NEW l \in 0..m, \A j \in 0..m : j < l => j \in S PROVE l \in S
    <3>1. CASE k < l
      <4>1. l - 1 \in 0..m /\ l - 1 < l /\ k <= l - 1 /\ l \in 1..m
        BY <1>n, <3>1
      <4>2. l - 1 \in S
        <5>. HIDE DEF S
        <5>. QED  BY <2>1, <4>1
      <4>3. L[l] = L[l - 1] + g(l) + 3 /\ g(l) \in Nat /\ L[l - 1] \in Nat /\ L[k] \in Nat
        BY <1>1, <1>g, <1>n, <4>1
      <4>. QED  BY <4>1, <4>2, <4>3
    <3>2. CASE k = l
      <4>1. L[k] \in Nat
        BY <1>n
      <4>. QED  BY <3>2, <4>1
    <3>3. CASE k > l
      <4>1. ~(k <= l)
        BY <1>n, <3>3
      <4>. QED  BY <4>1
    <3>4. k < l \/ k = l \/ k > l
      BY <1>n
    <3>. QED  BY <3>1, <3>2, <3>3, <3>4
  <2>2. 0..m \subseteq S
    <3>. HIDE DEF S
    <3>. QED  BY <1>n, <2>1, Upward
  <2>. QED  BY <2>2
<1>k. \A i \in 1..m : tok[i] = <<L[i] - 2, L[i] + 1>> /\ tok[i][1] = L[i] - 2 /\ tok[i][2] = L[i] + 1
  OBVIOUS
<1>5. tok \in RowsOf(p) /\ Len(tok) = m
  <2>1. ASSUME NEW i \in 1..m PROVE <<L[i] - 2, L[i] + 1>> \in SpansOf(p)
    <3>1. L[i] \in Nat /\ L[i] >= 3 /\ L[i] <= N
      BY <1>1, <1>g
    <3>. QED  BY <1>n, <3>1 DEF SpansOf, N
  <2>2. tok \in [1..m -> SpansOf(p)]
    BY <2>1
  <2>3. tok \in Seq(SpansOf(p)) /\ Len(tok) = m
    <3>. HIDE DEF tok
    <3>. QED  BY <1>n, <2>2, SeqDef, LenProperties
  <2>4. ASSUME NEW k \in 1..m, NEW l \in 1..m, k < l PROVE tok[k][2] <= tok[l][1]
    <3>1. k \in 0..m /\ l - 1 \in 0..m /\ k <= l - 1
      BY <1>n, <2>4
    <3>2. L[k] <= L[l - 1]
      BY <1>4, <3>1
    <3>3. L[l] = L[l - 1] + g(l) + 3 /\ g(l) \in Nat /\ L[l - 1] \in Nat /\ L[k] \in Nat
      BY <1>1, <1>g
    <3>4. L[k] + 1 <= L[l] - 2
      BY <3>2, <3>3
    <3>. HIDE DEF tok
    <3>. QED  BY <1>k, <3>4
  <2>. HIDE DEF tok
  <2>. QED  BY <2>3, <2>4 DEF RowsOf
<1>6. \A i \in 1..m : /\ q[i][1] - 1 \in 0..n /\ q[i][2] - 1 \in 0..n /\ q[i][1] \in Nat /\ q[i][2] \in Nat
                      /\ A(i - 1) \in Nat /\ A(i - 1) >= 1 /\ A(i - 1) <= q[i][1] /\ q[i][1] < q[i][2]
                      /\ q[i][1] <= n + 1 /\ q[i][2] <= n + 1 /\ A(i) = q[i][2]
  <2>1. \A b \in 1..n : \A e \in (b + 1)..(n + 1) : \A a \in 1..b :
            /\ b - 1 \in 0..n /\ e - 1 \in 0..n /\ b \in Nat /\ e \in Nat /\ a \in Nat /\ a >= 1 /\ a <= b /\ b < e
            /\ b <= n + 1 /\ e <= n + 1
    BY <1>n
  <2>2. \A i \in 1..m : q[i][1] \in 1..n /\ q[i][2] \in (q[i][1] + 1)..(n + 1) /\ A(i - 1) \in 1..q[i][1] /\ A(i) = q[i][2]
    BY <1>3
  <2>. QED  BY <2>1, <2>2, Zenon
<1>7. secrets \in [1..m -> Seq(Piece)]
  <2>1. \A i \in 1..n : t[i] \in Piece
    BY ElementOfSeq DEF n
  <2>2. ASSUME NEW i \in 1..m PROVE SubSeq(t, q[i][1], q[i][2] - 1) \in Seq(Piece)
    <3>. DEFINE a == q[i][1]
                b == q[i][2] - 1
    <3>1. a \in 1..n /\ b \in 0..n
      BY <1>3, <1>6
    <3>. HIDE DEF a, b
    <3>2. a \in Int /\ b \in Int /\ \A j \in a..b : t[j] \in Piece
      BY <1>n, <2>1, <3>1
    <3>3. SubSeq(t, a, b) \in Seq(Piece)
      BY <3>2, SubSeqProperties
    <3>. QED  BY <3>3 DEF a, b
  <2>. QED  BY <2>2
<1>. HIDE DEF tok, secrets, out
<1>8. /\ out[0] = <<>>
      /\ \A i \in 1..m : out[i] = (out[i - 1] \o Gap(p, tok, i)) \o secrets[i]
      /\ P!Substituted(p, tok, secrets) = out[m] \o Rest(p, tok)
  <2>1. secrets \in [1..Len(tok) -> Seq(Piece)]
    BY <1>5, <1>7
  <2>2. LET o == P!Through(p, tok, secrets) IN
        /\ o[0] = <<>>
        /\ \A i \in 1..Len(tok) : o[i] = (o[i - 1] \o Gap(p, tok, i)) \o secrets[i]
        /\ P!Substituted(p, tok, secrets) = o[Len(tok)] \o Rest(p, tok)
    BY <1>5, <1>n, <2>1, ThroughDefined, Zenon
  <2>. QED  BY <1>5, <2>2 DEF out
<1>9. \A i \in 0..m : P!After(tok, i) = L[i] + 1
  <2>. SUFFICES ASSUME NEW i \in 0..m PROVE P!After(tok, i) = L[i] + 1
    OBVIOUS
  <2>1. CASE i = 0
    BY <1>n, <2>1 DEF P!After
  <2>2. CASE i # 0
    <3>1. i \in 1..m
      BY <1>n, <2>2
    <3>. QED  BY <1>k, <2>2, <3>1 DEF P!After
  <2>. QED  BY <2>1, <2>2
<1>10. ASSUME NEW i \in 1..m PROVE Gap(p, tok, i) = Gap(t, q, i)
  <2>1. LET a == P!After(tok, i - 1) IN
        /\ Gap(p, tok, i) \in Seq(Piece) /\ Len(Gap(p, tok, i)) = tok[i][1] - a
        /\ \A x \in 1..(tok[i][1] - a) : Gap(p, tok, i)[x] = p[a - 1 + x]
    <3>1. i \in 1..Len(tok)
      BY <1>5
    <3>. QED  BY <1>5, <1>n, <3>1, GapOf, Zenon
  <2>. DEFINE l == L[i - 1]
              w == g(i)
  <2>2. /\ P!After(tok, i - 1) = l + 1 /\ tok[i][1] = L[i] - 2 /\ L[i] = l + w + 3 /\ l \in Nat /\ w \in Nat
    <3>1. i - 1 \in 0..m
      BY <1>n
    <3>. QED  BY <1>1, <1>9, <1>g, <1>k, <3>1
  <2>3. \A x \in 1..w : p[l + x] = t[A(i - 1) - 1 + x] /\ Gap(t, q, i)[x] = t[A(i - 1) - 1 + x]
    BY <1>1, <1>3
  <2>4. Gap(t, q, i) \in Seq(Piece) /\ Len(Gap(t, q, i)) = w
    BY <1>3
  <2>. HIDE DEF l, w
  <2>5. (L[i] - 2) - (l + 1) = w /\ \A x \in 1..w : (l + 1) - 1 + x = l + x
    BY <2>2
  <2>6. /\ Gap(p, tok, i) \in Seq(Piece) /\ Len(Gap(p, tok, i)) = w
        /\ \A x \in 1..w : Gap(p, tok, i)[x] = p[l + x]
    BY <2>1, <2>2, <2>5
  <2>. QED  BY <2>3, <2>4, <2>6, SeqEqual
<1>11. Rest(p, tok) = Rest(t, q)
  <2>1. LET a == P!After(tok, Len(tok)) IN
        /\ Rest(p, tok) \in Seq(Piece) /\ Len(Rest(p, tok)) = Len(p) + 1 - a
        /\ \A x \in 1..(Len(p) + 1 - a) : Rest(p, tok)[x] = p[a - 1 + x]
    BY <1>5, <1>n, GapOf, Zenon
  <2>. DEFINE l == L[m]
  <2>2. P!After(tok, Len(tok)) = l + 1 /\ l \in Nat
    <3>1. m \in 0..m
      BY <1>n
    <3>. QED  BY <1>5, <1>9, <1>n, <3>1
  <2>3. /\ N = l + rest /\ \A x \in 1..rest : p[l + x] = t[A(m) - 1 + x] /\ Rest(t, q)[x] = t[A(m) - 1 + x]
    BY <1>2, <1>3
  <2>. HIDE DEF l
  <2>5. N + 1 - (l + 1) = rest /\ \A x \in 1..rest : (l + 1) - 1 + x = l + x
    BY <1>g, <2>2, <2>3
  <2>6. /\ Rest(p, tok) \in Seq(Piece) /\ Len(Rest(p, tok)) = rest
        /\ \A x \in 1..rest : Rest(p, tok)[x] = p[l + x]
    BY <2>1, <2>2, <2>5 DEF N
  <2>7. Rest(t, q) \in Seq(Piece) /\ Len(Rest(t, q)) = rest
    BY <1>3
  <2>. QED  BY <2>3, <2>6, <2>7, SeqEqual
<1>j. ASSUME NEW a \in Nat, NEW b \in Nat, 1 <= a, a <= b, b <= n + 1
      PROVE  SubSeq(t, 1, a - 1) \o SubSeq(t, a, b - 1) = SubSeq(t, 1, b - 1)
  <2>1. 1 \in 1..(n + 1) /\ a - 1 \in (1 - 1)..n /\ b - 1 \in (a - 1)..n /\ (a - 1) + 1 = a
    BY <1>j, <1>n
  <2>2. \A x \in 1..(n + 1) : \A k \in (x - 1)..n : \A y \in k..n :
            SubSeq(t, x, k) \o SubSeq(t, k + 1, y) = SubSeq(t, x, y)
    BY ConcatAdjacentSubSeq DEF n
  <2>3. SubSeq(t, 1, a - 1) \o SubSeq(t, (a - 1) + 1, b - 1) = SubSeq(t, 1, b - 1)
    BY <2>1, <2>2
  <2>. QED  BY <2>1, <2>3
<1>. DEFINE S == {i \in 0..m : out[i] = SubSeq(t, 1, A(i) - 1)}
<1>12. ASSUME NEW i \in 0..m, \A j \in 0..m : j < i => j \in S
       PROVE  i \in S
  <2>1. CASE i = 0
    <3>1. SubSeq(t, 1, 0) = <<>>
      BY SubSeqEmpty
    <3>2. A(0) - 1 = 0
      BY <1>a
    <3>. QED  BY <1>8, <2>1, <3>1, <3>2
  <2>2. CASE i # 0
    <3>1. i \in 1..m /\ i - 1 \in 0..m /\ i - 1 < i
      BY <1>n, <2>2
    <3>2. i - 1 \in S
      <4>. HIDE DEF S
      <4>. QED  BY <1>12, <3>1
    <3>3. out[i - 1] = SubSeq(t, 1, A(i - 1) - 1)
      BY <3>2
    <3>4. out[i] = (SubSeq(t, 1, A(i - 1) - 1) \o SubSeq(t, A(i - 1), q[i][1] - 1)) \o SubSeq(t, q[i][1], q[i][2] - 1)
      <4>1. secrets[i] = SubSeq(t, q[i][1], q[i][2] - 1)
        BY <3>1 DEF secrets
      <4>2. Gap(p, tok, i) = SubSeq(t, A(i - 1), q[i][1] - 1)
        BY <1>10, <3>1 DEF Gap, A
      <4>. QED  BY <1>8, <3>1, <3>3, <4>1, <4>2
    <3>5. SubSeq(t, 1, A(i - 1) - 1) \o SubSeq(t, A(i - 1), q[i][1] - 1) = SubSeq(t, 1, q[i][1] - 1)
      <4>1. q[i][1] <= n + 1
        BY <1>6, <1>n, <3>1
      <4>. QED  BY <1>6, <1>j, <3>1, <4>1
    <3>6. SubSeq(t, 1, q[i][1] - 1) \o SubSeq(t, q[i][1], q[i][2] - 1) = SubSeq(t, 1, q[i][2] - 1)
      <4>1. 1 <= q[i][1] /\ q[i][1] <= q[i][2]
        BY <1>6, <3>1
      <4>. QED  BY <1>6, <1>j, <3>1, <4>1
    <3>7. A(i) = q[i][2]
      BY <1>6, <3>1
    <3>. QED  BY <3>4, <3>5, <3>6, <3>7
  <2>. QED  BY <2>1, <2>2
<1>13. 0..m \subseteq S
  <2>. HIDE DEF S
  <2>. QED  BY <1>12, <1>n, Upward
<1>14. out[m] = SubSeq(t, 1, A(m) - 1)
  <2>1. m \in 0..m
    BY <1>n
  <2>. QED  BY <1>13, <2>1
<1>15. SubSeq(t, 1, A(m) - 1) \o Rest(t, q) = t
  <2>1. Rest(t, q) = SubSeq(t, A(m), n)
    BY DEF Rest, A, m, n
  <2>2. A(m) \in Nat /\ 1 <= A(m) /\ A(m) <= n + 1 /\ n + 1 \in Nat /\ n + 1 <= n + 1 /\ (n + 1) - 1 = n
    BY <1>3, <1>n
  <2>3. SubSeq(t, 1, A(m) - 1) \o SubSeq(t, A(m), (n + 1) - 1) = SubSeq(t, 1, (n + 1) - 1)
    BY <1>j, <2>2
  <2>4. SubSeq(t, 1, n) = t
    BY SubSeqFull DEF n
  <2>. QED  BY <2>1, <2>2, <2>3, <2>4
<1>16. P!Substituted(p, tok, secrets) = t
  BY <1>8, <1>11, <1>14, <1>15
<1>. QED  BY <1>16 DEF tok, secrets, m

\* What the first scan of a text gives.
NamesFor(t) == [i \in 1..Len(P!SecretSpans(t)) |-> NamesOfAliases[i]]
ScannedText(t) ==
    P!Substituted(t, P!SecretSpans(t),
                  [i \in 1..Len(P!SecretSpans(t)) |-> <<"open", NamesFor(t)[i], "close">>])
SecretsIn(t) == [i \in 1..Len(P!SecretSpans(t)) |-> SubSeq(t, P!SecretSpans(t)[i][1], P!SecretSpans(t)[i][2] - 1)]

\* Its tokens are the names that were given, and with the secrets in their places it is the
\* text again.
LEMMA ScannedBack ==
    ASSUME NEW t \in Seq(STRING), "open" \notin P!Range(t),
           Len(P!SecretSpans(t)) <= Len(NamesOfAliases)
    PROVE  LET p == ScannedText(t)
               tokens == P!AliasTokens(p)
               m == Len(P!SecretSpans(t))
           IN  /\ DOMAIN tokens = 1..m
               /\ \A i \in 1..m : /\ tokens[i][2] - tokens[i][1] = 3
                                  /\ p[tokens[i][1] + 1] = NamesOfAliases[i]
               /\ P!Substituted(p, tokens, SecretsIn(t)) = t
<1>. DEFINE q == P!SecretSpans(t)
            m == Len(q)
            names == NamesFor(t)
            p == ScannedText(t)
            tokens == P!AliasTokens(p)
<1>1. t \in Seq(Piece)
  <2>1. STRING \subseteq Piece
    BY DEF Piece
  <2>. QED  BY <2>1, SeqMonotonic
<1>2. q \in RowsOf(t)
  <2>1. /\ q \in Seq(SpansOf(t))
        /\ \A k, l \in 1..m : k < l => q[k][2] <= q[l][1]
    BY <1>1, SecretSpansOf, Zenon
  <2>. HIDE DEF q
  <2>. QED  BY <2>1 DEF RowsOf
<1>m. m \in Nat
  <2>1. q \in Seq(SpansOf(t))
    BY <1>2 DEF RowsOf
  <2>. HIDE DEF q
  <2>. QED  BY <2>1
<1>q. /\ names = [i \in 1..m |-> NamesOfAliases[i]] /\ m <= Len(NamesOfAliases)
      /\ p = P!Substituted(t, q, [i \in 1..m |-> <<"open", names[i], "close">>])
      /\ SecretsIn(t) = [i \in 1..m |-> SubSeq(t, q[i][1], q[i][2] - 1)]
  BY DEF NamesFor, ScannedText, SecretsIn
<1>o. \A x \in 1..Len(t) : t[x] # "open"
  BY <1>1 DEF P!Range
<1>. HIDE DEF q, names, p
<1>3. \A i \in 1..m : /\ names[i] = NamesOfAliases[i] /\ names[i] \in Piece
                      /\ names[i] \in P!Range(NamesOfAliases)
                      /\ names[i] # "open" /\ names[i] # "close"
  <2>. SUFFICES ASSUME NEW i \in 1..m
                PROVE  /\ names[i] = NamesOfAliases[i] /\ names[i] \in Piece
                       /\ names[i] \in P!Range(NamesOfAliases)
                       /\ names[i] # "open" /\ names[i] # "close"
    OBVIOUS
  <2>1. NamesOfAliases \in Seq(STRING \ Reserved)
    BY TextsAssumption
  <2>2. i \in 1..Len(NamesOfAliases) /\ i \in DOMAIN NamesOfAliases
    BY <1>m, <1>q, <2>1
  <2>3. NamesOfAliases[i] \in STRING \ Reserved
    BY <2>1, <2>2, ElementOfSeq
  <2>4. names[i] = NamesOfAliases[i]
    BY <1>q
  <2>5. NamesOfAliases[i] \in P!Range(NamesOfAliases)
    BY <2>2 DEF P!Range
  <2>. QED  BY <2>3, <2>4, <2>5 DEF Reserved, Piece
<1>. HIDE DEF m
<1>4. names \in [1..Len(q) -> Piece]
  BY <1>3, <1>q DEF m
<1>5. PICK L : Places(t, q, names, p, L)
  <2>1. \E L : Places(t, q, names,
                      P!Substituted(t, q, [i \in 1..Len(q) |-> <<"open", names[i], "close">>]), L)
    BY <1>1, <1>2, <1>4, PlacesThere
  <2>. QED  BY <1>q, <2>1 DEF m
<1>7. tokens = [i \in 1..m |-> <<L[i] - 2, L[i] + 1>>]
  <2>1. \A i \in 1..Len(q) : /\ names[i] \in P!Range(NamesOfAliases)
                             /\ names[i] # "open" /\ names[i] # "close"
    BY <1>3 DEF m
  <2>2. P!AliasTokens(p) = [i \in 1..Len(q) |-> <<L[i] - 2, L[i] + 1>>]
    <3>. HIDE DEF tokens
    <3>. QED  BY <1>1, <1>2, <1>5, <1>o, <2>1, TokensOf
  <2>. QED  BY <2>2 DEF m
<1>8. P!Substituted(p, tokens, SecretsIn(t)) = t
  <2>1. P!Substituted(p, [i \in 1..Len(q) |-> <<L[i] - 2, L[i] + 1>>],
                         [i \in 1..Len(q) |-> SubSeq(t, q[i][1], q[i][2] - 1)]) = t
    BY <1>1, <1>2, <1>5, BackAgain
  <2>. HIDE DEF tokens
  <2>. QED  BY <1>7, <1>q, <2>1 DEF m
<1>. HIDE DEF tokens
<1>9. ASSUME NEW i \in 1..m
      PROVE  tokens[i][2] - tokens[i][1] = 3 /\ p[tokens[i][1] + 1] = NamesOfAliases[i]
  <2>1. L[i] \in Nat
    <3>1. L \in [0..m -> Nat]
      BY <1>5 DEF Places, m
    <3>. QED  BY <1>m, <3>1
  <2>2. p[L[i] - 1] = names[i]
    BY <1>5, Zenon DEF Places, m
  <2>3. tokens[i][1] = L[i] - 2 /\ tokens[i][2] = L[i] + 1
    BY <1>7
  <2>4. (L[i] + 1) - (L[i] - 2) = 3 /\ (L[i] - 2) + 1 = L[i] - 1
    BY <2>1
  <2>. QED  BY <1>3, <2>2, <2>3, <2>4
<1>10. DOMAIN tokens = 1..m
  BY <1>7
<1>. QED  BY <1>8, <1>9, <1>10 DEF p, tokens, m, q

\* A prompt before and after its first scan.
Carried ==
    /\ written \in Prompts /\ scans \in Nat
    /\ scans = 0 => passed = written /\ stored = <<>> /\ sent = P!NotYet
    /\ (scans = 1 /\ "open" \notin P!Range(written)) =>
           \/ sent = P!Panicked
           \/ /\ Len(P!SecretSpans(written)) <= Len(NamesOfAliases)
              /\ passed = ScannedText(written) /\ stored = SecretsIn(written)
              /\ sent \in {P!NotYet, written}

LEMMA InitCarried == P!Init => Carried
  BY DEF P!Init, Carried

\* The spans of a text are numbered from 1.
LEMMA SpansCounted ==
    ASSUME NEW t \in Seq(STRING)
    PROVE  LET q == P!SecretSpans(t) IN DOMAIN q = 1..Len(q) /\ Len(q) \in Nat
<1>. DEFINE q == P!SecretSpans(t)
<1>1. t \in Seq(Piece)
  <2>1. STRING \subseteq Piece
    BY DEF Piece
  <2>. QED  BY <2>1, SeqMonotonic
<1>2. q \in Seq(SpansOf(t))
  BY <1>1, SecretSpansOf, Zenon
<1>. HIDE DEF q
<1>3. DOMAIN q = 1..Len(q) /\ Len(q) \in Nat
  BY <1>2
<1>. QED  BY <1>3 DEF q

\* A scan makes it so, and the sending of the prompt undoes the scan.
LEMMA StepCarried ==
    ASSUME Carried, [P!Next]_SpanVars
    PROVE  Carried'
<1>w. written \in Prompts /\ written \in Seq(STRING) /\ scans \in Nat
  BY TextsAssumption DEF Carried
<1>1. CASE UNCHANGED SpanVars
  BY <1>1 DEF Carried, SpanVars, ScannedText, SecretsIn, NamesFor
<1>2. CASE P!Scan
  <2>1. scans' = scans + 1 /\ written' = written /\ sent = P!NotYet
    BY <1>2 DEF P!Scan
  <2>2. CASE scans # 0
    BY <1>w, <2>1, <2>2 DEF Carried
  <2>3. CASE scans = 0
    <3>. DEFINE q == P!SecretSpans(written)
                m == Len(q)
    <3>1. passed = written /\ stored = <<>>
      BY <2>3 DEF Carried
    <3>2. DOMAIN q = 1..m /\ m \in Nat
      BY <1>w, SpansCounted, Zenon
    <3>3. \/ sent' = P!Panicked
          \/ /\ Len(stored) + m <= Len(NamesOfAliases)
             /\ stored' = stored \o [i \in DOMAIN q |-> SubSeq(passed, q[i][1], q[i][2] - 1)]
             /\ passed' = P!Substituted(passed, q, [i \in DOMAIN q |->
                                            <<"open", NamesOfAliases[Len(stored) + i], "close">>])
             /\ UNCHANGED sent
      BY <1>2, <3>1 DEF P!Scan
    <3>4. CASE sent' = P!Panicked
      BY <1>w, <2>1, <2>3, <3>4 DEF Carried
    <3>5. CASE sent' # P!Panicked
      <4>1. Len(stored) = 0 /\ \A i \in 1..m : Len(stored) + i = i
        BY <3>1, <3>2
      <4>2. m <= Len(NamesOfAliases)
        BY <3>2, <3>3, <3>5, <4>1
      <4>3. SecretsIn(written) = [i \in 1..m |-> SubSeq(written, q[i][1], q[i][2] - 1)]
        BY DEF SecretsIn
      <4>4. ScannedText(written) = P!Substituted(written, q, [i \in 1..m |-> <<"open", NamesOfAliases[i], "close">>])
        <5>1. \A i \in 1..m : NamesFor(written)[i] = NamesOfAliases[i]
          BY DEF NamesFor
        <5>2. [i \in 1..m |-> <<"open", NamesFor(written)[i], "close">>]
                  = [i \in 1..m |-> <<"open", NamesOfAliases[i], "close">>]
          <6>. HIDE DEF q
          <6>. QED  BY <5>1
        <5>. QED  BY <5>2 DEF ScannedText
      <4>. HIDE DEF q, m
      <4>5. stored' = SecretsIn(written)
        <5>. DEFINE s == [i \in 1..m |-> SubSeq(written, q[i][1], q[i][2] - 1)]
        <5>1. s = [i \in DOMAIN q |-> SubSeq(passed, q[i][1], q[i][2] - 1)]
          BY <3>1, <3>2
        <5>2. s \in [1..m -> {s[i] : i \in 1..m}]
          OBVIOUS
        <5>3. stored' = <<>> \o s
          BY <3>1, <3>3, <3>5, <5>1
        <5>. HIDE DEF s
        <5>4. s \in Seq({s[i] : i \in 1..m})
          BY <3>2, <5>2, SeqDef
        <5>5. <<>> \o s = s
          BY <5>4, ConcatEmptySeq
        <5>. QED  BY <4>3, <5>3, <5>5 DEF s
      <4>6. passed' = ScannedText(written)
        <5>1. [i \in DOMAIN q |-> <<"open", NamesOfAliases[Len(stored) + i], "close">>]
                  = [i \in 1..m |-> <<"open", NamesOfAliases[i], "close">>]
          BY <3>2, <4>1
        <5>. QED  BY <3>1, <3>3, <3>5, <4>4, <5>1
      <4>7. ScannedText(written)' = ScannedText(written)' /\ sent' = P!NotYet
        BY <2>1, <3>3, <3>5
      <4>8. /\ Len(P!SecretSpans(written)) <= Len(NamesOfAliases)
            /\ sent' \in {P!NotYet, written'}
        BY <4>2, <4>7 DEF m, q
      <4>. QED  BY <1>w, <2>1, <2>3, <4>5, <4>6, <4>8 DEF Carried, ScannedText, SecretsIn, NamesFor
    <3>. QED  BY <3>4, <3>5
  <2>. QED  BY <2>2, <2>3
<1>3. CASE P!Send
  <2>1. /\ scans > 0 /\ sent = P!NotYet /\ UNCHANGED <<written, passed, stored, scans>>
    BY <1>3 DEF P!Send
  <2>2. CASE scans = 1 /\ "open" \notin P!Range(written)
    <3>. DEFINE m == Len(P!SecretSpans(written))
                tokens == P!AliasTokens(passed)
    <3>1. m <= Len(NamesOfAliases) /\ passed = ScannedText(written) /\ stored = SecretsIn(written)
      <4>1. P!NotYet # P!Panicked
        BY DEF P!NotYet, P!Panicked
      <4>. QED  BY <2>1, <2>2, <4>1 DEF Carried
    <3>2. /\ DOMAIN tokens = 1..m
          /\ \A i \in 1..m : tokens[i][2] - tokens[i][1] = 3 /\ passed[tokens[i][1] + 1] = NamesOfAliases[i]
          /\ P!Substituted(passed, tokens, stored) = written
      <4>1. LET p == ScannedText(written)
                tok == P!AliasTokens(p)
            IN  /\ DOMAIN tok = 1..m
                /\ \A i \in 1..m : tok[i][2] - tok[i][1] = 3 /\ p[tok[i][1] + 1] = NamesOfAliases[i]
                /\ P!Substituted(p, tok, SecretsIn(written)) = written
        BY <1>w, <2>2, <3>1, ScannedBack, Zenon
      <4>. QED  BY <3>1, <4>1
    <3>3. DOMAIN stored = 1..m
      BY <3>1 DEF SecretsIn
    <3>4. \A i, j \in 1..m : NamesOfAliases[i] = NamesOfAliases[j] => i = j
      <4>1. NamesOfAliases \in Seq(STRING \ Reserved)
            /\ \A i, j \in DOMAIN NamesOfAliases : NamesOfAliases[i] = NamesOfAliases[j] => i = j
        BY TextsAssumption
      <4>2. m \in Nat
        BY <1>w, SpansCounted, Zenon
      <4>. HIDE DEF m
      <4>3. \A i \in 1..m : i \in DOMAIN NamesOfAliases
        BY <3>1, <4>1, <4>2
      <4>. QED  BY <4>1, <4>3
    <3>. DEFINE place(i) == CHOOSE n \in DOMAIN stored : NamesOfAliases[n] = passed[tokens[i][1] + 1]
                back == [i \in DOMAIN tokens |-> stored[place(i)]]
    <3>5. sent' = IF \A i \in DOMAIN tokens : P!Known(passed, tokens[i])
                  THEN P!Substituted(passed, tokens, back) ELSE P!Unresolvable
      BY <1>3 DEF P!Send
    <3>. HIDE DEF m, tokens
    <3>6. \A i \in DOMAIN tokens : P!Known(passed, tokens[i])
      BY <3>2, <3>3 DEF P!Known
    <3>7. back = stored
      <4>1. ASSUME NEW i \in 1..m
            PROVE  place(i) = i
        BY <3>2, <3>3, <3>4
      <4>2. stored = [i \in 1..m |-> stored[i]]
        BY <3>1 DEF SecretsIn, m
      <4>3. back = [i \in 1..m |-> stored[i]]
        <5>. HIDE DEF place
        <5>. QED  BY <3>2, <4>1
      <4>. QED  BY <4>2, <4>3
    <3>8. sent' = written
      <4>. HIDE DEF back
      <4>. QED  BY <3>2, <3>5, <3>6, <3>7
    <3>. QED  BY <1>w, <2>1, <2>2, <3>1, <3>8 DEF Carried, ScannedText, SecretsIn, NamesFor, m
  <2>3. CASE ~(scans = 1 /\ "open" \notin P!Range(written))
    BY <1>w, <2>1, <2>3 DEF Carried
  <2>. QED  BY <2>2, <2>3
<1>. QED  BY <1>1, <1>2, <1>3 DEF P!Next

\* What the property says of a prompt that was scanned once.
LEMMA CarriedBack ==
    ASSUME Carried
    PROVE  P!SecretsOutAndBack
<1>. SUFFICES ASSUME scans = 1, "open" \notin P!Range(written)
              PROVE  /\ sent \in {P!NotYet, P!Panicked, written}
                     /\ sent # P!Panicked =>
                            \A s \in P!Range(P!Candidates(written)) :
                                   \E k \in DOMAIN stored : P!Overlap(P!SecretSpans(written)[k], s)
  BY DEF P!SecretsOutAndBack
<1>1. CASE sent = P!Panicked
  BY <1>1
<1>2. CASE sent # P!Panicked
  <2>1. /\ Len(P!SecretSpans(written)) <= Len(NamesOfAliases)
        /\ passed = ScannedText(written) /\ stored = SecretsIn(written)
        /\ sent \in {P!NotYet, written} /\ written \in Seq(STRING)
    BY <1>2, TextsAssumption DEF Carried
  <2>3. DOMAIN stored = 1..Len(P!SecretSpans(written))
    BY <2>1 DEF SecretsIn
  <2>4. \A s \in P!Range(P!Candidates(written)) :
            \E k \in 1..Len(P!SecretSpans(written)) : P!Overlap(P!SecretSpans(written)[k], s)
    <3>1. written \in Seq(Piece)
      <4>1. STRING \subseteq Piece
        BY DEF Piece
      <4>. QED  BY <2>1, <4>1, SeqMonotonic
    <3>. QED  BY <3>1, SecretSpansOf, Zenon
  <2>5. \A s \in P!Range(P!Candidates(written)) :
            \E k \in DOMAIN stored : P!Overlap(P!SecretSpans(written)[k], s)
    BY <2>3, <2>4, Zenon
  <2>6. sent \in {P!NotYet, P!Panicked, written}
    BY <2>1
  <2>. QED  BY <2>5, <2>6
<1>. QED  BY <1>1, <1>2

-----------------------------------------------------------------------------
\* For any prompts, names and replies: a prompt without a token of its own that was scanned
\* once reaches the provider as it was written, or not at all; and of whatever was found to
\* look like a secret a part is stored, one vendor and one label after the other
\* (redact.rs:268-412).  A role of the coordinator is judged by the first JSON value of its
\* reply, however the replies nest and quote (brain.rs:23-63).
THEOREM TextsReadRight == Spec => []ReadRight
<1>1. Init => Carried /\ Looked
  BY InitCarried, InitLooked DEF Init
<1>2. Carried /\ Looked /\ [Next]_<<which, StoresVars, ProjectVars, TextVars>> => (Carried /\ Looked)'
  <2>1. [Next]_<<which, StoresVars, ProjectVars, TextVars>> => [P!Next]_SpanVars /\ [J!Next]_ReplyVars
    BY DEF Next, TextNext, TextVars
  <2>. QED  BY <2>1, StepCarried, StepLooked
<1>3. Carried /\ Looked => ReadRight
  BY CarriedBack, LookedAnswers DEF ReadRight
<1>. QED  BY <1>1, <1>2, <1>3, PTL DEF Spec

=============================================================================
