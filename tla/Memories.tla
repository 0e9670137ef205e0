-------------------------------- MODULE Memories --------------------------------
(***************************************************************************)
(* What the team remembers: memory.rs, documents.rs and the vector store     *)
(* (embeddings.rs, qdrant_backend.rs) of crates/single-runtime/src with the   *)
(* requests that use them, the notes of single-core/src/notes.rs, and the    *)
(* preamble that task.rs puts before a prompt.                               *)
(*                                                                          *)
(* A text is the number of the store that wrote it.  The vector store is     *)
(* another server and external: a point is the text it was made of.          *)
(***************************************************************************)
EXTENDS Integers, FiniteSets, Sequences

CONSTANTS
    Writers,        \* requests that store a memory or ingest a document
    Readers,        \* requests that search by meaning
    Agents,         \* agents that read their notes
    Everyone,       \* a note with no to_agent
    MaxTexts,       \* bound: memories stored
    MaxNotes        \* bound: notes left

VARIABLES
    memories,   \* table memories: by id, the text, 0 for no row
    nextId,     \* its AUTOINCREMENT counter
    texts,      \* history: how many texts have been stored
    points,     \* collection single_memory: by id, the text of the vector
    writer,     \* each request that writes
    documents,  \* table documents: the memory and whether source_path is set
    reader,     \* each search: the points to look up and what it answers
    notes,      \* table agent_notes: to whom, and whether it is read
    inbox,      \* each agent's read of its notes: what it has yet to mark
    shown       \* history: which notes an agent has been shown

memoryVars == <<memories, nextId, texts, points, writer, documents, reader,
                notes, inbox, shown>>

Ids == 1..MaxTexts
Idle == [pc |-> "idle", id |-> 0, text |-> 0]
NoSearch == [pc |-> "idle", hits |-> {}, found |-> {}]

Init ==
    /\ memories = [i \in Ids |-> 0]
    /\ nextId = 1 /\ texts = 0
    /\ points = [i \in Ids |-> 0]
    /\ writer = [w \in Writers |-> Idle]
    /\ documents = {}
    /\ reader = [q \in Readers |-> NoSearch]
    /\ notes = <<>>
    /\ inbox = [a \in Agents |-> {}]
    /\ shown = {}

Memory == <<memories, nextId, texts>>
Notes == <<notes, inbox, shown>>
Does(w, pc) == writer[w].pc = pc
Sets(w, to) == writer' = [writer EXCEPT ![w] = to]

-----------------------------------------------------------------------------
(* Memories. *)

FreeId == LET free == {i \in Ids : memories[i] = 0}
          IN  CHOOSE i \in free : \A k \in free : i <= k

\* memory::store; an id is not given twice.
NewId == nextId
Insert ==
    /\ texts < MaxTexts
    /\ texts' = texts + 1
    /\ memories' = [memories EXCEPT ![NewId] = texts + 1]
    /\ nextId' = NewId + 1

\* MemoryStore: the row, then its vector if key and URL are configured.
Store(w) ==
    /\ Does(w, "idle")
    /\ Insert
    /\ Sets(w, [pc |-> "embed", id |-> NewId, text |-> texts + 1])
    /\ UNCHANGED <<points, documents, reader, Notes>>

Upsert(w) ==
    /\ Does(w, "embed")
    /\ points' = [points EXCEPT ![writer[w].id] = writer[w].text]
    /\ Sets(w, Idle)
    /\ UNCHANGED <<Memory, documents, reader, Notes>>

\* Not configured, or one of the two servers fails: the request succeeds.
NotIndexed(w) ==
    /\ Does(w, "embed")
    /\ Sets(w, Idle)
    /\ UNCHANGED <<Memory, points, documents, reader, Notes>>

\* MemoryDelete, or the purge of a row that has expired, before any read.
Forget(i) ==
    /\ memories[i] # 0
    /\ memories' = [memories EXCEPT ![i] = 0]
    /\ UNCHANGED <<nextId, texts, points, writer, documents, reader, Notes>>

\* MemorySearchSemantic: the nearest points, then a row for each.
Hits == {i \in Ids : points[i] # 0}
Search(q) ==
    /\ reader[q].pc = "idle"
    /\ \E hits \in SUBSET Hits :
           reader' = [reader EXCEPT ![q] = [pc |-> "get", found |-> {},
                          hits |-> {[id |-> i, text |-> points[i]] : i \in hits}]]
    /\ UNCHANGED <<Memory, points, writer, documents, Notes>>

Get(q) ==
    /\ reader[q].pc = "get"
    /\ \E h \in reader[q].hits :
           reader' = [reader EXCEPT ![q] = [pc |-> "get", hits |-> reader[q].hits \ {h},
               found |-> IF memories[h.id] = 0 THEN reader[q].found
                         ELSE reader[q].found \cup {[point |-> h.text, row |-> memories[h.id]]}]]
    /\ UNCHANGED <<Memory, points, writer, documents, Notes>>

Answer(q) ==
    /\ reader[q].pc = "get" /\ reader[q].hits = {}
    /\ reader' = [reader EXCEPT ![q] = NoSearch]
    /\ UNCHANGED <<Memory, points, writer, documents, Notes>>

-----------------------------------------------------------------------------
(* Documents: text, memory, row, copy, path, each a step that may be the last. *)

Ingest(w) ==
    /\ Does(w, "idle")
    /\ Insert
    /\ Sets(w, [pc |-> "document", id |-> NewId, text |-> texts + 1])
    /\ UNCHANGED <<points, documents, reader, Notes>>

DocumentRow(w) ==
    /\ Does(w, "document")
    /\ documents' = documents \cup {[memory |-> writer[w].id, copied |-> FALSE]}
    /\ Sets(w, [writer[w] EXCEPT !.pc = "copy"])
    /\ UNCHANGED <<Memory, points, reader, Notes>>

Copied(w) ==
    /\ Does(w, "copy")
    /\ documents' = (documents \ {[memory |-> writer[w].id, copied |-> FALSE]})
                    \cup {[memory |-> writer[w].id, copied |-> TRUE]}
    /\ Sets(w, Idle)
    /\ UNCHANGED <<Memory, points, reader, Notes>>

IngestFails(w) ==
    /\ writer[w].pc \in {"document", "copy"}
    /\ Sets(w, Idle)
    /\ UNCHANGED <<Memory, points, documents, reader, Notes>>

-----------------------------------------------------------------------------
(* Notes. *)

Leave ==
    /\ Len(notes) < MaxNotes
    /\ \E to \in Agents \cup {Everyone} :
           notes' = Append(notes, [to |-> to, read |-> FALSE])
    /\ UNCHANGED <<Memory, points, writer, documents, reader, inbox, shown>>

Unread(a) == {n \in DOMAIN notes : notes[n].to \in {a, Everyone} /\ ~notes[n].read}

\* notes_read shows them all.
NotesRead(a) ==
    /\ inbox[a] = {} /\ Unread(a) # {}
    /\ inbox' = [inbox EXCEPT ![a] = Unread(a)]
    /\ shown' = shown \cup {<<a, n>> : n \in Unread(a)}
    /\ UNCHANGED <<Memory, points, writer, documents, reader, notes>>

\* The preamble ends with the notes, newest first, and is cut at 4000
\* characters: a part of them, or none.
Preamble(a) ==
    /\ inbox[a] = {} /\ Unread(a) # {}
    /\ inbox' = [inbox EXCEPT ![a] = Unread(a)]
    /\ \E oldest \in 1..(Len(notes) + 1) :
           shown' = shown \cup {<<a, n>> : n \in {k \in Unread(a) : k >= oldest}}
    /\ UNCHANGED <<Memory, points, writer, documents, reader, notes>>

MarkRead(a) ==
    /\ \E n \in inbox[a] :
           /\ notes' = [notes EXCEPT ![n].read = TRUE]
           /\ inbox' = [inbox EXCEPT ![a] = @ \ {n}]
    /\ UNCHANGED <<Memory, points, writer, documents, reader, shown>>

Next ==
    \/ \E w \in Writers : \/ Store(w) \/ Upsert(w) \/ NotIndexed(w) \/ Ingest(w)
                          \/ DocumentRow(w) \/ Copied(w) \/ IngestFails(w)
    \/ \E i \in Ids : Forget(i)
    \/ \E q \in Readers : Search(q) \/ Get(q) \/ Answer(q)
    \/ \E a \in Agents : NotesRead(a) \/ Preamble(a) \/ MarkRead(a)
    \/ Leave

Spec == Init /\ [][Next]_memoryVars

-----------------------------------------------------------------------------
(* Properties. *)

\* A search by meaning never answers with a row whose text is not the one that
\* was found: a point outlives its memory, and late upserts cross deletions, but
\* the id is not given to another text.
FoundIsMeant ==
    \A q \in Readers : \A f \in reader[q].found : f.point = f.row

\* NOT TRUE.  The tool notes_leave: a note goes "to the recipient's next `single task run`
\* prompt preamble", and a broadcast note is "for every agent".  A note that is
\* marked as read has been shown to all it is for.
For(n) == IF notes[n].to = Everyone THEN Agents ELSE {notes[n].to}
BroadcastReachesAll ==
    \A n \in DOMAIN notes : notes[n].read => \A a \in For(n) : <<a, n>> \in shown

\* NOT TRUE.  The same for a note to one agent, which the preamble may cut off.
DirectNoteShown ==
    \A n \in DOMAIN notes :
        notes[n].read /\ notes[n].to # Everyone => <<notes[n].to, n>> \in shown

\* NOT TRUE.  documents.rs: an ingested text is "immediately searchable through `single
\* memory search`/`single memory search --semantic`".
DocumentIndexed ==
    \A d \in documents : d.copied /\ memories[d.memory] # 0 => points[d.memory] # 0

\* NOT TRUE.  documents.rs: a row comes "with the original file copied into
\* `documents_dir/<id>/source.<ext>`", unless its request is still at work.
DocumentHasFile ==
    \A d \in documents :
        d.copied \/ \E w \in Writers : Does(w, "copy") /\ writer[w].id = d.memory
=============================================================================
