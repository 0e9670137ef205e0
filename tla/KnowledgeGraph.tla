----------------------------- MODULE KnowledgeGraph -----------------------------
(***************************************************************************)
(* Shared knowledge: crates/single-runtime/src/knowledge_graph.rs.  Requests  *)
(* look an entity up and write in a second statement; a dump reads the names, *)
(* then each entity, then the relations.                                     *)
(***************************************************************************)
EXTENDS FiniteSets

CONSTANTS Names, Clients

VARIABLES
    entities,       \* table kg_entities
    observations,   \* table kg_observations: the entity of each
    relations,      \* table kg_relations: from and to
    client          \* each request: what it is about to write or to read

graphVars == <<entities, observations, relations, client>>
Rest == [pc |-> "idle", from |-> {}, to |-> {}]

Init ==
    /\ entities = {} /\ observations = {} /\ relations = {}
    /\ client = [c \in Clients |-> Rest]

Wants(c, pc) == client[c].pc = pc
Sets(c, to) == client' = [client EXCEPT ![c] = to]

\* ON CONFLICT DO NOTHING
CreateEntity(n) ==
    /\ entities' = entities \cup {n}
    /\ UNCHANGED <<observations, relations, client>>

\* ON DELETE CASCADE, on every connection that ensure_schema prepared.
Cascade(n, rows) == {r \in rows : n \notin r}
DeleteEntity(n) ==
    /\ n \in entities
    /\ entities' = entities \ {n}
    /\ observations' = Cascade(n, observations)
    /\ relations' = {r \in relations : n \notin {r.from, r.to}}
    /\ UNCHANGED client

\* entity_exists, of one entity or of two.
Observe(c) ==
    /\ Wants(c, "idle")
    /\ \E n \in entities : Sets(c, [pc |-> "observe", from |-> {n}, to |-> {}])
    /\ UNCHANGED <<entities, observations, relations>>

Relate(c) ==
    /\ Wants(c, "idle")
    /\ \E n \in entities : Sets(c, [pc |-> "other", from |-> {n}, to |-> {}])
    /\ UNCHANGED <<entities, observations, relations>>

Other(c) ==
    /\ Wants(c, "other")
    /\ \E n \in Names :
           Sets(c, IF n \in entities
                   THEN [pc |-> "relate", from |-> client[c].from, to |-> {n}]
                   ELSE Rest)
    /\ UNCHANGED <<entities, observations, relations>>

\* REFERENCES kg_entities: the insert fails when the entity has gone.
AcceptedAlways(rows) == TRUE
Accepted(rows) == rows \subseteq entities

AddObservation(c) ==
    /\ Wants(c, "observe")
    /\ observations' = IF Accepted(client[c].from)
                       THEN observations \cup {client[c].from} ELSE observations
    /\ Sets(c, Rest)
    /\ UNCHANGED <<entities, relations>>

CreateRelation(c) ==
    /\ Wants(c, "relate")
    /\ relations' = IF Accepted(client[c].from \cup client[c].to)
                    THEN relations \cup {[from |-> f, to |-> t] :
                             f \in client[c].from, t \in client[c].to}
                    ELSE relations
    /\ Sets(c, Rest)
    /\ UNCHANGED <<entities, observations>>

\* read_graph
ReadNames(c) ==
    /\ Wants(c, "idle")
    /\ Sets(c, [pc |-> "dump", from |-> entities, to |-> {}])
    /\ UNCHANGED <<entities, observations, relations>>

\* get_entity(..).unwrap(): the thread panics on one that has gone meanwhile.
ReadEntity(c) ==
    /\ Wants(c, "dump")
    /\ \E n \in client[c].from :
           Sets(c, IF n \in entities THEN [client[c] EXCEPT !.from = @ \ {n}]
                   ELSE [client[c] EXCEPT !.pc = "panicked"])
    /\ UNCHANGED <<entities, observations, relations>>

Dumped(c) ==
    /\ \/ Wants(c, "dump") /\ client[c].from = {}
       \/ Wants(c, "panicked")
    /\ Sets(c, Rest)
    /\ UNCHANGED <<entities, observations, relations>>

Next ==
    \/ \E n \in Names : CreateEntity(n) \/ DeleteEntity(n)
    \/ \E c \in Clients : \/ Observe(c) \/ Relate(c) \/ Other(c) \/ AddObservation(c)
                          \/ CreateRelation(c) \/ ReadNames(c) \/ ReadEntity(c)
                          \/ Dumped(c)

Spec == Init /\ [][Next]_graphVars

\* An observation or a relation never speaks of an entity that is not there,
\* although every writer looks first and writes later and deletions come between.
GraphClosed ==
    /\ \A o \in observations : o \subseteq entities
    /\ \A r \in relations : {r.from, r.to} \subseteq entities

\* NOT TRUE.  read_graph: a "full graph dump ... every entity with its observations": a dump
\* is answered whatever is deleted meanwhile.
DumpAnswered == \A c \in Clients : ~Wants(c, "panicked")
=============================================================================
