-------------------------------- MODULE MCStores --------------------------------
(***************************************************************************)
(* What is kept on disk, in one run: the table of redacted secrets, the       *)
(* memories, documents and notes, the knowledge graph, the configuration of    *)
(* an agent's CLI; the working trees of tasks, the hooks at their end, the      *)
(* routing table, the ledger of the pool and its health; backups and updates;    *)
(* and the two texts that are searched: a prompt for secrets, a reply for JSON.   *)
(* They share nothing that is modelled: which of them a behaviour is about is   *)
(* chosen at the start, the others stay as they are.                            *)
(***************************************************************************)
EXTENDS Integers, Sequences, FiniteSets

CONSTANTS
    Threads, Commands, Scopes, Secrets, MaxAlias, MaxLives,
    Writers, Readers, Agents, Everyone, MaxTexts, MaxNotes,
    EntityNames, Clients,
    Kinds, Requests, Servers, MaxSeconds,
    Isolated, Callers, Editors, Rules, MaxHooks,
    Programs, Pool, Efforts, Standard, Tables, DefaultTable, Loaders, RateWindow, EndOfTime,
    Never, Absent, Malformed, Unreadable,
    Calls, Models, Minute, Day, Backstop, MemoryCap, LastTime, None,
    MinProviders, EntryGrace, ExitGrace, Healthy, MaxEnabled,
    Updaters, Binaries, MaxVersion, Nightly,
    BackedUp, Excluded, Unsafe, Texts,
    Prompts, NamesOfAliases, Vendors, Labels, MinSegment, MinValue, MinWord, MaxScans,
    Replied, Summaries, MaxNodes

\* An alias has a session to belong to; what is no server and no task has names of its own,
\* and so has a secret among the files; what is left out of a backup is a file;
\* calls are finitely many, and memory has room for one event.
ASSUME StoresAssumption ==
    /\ MaxAlias \in Nat \ {0} /\ MaxTexts \in Nat /\ MaxSeconds \in Nat /\ Binaries \in Nat \ {0}
    /\ Excluded \subseteq BackedUp /\ "k1" \notin BackedUp /\ None \notin BackedUp
    /\ Scopes # {}
    /\ \A t \in Tables \cup {DefaultTable} : /\ t.fallback \in Seq(STRING)
                                             /\ \A e \in Efforts \cup {Standard} : t.lists[e] \in Seq(STRING)
    /\ Absent \notin Tables /\ Malformed \notin Tables /\ Unreadable \notin Tables /\ RateWindow \in Nat
    /\ "own" \notin Servers /\ "nothing" \notin Isolated /\ "user" \notin Isolated
    /\ IsFiniteSet(Calls) /\ Day \in Nat /\ None \notin Nat /\ MemoryCap \in Nat \ {0}
    /\ EntryGrace \in Nat /\ ExitGrace \in Nat /\ MaxEnabled \in Nat /\ Never \notin Nat

\* Prompts and replies are texts; no two secrets get one name, and no piece of a secret is
\* one; a value has a piece at least.
Reserved == {"p", "o", "k", "l", "a", "h", "open", "close"}
ASSUME TextsAssumption ==
    /\ Prompts \subseteq Seq(STRING) /\ NamesOfAliases \in Seq(STRING \ Reserved)
    /\ \A i, j \in DOMAIN NamesOfAliases : NamesOfAliases[i] = NamesOfAliases[j] => i = j
    /\ Vendors \in Seq([prefix : STRING, least : Nat]) /\ Labels \in Seq(STRING)
    /\ MinSegment \in Nat /\ MinValue \in Nat \ {0}
    /\ Replied \cup Summaries \subseteq Seq(STRING)

VARIABLES
    which,
    key, keys, counter, alias, scan, prompt, beside, life,
    memories, nextId, texts, points, writer, documents, reader, notes, inbox, shown,
    entities, observations, relations, client,
    kindOf, mine, config, baks, now, hooked, job,
    row, tree, dirty, commits, offer, head, merging, leftover, call, asked, told, harmed,
    hookFile, hookEditor, status, at, forcing, notice, fired,
    table, loader, onPath, limited, time,
    instant, lease, usage, memory, dispatch,
    clock, mode, since, lowFrom, flips,
    latest, installed, tmp, run,
    disk, ring, locked, archive, reading, import, copies, second,
    written, passed, stored, scans, sent,
    rec, reply, start, answer, verdict

RedactVars == <<key, keys, counter, alias, scan, prompt, beside, life>>
MemoryVars == <<memories, nextId, texts, points, writer, documents, reader,
                notes, inbox, shown>>
GraphVars == <<entities, observations, relations, client>>
ConfigVars == <<kindOf, mine, config, baks, now, hooked, job>>
TreeVars == <<row, tree, dirty, commits, offer, head, merging, leftover, call, asked, told, harmed>>
HookVars == <<hookFile, hookEditor, status, at, forcing, notice, fired>>
RouteVars == <<table, loader, onPath, limited, time>>
QuotaVars == <<instant, lease, usage, memory, dispatch>>
HealthVars == <<clock, mode, since, lowFrom, flips>>
UpdateVars == <<latest, installed, tmp, run>>
BackupVars == <<disk, ring, locked, archive, reading, import, copies, second>>
SpanVars == <<written, passed, stored, scans, sent>>
ReplyVars == <<rec, reply, start, answer, verdict>>
TextVars == <<SpanVars, ReplyVars>>
ProjectVars == <<TreeVars, HookVars, RouteVars, QuotaVars, HealthVars, UpdateVars, BackupVars>>

\* A hook for every end, and one for failures only.
AskedFor(r) == IF r = "all" THEN {"completed", "failed", "cancelled"} ELSE {"failed"}

\* Two tables a user may have written, and the one that is made.
Table(quick, standard, fallback) ==
    [lists |-> [quick |-> quick, standard |-> standard], fallback |-> fallback]
TwoTables == {Table(<<"b", Pool>>, <<"a">>, <<"b">>), Table(<<>>, <<"a", "b">>, <<Pool>>)}
MadeTable == Table(<<"a">>, <<"a">>, <<"b", "a">>)

\* Every short prompt; values of several kinds behind a label; three segments; characters
\* of two bytes, quotes, and what looks like a token.
Pieces == {"p", "k", "a", "h", ".", "=", "q", "_"}
ShortPrompts ==
    UNION {[1..n -> Pieces] : n \in 0..3}
    \cup {<<"k", "=">> \o v : v \in [1..4 -> {"a", ".", "p", "_"}]}
    \cup {v \o <<".">> \o w : v \in [1..2 -> {"a", "p", "k"}],
                              w \in {<<"a", ".", "a">>, <<"a", ".", "a", "k", "=", "a", "a">>}}
    \cup [1..4 -> {"o", "p", "a"}] \cup {<<"o", "a", "p", "a", "a">>, <<"l", "=", "a", "k", "=", "a", "a">>}
    \cup {<<"i1", "i2", "k">> \o v : v \in {<<>>, <<"=", "a", "a">>, <<"=", "=", "a", "a">>,
                                           <<"a", "c1", "c2">>, <<"a", "=", "q", "a", "a">>}}
    \cup {<<"k", "=", "a", "a", "c1", "c2", "a">>, <<"k", "_", "=", "_", "q", "a", "a", "q">>,
          <<"open", "a", "open", "n1", "close">>, <<"k", "=", "a", "a", "_", "open", "n1", "close">>,
          <<"open", "k", "=", "a", "a">>, <<"open", "_", "close", "a", "a", "k">>}
TwoVendors == <<[prefix |-> "p", least |-> 2], [prefix |-> "o", least |-> 2]>>
TwoLabels == <<"k", "l">>
SixNames == <<"n1", "n2", "n3", "n4", "n5", "n6">>

\* Every short reply, and arrays with quotes, backslashes and brackets in them.
Brackets == {"{", "}", "[", "]"}
ShortReplies ==
          UNION {[1..n -> Brackets \cup {"q", "b", "x"}] : n \in 0..4}
          \cup {<<"[">> \o s \o <<"]">> : s \in [1..4 -> {"q", "b", "]", "{", "}"}]}
ShortSummary == {<<"x", "[", "{", "}", "]">>}

R == INSTANCE Redact
M == INSTANCE Memories
K == INSTANCE KnowledgeGraph WITH Names <- EntityNames
C == INSTANCE AgentConfigs
W == INSTANCE Worktrees WITH Tasks <- Isolated
H == INSTANCE TaskHooks WITH Tasks <- Isolated, file <- hookFile, editor <- hookEditor, row <- status
T == INSTANCE Routing WITH Agents <- Programs, Readers <- Loaders, reader <- loader
Q == INSTANCE Quota WITH now <- instant, call <- dispatch
D == INSTANCE Degrade WITH EndOfTime <- 3 * EndOfTime
U == INSTANCE Update
B == INSTANCE Backups WITH Files <- BackedUp, Secrets <- {"k1"}, baks <- copies
P == INSTANCE SecretSpans WITH prompt <- passed
J == INSTANCE Replies WITH Texts <- Replied

Parts == {"redact", "memories", "graph", "config", "trees", "hooks", "routes", "quota",
          "health", "update", "backup", "spans", "replies"}

\* Where a part is not what is chosen, its choices are made for it.
Init == /\ which \in Parts
        /\ which = "spans" \/ (which # "spans" /\ written = CHOOSE t \in Prompts : TRUE)
        /\ P!Init
        /\ \/ which = "replies"
           \/ which # "replies" /\ rec = [status |-> "failed", artifact |-> Absent,
                                          summary |-> CHOOSE s \in Summaries : TRUE]
        /\ J!Init
        /\ which = "backup" \/ (which # "backup" /\ disk = [f \in BackedUp |-> None]
                                                 /\ ring = [s \in {"k1"} |-> None])
        /\ which = "config" \/ (which # "config" /\ mine = FALSE /\ kindOf = CHOOSE k \in Kinds : TRUE)
        /\ which = "hooks" \/ (which # "hooks" /\ hookFile = <<>>)
        /\ which = "routes" \/ (which # "routes" /\ table = Absent /\ onPath = {})
        /\ R!Init /\ M!Init /\ K!Init /\ C!Init
        /\ W!Init /\ H!Init /\ T!Init /\ Q!Init /\ D!Init /\ U!Init /\ B!Init
        /\ which # "quota" => \A c \in Calls : dispatch[c].model = CHOOSE m \in Models : TRUE

StoresNext ==
    \/ which = "redact" /\ R!Next /\ UNCHANGED <<MemoryVars, GraphVars, ConfigVars>>
    \/ which = "memories" /\ M!Next /\ UNCHANGED <<RedactVars, GraphVars, ConfigVars>>
    \/ which = "graph" /\ K!Next /\ UNCHANGED <<RedactVars, MemoryVars, ConfigVars>>
    \/ which = "config" /\ C!Next /\ UNCHANGED <<RedactVars, MemoryVars, GraphVars>>

ProjectNext ==
    \/ /\ which = "trees" /\ W!Next
       /\ UNCHANGED <<HookVars, RouteVars, QuotaVars, HealthVars, UpdateVars, BackupVars>>
    \/ /\ which = "hooks" /\ H!Next
       /\ UNCHANGED <<TreeVars, RouteVars, QuotaVars, HealthVars, UpdateVars, BackupVars>>
    \/ /\ which = "routes" /\ T!Next
       /\ UNCHANGED <<TreeVars, HookVars, QuotaVars, HealthVars, UpdateVars, BackupVars>>
    \/ /\ which = "quota" /\ Q!Next
       /\ UNCHANGED <<TreeVars, HookVars, RouteVars, HealthVars, UpdateVars, BackupVars>>
    \/ /\ which = "health" /\ D!Next
       /\ UNCHANGED <<TreeVars, HookVars, RouteVars, QuotaVars, UpdateVars, BackupVars>>
    \/ /\ which = "update" /\ U!Next
       /\ UNCHANGED <<TreeVars, HookVars, RouteVars, QuotaVars, HealthVars, BackupVars>>
    \/ /\ which = "backup" /\ B!Next
       /\ UNCHANGED <<TreeVars, HookVars, RouteVars, QuotaVars, HealthVars, UpdateVars>>

TextNext ==
    \/ which = "spans" /\ P!Next /\ UNCHANGED ReplyVars
    \/ which = "replies" /\ J!Next /\ UNCHANGED SpanVars

StoresVars == <<RedactVars, MemoryVars, GraphVars, ConfigVars>>

Next == /\ UNCHANGED which
        /\ \/ StoresNext /\ UNCHANGED <<ProjectVars, TextVars>>
           \/ ProjectNext /\ UNCHANGED <<StoresVars, TextVars>>
           \/ TextNext /\ UNCHANGED <<StoresVars, ProjectVars>>

Spec == Init /\ [][Next]_<<which, StoresVars, ProjectVars, TextVars>>

-----------------------------------------------------------------------------
(* The properties of each part, as its module states them. *)

\* A redacted prompt is sent with its own secret or not at all, whatever requests race.
OwnSecret == which = "redact" => R!OwnSecret

\* What is looked up is what is there: a search by meaning answers with the text that was
\* found, an observation or a relation is about entities that exist, and a node is given to
\* the first agent of its lists that can run.
LookupsAgree ==
    /\ which = "memories" => M!FoundIsMeant
    /\ which = "graph" => K!GraphClosed
    /\ which = "routes" => T!ChosenIsFirstUsable

\* A configuration an agent can read has the user's own entry.
OwnKept == which = "config" => C!OwnKept

\* A repository in the middle of merging a task's branch has a request at work on it, or
\* one that could not undo it.
MergeAttended == which = "trees" => W!MergeAttended

\* What an update or an import leaves on disk is whole, or what it was.
FilesWhole ==
    /\ which = "update" => U!InstalledWhole
    /\ which = "backup" => B!RestoredAsReported

\* What is read in a text is what the text says: a prompt that was scanned is sent as it was
\* written and its secrets are out of it, a role of the coordinator is judged by the first
\* JSON value of its reply.
ReadRight ==
    /\ which = "spans" => P!SecretsOutAndBack
    /\ which = "replies" => J!FirstValueAnswers

\* Nothing is told or counted twice: an end by the hooks, a change of health within its
\* grace, a call by the admission of the pool.
OnceOnly ==
    /\ which = "quota" => Q!NeverOvercounts
    /\ which = "hooks" => H!FiredOnceForItsStatus
    /\ which = "health" => D!NeverFlaps
=============================================================================
