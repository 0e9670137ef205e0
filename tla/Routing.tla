---------------------------------- MODULE Routing ----------------------------------
(***************************************************************************)
(* Which agent a node is given (coordinator/routing.rs): the routing table, a file that      *)
(* is made when it is not there; the health of the agents as the PATH and the rows of         *)
(* rate-limited tasks show it; and the choice.                                                  *)
(*                                                                         *)
(* A table is a function from efforts to lists for one kind of node, with the list to fall        *)
(* back on.  Time passes in steps of which RateWindow make fifteen minutes.                       *)
(***************************************************************************)
EXTENDS Integers, Sequences, FiniteSets, FiniteSetsExt

CONSTANTS
    Agents,       \* the agents of the registry
    Pool,         \* "single-pool", which is no binary
    Efforts, Standard,
    Tables,       \* tables a user may write
    DefaultTable,
    Readers, RateWindow, EndOfTime, Never, Absent, Malformed, Unreadable

VARIABLES
    table,      \* routing.toml: a table, or Absent, Malformed, Unreadable (no UTF-8)
    reader,     \* reader[r]: a tick or a request that loads it: what it does next, its table
    onPath,     \* the agents whose command is on the PATH
    limited,    \* limited[a]: when a task of a was last flagged as rate-limited
    time

vars == <<table, reader, onPath, limited, time>>

NoTable == [at |-> "idle", table |-> DefaultTable]

Init == /\ table \in Tables \cup {Absent}
        /\ reader = [r \in Readers |-> NoTable]
        /\ onPath \in SUBSET Agents
        /\ limited = [a \in Agents |-> Never]
        /\ time = 0

-----------------------------------------------------------------------------
(* The choice. *)

\* candidates: the exact list, the standard list, the fallback, each agent once.
Firsts(s) == {i \in DOMAIN s : \A j \in 1..(i - 1) : s[j] # s[i]}
Nth(S, k) == CHOOSE i \in S : Cardinality(S \cap 1..i) = k
Once(s) == [k \in 1..Cardinality(Firsts(s)) |-> s[Nth(Firsts(s), k)]]
Candidates(t, effort) == Once(t.lists[effort] \o t.lists[Standard] \o t.fallback)

\* PoolHealth::probe and usable.
Health == [detected |-> onPath,
           limited |-> {a \in Agents : limited[a] # Never /\ limited[a] >= time - RateWindow}]
DetectedOnly(h, a) == a = Pool \/ a \in h.detected
Usable(h, a) == a = Pool \/ (a \in h.detected /\ a \notin h.limited)

\* select_agent: without any agent detected, the first candidate is tried anyway.
SelectAgent(t, effort, h) ==
    LET candidates == Candidates(t, effort)
        usable == {i \in DOMAIN candidates : Usable(h, candidates[i])}
    IN  IF usable # {} THEN candidates[Min(usable)]
        ELSE IF h.detected = {} /\ candidates # <<>> THEN Head(candidates)
        ELSE Never

\* prefer_pool yields to a list of this kind and effort that names the pool.
SelectAgentWithPreferPool(t, effort, h, prefer) ==
    IF ~prefer \/ Pool \in Range(t.lists[effort]) THEN SelectAgent(t, effort, h) ELSE Pool

-----------------------------------------------------------------------------
(* Loading the table. *)

\* A file that is read is parsed, or stands for the default; one that cannot be read is
\* written anew.
Read(r) == /\ reader[r].at = "idle"
           /\ reader' = [reader EXCEPT ![r] =
                 IF table \in {Absent, Unreadable} THEN [at |-> "write", table |-> DefaultTable]
                 ELSE [at |-> "done", table |-> IF table = Malformed THEN DefaultTable ELSE table]]
           /\ UNCHANGED <<table, onPath, limited, time>>

WriteDefault(r) == /\ reader[r].at = "write"
                   /\ table' = DefaultTable
                   /\ reader' = [reader EXCEPT ![r].at = "done"]
                   /\ UNCHANGED <<onPath, limited, time>>

NextTick(r) == /\ reader[r].at = "done"
               /\ reader' = [reader EXCEPT ![r] = NoTable]
               /\ UNCHANGED <<table, onPath, limited, time>>

-----------------------------------------------------------------------------
(* Around it. *)

Edit(t) == /\ table # t /\ table' = t
           /\ UNCHANGED <<reader, onPath, limited, time>>

Installed(a) == /\ onPath' = IF a \in onPath THEN onPath \ {a} ELSE onPath \cup {a}
                /\ UNCHANGED <<table, reader, limited, time>>

RateLimited(a) == /\ limited' = [limited EXCEPT ![a] = time]
                  /\ UNCHANGED <<table, reader, onPath, time>>

Passes == /\ time < EndOfTime /\ time' = time + 1
          /\ UNCHANGED <<table, reader, onPath, limited>>

Next == \/ \E r \in Readers : Read(r) \/ WriteDefault(r) \/ NextTick(r)
        \/ \E t \in Tables \cup {Malformed, Unreadable} : Edit(t)
        \/ \E a \in Agents : Installed(a) \/ RateLimited(a)
        \/ Passes

Spec == Init /\ [][Next]_vars

-----------------------------------------------------------------------------
(* Properties. *)

\* The lists in their order of rank, and the rank of an agent: where it first stands.
Ranked(t, effort) == t.lists[effort] \o t.lists[Standard] \o t.fallback
Rank(t, effort, a) == Min({i \in DOMAIN Ranked(t, effort) : Ranked(t, effort)[i] = a})

\* What is chosen can run and was not rate-limited within fifteen minutes, and nothing
\* ranked before it could; nothing is chosen only when nothing could
\* (routing.rs:180-183, 274-276).
ChosenIsFirstUsable ==
    \A r \in Readers, effort \in Efforts :
       LET t == reader[r].table
           chosen == SelectAgentWithPreferPool(t, effort, Health, FALSE)
           can == {a \in Range(Ranked(t, effort)) :
                     \/ a = Pool
                     \/ /\ a \in onPath
                        /\ limited[a] = Never \/ time - limited[a] > RateWindow}
       IN  (reader[r].at = "done" /\ onPath # {}) =>
              IF can = {} THEN chosen = Never
              ELSE /\ chosen \in can
                   /\ \A a \in can : Rank(t, effort, chosen) <= Rank(t, effort, a)

\* NOT TRUE: "`None` only when there are no candidates at all" (routing.rs:278): also when
\* some agent is on the PATH and none of the candidates can run.
NoneOnlyWithout ==
    \A r \in Readers, effort \in Efforts :
       Candidates(reader[r].table, effort) # <<>> =>
          SelectAgent(reader[r].table, effort, Health) # Never

\* NOT TRUE: the defaults are written to a file "if it is absent" (routing.rs:83-84, of the
\* configuration, which is loaded in the same way), but also over a file that was written
\* since it was looked for, or that is no UTF-8.
UsersTableKept ==
    [][~(table \notin {Absent, DefaultTable} /\ table' = DefaultTable)]_table
=============================================================================
