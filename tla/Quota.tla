---------------------------------- MODULE Quota ----------------------------------
(***************************************************************************)
(* The ledger of the provider pool (pool/ledger.rs), the gate over several      *)
(* models (pool/pools.rs) and what key-status and pool status make of it          *)
(* (handlers.rs), for the models of one key.                                       *)
(*                                                                         *)
(* A dispatch of pool_agent.rs takes a lease, asks the provider, gives the lease     *)
(* back and, when it was answered, records a request and its tokens under the time   *)
(* at which it began.  A write that fails is recorded in memory, which a restart      *)
(* loses and which holds MemoryCap events.  Time passes in steps; Minute, Day and      *)
(* Backstop are numbers of steps.                                                     *)
(***************************************************************************)
EXTENDS Integers, Sequences, FiniteSets, FiniteSetsExt

CONSTANTS Calls, Models, Minute, Day, Backstop, MemoryCap, LastTime, None

VARIABLES
    now,
    lease,    \* table pool_leases
    usage,    \* table pool_usage
    memory,   \* MEMORY_FALLBACK
    call      \* call[c]: what it does next, its model, the time it began

vars == <<now, lease, usage, memory, call>>

Est == 1      \* estimated and recorded tokens of a call: one unit

Init == /\ now = Day
        /\ lease = {} /\ usage = {} /\ memory = <<>>
        /\ call \in [Calls -> {[at |-> "begin", model |-> m, since |-> None] : m \in Models}]

-----------------------------------------------------------------------------
(* The windows and what they count. *)

NextMidnight(t) == (t \div Day + 1) * Day

\* The windows in the order in which they are checked, and where each one starts.
Windows == <<"rpm", "rpd", "tpm", "tpd">>
KindOf(w) == IF w \in {"rpm", "rpd"} THEN "request" ELSE "tokens"
Sliding(w) == w \in {"rpm", "tpm"}
WindowStart(w, t) == IF Sliding(w) THEN t - Minute ELSE NextMidnight(t - 1) - Day

\* An event is of one unit.
Counted(events, kind, since) == Cardinality({e \in events : e.kind = kind /\ e.at >= since})

Of(events, m) == {e \in events : e.model = m}
Recorded(m, w, t) ==
    Counted(Of(usage, m), KindOf(w), WindowStart(w, t))
      + Counted(Of(Range(memory), m), KindOf(w), WindowStart(w, t))

\* Stale leases are dropped when the leases are read, not by a timer.
Live(t) == {l \in lease : l.at >= t - Backstop}

InFlight(leases, w) ==
    IF KindOf(w) = "request" THEN Cardinality(leases) ELSE Est * Cardinality(leases)

\* The first window whose limit the call would reach, and when to come back.
Admit(leases, m, est, limits, t) ==
    LET Estimate(w) == IF KindOf(w) = "request" THEN 1 ELSE est
        Over(w) == /\ limits[w] # None
                   /\ Recorded(m, w, t) + InFlight(leases, w) + Estimate(w) >= limits[w]
        over == {i \in DOMAIN Windows : Over(Windows[i])}
        w == Windows[Min(over)]
        wait == IF Sliding(w) THEN Minute - (t - WindowStart(w, t)) ELSE NextMidnight(t) - t
    IN  IF over = {} THEN [ok |-> TRUE]
        ELSE [ok |-> FALSE, window |-> w, retry |-> Max({0, wait})]

\* The gate of a key that several models share: each model's own usage, all leases.
AggregateGate(limits, t) ==
    \A m \in Models : Admit(Live(t), m, 0, limits, t).ok

\* key-status: the requests of today, which begin at midnight here.
Headroom(limit, t) ==
    Max({0, limit - Counted(usage, "request", NextMidnight(t) - Day)})

-----------------------------------------------------------------------------
(* A dispatch. *)

Goes(c, at) == call' = [call EXCEPT ![c].at = at]

Begin(c) == /\ call[c].at = "begin"
            /\ call' = [call EXCEPT ![c].at = "acquire", ![c].since = now]
            /\ UNCHANGED <<now, lease, usage, memory>>

AcquireLease(c) == /\ call[c].at = "acquire"
                   /\ lease' = lease \cup {[of |-> c, model |-> call[c].model, at |-> now]}
                   /\ Goes(c, "ask")
                   /\ UNCHANGED <<now, usage, memory>>

ReleaseNothing(c) == lease
Released(c) == {l \in lease : l.of # c}

\* The lease is given back before anything is recorded; a call that failed records nothing.
ReleaseLease(c) == /\ call[c].at = "ask"
                   /\ lease' = Released(c)
                   /\ \E answered \in BOOLEAN : Goes(c, IF answered THEN "request" ELSE "done")
                   /\ UNCHANGED <<now, usage, memory>>

Event(c, kind) == [of |-> c, model |-> call[c].model, kind |-> kind, at |-> call[c].since]

\* One usage event, in the table or, when it cannot be written, in memory.
Record(c) ==
    LET kind == call[c].at
    IN  /\ kind \in {"request", "tokens"}
        /\ \/ usage' = usage \cup {Event(c, kind)} /\ UNCHANGED memory
           \/ /\ memory' = Append(IF Len(memory) >= MemoryCap THEN Tail(memory) ELSE memory,
                                  Event(c, kind))
              /\ UNCHANGED usage
        /\ \/ kind = "request" /\ Goes(c, "tokens")
           \/ Goes(c, "done")
        /\ UNCHANGED <<now, lease>>

\* Somebody asks for admission or reads the leases.
LiveLeases == /\ lease # Live(now)
              /\ lease' = Live(now)
              /\ UNCHANGED <<now, usage, memory, call>>

\* The daemon starts anew: calls under way are gone, their leases stay in the table.
Restart == /\ \E c \in Calls : call[c].at \notin {"begin", "done"}
           /\ memory' = <<>>
           /\ call' = [c \in Calls |-> IF call[c].at = "begin" THEN call[c]
                                       ELSE [call[c] EXCEPT !.at = "done"]]
           /\ UNCHANGED <<now, lease, usage>>

Tick == now < LastTime /\ now' = now + 1 /\ UNCHANGED <<lease, usage, memory, call>>

Next == \/ \E c \in Calls : Begin(c) \/ AcquireLease(c) \/ ReleaseLease(c) \/ Record(c)
        \/ LiveLeases \/ Restart \/ Tick

Spec == Init /\ [][Next]_vars

-----------------------------------------------------------------------------
(* Properties. *)

\* The calls that began within a window of requests, and those that have a lease.
Begun(m, since) ==
    {c \in Calls : call[c].model = m /\ call[c].since # None
                     /\ (call[c].since >= since \/ \E l \in Live(now) : l.of = c)}

\* Admission never counts a call twice, once as in flight and once as recorded, and
\* never counts one that belongs to another model or to an earlier window: a provider
\* with capacity is not refused (pool_agent.rs:102-118, ledger.rs:200-267).
NeverOvercounts ==
    \A m \in Models, w \in {"rpm", "rpd"} :
       Recorded(m, w, now) + InFlight({l \in Live(now) : l.model = m}, w)
         <= Cardinality(Begun(m, WindowStart(w, now)))

\* NOT TRUE: between giving the lease back and recording, a call is in no count, so that
\* another one reads "the same unspent counter" (ledger.rs:178-179).
NeverUndercounts ==
    \A m \in Models :
       Recorded(m, "rpm", now) + InFlight({l \in Live(now) : l.model = m}, "rpm")
         >= Cardinality({c \in Calls : /\ call[c].model = m /\ call[c].at \in {"ask", "request", "tokens"}
                                       /\ call[c].since >= now - Minute})

Limit(w, n) == [v \in Range(Windows) |-> IF v = w THEN n ELSE None]

\* NOT TRUE: who is refused by a window of a minute is told to come back at once
\* (ledger.rs:260).
RetryIsLater ==
    \A m \in Models, w \in Range(Windows), n \in 1..3 :
       LET a == Admit(Live(now), m, Est, Limit(w, n), now) IN a.ok \/ a.retry > 0

\* NOT TRUE: "RPD/TPD reset at the next UTC midnight" (ledger.rs:4), but at midnight
\* itself admission still counts yesterday, while key-status begins the new day.
DayBeginsAtMidnight ==
    \A w \in Range(Windows) : ~Sliding(w) => WindowStart(w, now) = (now \div Day) * Day

\* NOT TRUE: the shared gate "sums per-model pool_usage windows" (pools.rs:36), but two
\* models that each used less than the limit pass it together.
GateSums ==
    \A n \in 1..3 :
       MapThenSumSet(LAMBDA m : Recorded(m, "rpd", now), Models) >= n
         => ~AggregateGate(Limit("rpd", n), now)
=============================================================================
