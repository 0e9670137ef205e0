--------------------------------- MODULE Pool ---------------------------------
(***************************************************************************)
(* The free-provider pool: crates/single-runtime/src/pool_agent.rs (the      *)
(* loop that tries one candidate after the other), pool/cooldown.rs (who is  *)
(* benched and for how long), pool/ledger.rs (leases), pool/handoff.rs (what *)
(* a session ran on last), the answers of pool/client.rs and its wires, and  *)
(* the cooldown probe of self_heal/infra.rs.                                 *)
(*                                                                          *)
(* The daemon's clock is not a variable.  What is compared with it is kept   *)
(* as the time left: a bench ends when its time is 0, and Tick lets all of   *)
(* them run down together with the age of the calls under way.               *)
(***************************************************************************)
EXTENDS Integers, FiniteSets, Sequences

CONSTANTS
    Calls,          \* threads that may run a task on single-pool
    Sessions,
    SessionOf,      \* the handoff session of a call's task
    Platforms,
    Polling,        \* platforms whose wire submits, then polls (AiHorde, Sail)
    Validating,     \* platforms with a cheap validate_url
    Cands,          \* the keyed (platform, key_id) pairs
    Lengths,        \* how long a bench of each kind may last
    ProbeRest,      \* a bench with no more than this left is not probed
    ProbeBudget,    \* benches probed in one pass
    MaxAge,         \* bound: the longest a dispatch takes (provider.timeout)
    Nobody, NoPlatform, NoCand  \* no call, no platform, no candidate

\* How a dispatch fails: 429 with and without a time, 402 and 403, 401, and
\* everything that is no answer of the provider.
Kinds == {"stated", "limited", "paid", "auth", "local"}

ASSUME PoolAssumption ==
    /\ SessionOf \in [Calls -> Sessions]
    /\ Polling \subseteq Platforms /\ Validating \subseteq Platforms
    /\ \A k \in Cands : k.platform \in Platforms
    /\ Lengths \in [Kinds -> SUBSET Nat]
    /\ {ProbeRest, ProbeBudget, MaxAge} \subseteq Nat
    /\ Nobody \notin Calls /\ NoPlatform \notin Platforms /\ NoCand \notin Cands

VARIABLES
    row,        \* table pool_cooldowns
    lease,      \* table pool_leases
    last,       \* HANDOFF_STORE: the platform a session was last sent to
    call,       \* each call of pool_agent::execute
    probe       \* the candidates the probe of a self-heal pass has yet to ask

vars == <<row, lease, last, call, probe>>

\* left, span: time until until_ms, and from bench_start_ms to until_ms.  by:
\* history, the call that wrote the bench.  A row whose time is over is as good
\* as none.
NoRow == [prov |-> "none", left |-> 0, span |-> 0, by |-> Nobody]

\* tried: attempted.  cand, age: the dispatch under way and the time since its
\* `now` was read.  best: time left until earliest_recovery_ms.  before, told:
\* the platform of the dispatch before, and whether this one carries a handoff
\* message.
NoCall == [pc |-> "idle", tried |-> {}, cand |-> NoCand, age |-> 0,
           best |-> {}, before |-> NoPlatform, told |-> FALSE]

Init ==
    /\ row = [k \in Cands |-> NoRow]
    /\ lease = {}
    /\ last = [s \in Sessions |-> NoPlatform]
    /\ call = [c \in Calls |-> NoCall]
    /\ probe = {}

At(c, pc) == call[c].pc = pc
Under(c) == call[c].pc \in {"flight", "polling"}
Smaller(m, n) == IF m < n THEN m ELSE n
Larger(m, n) == IF m < n THEN n ELSE m

-----------------------------------------------------------------------------
(* Cooldowns. *)

Benched(k) == row[k].left > 0

Provenance(kind) ==
    CASE kind = "stated" -> "authoritative"
      [] kind = "paid"   -> "credit"
      [] OTHER           -> "heuristic"

Live(r) == IF r.left = 0 THEN NoRow ELSE r

\* until_ms is counted from the time read before the dispatch: a short bench
\* after a long dispatch is over when it is written.
BenchRow(c, kind, length) ==
    Live([prov |-> Provenance(kind), left |-> Larger(0, length - call[c].age),
          span |-> length, by |-> c])

\* cooldown::clear looks at the key_id only, whatever the platform.
ClearedBy(key) == [k \in Cands |-> IF k.key = key THEN NoRow ELSE row[k]]

-----------------------------------------------------------------------------
(* A call. *)

Goes(c, to) == call' = [call EXCEPT ![c] = to]

Begin(c) ==
    /\ At(c, "idle")
    /\ Goes(c, [NoCall EXCEPT !.pc = "pick"])
    /\ UNCHANGED <<row, lease, last, probe>>

Admissible(c) == {k \in Cands \ call[c].tried : ~Benched(k)}

\* The key has no secret, or the keychain does not answer: no bench.
Skip(c) ==
    /\ At(c, "pick")
    /\ \E k \in Admissible(c) :
           Goes(c, [call[c] EXCEPT !.tried = @ \cup {k}])
    /\ UNCHANGED <<row, lease, last, probe>>

InjectForgetful(c, k) ==
    /\ last' = [last EXCEPT ![SessionOf[c]] = k.platform]
    /\ Goes(c, [call[c] EXCEPT
           !.pc = "flight", !.cand = k, !.age = 0,
           !.before = IF call[c].cand = NoCand THEN NoPlatform
                      ELSE call[c].cand.platform,
           !.told = last'[SessionOf[c]] \notin {NoPlatform, k.platform}])

\* handoff::inject: a message when the session was last on another platform.
Inject(c, k) ==
    /\ last' = [last EXCEPT ![SessionOf[c]] = k.platform]
    /\ Goes(c, [call[c] EXCEPT
           !.pc = "flight", !.cand = k, !.age = 0,
           !.before = IF call[c].cand = NoCand THEN NoPlatform
                      ELSE call[c].cand.platform,
           !.told = last[SessionOf[c]] \notin {NoPlatform, k.platform}])

\* Thompson sampling: any admissible candidate may come first.
Dispatch(c) ==
    /\ At(c, "pick")
    /\ \E k \in Admissible(c) :
           /\ Inject(c, k)
           /\ lease' = lease \cup {[cand |-> k, owner |-> c]}
    /\ UNCHANGED <<row, probe>>

Release(c) == lease' = lease \ {[cand |-> call[c].cand, owner |-> c]}

\* A wire that polls: the request was taken.
Accepted(c) ==
    /\ At(c, "flight") /\ call[c].cand.platform \in Polling
    /\ Goes(c, [call[c] EXCEPT !.pc = "polling"])
    /\ UNCHANGED <<row, lease, last, probe>>

SucceedKeepingLease(c) ==
    /\ \/ At(c, "flight") /\ call[c].cand.platform \notin Polling
       \/ At(c, "polling")
    /\ Goes(c, [NoCall EXCEPT !.pc = "ok"])
    /\ UNCHANGED <<row, lease, last, probe>>

Succeed(c) ==
    /\ \/ At(c, "flight") /\ call[c].cand.platform \notin Polling
       \/ At(c, "polling")
    /\ Release(c)
    /\ Goes(c, [NoCall EXCEPT !.pc = "ok"])
    /\ UNCHANGED <<row, last, probe>>

\* Nothing but a local error comes out of a poll, whose status is not looked at.
Failures(c) == IF At(c, "flight") THEN Kinds ELSE {"local"}

\* earliest_recovery_ms
EarliestBefore(c, r) == {Smaller(b, row[call[c].cand].left) : b \in call[c].best}
                        \cup {row[call[c].cand].left}
Earliest(c, r) == IF call[c].best = {} THEN {r.left}
                  ELSE {Smaller(b, r.left) : b \in call[c].best}

\* The row is written whole, over whatever it is by now.
Fail(c) ==
    /\ Under(c)
    /\ Release(c)
    /\ \E kind \in Failures(c) : \E length \in Lengths[kind] :
       LET r == BenchRow(c, kind, length)
       IN  /\ row' = [row EXCEPT ![call[c].cand] = r]
           /\ Goes(c, [call[c] EXCEPT
                  !.pc = "pick", !.tried = @ \cup {call[c].cand}, !.age = 0,
                  !.best = Earliest(c, r),
                  !.before = NoPlatform, !.told = FALSE])
    /\ UNCHANGED <<last, probe>>

\* Exhausted; with no bench of its own the recovery time is the present.
GiveUp(c) ==
    /\ At(c, "pick")
    /\ Admissible(c) = {}
    /\ Goes(c, [call[c] EXCEPT !.pc = "exhausted", !.cand = NoCand])
    /\ UNCHANGED <<row, lease, last, probe>>

Return(c) ==
    /\ call[c].pc \in {"ok", "exhausted"}
    /\ Goes(c, NoCall)
    /\ UNCHANGED <<row, lease, last, probe>>

-----------------------------------------------------------------------------
(* Around the calls. *)

\* heuristic_probe_candidates
ProbeCandidates ==
    {k \in Cands : /\ row[k].prov = "heuristic"
                   /\ row[k].left > ProbeRest
                   /\ row[k].span - row[k].left >= Larger(1, row[k].span) \div 2}

StartProbe ==
    /\ probe = {}
    /\ \E chosen \in SUBSET ProbeCandidates :
           /\ Cardinality(chosen) = Smaller(ProbeBudget, Cardinality(ProbeCandidates))
           /\ probe' = {k \in chosen : k.platform \in Validating}
    /\ UNCHANGED <<row, lease, last, call>>

ProbeOk(k) ==
    /\ k \in probe
    /\ row' = ClearedBy(k.key)
    /\ probe' = probe \ {k}
    /\ UNCHANGED <<lease, last, call>>

ProbeFails(k) ==
    /\ k \in probe
    /\ probe' = probe \ {k}
    /\ UNCHANGED <<row, lease, last, call>>

\* An entry of the handoff store is over after three hours; each dispatch of a
\* call writes it again, and none takes that long.
Forget(s) ==
    /\ last[s] # NoPlatform
    /\ \A c \in Calls : SessionOf[c] = s => At(c, "idle")
    /\ last' = [last EXCEPT ![s] = NoPlatform]
    /\ UNCHANGED <<row, lease, call, probe>>

Down(n) == Larger(0, n - 1)
Aged(r) == Live([r EXCEPT !.left = Down(@)])

\* Time passes; a dispatch ends by the provider's timeout.
Tick ==
    /\ \A c \in Calls : Under(c) => call[c].age < MaxAge
    /\ row' = [k \in Cands |-> Aged(row[k])]
    /\ call' = [c \in Calls |-> [call[c] EXCEPT
                  !.age = IF Under(c) THEN @ + 1 ELSE @,
                  !.best = {Down(b) : b \in @}]]
    /\ UNCHANGED <<lease, last, probe>>

\* The daemon stops and starts: the tables stay, a lease has no owner any more.
Restart ==
    /\ \E c \in Calls : ~At(c, "idle")
    /\ call' = [c \in Calls |-> NoCall]
    /\ last' = [s \in Sessions |-> NoPlatform]
    /\ lease' = {[l EXCEPT !.owner = Nobody] : l \in lease}
    /\ probe' = {}
    /\ UNCHANGED row

Step(c) == \/ Skip(c) \/ Dispatch(c) \/ Accepted(c) \/ Succeed(c)
           \/ Fail(c) \/ GiveUp(c)

Next == \/ \E c \in Calls : Begin(c) \/ Step(c) \/ Return(c)
        \/ \E k \in Cands : ProbeOk(k) \/ ProbeFails(k)
        \/ \E s \in Sessions : Forget(s)
        \/ StartProbe \/ Tick \/ Restart

Spec == Init /\ [][Next]_vars

-----------------------------------------------------------------------------
(* What the pool promises. *)

CallPCs == {"idle", "pick", "flight", "polling", "ok", "exhausted"}
Provs == {"none", "heuristic", "authoritative", "credit"}

Rows == [prov : Provs, left : Nat, span : Nat, by : Calls \cup {Nobody}]
CallRecords == [pc : CallPCs, tried : SUBSET Cands, cand : Cands \cup {NoCand},
                age : Nat,
                best : SUBSET Nat, before : Platforms \cup {NoPlatform},
                told : BOOLEAN]

\* Tables and threads hold values of their columns, and a call that has a
\* dispatch under way has a candidate.
TypeOK ==
    /\ row \in [Cands -> Rows]
    /\ lease \subseteq [cand : Cands, owner : Calls \cup {Nobody}]
    /\ last \in [Sessions -> Platforms \cup {NoPlatform}]
    /\ call \in [Calls -> CallRecords]
    /\ probe \subseteq Cands
    /\ \A c \in Calls : Under(c) => call[c].cand \in Cands

\* A lease is the dispatch of a call or what a stopped daemon has left: no way
\* out of a dispatch, by answer, failure or poll, keeps one, and none is shared.
LeasesExact ==
    \A l \in lease :
        \/ l.owner = Nobody
        \/ l.owner \in Calls /\ call[l.owner].pc \in {"flight", "polling"}
           /\ call[l.owner].cand = l.cand

\* When the time comes that an exhausted call has named, a candidate it tried
\* is free again, unless another call has benched it since.
RecoveryUseful ==
    \A c \in Calls :
        At(c, "exhausted") /\ call[c].best = {0} =>
            \E k \in call[c].tried : ~Benched(k) \/ row[k].by # c

\* A call that goes on with another provider tells it so, whatever else runs
\* and however often it changes, as long as its session is its own.
OwnSession(c) == \A d \in Calls : SessionOf[d] = SessionOf[c] => d = c
SwitchAnnounced ==
    \A c \in Calls :
        OwnSession(c) /\ At(c, "flight")
        /\ call[c].before \notin {NoPlatform, call[c].cand.platform}
        => call[c].told

\* What the three rest on: a call does not come back to a candidate, its
\* session stands where it was last sent, and the time it has named is not
\* before the end of all the benches it wrote.
Untried(c) == Under(c) => call[c].cand \notin call[c].tried
Remembered(c) ==
    OwnSession(c) /\ call[c].cand # NoCand =>
        last[SessionOf[c]] = call[c].cand.platform
Named(c) ==
    call[c].best # {} =>
        \E k \in call[c].tried :
            row[k].by = c => \A b \in call[c].best : row[k].left <= b
Inv ==
    /\ TypeOK /\ LeasesExact /\ SwitchAnnounced
    /\ \A c \in Calls : Untried(c) /\ Remembered(c) /\ Named(c)

\* NOT TRUE.  cooldown.rs: "Never Authoritative/Credit/Tier -- those are never probed".
\* A bench that is not the pool's own guess is not taken off before its time.
ProbeSparesStated ==
    [][\A k \in Cands : Benched(k) /\ row'[k].prov = "none"
           => row[k].prov = "heuristic"]_vars
=============================================================================
