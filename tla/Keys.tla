---------------------------------- MODULE Keys ----------------------------------
(***************************************************************************)
(* API keys: those of the free-provider pool (pool_keys.rs, the add-free and  *)
(* sync-pool requests of handlers.rs, the list of candidates of               *)
(* pool_agent.rs, the check of stale keys in self_heal/agent.rs) and the       *)
(* labeled keys of one provider (provider_keys.rs, the key requests of         *)
(* handlers.rs, the environment task.rs gives to an agent).                   *)
(*                                                                         *)
(* A row says that there is a key, the keychain of the desktop has its value: *)
(* two stores, written one after the other, by requests that are threads.      *)
(* The pool is one platform; the probe of a key answers what it likes.  Each   *)
(* write of a registry file is one step here: Registries takes it apart.       *)
(***************************************************************************)
EXTENDS Naturals, FiniteSets

CONSTANTS
    Adders,      \* threads of add-free
    KeyIds,      \* ids of pool keys: 1 for "default", n for "key<n>"
    Nothing,     \* no agent
    HasProbe,    \* whether the platform has a validate_url
    Keepers,     \* threads of requests on labeled keys
    Labels, Runners  \* labels of keys, agents they are for

VARIABLES
    row,         \* key id -> the row in pool_provider_keys
    secret,      \* key ids with a value in the keychain
    add,         \* the add-free requests
    check,       \* stale_pool_key_disable: at rest, or the keys it will disable
    pool,        \* free-pool.toml: the entry of the platform
    synced,      \* sync-pool: at rest, or the entry it will save
    refused,     \* ids with a probe that ever said no
    label,       \* label -> the agent its row names, or Nothing
    labelled,    \* label -> the agent its value in the keychain was stored for
    keeper,      \* the requests on labeled keys
    run          \* the agent that is being started: its rows, its environment

poolVars == <<row, secret, add, check, pool, synced, refused>>
labelVars == <<label, labelled, keeper, run>>
vars == <<poolVars, labelVars>>

NoRow == [there |-> FALSE, verdict |-> "none", old |-> FALSE, disabled |-> FALSE]
Idle == [at |-> "idle", id |-> 0, given |-> FALSE]
Resting == [at |-> "rest", ids |-> {}]
NoKeeper == [at |-> "idle", name |-> Nothing, agent |-> Nothing]
NoRun == [agent |-> Nothing, at |-> "none", rows |-> {}, env |-> {}]

Init ==
    /\ row = [k \in KeyIds |-> NoRow]
    /\ secret = {}
    /\ add = [r \in Adders |-> Idle]
    /\ check = Resting
    /\ pool = "absent" /\ synced = "rest"
    /\ refused = {}
    /\ label = [l \in Labels |-> Nothing]
    /\ labelled = [l \in Labels |-> Nothing]
    /\ keeper = [r \in Keepers |-> NoKeeper]
    /\ run = NoRun

-----------------------------------------------------------------------------
(* add-free: the id, the value, the row, the probe. *)

Taken == {k \in KeyIds : row[k].there}

\* next_free_key_id, of the rows that are there.
NextFree == CHOOSE k \in KeyIds \cup {Cardinality(KeyIds) + 1} :
                /\ k \notin Taken /\ k > Cardinality(Taken)
                /\ \A j \in KeyIds \ Taken : j > Cardinality(Taken) => j >= k

\* An id that is given is used as it is, to rotate the key.
AddFree(r) ==
    /\ add[r].at = "idle"
    /\ \E k \in KeyIds, given \in BOOLEAN :
         /\ given \/ k = NextFree
         /\ add' = [add EXCEPT ![r] = [at |-> "secret", id |-> k, given |-> given]]
    /\ UNCHANGED <<row, secret, check, pool, synced, refused, labelVars>>

\* A keychain that fails ends the request.
SetSecretAnyway(r) ==   \* mutant: the failure is not looked at
    /\ add[r].at = "secret" /\ add' = [add EXCEPT ![r].at = "row"]
    /\ secret' = secret \cup {add[r].id} \/ UNCHANGED secret
    /\ UNCHANGED <<row, check, pool, synced, refused, labelVars>>

SetSecret(r) ==
    /\ add[r].at = "secret"
    /\ \/ /\ secret' = secret \cup {add[r].id}
          /\ add' = [add EXCEPT ![r].at = "row"]
       \/ add' = [add EXCEPT ![r] = Idle] /\ UNCHANGED secret
    /\ UNCHANGED <<row, check, pool, synced, refused, labelVars>>

\* The upsert changes nothing of a row that is there.
AddRow(r) ==
    /\ add[r].at = "row"
    /\ row' = [row EXCEPT ![add[r].id].there = TRUE]
    /\ add' = [add EXCEPT ![r] = IF HasProbe THEN [add[r] EXCEPT !.at = "probe"] ELSE Idle]
    /\ UNCHANGED <<secret, check, pool, synced, refused, labelVars>>

\* mark_validated: what the provider says of the value of this request, or no
\* answer, which counts as a no.
Probe(r) ==
    /\ add[r].at = "probe"
    /\ \E ok \in BOOLEAN :
         /\ row' = [row EXCEPT ![add[r].id] =
               [there |-> row[add[r].id].there, verdict |-> IF ok THEN "ok" ELSE "refused",
                old |-> FALSE, disabled |-> row[add[r].id].disabled]]
         /\ refused' = IF ok THEN refused ELSE refused \cup {add[r].id}
    /\ add' = [add EXCEPT ![r] = Idle]
    /\ UNCHANGED <<secret, check, pool, synced, labelVars>>

\* The daemon ends: requests and passes are gone.
Crash ==
    /\ add' = [r \in Adders |-> Idle] /\ check' = Resting /\ synced' = "rest"
    /\ (\E r \in Adders : add[r] # Idle) \/ check # Resting \/ synced # "rest"
    /\ UNCHANGED <<row, secret, pool, refused, labelVars>>

-----------------------------------------------------------------------------
(* stale_pool_key_disable, a step of the self-heal passes; and sync-pool. *)

\* Hours pass since a probe: the grace period of its verdict is over.
Ages(k) ==
    /\ row[k].verdict # "none" /\ ~row[k].old
    /\ row' = [row EXCEPT ![k].old = TRUE]
    /\ UNCHANGED <<secret, add, check, pool, synced, refused, labelVars>>

\* A key that was never validated is new, not failing.
Failing(k) == ~row[k].disabled /\ row[k].verdict = "refused" /\ row[k].old

ListStale ==
    /\ check = Resting
    /\ check' = [at |-> "disable", ids |-> {k \in Taken : Failing(k)}]
    /\ check'.ids # {}
    /\ UNCHANGED <<row, secret, add, pool, synced, refused, labelVars>>

DisableStale ==
    /\ check.at = "disable" /\ check' = Resting
    /\ row' = [k \in KeyIds |-> IF k \in check.ids THEN [row[k] EXCEPT !.disabled = TRUE]
                                                   ELSE row[k]]
    /\ UNCHANGED <<secret, add, pool, synced, refused, labelVars>>

\* reconcile_pool_state keeps an entry that is there; a new one is on if some key
\* of the platform is valid.
SyncPool ==
    /\ synced = "rest"
    /\ synced' = IF pool # "absent" THEN pool
                 ELSE IF \E k \in Taken : row[k].verdict = "ok" /\ ~row[k].disabled
                 THEN "on" ELSE "off"
    /\ UNCHANGED <<row, secret, add, check, pool, refused, labelVars>>

SavePool ==
    /\ synced # "rest" /\ synced' = "rest" /\ pool' = synced
    /\ UNCHANGED <<row, secret, add, check, refused, labelVars>>

\* candidates_from_keys: verdicts do not matter.
Candidates == {k \in Taken : ~row[k].disabled}

-----------------------------------------------------------------------------
(* Labeled keys. *)

At(r, at) == keeper' = [keeper EXCEPT ![r].at = at]
Rest(r) == keeper' = [keeper EXCEPT ![r] = NoKeeper]

\* ProviderAddKey: the value first, then the row.
AddKey(r) ==
    /\ keeper[r].at = "idle"
    /\ \E l \in Labels, a \in Runners :
         /\ keeper' = [keeper EXCEPT ![r] = [at |-> "row", name |-> l, agent |-> a]]
         /\ labelled' = [labelled EXCEPT ![l] = a]
    /\ UNCHANGED <<poolVars, label, run>>

AddKeyRow(r) ==
    /\ keeper[r].at = "row" /\ Rest(r)
    /\ label' = [label EXCEPT ![keeper[r].name] = keeper[r].agent]
    /\ UNCHANGED <<poolVars, labelled, run>>

\* ProviderRemoveKey: the row must be there; the value goes first, then the row.
RemoveKey(r) ==
    /\ keeper[r].at = "idle"
    /\ \E l \in Labels :
         /\ label[l] # Nothing
         /\ labelled' = [labelled EXCEPT ![l] = Nothing]
         /\ keeper' = [keeper EXCEPT ![r] = [@ EXCEPT !.at = "remove", !.name = l]]
    /\ UNCHANGED <<poolVars, label, run>>

RemoveKeyRow(r) ==
    /\ keeper[r].at = "remove" /\ Rest(r)
    /\ label' = [label EXCEPT ![keeper[r].name] = Nothing]
    /\ UNCHANGED <<poolVars, labelled, run>>

\* resolve_env_for_agent: the rows of the agent, then the value of each.
Resolve ==
    /\ run = NoRun
    /\ \E a \in Runners :
         run' = [NoRun EXCEPT !.agent = a, !.at = "rows", !.rows = {l \in Labels : label[l] = a}]
    /\ UNCHANGED <<poolVars, label, labelled, keeper>>

ReadValues ==
    /\ run.at = "rows"
    /\ run' = [run EXCEPT !.at = "started", !.rows = {},
                          !.env = {labelled[l] : l \in run.rows} \ {Nothing}]
    /\ UNCHANGED <<poolVars, label, labelled, keeper>>

RunEnds ==
    /\ run.at = "started" /\ run' = NoRun
    /\ UNCHANGED <<poolVars, label, labelled, keeper>>

KeepersCrash ==
    /\ \E r \in Keepers : keeper[r].at # "idle"
    /\ keeper' = [r \in Keepers |-> NoKeeper] /\ run' = NoRun
    /\ UNCHANGED <<poolVars, label, labelled>>

PoolNext == \/ \E r \in Adders : AddFree(r) \/ SetSecret(r) \/ AddRow(r) \/ Probe(r)
            \/ \E k \in KeyIds : Ages(k)
            \/ ListStale \/ DisableStale \/ SyncPool \/ SavePool \/ Crash
LabelNext == \/ \E r \in Keepers : AddKey(r) \/ AddKeyRow(r) \/ RemoveKey(r) \/ RemoveKeyRow(r)
             \/ Resolve \/ ReadValues \/ RunEnds \/ KeepersCrash
Next == PoolNext \/ LabelNext

Spec == Init /\ [][Next]_vars

-----------------------------------------------------------------------------
(* Properties. *)

\* Every candidate of the pool has a value in the keychain, whatever requests
\* overlap and wherever the daemon ends: the value is stored before the row.
CandidateHasSecret == \A k \in Candidates : k \in secret

\* agent.rs:131 "never validated at all yet -- not failing, just new": a key is
\* disabled only if a probe of that id has said no.
OnlyRefusedDisabled == \A k \in KeyIds : row[k].disabled => k \in refused

\* NOT TRUE.  handlers.rs:1293-1295: without an id, add-free "auto-picks a fresh, never-before-used
\* id".  Two requests that list the rows before either adds one pick the same.
FreshId == \A r \in Adders : add[r].at = "secret" /\ ~add[r].given => add[r].id \notin Taken

\* NOT TRUE.  agent.rs:118-121: a disabled key is flagged "for re-keying".  Re-keying it, with a
\* value the provider accepts, leaves it disabled: the pool never uses it.
RekeyedIsUsed == \A k \in KeyIds : row[k].verdict = "ok" => ~row[k].disabled

\* NOT TRUE.  provider_keys.rs:88-90: a labeled key with an agent is for that agent.  A key of
\* the same label for another agent has its value stored before its row.
KeyOfItsAgent == run.at = "started" => run.env \subseteq {run.agent}
=============================================================================
