-------------------------------- MODULE Redact --------------------------------
(***************************************************************************)
(* Secrets taken out of prompts: crates/single-core/src/redact.rs, as the    *)
(* TaskRun and GoalSubmit handlers use it (scan), the pool when it sends a   *)
(* prompt (resolve) and SecretPromoteAlias (take).  The daemon serves the    *)
(* requests in threads; its alias counter starts again with it, the table    *)
(* and the keychain outlive it.  A command that runs in-process, beside the  *)
(* daemon, is a process of its own with a counter of its own, on one table.   *)
(*                                                                          *)
(* A prompt is the one secret it holds.  A secret is a value, its ciphertext *)
(* the pair of the value and the passphrase it was encrypted with.           *)
(***************************************************************************)
EXTENDS Integers, FiniteSets

CONSTANTS
    Threads,        \* requests that may be scanned at the same time
    Commands,       \* of these, the ones that are commands beside the daemon
    Scopes,         \* session ids: a coordinator session, an account, or none
    Secrets,
    MaxAlias,       \* bound: aliases of one process
    MaxLives        \* bound: starts of the daemon

\* No secret: the row is missing, expired, or does not decrypt.
Unresolvable == "none"

VARIABLES
    key,        \* the keychain entry single-redact-master-key, 0 for none
    keys,       \* how many passphrases have been generated
    counter,    \* ALIAS_COUNTER
    alias,      \* table redact_aliases, by (session id, n)
    scan,       \* each scan_and_replace under way
    prompt,     \* history: the prompts redacted by the daemon that are still to be sent
    beside,     \* history: the names that a command was the last to give
    life        \* history: how often the daemon has started

redactVars == <<key, keys, counter, alias, scan, prompt, beside, life>>

AliasNames == Scopes \X (1..MaxAlias)
NoAlias == [secret |-> Unresolvable, key |-> 0]
NoScan == [pc |-> "idle", scope |-> CHOOSE s \in Scopes : TRUE, secret |-> Unresolvable,
           key |-> 0, n |-> 0]

Init ==
    /\ key = 0 /\ keys = 0 /\ counter = 1
    /\ alias = [a \in AliasNames |-> NoAlias]
    /\ scan = [t \in Threads |-> NoScan]
    /\ prompt = {} /\ beside = {}
    /\ life = 1

Goes(t, to) == scan' = [scan EXCEPT ![t] = to]

\* With the passphrase known a request draws its number.  A command is one scan long, and
\* nobody else sees the counter that it begins with.
Keyed(t) == IF t \in Commands THEN "insert" ELSE "encrypt"
FirstNumber(t) == IF t \in Commands THEN 1 ELSE 0

\* master_passphrase looks the key up ...
StartScan(t) ==
    /\ scan[t].pc = "idle"
    /\ \E s \in Scopes, v \in Secrets :
           Goes(t, [pc |-> IF key = 0 THEN "generate" ELSE Keyed(t),
                    scope |-> s, secret |-> v, key |-> key, n |-> FirstNumber(t)])
    /\ UNCHANGED <<key, keys, counter, alias, prompt, beside, life>>

\* ... and makes one when there is none, whoever else does so meanwhile.
Generate(t) ==
    /\ scan[t].pc = "generate"
    /\ keys' = keys + 1
    /\ key' = keys + 1
    /\ Goes(t, [scan[t] EXCEPT !.pc = Keyed(t), !.key = keys + 1])
    /\ UNCHANGED <<counter, alias, prompt, beside, life>>

SameNumber == counter
NextNumber == counter + 1

\* The alias is numbered and the secret encrypted, which takes its time.
Encrypt(t) ==
    /\ scan[t].pc = "encrypt" /\ counter <= MaxAlias
    /\ counter' = NextNumber
    /\ Goes(t, [scan[t] EXCEPT !.pc = "insert", !.n = counter])
    /\ UNCHANGED <<key, keys, alias, prompt, beside, life>>

\* INSERT OR REPLACE; the request goes on with the redacted prompt.
Insert(t) ==
    /\ scan[t].pc = "insert"
    /\ LET a == <<scan[t].scope, scan[t].n>> IN
           /\ alias' = [alias EXCEPT ![a] = [secret |-> scan[t].secret,
                                             key |-> scan[t].key]]
           /\ prompt' = IF t \in Commands THEN prompt
                        ELSE prompt \cup {[name |-> a, secret |-> scan[t].secret, life |-> life]}
           /\ beside' = IF t \in Commands THEN beside \cup {a} ELSE beside \ {a}
    /\ Goes(t, IF t \in Commands THEN [NoScan EXCEPT !.pc = "ended"] ELSE NoScan)
    /\ UNCHANGED <<key, keys, counter, life>>

\* What resolve and take_alias_value read for a token.
Read(a) == IF alias[a].secret # Unresolvable /\ alias[a].key = key
           THEN alias[a].secret ELSE Unresolvable

\* The pool sends a prompt, or fails on it; the alias stays for a retry.
Send(p) ==
    /\ prompt' = prompt \ {p}
    /\ UNCHANGED <<key, keys, counter, alias, scan, beside, life>>

\* single secret promote-alias
Promote(a) ==
    /\ Read(a) # Unresolvable
    /\ alias' = [alias EXCEPT ![a] = NoAlias]
    /\ UNCHANGED <<key, keys, counter, scan, prompt, beside, life>>

\* sweep_expired
Expire(a) ==
    /\ alias[a] # NoAlias
    /\ alias' = [alias EXCEPT ![a] = NoAlias]
    /\ UNCHANGED <<key, keys, counter, scan, prompt, beside, life>>

\* The daemon ends and another one starts; a command goes on.
Restart ==
    /\ life < MaxLives
    /\ life' = life + 1
    /\ counter' = 1
    /\ scan' = [t \in Threads |-> IF t \in Commands THEN scan[t] ELSE NoScan]
    /\ UNCHANGED <<key, keys, alias, prompt, beside>>

Next == \/ \E t \in Threads : StartScan(t) \/ Generate(t) \/ Encrypt(t) \/ Insert(t)
        \/ \E p \in prompt : Send(p)
        \/ \E a \in AliasNames : Promote(a) \/ Expire(a)
        \/ Restart

Spec == Init /\ [][Next]_redactVars

-----------------------------------------------------------------------------
(* Properties. *)

TypeOK ==
    /\ {key, keys, counter, life} \subseteq Nat
    /\ key <= keys /\ counter \in 1..(MaxAlias + 1)
    /\ alias \in [AliasNames -> [secret : Secrets \cup {Unresolvable}, key : 0..keys]]
    /\ scan \in [Threads -> [pc : {"idle", "generate", "encrypt", "insert", "ended"},
                             scope : Scopes, secret : Secrets \cup {Unresolvable},
                             key : 0..keys, n : 0..MaxAlias]]
    /\ prompt \subseteq [name : AliasNames, secret : Secrets, life : 1..life]
    /\ beside \subseteq AliasNames

\* A prompt that the daemon has redacted since it started is sent with its own secret or not
\* at all: no other request, however they interleave, gives its alias another value.  A
\* command beside the daemon may: it counts from 1 in the same table (redact.rs:110, 148).
OwnSecret ==
    \A p \in prompt : p.life = life =>
        Read(p.name) \in {p.secret, Unresolvable} \/ p.name \in beside

\* NOT TRUE.  redact.rs: "a lookup still requires the exact `(session_id, alias)` row this
\* call created": so an alias never stands for the secret of another call,
\* also after a restart, and beside a command.
AliasKept == \A p \in prompt : Read(p.name) \in {p.secret, Unresolvable}
=============================================================================
