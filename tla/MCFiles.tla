--------------------------------- MODULE MCFiles --------------------------------
(***************************************************************************)
(* The files that requests, agents and the self-heal passes share, in one     *)
(* run: the homes and logins of the agents, the database with its backups     *)
(* and the switches of self-heal, a registry file, the keys of the pool and    *)
(* the labeled keys.  They share nothing that is modelled: which of them a    *)
(* behaviour is about is chosen at the start, the others stay as they are.    *)
(***************************************************************************)
EXTENDS Integers, Sequences, FiniteSets, TLC

CONSTANTS
    Requests, Profiles, Logins, RealLogin, Nothing,
    Healer, Fixers, Connections, Categories, MaxStarts,
    Sorts, Editors, Entries, Presets, Defaults,
    Adders, KeyIds, HasProbe, Keepers, Labels, Runners

\* A home that is not there has no login, and a gate that nobody holds has no pass.
ASSUME FilesAssumption ==
    /\ "absent" \notin Logins \cup {RealLogin, Nothing} /\ Nothing \notin Logins \cup {RealLogin}
    /\ "nobody" \notin {Healer} \cup Fixers

\* The requests on accounts are alike.
LikeRequests == Permutations(Requests)

VARIABLES
    which,
    kind, home, keyring, profile, request, signedIn, captured,
    intact, newest, open, switches, pass, doctor, gate, installed,
    installs, orphans, starts,
    sort, file, backup, edit, heal, chosen,
    row, secret, add, check, pool, synced, refused, label, labelled, keeper, run

AccountVars == <<kind, home, keyring, profile, request, signedIn, captured>>
HealVars == <<intact, newest, open, switches, pass, doctor, gate,
              installed, installs, orphans, starts>>
RegistryVars == <<sort, file, backup, edit, heal, chosen>>
KeyVars == <<row, secret, add, check, pool, synced, refused, label, labelled, keeper, run>>

A == INSTANCE Accounts
H == INSTANCE SelfHeal
G == INSTANCE Registries
K == INSTANCE Keys

\* Where a part is not the one chosen, its choices are made for it.
Init == /\ which \in {"accounts", "heal", "registry", "pool keys", "labels"}
        /\ A!Init /\ H!Init /\ G!Init /\ K!Init
        /\ which # "accounts" => kind = "whole"
        /\ which # "heal" => ~switches.there
        /\ which # "registry" => sort = CHOOSE s \in Sorts : TRUE

Next ==
    /\ UNCHANGED which
    /\ \/ which = "accounts" /\ A!Next /\ UNCHANGED <<HealVars, RegistryVars, KeyVars>>
       \/ which = "heal" /\ H!Next /\ UNCHANGED <<AccountVars, RegistryVars, KeyVars>>
       \/ which = "registry" /\ G!Next /\ UNCHANGED <<AccountVars, HealVars, KeyVars>>
       \/ /\ \/ which = "pool keys" /\ K!PoolNext
             \/ which = "labels" /\ K!LabelNext
          /\ UNCHANGED <<AccountVars, HealVars, RegistryVars>>

Spec == Init /\ [][Next]_<<which, AccountVars, HealVars, RegistryVars, KeyVars>>

-----------------------------------------------------------------------------
(* The properties of each part, as its module states them. *)

\* An agent that runs as a named account has a token captured under that name.
RunsAsNamed == which = "accounts" => A!RunsAsNamed

\* A database that is whole is never replaced, however passes overlap.
IntactKept == which = "heal" => H!IntactKept

\* A daemon installs a missing agent once, however its passes overlap.
InstalledOnce == which = "heal" => H!InstalledOnce

\* Nothing in a registry is on that nobody asked to be on.
EnabledByChoice == which = "registry" => G!EnabledByChoice

\* Every candidate of the pool has a value in the keychain.
CandidateHasSecret == which = "pool keys" => K!CandidateHasSecret

\* A pool key is disabled only if a probe has said no.
OnlyRefusedDisabled == which = "pool keys" => K!OnlyRefusedDisabled

\* Self-heal does no harm: what is whole is kept, what is there is left alone.
HealHarmless == IntactKept /\ InstalledOnce

\* What the pool may pick from is of use, and what it may not pick was refused.
KeysSound == CandidateHasSecret /\ OnlyRefusedDisabled
=============================================================================
