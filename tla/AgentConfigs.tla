------------------------------ MODULE AgentConfigs ------------------------------
(***************************************************************************)
(* A configuration file of an agent's CLI and the requests that merge          *)
(* SingleCLI's entries into it: install and uninstall of the integrations      *)
(* (integrations.rs over the adapters of adapters.rs, generic_adapter.rs and   *)
(* formats/), the sync of a provider's key (provider_sync.rs) and the hook of  *)
(* Claude's settings (handlers.rs).                                           *)
(*                                                                         *)
(* Every edit reads the whole file, changes the copy, makes a backup named     *)
(* after the second and writes the whole file with fs::write; there is no     *)
(* lock.  An edit that cannot read what it finds ends its request.  Which      *)
(* file a behaviour is about is chosen at the start.  A dry run reads and      *)
(* ends, and is left out; the user's own entry is under a name of its own.     *)
(***************************************************************************)
EXTENDS Integers, Sequences

CONSTANTS
    Kinds,       \* files: of the names of Format
    Requests,    \* threads that serve a request
    Servers,     \* names the registry of MCP servers may hold
    MaxSeconds   \* bound on the clock

VARIABLES
    kindOf,      \* which file it is
    mine,        \* whether the user has one at the start
    config,      \* what it is, and its entries
    baks,        \* its backups, by the second they were made in
    now,         \* the clock, in seconds
    hooked,      \* the registry of hooks: whether Claude's is on
    job          \* the requests in progress

vars == <<kindOf, mine, config, baks, now, hooked, job>>

Gateway == "single-mcp"
Delegate == "singlecli-mcp"
\* An entry of the user's own, and what the other requests write.
Own == "own"
Names == Servers \cup {Gateway, Delegate, Own, "lsp", "provider", "hook"}
Bare == [n \in Names |-> "none"]
AsIs(is, has) == [is |-> is, has |-> has]
NoConfig == AsIs("absent", Bare)

-----------------------------------------------------------------------------
(* What apply and remove of each format do: with a server that is off, with a *)
(* text that was cut short, with a value of another shape under their key.     *)
(* A JSON text that was cut is refused; what is left of a YAML text is read,   *)
(* unless nothing is; of a TOML text even then.                               *)

Merge(off, text, alien) == [off |-> off, text |-> text, alien |-> alien]

Claude == Merge("kept", "json", "refused")
Codex == Merge("kept", "toml", "refused")
Copilot == Merge("dropped", "json", "refused")
Cursor == Merge("dropped", "json", "refused")
Goose == Merge("dropped", "yaml", "refused")
Cline == Merge("dropped", "json", "refused")
Continue == Merge("dropped", "json", "replaced")
Roo == Merge("dropped", "json", "refused")
Mimo == Merge("dropped", "json", "refused")
Atomcode == Merge("dropped", "toml", "refused")
Dsh == Merge("dropped", "yaml", "replaced")
OpenCode == Merge("written", "json", "refused")
JsonFlat == Merge("kept", "json", "refused")
TomlFlat == Merge("kept", "toml", "refused")
\* settings.json of Claude, auth.json of Codex: no servers.
Settings == Merge("kept", "json", "refused")
Auth == Merge("kept", "json", "refused")

Format == [claude |-> Claude, codex |-> Codex, copilot |-> Copilot, cursor |-> Cursor,
           goose |-> Goose, cline |-> Cline, continue |-> Continue, roo |-> Roo,
           mimo |-> Mimo, atomcode |-> Atomcode, dsh |-> Dsh, opencode |-> OpenCode,
           json_flat |-> JsonFlat, toml_flat |-> TomlFlat,
           settings |-> Settings, auth |-> Auth]

F == Format[kindOf]

\* serde_json, serde_yaml and toml on what is there.
ReadsEmpty == config.is \notin {"part"} \/ F.text # "json"   \* mutant: an empty text is an empty object
Reads == \/ config.is \in {"absent", "whole", "alien"}
         \/ config.is = "part" /\ F.text # "json"
         \/ config.is = "empty" /\ F.text = "toml"

-----------------------------------------------------------------------------
(* The edits of a request. *)

\* configure_mcp, configure_lsp, sync and apply_hook make a file that is missing.
Applies(on, off) == [applies |-> TRUE, on |-> on, off |-> off, cut |-> {}]
Removes(cut) == [applies |-> FALSE, on |-> {}, off |-> {}, cut |-> cut]

\* install_all: the names of the other mode go, then come those of this one.  The
\* registry of servers, some on and some off, is what it is when the request starts.
InstallEdits(gateway, on, off) ==
    IF gateway THEN <<Removes(on \cup off), Applies({Gateway, Delegate}, {})>>
    ELSE <<Removes({Gateway}), Applies(on \cup {Delegate}, off)>>

\* Only OpenCode has language servers; one that is off is removed.
LspEdits(on) == IF kindOf # "opencode" THEN <<>>
                ELSE <<IF on THEN Applies({"lsp"}, {}) ELSE [Removes({"lsp"}) EXCEPT !.applies = TRUE]>>

UninstallEdits(servers) ==
    <<Removes(servers \cup {Gateway, Delegate})>>
        \o (IF kindOf = "opencode" THEN <<Removes({"lsp"})>> ELSE <<>>)

HasServers == kindOf \notin {"settings", "auth"}

InstallTasks(servers) ==
    {InstallEdits(set.gateway, set.on, servers \ set.on) \o LspEdits(set.lsp) :
        set \in [gateway : BOOLEAN, on : SUBSET servers, lsp : BOOLEAN]}

ServerTasks ==
    UNION {InstallTasks(servers) \cup {UninstallEdits(servers)} : servers \in SUBSET Servers}

\* provider_sync::sync: the files it knows of.
Tasks == (IF HasServers THEN ServerTasks ELSE {})
         \cup (IF kindOf \in {"opencode", "settings", "auth"} THEN {<<Applies({"provider"}, {})>>}
               ELSE {})

\* What an edit makes of the entries it has read.
Off(word) == CASE F.off = "kept" -> word [] F.off = "dropped" -> "none" [] OTHER -> "off"
Edited(e, has) ==
    [n \in Names |-> CASE n \in e.on -> "on" [] n \in e.cut -> "none"
                       [] n \in e.off -> Off(has[n]) [] OTHER -> has[n]]

\* A value of another shape stays under remove; apply refuses or replaces it.
Rewritten(e) ==
    IF config.is # "alien" THEN AsIs("whole", Edited(e, config.has))
    ELSE IF e.applies THEN AsIs("whole", Edited(e, Bare)) ELSE config

Refuses(e) == \/ ~Reads
              \/ config.is = "alien" /\ e.applies /\ F.alien = "refused"

-----------------------------------------------------------------------------
Idle == [todo |-> <<>>, at |-> "idle", copy |-> NoConfig]

Init ==
    /\ kindOf \in Kinds /\ mine \in BOOLEAN
    /\ config \in IF mine THEN {AsIs(is, [Bare EXCEPT ![Own] = "own"]) : is \in {"whole", "alien"}}
                  ELSE {NoConfig}
    /\ baks = [s \in 1..MaxSeconds |-> NoConfig] /\ now = 1
    /\ hooked = FALSE
    /\ job = [r \in Requests |-> Idle]

Tick ==
    /\ now < MaxSeconds /\ now' = now + 1
    /\ UNCHANGED <<kindOf, mine, config, baks, hooked, job>>

Begin(r) ==
    /\ job[r].at = "idle"
    /\ \E todo \in Tasks : job' = [job EXCEPT ![r] = [Idle EXCEPT !.todo = todo, !.at = "read"]]
    /\ UNCHANGED <<kindOf, mine, config, baks, now, hooked>>

\* HooksEnable, HooksDisable: the registry first.
BeginHook(r) ==
    /\ job[r].at = "idle" /\ kindOf = "settings"
    /\ hooked' \in BOOLEAN
    /\ job' = [job EXCEPT ![r] = [Idle EXCEPT !.at = "read",
                  !.todo = <<IF hooked' THEN Applies({"hook"}, {}) ELSE Removes({"hook"})>>]]
    /\ UNCHANGED <<kindOf, mine, config, baks, now>>

\* The edit at the head is over.
Advance(r, rest) ==
    job' = [job EXCEPT ![r] = IF rest = <<>> THEN Idle ELSE [Idle EXCEPT !.todo = rest, !.at = "read"]]

Read(r) ==
    LET e == Head(job[r].todo) IN
    /\ job[r].at = "read"
    /\ CASE Refuses(e) -> Advance(r, <<>>)
         [] ~Refuses(e) /\ config.is = "absent" /\ ~e.applies -> Advance(r, Tail(job[r].todo))
         [] OTHER -> job' = [job EXCEPT ![r] = [todo |-> job[r].todo, at |-> "backup",
                                             copy |-> Rewritten(e)]]
    /\ UNCHANGED <<kindOf, mine, config, baks, now, hooked>>

\* backup_before_write, over a backup of the same second.
Backup(r) ==
    /\ job[r].at = "backup"
    /\ baks' = IF config.is = "absent" THEN baks ELSE [baks EXCEPT ![now] = config]
    /\ job' = [job EXCEPT ![r].at = "truncate"]
    /\ UNCHANGED <<kindOf, mine, config, now, hooked>>

Truncate(r) ==
    /\ job[r].at = "truncate"
    /\ config' = AsIs("empty", Bare)
    /\ job' = [job EXCEPT ![r].at = "fill"]
    /\ UNCHANGED <<kindOf, mine, baks, now, hooked>>

\* Where another writer has filled the file since, the end of a longer text stays.
Fill(r) ==
    /\ job[r].at = "fill" /\ Advance(r, Tail(job[r].todo))
    /\ \/ config' = job[r].copy
       \/ config.is # "empty" /\ config' = AsIs("part", Bare)
    /\ UNCHANGED <<kindOf, mine, baks, now, hooked>>

\* The daemon ends, the disk is full, or another agent's file has ended the request.
\* What a text still holds that was cut is left out.
Dies(r) ==
    /\ job[r].at # "idle" /\ Advance(r, <<>>)
    /\ \/ UNCHANGED config
       \/ job[r].at = "fill" /\ config' = AsIs("part", Bare)
    /\ UNCHANGED <<kindOf, mine, baks, now, hooked>>

Next == \/ Tick
        \/ \E r \in Requests : \/ Begin(r) \/ BeginHook(r) \/ Read(r) \/ Backup(r)
                               \/ Truncate(r) \/ Fill(r) \/ Dies(r)

Spec == Init /\ [][Next]_vars

-----------------------------------------------------------------------------
(* Properties. *)

\* formats/claude.rs:51-52 and the others: an edit leaves "anything else untouched".
\* Whatever requests overlap and die half way, a file of these formats that can be
\* read has the user's own entry, where the user had one.
OwnKept == mine /\ config.is \in {"whole", "alien"} => config.has[Own] = "own"

\* NOT TRUE.  backup.rs:1-2: configuration is never overwritten "without backup".  Two edits in
\* one second share a backup, and the second may copy what the first has truncated.
OwnRecoverable ==
    mine => \/ config.has[Own] = "own"
            \/ \E s \in 1..MaxSeconds : baks[s].has[Own] = "own"
            \/ \E r \in Requests : job[r].copy.has[Own] = "own"

\* NOT TRUE.  integrations.rs:20-27: "each sync a clean switch, not an accumulation".  A server
\* that has left the registry is no stale name.
CleanSwitch ==
    (\A r \in Requests : job[r].at = "idle") /\ config.has[Gateway] = "on"
        => \A s \in Servers : config.has[s] # "on"

\* NOT TRUE.  handlers.rs:968-987: a hook that is enabled is in the settings.  A key synced in
\* between writes back what it had read before.
HookInForce ==
    hooked /\ (\A r \in Requests : job[r].at = "idle") => config.has["hook"] = "on"
=============================================================================
