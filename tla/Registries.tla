------------------------------- MODULE Registries -------------------------------
(***************************************************************************)
(* A registry file under ~/.config/single and everybody who writes it: the    *)
(* requests on MCP servers, language servers, tools, providers and plugins    *)
(* (mcp.rs, lsp.rs, tools.rs, providers.rs, plugins.rs and their arms in       *)
(* handlers.rs), the preset sync of context.rs, single backup (backup.rs)     *)
(* and the check of the configuration by self_heal/infra.rs.                  *)
(*                                                                         *)
(* All of them load the whole file, change the copy and write the whole file  *)
(* back with fs::write, which truncates first; there is no lock.  Writers     *)
(* are threads of the daemon and of CLI processes.  An entry is its name and  *)
(* whether it is on; the rest of an entry is left out.                        *)
(***************************************************************************)
EXTENDS FiniteSets

CONSTANTS
    Sorts,       \* registries: of "mcp", "lsp", "tools", "providers", "plugins"
    Editors,     \* threads that serve requests on the registry
    Entries,     \* names of entries
    Presets,     \* those that are built-in presets
    Defaults     \* those that a missing file stands for, on

VARIABLES
    sort,        \* what the registry is of
    file,        \* what the file is, and its entries
    backup,      \* the newest .bak of it: as the file, or absent
    edit,        \* the requests in progress
    heal,        \* the pass that checks the file
    chosen       \* entries somebody has asked to be on

vars == <<sort, file, backup, edit, heal, chosen>>

Nowhere == [n \in Entries |-> "none"]
AsFile(is, has) == [is |-> is, has |-> has]
NoFile == AsFile("absent", Nowhere)
Idle == [op |-> "none", name |-> "none", on |-> FALSE, at |-> "idle", copy |-> NoFile]

Init ==
    /\ sort \in Sorts
    /\ file = NoFile /\ backup = NoFile
    /\ edit = [r \in Editors |-> Idle]
    /\ heal = "rest"
    /\ chosen = IF sort \in {"providers", "plugins"} THEN {} ELSE Defaults

-----------------------------------------------------------------------------
(* What a request makes of the copy it has loaded. *)

\* A missing file stands for the defaults; an empty one parses and has nothing.
Loaded == IF file.is = "absent" /\ sort \notin {"providers", "plugins"}
          THEN [n \in Entries |-> IF n \in Defaults THEN "on" ELSE "none"]
          ELSE IF file.is \in {"absent", "empty"} THEN Nowhere ELSE file.has

Word(on) == IF on THEN "on" ELSE "off"

\* Presets of language servers come on when asked for, those of MCP servers off;
\* a sync adds both off.  Providers and plugins have no switch: they count as off.
PresetWord == Word(sort = "lsp")
SyncWordOfSpec(n) == PresetWord   \* mutant: as the preset's own spec says
SyncWord(n) == "off"

Synced(copy) ==
    [n \in Entries |-> IF copy[n] = "none" /\ n \in Presets THEN SyncWord(n) ELSE copy[n]]

Changed(e, copy) ==
    CASE e.op = "add" -> [copy EXCEPT ![e.name] = Word(e.on)]
      [] e.op = "addPreset" -> [copy EXCEPT ![e.name] = PresetWord]
      [] e.op = "remove" -> [copy EXCEPT ![e.name] = "none"]
      [] e.op = "set" -> [copy EXCEPT ![e.name] = Word(e.on)]
      [] e.op = "sync" -> Synced(copy)

\* An entry to remove or to switch must be there; a sync saves only what is new.
Writes(e, copy) ==
    CASE e.op \in {"remove", "set"} -> copy[e.name] # "none"
      [] e.op = "sync" -> Synced(copy) # copy
      [] OTHER -> TRUE

\* Tools cannot be removed and have no presets; only servers and tools are switched.
Has(op) == CASE op = "remove" -> sort # "tools"
             [] op \in {"sync", "addPreset"} -> sort # "tools"
             [] op = "set" -> sort \in {"mcp", "lsp", "tools"}
             [] OTHER -> TRUE

-----------------------------------------------------------------------------
(* Requests. *)

End(r) == edit' = [edit EXCEPT ![r] = Idle]

Begin(r) ==
    /\ edit[r].at = "idle"
    /\ \E op \in {"add", "addPreset", "remove", "set", "sync"}, n \in Entries, on \in BOOLEAN :
         /\ Has(op)
         /\ op = "addPreset" => n \in Presets
         /\ op \in {"add", "set"} \/ ~on
         /\ op = "add" /\ on => sort \in {"mcp", "lsp", "tools"}
         /\ edit' = [edit EXCEPT ![r] = [op |-> op, name |-> n, on |-> on, at |-> "load",
                                         copy |-> NoFile]]
         /\ chosen' = IF on \/ (op = "addPreset" /\ PresetWord = "on")
                      THEN chosen \cup {n} ELSE chosen
    /\ UNCHANGED <<sort, file, backup, heal>>

\* A file that does not parse ends the request with an error.
Load(r) ==
    LET e == edit[r] IN
    /\ e.at = "load"
    /\ IF file.is = "torn" \/ ~Writes(e, Loaded) THEN End(r)
       ELSE edit' = [edit EXCEPT ![r] = [Idle EXCEPT !.op = IF e.op = "sync" THEN "sync" ELSE "none",
                       !.at = "truncate", !.copy = AsFile("whole", Changed(e, Loaded))]]
    /\ UNCHANGED <<sort, file, backup, heal, chosen>>

Truncate(r) ==
    /\ edit[r].at = "truncate"
    /\ file' = AsFile("empty", Nowhere)
    /\ edit' = [edit EXCEPT ![r].at = "fill"]
    /\ UNCHANGED <<sort, backup, heal, chosen>>

\* The text goes over what is there: if another writer has filled the file since,
\* the end of a longer text stays behind mine.
Fill(r) ==
    /\ edit[r].at = "fill" /\ End(r)
    /\ \/ file' = edit[r].copy
       \/ file.is # "empty" /\ file' = AsFile("torn", Nowhere)
    /\ UNCHANGED <<sort, backup, heal, chosen>>

\* The file was moved aside under the writer: what it writes goes there.
FillAside(r) ==
    /\ edit[r].at = "fillAside" /\ End(r)
    /\ UNCHANGED <<sort, file, backup, heal, chosen>>

\* The process ends, or the disk is full: between two steps, or with part of the
\* text written.
Dies(r) ==
    /\ edit[r].at # "idle" /\ End(r)
    /\ \/ UNCHANGED file
       \/ edit[r].at = "fill" /\ file' = AsFile("torn", Nowhere)
    /\ UNCHANGED <<sort, backup, heal, chosen>>

-----------------------------------------------------------------------------
(* single backup import: in the process of the CLI or the TUI, not in the daemon. *)

\* restore_one_file: a copy of what is there, then the write.  The archive was made
\* at any time before, from a file whose entries were on by choice, or torn.
Import(r) ==
    /\ edit[r].at = "idle"
    /\ backup' = IF file.is = "absent" THEN backup ELSE file
    /\ \E has \in [Entries -> {"none", "off", "on"}], is \in {"whole", "torn"} :
         /\ IF is = "torn" THEN has = Nowhere ELSE \A n \in Entries : has[n] = "on" => n \in chosen
         /\ edit' = [edit EXCEPT ![r] = [Idle EXCEPT !.at = "truncate",
                                                     !.copy = AsFile(is, has)]]
    /\ UNCHANGED <<sort, file, heal, chosen>>

-----------------------------------------------------------------------------
(* corrupt_config: the file is parsed, then restored or moved aside. *)

Inspect ==
    /\ heal = "rest" /\ file.is = "torn"
    /\ heal' = "broken"
    /\ UNCHANGED <<sort, file, backup, edit, chosen>>

Repair ==
    /\ heal = "broken" /\ heal' = "rest"
    /\ file' = backup
    /\ edit' = [r \in Editors |-> IF backup = NoFile /\ edit[r].at = "fill"
                                  THEN [edit[r] EXCEPT !.at = "fillAside"] ELSE edit[r]]
    /\ UNCHANGED <<sort, backup, chosen>>

Next == \/ \E r \in Editors : \/ Begin(r) \/ Load(r) \/ Truncate(r) \/ Fill(r)
                              \/ FillAside(r) \/ Dies(r) \/ Import(r)
        \/ Inspect \/ Repair

Spec == Init /\ [][Next]_vars

-----------------------------------------------------------------------------
(* Properties. *)

\* lsp.rs:284-287: a sync "must never turn 100+ servers on at once".  Whatever lost
\* updates, torn files, restores and syncs go by, nothing in the file is on that
\* nobody ever asked to be on and no default has on.
EnabledByChoice == \A n \in Entries : file.has[n] = "on" => n \in chosen

\* NOT TRUE.  mcp.rs:327-329: a sync leaves "existing entries, including ones the user has since
\* enabled or edited" as they are.  It writes back what it loaded before the edit.
SyncKeepsEntries ==
    \A r \in Editors : edit[r].op = "sync" /\ edit[r].at = "truncate" =>
        \A n \in Entries : file.has[n] # "none" => edit[r].copy.has[n] = file.has[n]

\* NOT TRUE.  infra.rs:38-41: "a broken one" is restored or moved aside, "so nothing is silently
\* lost".  A save between the parse and the rename has made it whole.
RepairsBroken == heal = "broken" => file.is # "whole"
=============================================================================
