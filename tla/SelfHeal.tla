-------------------------------- MODULE SelfHeal --------------------------------
(***************************************************************************)
(* The self-heal passes of the daemon: self_heal.rs, self_heal/infra.rs and   *)
(* self_heal/agent.rs, with bootstrap.rs, the two guards of server.rs and     *)
(* handlers.rs, and the switch in self_heal.toml.  The coordinator category   *)
(* is in Coordinator, the probe of cooldowns in Pool, the socket in Daemon,   *)
(* the check of the configuration files in Registries.                       *)
(*                                                                         *)
(* A pass is a thread; it loads the switches, checks the database, backs it   *)
(* up and installs what is missing, one step at a time, while connections     *)
(* write to the database.  Of the database it matters whether integrity_check  *)
(* would pass; only the newest backup is ever read.                           *)
(***************************************************************************)
EXTENDS Naturals, FiniteSets

CONSTANTS
    Healer,      \* the thread resume-and-self-heal, later the periodic passes
    Fixers,      \* requests of doctor --fix
    Connections, \* threads with a connection of their own
    Categories,  \* {"infra", "agent"}: what can be switched off
    MaxStarts

VARIABLES
    intact,      \* integrity_check would pass
    newest,      \* the newest backup: there, intact, is it young
    open,        \* connections that are open
    switches,    \* self_heal.toml: there, the categories switched off
    pass,        \* pass -> where it is, the switches it saw, may it restore
    doctor,      \* DOCTOR_RUNNING
    gate,        \* the pass that holds INSTALL_GATE
    installed,   \* the agent that routing needs is there
    installs,    \* passes of this daemon whose installer has run to success
    orphans,     \* installers that a daemon has left running when it ended
    starts       \* starts of the daemon, at most MaxStarts

vars == <<intact, newest, open, switches, pass, doctor, gate,
          installed, installs, orphans, starts>>

Passes == {Healer} \cup Fixers
NoOne == "nobody"
NoBackup == [there |-> FALSE, intact |-> TRUE, young |-> FALSE]
ByDefault == {"agent"}   \* Categories::default
AtRest == [at |-> "rest", off |-> {}, restores |-> FALSE]

Init ==
    /\ intact = TRUE
    /\ newest = NoBackup
    /\ open = {}
    /\ switches \in {[there |-> FALSE, off |-> ByDefault], [there |-> TRUE, off |-> {}]}
    /\ pass = [p \in Passes |-> IF p = Healer THEN [AtRest EXCEPT !.at = "load", !.restores = TRUE]
                                              ELSE AtRest]
    /\ doctor = FALSE /\ gate = NoOne
    /\ installed = FALSE /\ installs = 0 /\ orphans = 0
    /\ starts = 1

-----------------------------------------------------------------------------
(* The database and those who use it. *)

Connect(c) ==
    /\ c \notin open /\ open' = open \cup {c}
    /\ UNCHANGED <<intact, newest, switches, pass, doctor, gate,
                   installed, installs, orphans, starts>>

\* A row is written; with the file swapped under the connection, or a kill in
\* the middle, the file may end up broken.  The connection is then closed.
Write(c) ==
    /\ c \in open /\ open' = open \ {c}
    /\ intact' \in {intact, FALSE}
    /\ UNCHANGED <<newest, switches, pass, doctor, gate,
                   installed, installs, orphans, starts>>

\* An hour passes: the newest backup is old enough for another one.
Ages ==
    /\ newest.young /\ newest' = [newest EXCEPT !.young = FALSE]
    /\ UNCHANGED <<intact, open, switches, pass, doctor, gate,
                   installed, installs, orphans, starts>>

-----------------------------------------------------------------------------
(* Passes. *)

At(p, at) == pass' = [pass EXCEPT ![p].at = at]

\* The periodic pass of the healer, and doctor --fix behind its guard; neither may
\* restore the database.
Starts(p) ==
    /\ pass[p].at = "rest"
    /\ IF p = Healer THEN UNCHANGED doctor ELSE ~doctor /\ doctor' = TRUE
    /\ pass' = [pass EXCEPT ![p] = [AtRest EXCEPT !.at = "load"]]
    /\ UNCHANGED <<intact, newest, open, switches, gate,
                   installed, installs, orphans, starts>>

\* SelfHealConfig::load: without a file it writes the defaults, in a second step.
Load(p) ==
    /\ pass[p].at = "load"
    /\ pass' = [pass EXCEPT ![p] = [at |-> IF switches.there THEN "integrity" ELSE "defaults",
                                    off |-> switches.off, restores |-> pass[p].restores]]
    /\ UNCHANGED <<intact, newest, open, switches, doctor, gate,
                   installed, installs, orphans, starts>>

WriteDefaults(p) ==
    /\ pass[p].at = "defaults" /\ At(p, "integrity")
    /\ switches' = [there |-> TRUE, off |-> ByDefault]
    /\ UNCHANGED <<intact, newest, open, doctor, gate,
                   installed, installs, orphans, starts>>

\* db_integrity: the check; only the pass of the start goes on to restore.
MayRestoreAlways(p) == TRUE   \* mutant: every pass restores what it finds broken
MayRestore(p) == pass[p].restores

Integrity(p) ==
    /\ pass[p].at = "integrity"
    /\ At(p, IF "infra" \in pass[p].off THEN "missing"
             ELSE IF ~intact /\ MayRestore(p) /\ newest.there THEN "restore"
             ELSE "backup")
    /\ UNCHANGED <<intact, newest, open, switches, doctor, gate,
                   installed, installs, orphans, starts>>

Restore(p) ==
    /\ pass[p].at = "restore" /\ At(p, "backup")
    /\ intact' = newest.intact
    /\ UNCHANGED <<newest, open, switches, doctor, gate,
                   installed, installs, orphans, starts>>

\* db_backup: a copy of the file as it is, unless the newest is young.
Backup(p) ==
    /\ pass[p].at = "backup" /\ At(p, "missing")
    /\ newest' = IF newest.there /\ newest.young THEN newest
                 ELSE [there |-> TRUE, intact |-> intact, young |-> TRUE]
    /\ UNCHANGED <<intact, open, switches, doctor, gate,
                   installed, installs, orphans, starts>>

\* install_missing_agents: which agents routing names are not detected.
Missing(p) ==
    /\ pass[p].at = "missing"
    /\ At(p, IF "agent" \in pass[p].off \/ installed THEN "done" ELSE "gate")
    /\ UNCHANGED <<intact, newest, open, switches, doctor, gate,
                   installed, installs, orphans, starts>>

\* plan_one, with the gate held, looks for the agent again before it installs.
StillMissing == ~installed

Gate(p) ==
    /\ pass[p].at = "gate" /\ gate = NoOne
    /\ IF StillMissing THEN gate' = p /\ At(p, "installing")
                       ELSE UNCHANGED gate /\ At(p, "done")
    /\ UNCHANGED <<intact, newest, open, switches, doctor,
                   installed, installs, orphans, starts>>

\* The installer exits, with the agent installed or not.
Installer(p) ==
    /\ pass[p].at = "installing" /\ At(p, "done") /\ gate' = NoOne
    /\ \E ok \in BOOLEAN : /\ installed' = (installed \/ ok)
                           /\ installs' = IF ok THEN installs + 1 ELSE installs
    /\ UNCHANGED <<intact, newest, open, switches, doctor, orphans, starts>>

\* The one that a daemon has left goes on; nobody waits for it.
OrphanEnds ==
    /\ orphans > 0 /\ orphans' = orphans - 1
    /\ \E ok \in BOOLEAN : installed' = (installed \/ ok)
    /\ UNCHANGED <<intact, newest, open, switches, pass, doctor, gate, installs, starts>>

\* AgentInstall and Setup take no gate; what they do is seen by the passes.
InstalledBySetup ==
    /\ ~installed /\ installed' = TRUE
    /\ UNCHANGED <<intact, newest, open, switches, pass, doctor, gate,
                   installs, orphans, starts>>

Done(p) ==
    /\ pass[p].at = "done"
    /\ pass' = [pass EXCEPT ![p] = AtRest]
    /\ doctor' = IF p = Healer THEN doctor ELSE FALSE
    /\ UNCHANGED <<intact, newest, open, switches, gate,
                   installed, installs, orphans, starts>>

\* Somebody edits self_heal.toml, the only way to switch a category.
EditSwitches ==
    /\ \E off \in SUBSET Categories : switches' = [there |-> TRUE, off |-> off]
    /\ switches' # switches
    /\ UNCHANGED <<intact, newest, open, pass, doctor, gate, installed, installs, orphans, starts>>

\* The daemon ends with its threads and is started again; an installer at work goes on.
Restart ==
    /\ starts < MaxStarts /\ starts' = starts + 1
    /\ pass' = [p \in Passes |-> IF p = Healer THEN [AtRest EXCEPT !.at = "load", !.restores = TRUE]
                                               ELSE AtRest]
    /\ open' = {} /\ doctor' = FALSE /\ gate' = NoOne
    /\ orphans' = IF gate = NoOne THEN orphans ELSE orphans + 1
    /\ installs' = 0
    /\ UNCHANGED <<intact, newest, switches, installed>>

Next == \/ \E c \in Connections : Connect(c) \/ Write(c)
        \/ \E p \in Passes : \/ Starts(p) \/ Load(p) \/ WriteDefaults(p) \/ Integrity(p)
                             \/ Restore(p) \/ Backup(p) \/ Missing(p) \/ Gate(p)
                             \/ Installer(p) \/ Done(p)
        \/ EditSwitches \/ Ages \/ InstalledBySetup \/ OrphanEnds \/ Restart

Spec == Init /\ [][Next]_vars

-----------------------------------------------------------------------------
(* Properties. *)

\* server.rs:150-155: a pass of doctor --fix next to a periodic one does no harm.
\* What one found broken another may have put back meanwhile: a database that is
\* whole is never replaced by its backup, and the passes of one daemon install an agent once.
IntactKept == \A p \in Passes : pass[p].at = "restore" => ~intact
InstalledOnce == installs <= 1

\* NOT TRUE: no two installers of an agent run at a time.  INSTALL_GATE is of one daemon, and
\* the installer of the one before may be at work still (agent.rs:18, bootstrap.rs:65).
InstallerAlone == orphans + (IF gate = NoOne THEN 0 ELSE 1) <= 1

\* NOT TRUE.  self_heal.rs:217-219: a restore happens "before the socket is opened and no
\* other connections exist yet".  The pass runs in a thread beside the server.
RestoresAlone == \A p \in Passes : pass[p].at = "restore" => open = {}

\* NOT TRUE.  infra.rs:118: a restart "will restore from the newest single.db.bak-*".  A later
\* pass that may not restore has backed the broken file up meanwhile.
BackupWhole == \A p \in Passes : pass[p].at = "restore" => newest.intact
=============================================================================
