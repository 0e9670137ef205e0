------------------------------- MODULE FilesProofs -------------------------------
(***************************************************************************)
(* What holds of the files that requests, agents and the passes of self-heal  *)
(* share, for any number of them: a part of MCFiles has its inductive          *)
(* invariant, the others are left alone by its steps.                         *)
(***************************************************************************)
EXTENDS MCFiles, TLAPS

-----------------------------------------------------------------------------
(* The passes of self-heal. *)

PassOf == [at : {"rest", "load", "defaults", "integrity", "restore", "backup", "missing",
                 "gate", "installing", "done"},
           off : SUBSET (Categories \cup {"agent"}), restores : BOOLEAN]
HealTypes ==
    /\ pass \in [H!Passes -> PassOf]
    /\ switches \in [there : BOOLEAN, off : SUBSET (Categories \cup {"agent"})]
    /\ installs \in Nat /\ installed \in BOOLEAN /\ starts \in Nat /\ orphans \in Nat

\* Only the pass of a start may restore, and that is the healer's; who installs has the gate.
Harmless ==
    /\ HealTypes
    /\ \A p \in H!Passes : pass[p].restores => p = Healer
    /\ \A p \in H!Passes : pass[p].at = "restore" => pass[p].restores /\ ~intact
    /\ \A p \in H!Passes : pass[p].at = "installing" => gate = p /\ installs = 0
    /\ installs <= 1 /\ (installs = 1 => installed)

LEMMA InitHarmless == H!Init => Harmless
<1> SUFFICES ASSUME H!Init PROVE Harmless
  OBVIOUS
<1>1. \A p \in H!Passes :
        /\ p = Healer => pass[p] = [at |-> "load", off |-> {}, restores |-> TRUE]
        /\ p # Healer => pass[p] = [at |-> "rest", off |-> {}, restores |-> FALSE]
  BY DEF H!Init, H!AtRest
<1>2. \A p \in H!Passes : pass[p].at \in {"load", "rest"} /\ (pass[p].restores => p = Healer)
  BY <1>1
<1>3. HealTypes
  <2>1. pass \in [H!Passes -> PassOf]
    BY DEF H!Init, H!AtRest, PassOf
  <2>2. switches \in [there : BOOLEAN, off : SUBSET (Categories \cup {"agent"})]
    <3>1. \/ switches = [there |-> FALSE, off |-> {"agent"}]
          \/ switches = [there |-> TRUE, off |-> {}]
      BY DEF H!Init, H!ByDefault
    <3> DEFINE Offs == SUBSET (Categories \cup {"agent"})
    <3>2. {"agent"} \in Offs /\ {} \in Offs
      OBVIOUS
    <3> HIDE DEF Offs
    <3>3. \A b \in BOOLEAN : \A o \in Offs : [there |-> b, off |-> o] \in [there : BOOLEAN, off : Offs]
      OBVIOUS
    <3>4. switches \in [there : BOOLEAN, off : Offs]
      BY <3>1, <3>2, <3>3
    <3> QED
      BY <3>4 DEF Offs
  <2> QED
    BY <2>1, <2>2 DEF H!Init, HealTypes
<1> QED
  BY <1>2, <1>3 DEF H!Init, Harmless

\* A pass that goes on without a restore and without an installer.
LEMMA PassGoesOn ==
    ASSUME Harmless, NEW p \in H!Passes, NEW to \in PassOf,
           pass' = [pass EXCEPT ![p] = to], to.restores => pass[p].restores,
           to.at \notin {"restore", "installing"},
           switches' \in [there : BOOLEAN, off : SUBSET (Categories \cup {"agent"})],
           UNCHANGED <<installed, installs, orphans, starts>>,
           intact' = intact \/ pass[p].at = "restore",
           gate' = gate \/ pass[p].at = "installing"
    PROVE  Harmless'
<1>1. pass' \in [H!Passes -> PassOf] /\ pass'[p] = to /\ \A q \in H!Passes \ {p} : pass'[q] = pass[q]
  BY DEF Harmless, HealTypes
<1>2. HealTypes'
  BY <1>1 DEF Harmless, HealTypes
<1>3. \A q \in H!Passes : pass'[q].restores => q = Healer
  BY <1>1 DEF Harmless
<1>4. ASSUME NEW q \in H!Passes, pass'[q].at = "restore"
      PROVE  pass'[q].restores /\ ~intact'
  <2>1. q # p /\ pass'[q] = pass[q]
    BY <1>1, <1>4
  <2>2. pass[q].restores /\ ~intact /\ q = Healer
    BY <1>4, <2>1 DEF Harmless
  <2>3. pass[p].at # "restore"
    BY <2>1, <2>2 DEF Harmless
  <2> QED
    BY <2>1, <2>2, <2>3
<1>5. ASSUME NEW q \in H!Passes, pass'[q].at = "installing"
      PROVE  gate' = q /\ installs' = 0
  <2>1. q # p /\ pass'[q] = pass[q]
    BY <1>1, <1>5
  <2>2. gate = q /\ installs = 0
    BY <1>5, <2>1 DEF Harmless
  <2>3. pass[p].at # "installing"
    BY <2>1, <2>2 DEF Harmless
  <2> QED
    BY <2>2, <2>3
<1>6. installs' <= 1 /\ (installs' = 1 => installed')
  BY DEF Harmless
<1> QED
  BY <1>2, <1>3, <1>4, <1>5, <1>6 DEF Harmless

LEMMA StepHarmless ==
    ASSUME Harmless, [H!Next]_HealVars
    PROVE  Harmless'
<1>0. HealTypes
  BY DEF Harmless
<1>r. H!AtRest \in PassOf /\ ~H!AtRest.restores /\ H!AtRest.at = "rest"
  BY DEF H!AtRest, PassOf
<1>1. ASSUME NEW c \in Connections, H!Connect(c) \/ H!Write(c) PROVE Harmless'
  <2>1. /\ UNCHANGED <<newest, switches, pass, doctor, gate, installed, installs, orphans, starts>>
        /\ intact' = intact \/ intact' = FALSE
    BY <1>1 DEF H!Connect, H!Write
  <2> QED
    BY <2>1 DEF Harmless, HealTypes
<1>2. ASSUME NEW p \in H!Passes, H!Starts(p) PROVE Harmless'
  <2> DEFINE to == [H!AtRest EXCEPT !.at = "load"]
  <2>1. to \in PassOf /\ ~to.restores /\ to.at = "load"
    BY DEF H!AtRest, PassOf
  <2>2. pass' = [pass EXCEPT ![p] = to] /\ UNCHANGED <<intact, switches, gate, installed, installs, orphans, starts>>
    BY <1>2 DEF H!Starts
  <2> HIDE DEF to
  <2> QED
    BY <1>0, <2>1, <2>2, PassGoesOn DEF HealTypes
<1>3. ASSUME NEW p \in H!Passes, H!Load(p) PROVE Harmless'
  <2> DEFINE to == [at |-> IF switches.there THEN "integrity" ELSE "defaults",
                    off |-> switches.off, restores |-> pass[p].restores]
  <2>1. to \in PassOf /\ to.restores = pass[p].restores /\ to.at \in {"integrity", "defaults"}
    BY <1>0 DEF HealTypes, PassOf
  <2>2. pass' = [pass EXCEPT ![p] = to] /\ UNCHANGED <<intact, switches, gate, installed, installs, orphans, starts>>
    BY <1>0, <1>3 DEF H!Load, HealTypes, PassOf
  <2> HIDE DEF to
  <2> QED
    BY <1>0, <2>1, <2>2, PassGoesOn DEF HealTypes
\* A pass that only goes to another place.
<1>4. ASSUME NEW p \in H!Passes, NEW at \in {"integrity", "backup", "missing", "gate", "done"},
             H!At(p, at),
             switches' \in [there : BOOLEAN, off : SUBSET (Categories \cup {"agent"})],
             UNCHANGED <<installed, installs, orphans, starts>>,
             intact' = intact \/ pass[p].at = "restore",
             gate' = gate \/ pass[p].at = "installing"
      PROVE  Harmless'
  <2> DEFINE to == [pass[p] EXCEPT !.at = at]
  <2>1. to \in PassOf /\ to.restores = pass[p].restores /\ to.at = at
    BY <1>0 DEF HealTypes, PassOf
  <2>2. pass' = [pass EXCEPT ![p] = to]
    BY <1>4 DEF H!At
  <2> HIDE DEF to
  <2> QED
    BY <1>4, <2>1, <2>2, PassGoesOn
<1>5. ASSUME NEW p \in H!Passes, H!WriteDefaults(p) PROVE Harmless'
  <2>1. switches' \in [there : BOOLEAN, off : SUBSET (Categories \cup {"agent"})]
    BY <1>5 DEF H!WriteDefaults, H!ByDefault
  <2> QED
    BY <1>4, <1>5, <2>1 DEF H!WriteDefaults
<1>6. ASSUME NEW p \in H!Passes, H!Integrity(p) PROVE Harmless'
  <2>1. UNCHANGED <<intact, switches, gate, installed, installs, orphans, starts>>
    BY <1>6 DEF H!Integrity
  <2>2. CASE H!At(p, "missing") \/ H!At(p, "backup")
    BY <1>0, <1>4, <2>1, <2>2 DEF HealTypes
  <2>3. CASE H!At(p, "restore") /\ ~intact /\ pass[p].restores /\ pass[p].at = "integrity"
    <3> DEFINE to == [pass[p] EXCEPT !.at = "restore"]
    <3>1. to \in PassOf /\ to.restores = pass[p].restores /\ to.at = "restore"
      BY <1>0 DEF HealTypes, PassOf
    <3>2. pass' = [pass EXCEPT ![p] = to]
      BY <2>3 DEF H!At
    <3> HIDE DEF to
    <3>3. pass' \in [H!Passes -> PassOf] /\ pass'[p] = to /\ \A q \in H!Passes \ {p} : pass'[q] = pass[q]
      BY <1>0, <3>1, <3>2 DEF HealTypes
    <3>4. HealTypes'
      BY <1>0, <2>1, <3>3 DEF HealTypes
    <3> QED
      BY <2>1, <2>3, <3>1, <3>3, <3>4 DEF Harmless
  <2> QED
    BY <1>6, <2>2, <2>3 DEF H!Integrity, H!MayRestore
<1>7. ASSUME NEW p \in H!Passes, H!Restore(p) PROVE Harmless'
  BY <1>0, <1>4, <1>7 DEF H!Restore, HealTypes
<1>8. ASSUME NEW p \in H!Passes, H!Backup(p) PROVE Harmless'
  BY <1>0, <1>4, <1>8 DEF H!Backup, HealTypes
<1>9. ASSUME NEW p \in H!Passes, H!Missing(p) PROVE Harmless'
  BY <1>0, <1>4, <1>9 DEF H!Missing, HealTypes
<1>10. ASSUME NEW p \in H!Passes, H!Gate(p) PROVE Harmless'
  <2>1. gate = "nobody" /\ UNCHANGED <<intact, switches, installed, installs, orphans, starts>>
    BY <1>10 DEF H!Gate, H!NoOne
  <2>2. CASE installed
    BY <1>0, <1>4, <1>10, <2>1, <2>2 DEF H!Gate, H!StillMissing, HealTypes
  <2>3. CASE ~installed
    <3> DEFINE to == [pass[p] EXCEPT !.at = "installing"]
    <3>1. to \in PassOf /\ to.restores = pass[p].restores /\ to.at = "installing"
      BY <1>0 DEF HealTypes, PassOf
    <3>2. pass' = [pass EXCEPT ![p] = to] /\ gate' = p
      BY <1>10, <2>3 DEF H!Gate, H!StillMissing, H!At
    <3> HIDE DEF to
    <3>3. pass' \in [H!Passes -> PassOf] /\ pass'[p] = to /\ \A q \in H!Passes \ {p} : pass'[q] = pass[q]
      BY <1>0, <3>1, <3>2 DEF HealTypes
    <3>4. HealTypes'
      BY <1>0, <2>1, <3>3 DEF HealTypes
    <3>5. installs = 0
      BY <2>3 DEF Harmless, HealTypes
    <3>6. \A q \in H!Passes : pass[q].at # "installing"
      BY <2>1, FilesAssumption DEF Harmless, H!Passes
    <3> QED
      BY <2>1, <2>3, <3>1, <3>2, <3>3, <3>4, <3>5, <3>6 DEF Harmless
  <2> QED
    BY <2>2, <2>3, <1>0 DEF HealTypes
<1>11. ASSUME NEW p \in H!Passes, H!Installer(p) PROVE Harmless'
  <2> DEFINE to == [pass[p] EXCEPT !.at = "done"]
  <2>1. to \in PassOf /\ to.restores = pass[p].restores /\ to.at = "done"
    BY <1>0 DEF HealTypes, PassOf
  <2>2. /\ pass[p].at = "installing" /\ pass' = [pass EXCEPT ![p] = to]
        /\ UNCHANGED <<intact, switches, orphans, starts>>
        /\ \E ok \in BOOLEAN : /\ installed' = (installed \/ ok)
                               /\ installs' = IF ok THEN installs + 1 ELSE installs
    BY <1>11 DEF H!Installer, H!At
  <2> HIDE DEF to
  <2>3. pass' \in [H!Passes -> PassOf] /\ pass'[p] = to /\ \A q \in H!Passes \ {p} : pass'[q] = pass[q]
    BY <1>0, <2>1, <2>2 DEF HealTypes
  <2>4. gate = p /\ installs = 0
    BY <2>2 DEF Harmless
  <2>5. \A q \in H!Passes : pass'[q].at # "installing"
    <3>1. \A q \in H!Passes \ {p} : pass[q].at # "installing"
      BY <2>4 DEF Harmless
    <3> QED
      BY <2>1, <2>3, <3>1
  <2>6. installs' \in Nat /\ installs' <= 1 /\ installed' \in BOOLEAN /\ (installs' = 1 => installed')
    BY <1>0, <2>2, <2>4 DEF HealTypes
  <2>7. HealTypes'
    BY <1>0, <2>2, <2>3, <2>6 DEF HealTypes
  <2> QED
    BY <2>1, <2>2, <2>3, <2>5, <2>6, <2>7 DEF Harmless
<1>12. ASSUME NEW p \in H!Passes, H!Done(p) PROVE Harmless'
  BY <1>0, <1>r, <1>12, PassGoesOn DEF H!Done, HealTypes
<1>13. CASE H!EditSwitches
  BY <1>13 DEF H!EditSwitches, Harmless, HealTypes
<1>14. CASE H!Ages
  BY <1>14 DEF H!Ages, Harmless, HealTypes
<1>15. CASE H!InstalledBySetup
  BY <1>15 DEF H!InstalledBySetup, Harmless, HealTypes
<1>16. CASE H!Restart
  <2>1. \A p \in H!Passes :
          /\ p = Healer => pass'[p] = [at |-> "load", off |-> {}, restores |-> TRUE]
          /\ p # Healer => pass'[p] = [at |-> "rest", off |-> {}, restores |-> FALSE]
  BY <1>16 DEF H!Restart, H!AtRest
  <2>2. pass' \in [H!Passes -> PassOf]
    BY <1>16 DEF H!Restart, H!AtRest, PassOf
  <2>3. starts' \in Nat /\ orphans' \in Nat /\ installs' = 0 /\ UNCHANGED <<switches, installed>>
    BY <1>0, <1>16 DEF H!Restart, HealTypes
  <2>4. \A p \in H!Passes : pass'[p].at \in {"load", "rest"} /\ (pass'[p].restores => p = Healer)
    BY <2>1
  <2>5. HealTypes'
    BY <1>0, <2>2, <2>3 DEF HealTypes
  <2> QED
    BY <2>3, <2>4, <2>5 DEF Harmless
<1>17. CASE UNCHANGED HealVars
  BY <1>17 DEF HealVars, Harmless, HealTypes
<1>18. CASE H!OrphanEnds
  BY <1>18 DEF H!OrphanEnds, Harmless, HealTypes
<1> QED
  BY <1>1, <1>2, <1>3, <1>5, <1>6, <1>7, <1>8, <1>9, <1>10, <1>11, <1>12, <1>13, <1>14,
     <1>15, <1>16, <1>17, <1>18 DEF H!Next

\* For any number of requests and connections: a database that is whole is never replaced
\* by its backup, and the passes of one daemon install a missing agent once, however those of
\* the healer and of doctor --fix overlap, and whatever is edited or restarted (server.rs:150-155).
THEOREM HealDoesNoHarm == Spec => []HealHarmless
<1>1. Init => Harmless
  <2>1. Init => H!Init
    BY DEF Init
  <2> QED
    BY <2>1, InitHarmless
<1>2. Harmless /\ [Next]_<<which, AccountVars, HealVars, RegistryVars, KeyVars>> => Harmless'
  <2>1. [Next]_<<which, AccountVars, HealVars, RegistryVars, KeyVars>> => [H!Next]_HealVars
    BY DEF Next
  <2> QED
    BY <2>1, StepHarmless
<1>3. Harmless => HealHarmless
  BY DEF Harmless, HealHarmless, IntactKept, InstalledOnce, H!IntactKept, H!InstalledOnce
<1> QED
  BY <1>1, <1>2, <1>3, PTL DEF Spec

-----------------------------------------------------------------------------
(* A registry. *)

Words == {"none", "off", "on"}
FileOf == [is : {"absent", "empty", "whole", "torn"}, has : [Entries -> Words]]
EditOf == [op : {"none", "add", "addPreset", "remove", "set", "sync"}, name : Entries \cup {"none"},
           on : BOOLEAN, at : {"idle", "load", "truncate", "fill", "fillAside"}, copy : FileOf]

RegistryTypes ==
    /\ sort \in Sorts
    /\ file \in FileOf /\ backup \in FileOf
    /\ edit \in [Editors -> EditOf]

\* What is on in the file, in its backup or in the copy of a request was asked for, and so is
\* what a request will put on.
Asked(has, asked) == \A n \in Entries : has[n] = "on" => n \in asked
Willed(e, asked) ==
    /\ Asked(e.copy.has, asked)
    /\ e.at = "load" => /\ e.op # "none" /\ e.name \in Entries
                        /\ e.op \in {"add", "set"} /\ e.on => e.name \in asked
                        /\ e.op = "addPreset" /\ G!PresetWord = "on" => e.name \in asked
Choices ==
    /\ RegistryTypes
    /\ sort \notin {"providers", "plugins"} => \A n \in Entries \cap Defaults : n \in chosen
    /\ Asked(file.has, chosen) /\ Asked(backup.has, chosen)
    /\ \A r \in Editors : Willed(edit[r], chosen)

LEMMA NothingIsOn == /\ G!Nowhere \in [Entries -> Words] /\ Asked(G!Nowhere, {})
                     /\ \A asked : Asked(G!Nowhere, asked)
                     /\ G!NoFile \in FileOf /\ G!NoFile.has = G!Nowhere
                     /\ G!Idle \in EditOf /\ G!Idle.at = "idle" /\ G!Idle.copy = G!NoFile
<1>1. G!Nowhere \in [Entries -> Words] /\ \A n \in Entries : G!Nowhere[n] # "on"
  BY DEF G!Nowhere, Words
<1>2. G!NoFile \in FileOf /\ G!NoFile.has = G!Nowhere
  BY <1>1 DEF G!NoFile, G!AsFile, FileOf
<1>3. G!Idle \in EditOf /\ G!Idle.at = "idle" /\ G!Idle.copy = G!NoFile
  BY <1>2 DEF G!Idle, EditOf
<1> QED
  BY <1>1, <1>2, <1>3 DEF Asked

LEMMA InitChoices == G!Init => Choices
<1> SUFFICES ASSUME G!Init PROVE Choices
  OBVIOUS
<1>1. RegistryTypes
  BY NothingIsOn DEF G!Init, RegistryTypes
<1>2. Willed(G!Idle, chosen) /\ Asked(G!NoFile.has, chosen)
  BY NothingIsOn DEF Willed
<1> QED
  BY <1>1, <1>2 DEF G!Init, Choices

\* What a request has loaded was asked for, and what it makes of it is.
LEMMA LoadedAsked ==
    ASSUME Choices
    PROVE  G!Loaded \in [Entries -> Words] /\ Asked(G!Loaded, chosen)
<1>1. CASE file.is = "absent" /\ sort \notin {"providers", "plugins"}
  BY <1>1 DEF Choices, RegistryTypes, G!Loaded, Words, Asked
<1>2. CASE ~(file.is = "absent" /\ sort \notin {"providers", "plugins"})
  BY <1>2, NothingIsOn DEF Choices, RegistryTypes, FileOf, G!Loaded
<1> QED
  BY <1>1, <1>2

LEMMA ChangedAsked ==
    ASSUME Choices, NEW e \in EditOf, Willed(e, chosen), e.at = "load",
           NEW has \in [Entries -> Words], Asked(has, chosen)
    PROVE  G!Changed(e, has) \in [Entries -> Words] /\ Asked(G!Changed(e, has), chosen)
<1>1. e.op \in {"add", "addPreset", "remove", "set", "sync"} /\ e.name \in Entries /\ e.on \in BOOLEAN
  BY DEF Willed, EditOf
<1>2. G!Word(e.on) \in {"off", "on"} /\ (G!Word(e.on) = "on" => e.on)
  BY <1>1 DEF G!Word
<1>3. G!PresetWord \in {"off", "on"}
  BY DEF G!PresetWord, G!Word
<1>4. ASSUME NEW w \in Words, w = "on" => e.name \in chosen
      PROVE  /\ [has EXCEPT ![e.name] = w] \in [Entries -> Words]
             /\ Asked([has EXCEPT ![e.name] = w], chosen)
  BY <1>1, <1>4 DEF Asked
<1>5. CASE e.op = "add" \/ e.op = "set"
  <2>1. G!Changed(e, has) = [has EXCEPT ![e.name] = G!Word(e.on)]
    BY <1>5 DEF G!Changed
  <2>2. G!Word(e.on) \in Words /\ (G!Word(e.on) = "on" => e.name \in chosen)
    BY <1>2, <1>5 DEF Words, Willed
  <2> QED
    BY <1>4, <2>1, <2>2
<1>6. CASE e.op = "addPreset"
  <2>1. G!Changed(e, has) = [has EXCEPT ![e.name] = G!PresetWord]
    BY <1>6 DEF G!Changed
  <2>2. G!PresetWord \in Words /\ (G!PresetWord = "on" => e.name \in chosen)
    BY <1>3, <1>6 DEF Words, Willed
  <2> QED
    BY <1>4, <2>1, <2>2
<1>7. CASE e.op = "remove"
  <2>1. G!Changed(e, has) = [has EXCEPT ![e.name] = "none"]
    BY <1>7 DEF G!Changed
  <2>2. "none" \in Words
    BY DEF Words
  <2> QED
    BY <1>4, <2>1, <2>2
<1>8. CASE e.op = "sync"
  <2>1. G!Changed(e, has) = G!Synced(has)
    BY <1>8 DEF G!Changed
  <2>2. /\ G!Synced(has) \in [Entries -> Words]
        /\ \A n \in Entries : G!Synced(has)[n] = "on" => has[n] = "on"
    BY DEF G!Synced, G!SyncWord, Words
  <2> QED
    BY <2>1, <2>2 DEF Asked
<1> QED
  BY <1>1, <1>5, <1>6, <1>7, <1>8

\* A request goes on to what was asked for.
LEMMA EditGoesOn ==
    ASSUME Choices, NEW r \in Editors, NEW to \in EditOf, edit' = [edit EXCEPT ![r] = to],
           file' \in FileOf, backup' \in FileOf,
           Asked(file'.has, chosen'), Asked(backup'.has, chosen'),
           Willed(to, chosen'), chosen \subseteq chosen', UNCHANGED sort
    PROVE  Choices'
<1>1. edit' \in [Editors -> EditOf] /\ edit'[r] = to /\ \A q \in Editors \ {r} : edit'[q] = edit[q]
  BY DEF Choices, RegistryTypes
<1>2. RegistryTypes'
  BY <1>1 DEF Choices, RegistryTypes
<1>3. \A q \in Editors : Willed(edit'[q], chosen')
  <2>1. ASSUME NEW e, Willed(e, chosen) PROVE Willed(e, chosen')
    BY <2>1 DEF Willed, Asked
  <2>2. \A q \in Editors : Willed(edit[q], chosen)
    BY DEF Choices
  <2> QED
    BY <1>1, <2>1, <2>2
<1>4. Asked(file'.has, chosen') /\ Asked(backup'.has, chosen')
  OBVIOUS
<1>5. sort' \notin {"providers", "plugins"} => \A n \in Entries \cap Defaults : n \in chosen'
  BY DEF Choices
<1>6. (\A q \in Editors : Willed(edit[q], chosen))'
  BY <1>3 DEF Willed, Asked, G!PresetWord, G!Word
<1>7. Asked(file.has, chosen)' /\ Asked(backup.has, chosen)'
  BY <1>4 DEF Asked
<1> QED
  BY <1>2, <1>5, <1>6, <1>7 DEF Choices

LEMMA StepChoices ==
    ASSUME Choices, [G!Next]_RegistryVars
    PROVE  Choices'
<1>0. RegistryTypes /\ Asked(file.has, chosen) /\ Asked(backup.has, chosen)
      /\ \A r \in Editors : edit[r] \in EditOf /\ Willed(edit[r], chosen)
  BY DEF Choices, RegistryTypes
<1>1. ASSUME NEW r \in Editors, G!Begin(r) PROVE Choices'
  <2>1. PICK op \in {"add", "addPreset", "remove", "set", "sync"}, n \in Entries, on \in BOOLEAN :
          /\ op \in {"add", "set"} \/ ~on
          /\ edit' = [edit EXCEPT ![r] = [op |-> op, name |-> n, on |-> on, at |-> "load",
                                          copy |-> G!NoFile]]
          /\ chosen' = IF on \/ (op = "addPreset" /\ G!PresetWord = "on")
                       THEN chosen \cup {n} ELSE chosen
    BY <1>1 DEF G!Begin
  <2>2. UNCHANGED <<sort, file, backup, heal>>
    BY <1>1 DEF G!Begin
  <2> DEFINE to == [op |-> op, name |-> n, on |-> on, at |-> "load", copy |-> G!NoFile]
  <2>3. /\ to \in EditOf /\ to.copy = G!NoFile /\ to.op = op /\ to.name = n /\ to.on = on
        /\ edit' = [edit EXCEPT ![r] = to]
    BY <2>1, NothingIsOn DEF EditOf
  <2> HIDE DEF to
  <2>4. Willed(to, chosen')
    BY <2>1, <2>3, NothingIsOn DEF Willed
  <2>5. chosen \subseteq chosen'
    BY <2>1
  <2>6. file' \in FileOf /\ backup' \in FileOf /\ Asked(file'.has, chosen') /\ Asked(backup'.has, chosen')
    BY <1>0, <2>2, <2>5 DEF RegistryTypes, Asked
  <2> QED
    BY <2>2, <2>3, <2>4, <2>5, <2>6, EditGoesOn
\* A request that ends, with the file as it was or with nothing in it.
<1>2. ASSUME NEW r \in Editors, G!End(r), UNCHANGED <<sort, backup, chosen>>,
             file' \in FileOf, Asked(file'.has, chosen)
      PROVE  Choices'
  <2>1. Willed(G!Idle, chosen')
    BY NothingIsOn DEF Willed
  <2>2. backup' \in FileOf /\ Asked(file'.has, chosen') /\ Asked(backup'.has, chosen') /\ chosen \subseteq chosen'
    BY <1>0, <1>2 DEF RegistryTypes, Asked
  <2>3. edit' = [edit EXCEPT ![r] = G!Idle]
    BY <1>2 DEF G!End
  <2> QED
    BY <1>2, <2>1, <2>2, <2>3, NothingIsOn, EditGoesOn
<1>3. \A is \in {"empty", "torn"} : G!AsFile(is, G!Nowhere) \in FileOf /\ G!AsFile(is, G!Nowhere).has = G!Nowhere
  BY NothingIsOn DEF G!AsFile, FileOf
<1>4. ASSUME NEW r \in Editors, G!Load(r) PROVE Choices'
  <2>1. UNCHANGED <<sort, file, backup, chosen>> /\ file \in FileOf /\ backup \in FileOf
    BY <1>0, <1>4 DEF G!Load, RegistryTypes
  <2>2. CASE G!End(r)
    BY <1>0, <1>2, <2>1, <2>2 DEF Asked
  <2>3. CASE /\ edit[r].at = "load"
             /\ edit' = [edit EXCEPT ![r] = [G!Idle EXCEPT !.op = IF edit[r].op = "sync" THEN "sync" ELSE "none",
                            !.at = "truncate", !.copy = G!AsFile("whole", G!Changed(edit[r], G!Loaded))]]
    <3> DEFINE copy == G!AsFile("whole", G!Changed(edit[r], G!Loaded))
               to == [G!Idle EXCEPT !.op = IF edit[r].op = "sync" THEN "sync" ELSE "none",
                                    !.at = "truncate", !.copy = copy]
    <3>1. edit' = [edit EXCEPT ![r] = to]
      BY <2>3
    <3>2. G!Changed(edit[r], G!Loaded) \in [Entries -> Words] /\ Asked(G!Changed(edit[r], G!Loaded), chosen)
      BY <1>0, <2>3, LoadedAsked, ChangedAsked
    <3>3. copy \in FileOf /\ Asked(copy.has, chosen)
      BY <3>2 DEF G!AsFile, FileOf
    <3> HIDE DEF copy
    <3>4. to \in EditOf /\ to.at = "truncate" /\ to.copy = copy
      BY <3>3 DEF EditOf, G!Idle
    <3> HIDE DEF to
    <3>5. Willed(to, chosen') /\ Asked(file'.has, chosen') /\ Asked(backup'.has, chosen')
      BY <1>0, <2>1, <3>3, <3>4 DEF Willed, Asked
    <3> QED
      BY <2>1, <3>1, <3>4, <3>5, EditGoesOn
  <2> QED
    BY <1>4, <2>2, <2>3 DEF G!Load
<1>5. ASSUME NEW r \in Editors, G!Truncate(r) PROVE Choices'
  <2> DEFINE to == [edit[r] EXCEPT !.at = "fill"]
  <2>1. to \in EditOf /\ to.at = "fill" /\ to.copy = edit[r].copy
    BY <1>0 DEF EditOf
  <2>2. /\ edit' = [edit EXCEPT ![r] = to] /\ UNCHANGED <<sort, backup, chosen>>
        /\ file' = G!AsFile("empty", G!Nowhere)
    BY <1>5 DEF G!Truncate
  <2> HIDE DEF to
  <2>3. file' \in FileOf /\ Asked(file'.has, chosen') /\ backup' \in FileOf /\ Asked(backup'.has, chosen')
    BY <1>0, <1>3, <2>2, NothingIsOn DEF RegistryTypes, Asked
  <2>4. Willed(to, chosen')
    BY <1>0, <2>1, <2>2 DEF Willed, Asked
  <2> QED
    BY <2>1, <2>2, <2>3, <2>4, EditGoesOn
<1>6. ASSUME NEW r \in Editors, G!Fill(r) PROVE Choices'
  <2>1. edit[r].copy \in FileOf /\ Asked(edit[r].copy.has, chosen)
    BY <1>0 DEF Willed, EditOf
  <2>2. file' = edit[r].copy \/ file' = G!AsFile("torn", G!Nowhere)
    BY <1>6 DEF G!Fill
  <2>3. file' \in FileOf /\ Asked(file'.has, chosen)
    BY <1>3, <2>1, <2>2, NothingIsOn
  <2>4. G!End(r) /\ UNCHANGED <<sort, backup, chosen>>
    BY <1>6 DEF G!Fill
  <2> QED
    BY <1>2, <2>3, <2>4
<1>7. ASSUME NEW r \in Editors, G!FillAside(r) PROVE Choices'
  <2>1. G!End(r) /\ UNCHANGED <<sort, file, backup, chosen>>
    BY <1>7 DEF G!FillAside
  <2>2. file' \in FileOf /\ Asked(file'.has, chosen)
    BY <1>0, <2>1 DEF RegistryTypes
  <2> QED
    BY <1>2, <2>1, <2>2
<1>8. ASSUME NEW r \in Editors, G!Dies(r) PROVE Choices'
  <2>1. G!End(r) /\ UNCHANGED <<sort, backup, chosen>>
    BY <1>8 DEF G!Dies
  <2>2. file' = file \/ file' = G!AsFile("torn", G!Nowhere)
    BY <1>8 DEF G!Dies
  <2>3. file' \in FileOf /\ Asked(file'.has, chosen)
    BY <1>0, <1>3, <2>2, NothingIsOn DEF RegistryTypes
  <2> QED
    BY <1>2, <2>1, <2>3
<1>9. ASSUME NEW r \in Editors, G!Import(r) PROVE Choices'
  <2>1. PICK has \in [Entries -> {"none", "off", "on"}], is \in {"whole", "torn"} :
          /\ IF is = "torn" THEN has = G!Nowhere ELSE \A n \in Entries : has[n] = "on" => n \in chosen
          /\ edit' = [edit EXCEPT ![r] = [G!Idle EXCEPT !.at = "truncate", !.copy = G!AsFile(is, has)]]
    BY <1>9 DEF G!Import
  <2> DEFINE to == [G!Idle EXCEPT !.at = "truncate", !.copy = G!AsFile(is, has)]
  <2>2. G!AsFile(is, has) \in FileOf /\ G!AsFile(is, has).has = has
    BY DEF G!AsFile, FileOf, Words
  <2>3. Asked(has, chosen)
    BY <2>1, NothingIsOn DEF Asked
  <2>4. to \in EditOf /\ to.at = "truncate" /\ to.copy = G!AsFile(is, has)
    BY <2>2 DEF EditOf, G!Idle
  <2>5. edit' = [edit EXCEPT ![r] = to]
    BY <2>1
  <2> HIDE DEF to
  <2>6. (backup' = backup \/ backup' = file) /\ UNCHANGED <<sort, file, chosen>>
    BY <1>9 DEF G!Import
  <2>7. file' \in FileOf /\ Asked(file'.has, chosen') /\ backup' \in FileOf /\ Asked(backup'.has, chosen')
    BY <1>0, <2>6 DEF RegistryTypes, Asked
  <2>8. Willed(to, chosen')
    BY <2>2, <2>3, <2>4, <2>6 DEF Willed, Asked
  <2> QED
    BY <2>4, <2>5, <2>6, <2>7, <2>8, EditGoesOn
<1>10. CASE G!Inspect
  BY <1>10 DEF G!Inspect, Choices, RegistryTypes, Asked, Willed, G!PresetWord, G!Word
<1>11. CASE G!Repair
  <2>1. file' = backup /\ UNCHANGED <<sort, backup, chosen>>
    BY <1>11 DEF G!Repair
  <2>2. ASSUME NEW r \in Editors
        PROVE  edit'[r] \in EditOf /\ edit'[r].copy = edit[r].copy /\ (edit'[r].at = "load" => edit'[r] = edit[r])
    <3>1. edit'[r] = [edit[r] EXCEPT !.at = "fillAside"] \/ edit'[r] = edit[r]
      BY <1>11 DEF G!Repair
    <3> QED
      BY <1>0, <3>1 DEF EditOf
  <2>3. edit' \in [Editors -> EditOf]
    <3>1. edit' = [r \in Editors |-> edit'[r]]
      BY <1>11 DEF G!Repair
    <3> QED
      BY <2>2, <3>1
  <2>4. RegistryTypes'
    BY <1>0, <2>1, <2>3 DEF RegistryTypes
  <2>5. \A r \in Editors : Willed(edit[r], chosen) /\ Asked(backup.has, chosen)
    BY <1>0
  <2>6. (\A r \in Editors : Willed(edit[r], chosen))'
    BY <2>1, <2>2, <2>5 DEF Willed, Asked, G!PresetWord, G!Word
  <2>7. Asked(file.has, chosen)' /\ Asked(backup.has, chosen)'
    BY <1>0, <2>1 DEF Asked
  <2>8. sort' \notin {"providers", "plugins"} => \A n \in Entries \cap Defaults : n \in chosen'
    BY <2>1 DEF Choices
  <2> QED
    BY <2>4, <2>6, <2>7, <2>8 DEF Choices
<1>12. CASE UNCHANGED RegistryVars
  BY <1>12 DEF RegistryVars, Choices, RegistryTypes, Asked, Willed, G!PresetWord, G!Word
<1> QED
  BY <1>1, <1>4, <1>5, <1>6, <1>7, <1>8, <1>9, <1>10, <1>11, <1>12 DEF G!Next

\* For any registry, entries and requests: whatever updates are lost and files torn, whatever
\* is imported and put back, nothing in a registry is on that nobody asked to be on and no
\* default has on, so that a sync turns nothing on (lsp.rs:284-287).
THEOREM NothingOnUnasked == Spec => []EnabledByChoice
<1>1. Init => Choices
  <2>1. Init => G!Init
    BY DEF Init
  <2> QED
    BY <2>1, InitChoices
<1>2. Choices /\ [Next]_<<which, AccountVars, HealVars, RegistryVars, KeyVars>> => Choices'
  <2>1. [Next]_<<which, AccountVars, HealVars, RegistryVars, KeyVars>> => [G!Next]_RegistryVars
    BY DEF Next
  <2> QED
    BY <2>1, StepChoices
<1>3. Choices => EnabledByChoice
  BY DEF Choices, EnabledByChoice, G!EnabledByChoice, Asked
<1> QED
  BY <1>1, <1>2, <1>3, PTL DEF Spec

-----------------------------------------------------------------------------
(* The keys of the pool. *)

RowOf == [there : BOOLEAN, verdict : {"none", "ok", "refused"}, old : BOOLEAN, disabled : BOOLEAN]
AddOf == [at : {"idle", "secret", "row", "probe"}, id : KeyIds \cup {0}, given : BOOLEAN]

\* A row that is there or about to be has its value; what is disabled or about to be was
\* refused.
KeyKept(k, r) == /\ r.there => k \in secret
                 /\ r.verdict = "refused" \/ r.disabled => k \in refused
Kept ==
    /\ row \in [KeyIds -> RowOf] /\ add \in [Adders -> AddOf]
    /\ \A k \in KeyIds : KeyKept(k, row[k])
    /\ \A r \in Adders : /\ add[r].at # "idle" => add[r].id \in KeyIds
                         /\ add[r].at \in {"row", "probe"} => add[r].id \in secret
    /\ check.at = "disable" => check.ids \subseteq refused

LEMMA InitKept == K!Init => Kept
<1>1. K!NoRow \in RowOf /\ ~K!NoRow.there /\ ~K!NoRow.disabled /\ K!NoRow.verdict = "none"
  BY DEF K!NoRow, RowOf
<1>2. K!Idle \in AddOf /\ K!Idle.at = "idle"
  BY DEF K!Idle, AddOf
<1>3. K!Resting.at = "rest"
  BY DEF K!Resting
<1> QED
  BY <1>1, <1>2, <1>3 DEF K!Init, Kept, KeyKept

\* A request goes on and stores what its place asks for; no value and no refusal is lost.
LEMMA AddGoesOn ==
    ASSUME Kept, NEW r \in Adders, NEW to \in AddOf, add' = [add EXCEPT ![r] = to],
           row' \in [KeyIds -> RowOf], \A k \in KeyIds : KeyKept(k, row[k])',
           secret \subseteq secret', refused \subseteq refused', UNCHANGED check,
           to.at # "idle" => to.id \in KeyIds,
           to.at \in {"row", "probe"} => to.id \in secret'
    PROVE  Kept'
<1>1. add' \in [Adders -> AddOf] /\ add'[r] = to /\ \A q \in Adders \ {r} : add'[q] = add[q]
  BY DEF Kept
<1>2. \A q \in Adders : /\ add'[q].at # "idle" => add'[q].id \in KeyIds
                        /\ add'[q].at \in {"row", "probe"} => add'[q].id \in secret'
  BY <1>1 DEF Kept
<1>3. check'.at = "disable" => check'.ids \subseteq refused'
  BY DEF Kept
<1> QED
  BY <1>1, <1>2, <1>3 DEF Kept

LEMMA StepKept ==
    ASSUME Kept, [K!Next]_KeyVars
    PROVE  Kept'
<1>0. /\ row \in [KeyIds -> RowOf] /\ add \in [Adders -> AddOf]
      /\ \A k \in KeyIds : KeyKept(k, row[k])
  BY DEF Kept
<1>i. K!Idle \in AddOf /\ K!Idle.at = "idle"
  BY DEF K!Idle, AddOf
<1>1. ASSUME NEW r \in Adders, K!AddFree(r) PROVE Kept'
  <2>1. PICK k \in KeyIds, given \in BOOLEAN :
          add' = [add EXCEPT ![r] = [at |-> "secret", id |-> k, given |-> given]]
    BY <1>1 DEF K!AddFree
  <2> DEFINE to == [at |-> "secret", id |-> k, given |-> given]
  <2>2. to \in AddOf /\ to.at = "secret" /\ to.id \in KeyIds
    BY DEF AddOf
  <2>3. add' = [add EXCEPT ![r] = to]
    BY <2>1
  <2> HIDE DEF to
  <2>4. UNCHANGED <<row, secret, check, refused>>
    BY <1>1 DEF K!AddFree
  <2>5. \A j \in KeyIds : KeyKept(j, row[j])'
    BY <1>0, <2>4 DEF KeyKept
  <2> QED
    BY <1>0, <2>2, <2>3, <2>4, <2>5, AddGoesOn
<1>2. ASSUME NEW r \in Adders, K!SetSecret(r) PROVE Kept'
  <2>1. UNCHANGED <<row, check, refused>> /\ add[r].at = "secret" /\ secret \subseteq secret'
    BY <1>2 DEF K!SetSecret
  <2>2. \A j \in KeyIds : KeyKept(j, row[j])'
    BY <1>0, <2>1 DEF KeyKept
  <2>3. CASE add' = [add EXCEPT ![r] = K!Idle]
    BY <1>0, <1>i, <2>1, <2>2, <2>3, AddGoesOn
  <2>4. CASE secret' = secret \cup {add[r].id} /\ add' = [add EXCEPT ![r].at = "row"]
    <3> DEFINE to == [add[r] EXCEPT !.at = "row"]
    <3>1. to \in AddOf /\ to.at = "row" /\ to.id = add[r].id
      BY <1>0 DEF AddOf
    <3>2. add' = [add EXCEPT ![r] = to]
      BY <2>4
    <3> HIDE DEF to
    <3>3. to.id \in KeyIds /\ to.id \in secret'
      BY <2>1, <2>4, <3>1 DEF Kept
    <3> QED
      BY <1>0, <2>1, <2>2, <3>1, <3>2, <3>3, AddGoesOn
  <2> QED
    BY <1>2, <2>3, <2>4 DEF K!SetSecret
<1>3. ASSUME NEW r \in Adders, K!AddRow(r) PROVE Kept'
  <2> DEFINE id == add[r].id
             new == [row[id] EXCEPT !.there = TRUE]
             to == IF HasProbe THEN [add[r] EXCEPT !.at = "probe"] ELSE K!Idle
  <2>1. id \in KeyIds /\ id \in secret /\ UNCHANGED <<secret, check, refused>>
    BY <1>3 DEF K!AddRow, Kept
  <2>2. /\ to \in AddOf /\ (to.at # "idle" => to.id = id)
        /\ new \in RowOf /\ new.verdict = row[id].verdict /\ new.disabled = row[id].disabled
    <3>1. [add[r] EXCEPT !.at = "probe"] \in AddOf /\ [add[r] EXCEPT !.at = "probe"].id = id
      BY <1>0 DEF AddOf
    <3>2. new \in RowOf /\ new.verdict = row[id].verdict /\ new.disabled = row[id].disabled
      BY <1>0, <2>1 DEF RowOf
    <3> QED
      BY <1>i, <3>1, <3>2
  <2>3. row' = [row EXCEPT ![id] = new] /\ add' = [add EXCEPT ![r] = to]
    BY <1>3 DEF K!AddRow
  <2> HIDE DEF id, new, to
  <2>4. row' \in [KeyIds -> RowOf] /\ \A j \in KeyIds : KeyKept(j, row[j])'
    <3>1. KeyKept(id, row[id])
      BY <1>0, <2>1
    <3> QED
      BY <1>0, <2>1, <2>2, <2>3, <3>1 DEF KeyKept
  <2> QED
    BY <1>0, <2>1, <2>2, <2>3, <2>4, AddGoesOn
<1>4. ASSUME NEW r \in Adders, K!Probe(r) PROVE Kept'
  <2> DEFINE id == add[r].id
  <2>1. PICK ok \in BOOLEAN :
          /\ row' = [row EXCEPT ![id] =
                [there |-> row[id].there, verdict |-> IF ok THEN "ok" ELSE "refused",
                 old |-> FALSE, disabled |-> row[id].disabled]]
          /\ refused' = IF ok THEN refused ELSE refused \cup {id}
    BY <1>4 DEF K!Probe
  <2> DEFINE new == [there |-> row[id].there, verdict |-> IF ok THEN "ok" ELSE "refused",
                     old |-> FALSE, disabled |-> row[id].disabled]
  <2>2. id \in KeyIds /\ id \in secret /\ UNCHANGED <<secret, check>> /\ add' = [add EXCEPT ![r] = K!Idle]
    BY <1>4 DEF K!Probe, Kept
  <2>3. /\ new \in RowOf /\ new.there = row[id].there /\ new.disabled = row[id].disabled
        /\ new.verdict = "refused" => ~ok
    BY <1>0, <2>2 DEF RowOf
  <2>4. row' = [row EXCEPT ![id] = new]
    BY <2>1
  <2> HIDE DEF id, new
  <2>5. refused \subseteq refused' /\ (~ok => id \in refused')
    BY <2>1
  <2>6. row' \in [KeyIds -> RowOf] /\ \A j \in KeyIds : KeyKept(j, row[j])'
    <3>1. KeyKept(id, row[id])
      BY <1>0, <2>2
    <3> QED
      BY <1>0, <2>2, <2>3, <2>4, <2>5, <3>1 DEF KeyKept
  <2> QED
    BY <1>i, <2>2, <2>5, <2>6, AddGoesOn
<1>5. ASSUME NEW k \in KeyIds, K!Ages(k) PROVE Kept'
  <2> DEFINE new == [row[k] EXCEPT !.old = TRUE]
  <2>1. /\ new \in RowOf /\ new.there = row[k].there /\ new.verdict = row[k].verdict
        /\ new.disabled = row[k].disabled
    BY <1>0 DEF RowOf
  <2>2. row' = [row EXCEPT ![k] = new] /\ UNCHANGED <<secret, add, check, refused>>
    BY <1>5 DEF K!Ages
  <2> HIDE DEF new
  <2>3. row' \in [KeyIds -> RowOf] /\ \A j \in KeyIds : KeyKept(j, row[j])'
    BY <1>0, <2>1, <2>2 DEF KeyKept
  <2> QED
    BY <1>0, <2>2, <2>3 DEF Kept
<1>6. CASE K!ListStale
  <2>1. UNCHANGED <<row, secret, add, refused>>
    BY <1>6 DEF K!ListStale
  <2>2. check'.ids = {k \in K!Taken : K!Failing(k)}
    BY <1>6 DEF K!ListStale
  <2>3. check'.ids \subseteq refused
    BY <1>0, <2>2 DEF K!Taken, K!Failing, KeyKept
  <2> QED
    BY <1>0, <2>1, <2>3 DEF Kept, KeyKept
<1>7. CASE K!DisableStale
  <2>1. check.ids \subseteq refused /\ check' = K!Resting /\ UNCHANGED <<secret, add, refused>>
    BY <1>7 DEF K!DisableStale, Kept
  <2>2. ASSUME NEW k \in KeyIds
        PROVE  row'[k] \in RowOf /\ KeyKept(k, row'[k])
    <3>1. CASE k \in check.ids
      <4>1. row'[k] = [row[k] EXCEPT !.disabled = TRUE]
        BY <1>7, <3>1 DEF K!DisableStale
      <4>2. row'[k] \in RowOf /\ row'[k].there = row[k].there
        BY <1>0, <4>1 DEF RowOf
      <4> QED
        BY <1>0, <2>1, <3>1, <4>2 DEF KeyKept
    <3>2. CASE k \notin check.ids
      <4>1. row'[k] = row[k]
        BY <1>7, <3>2 DEF K!DisableStale
      <4> QED
        BY <1>0, <4>1
    <3> QED
      BY <3>1, <3>2
  <2>3. row' \in [KeyIds -> RowOf]
    <3>1. row' = [k \in KeyIds |-> row'[k]]
      BY <1>7 DEF K!DisableStale
    <3> QED
      BY <2>2, <3>1
  <2>4. \A k \in KeyIds : KeyKept(k, row[k])'
    BY <2>1, <2>2 DEF KeyKept
  <2>5. check'.at = "rest"
    BY <2>1 DEF K!Resting
  <2> QED
    BY <1>0, <2>1, <2>3, <2>4, <2>5 DEF Kept
<1>8. CASE K!Crash
  <2>1. /\ add' = [r \in Adders |-> K!Idle] /\ check' = K!Resting /\ UNCHANGED <<row, secret, refused>>
    BY <1>8 DEF K!Crash
  <2>2. check'.at = "rest"
    BY <2>1 DEF K!Resting
  <2> QED
    BY <1>0, <1>i, <2>1, <2>2 DEF Kept, KeyKept
<1>9. ASSUME UNCHANGED <<row, secret, add, check, refused>> PROVE Kept'
  BY <1>9 DEF Kept, KeyKept
<1>10. CASE K!SyncPool \/ K!SavePool
  BY <1>9, <1>10 DEF K!SyncPool, K!SavePool
<1>11. CASE K!LabelNext
  BY <1>9, <1>11 DEF K!LabelNext, K!AddKey, K!AddKeyRow, K!RemoveKey, K!RemoveKeyRow, K!Resolve,
     K!ReadValues, K!RunEnds, K!KeepersCrash, K!poolVars
<1>12. CASE UNCHANGED KeyVars
  BY <1>9, <1>12 DEF KeyVars
<1> QED
  BY <1>1, <1>2, <1>3, <1>4, <1>5, <1>6, <1>7, <1>8, <1>10, <1>11, <1>12 DEF K!Next, K!PoolNext

\* For any number of requests and keys: a candidate of the pool has a value in the keychain
\* (handlers.rs:1301-1302), and a key is disabled only if a probe of its id has said no
\* (agent.rs:131), whatever requests and checks overlap and wherever the daemon ends.
THEOREM KeysAreSound == Spec => []KeysSound
<1>1. Init => Kept
  <2>1. Init => K!Init
    BY DEF Init
  <2> QED
    BY <2>1, InitKept
<1>2. Kept /\ [Next]_<<which, AccountVars, HealVars, RegistryVars, KeyVars>> => Kept'
  <2>1. [Next]_<<which, AccountVars, HealVars, RegistryVars, KeyVars>> => [K!Next]_KeyVars
    BY DEF Next, K!Next
  <2> QED
    BY <2>1, StepKept
<1>3. Kept => KeysSound
  BY DEF Kept, KeyKept, KeysSound, CandidateHasSecret, OnlyRefusedDisabled,
     K!CandidateHasSecret, K!OnlyRefusedDisabled, K!Candidates, K!Taken
<1> QED
  BY <1>1, <1>2, <1>3, PTL DEF Spec

-----------------------------------------------------------------------------
(* Homes and logins. *)

Marks == A!Everyone \cup {Nothing, "absent", "missing"}
PartsOf == [cred : Marks, ident : Marks]
ProfileOf == [dir : BOOLEAN, kept : PartsOf, listed : BOOLEAN, home : PartsOf]
AskOf == [op : {"none", "login", "capture", "use", "run", "runAs"}, name : Profiles \cup {Nothing},
          at : {"idle", "boot", "seed", "strip", "signIn", "check", "readFirst", "readSecond",
                "list", "notLoggedIn", "useFirst", "useSecond", "isolate", "running", "runningAs"}
                 \cup A!OwnSteps,
          parts : PartsOf, cut : BOOLEAN]

\* Of an agent with its token in a file.  The token of the managed home is a login's or there
\* is none; one that a profile keeps, and one in its own home, was captured under its name.
Token(h) == h.cred \in A!Everyone \cup {Nothing, "absent"}
NoToken == {Nothing, "absent"}
Keeps(p, tokens) == /\ p.kept.cred # "missing" => p.kept.cred \in A!Everyone \cap tokens
                    /\ p.home.cred \in tokens \cup NoToken
OpensHome(q) == q.at \in {"boot", "seed", "strip"} => q.op \in {"login", "capture", "use", "run"}
\* Of a request that makes such a home ready: what it has read was captured, and what it has
\* written is there until the profile is removed.
OwnAsks(q, h, tokens) ==
    /\ q.at = "writeOwnFirst" => q.parts.cred \in tokens
    /\ q.at \in {"readOwnSecond", "writeOwnSecond", "start"} => q.cut \/ h.cred \in tokens
    /\ q.at = "runningAs" => q.parts.cred \in tokens \/ (q.cut /\ q.parts.cred \in NoToken)
Asks(q) == /\ q.at # "idle" => /\ q.name \in Profiles
                               /\ OwnAsks(q, profile[q.name].home, captured[q.name])
           /\ OpensHome(q)
           /\ q.at = "readFirst" => home.cred # "absent"
Named ==
    /\ kind \in {"split", "whole"}
    /\ home \in PartsOf /\ Token(home)
    /\ profile \in [Profiles -> ProfileOf] /\ request \in [Requests -> AskOf]
    /\ captured \in [Profiles -> SUBSET A!Everyone]
    /\ \A n \in Profiles : Keeps(profile[n], captured[n])
    /\ \A r \in Requests : Asks(request[r])
NamedIfInFile == kind # "pointer" => Named

LEMMA Constants ==
    /\ A!NoParts \in PartsOf /\ A!NoParts.cred = Nothing /\ A!Absent \in PartsOf /\ A!Absent.cred = "absent"
    /\ A!NoProfile \in ProfileOf /\ A!NoProfile.kept.cred = "missing" /\ A!NoProfile.home.cred = "absent"
    /\ A!Idle \in AskOf /\ A!Idle.at = "idle"
    /\ NoToken \cap A!Everyone = {} /\ Nothing # "absent" /\ "absent" \notin A!Everyone
    /\ \A c, i \in Marks : A!Parts(c, i) \in PartsOf /\ A!Parts(c, i).cred = c
<1>1. A!NoParts \in PartsOf /\ A!NoParts.cred = Nothing /\ A!Absent \in PartsOf /\ A!Absent.cred = "absent"
  BY DEF A!NoParts, A!Parts, A!Absent, PartsOf, Marks
<1>2. A!NoProfile \in ProfileOf /\ A!NoProfile.kept.cred = "missing" /\ A!NoProfile.home.cred = "absent"
  <2>1. A!Parts("missing", "missing") \in PartsOf /\ A!Parts("missing", "missing").cred = "missing"
    BY DEF A!Parts, PartsOf, Marks
  <2> QED
    BY <1>1, <2>1 DEF A!NoProfile, A!Missing, ProfileOf
<1>3. A!Idle \in AskOf /\ A!Idle.at = "idle"
  BY <1>1 DEF A!Idle, AskOf
<1>4. NoToken \cap A!Everyone = {} /\ Nothing # "absent" /\ "absent" \notin A!Everyone
  BY FilesAssumption DEF A!Everyone, NoToken
<1>5. \A c, i \in Marks : A!Parts(c, i) \in PartsOf /\ A!Parts(c, i).cred = c
  BY DEF A!Parts, PartsOf
<1> QED
  BY <1>1, <1>2, <1>3, <1>4, <1>5

LEMMA InitNamed == A!Init => NamedIfInFile
<1> SUFFICES ASSUME A!Init, kind # "pointer" PROVE Named
  BY DEF NamedIfInFile
<1>1. kind \in {"split", "whole"} /\ home = A!Absent
  BY DEF A!Init
<1>2. profile = [n \in Profiles |-> A!NoProfile] /\ request = [r \in Requests |-> A!Idle]
      /\ captured = [n \in Profiles |-> {}]
  BY DEF A!Init
<1>3. Keeps(A!NoProfile, {}) /\ Asks(A!Idle)
  BY Constants DEF Keeps, Asks, OpensHome, NoToken
<1> QED
  BY <1>1, <1>2, <1>3, Constants DEF Named, Token

\* A request goes on: no token that was captured is forgotten, and no home that is there
\* comes to be absent.
LEMMA RequestGoesOn ==
    ASSUME Named, NEW r \in Requests, NEW to \in AskOf, request' = [request EXCEPT ![r] = to],
           UNCHANGED kind,
           home' \in PartsOf, Token(home'), home.cred # "absent" => home'.cred # "absent",
           profile' \in [Profiles -> ProfileOf], captured' \in [Profiles -> SUBSET A!Everyone],
           \A n \in Profiles : captured[n] \subseteq captured'[n] /\ Keeps(profile'[n], captured'[n]),
           \A n \in Profiles : profile[n].home.cred \in captured[n] =>
                                  profile'[n].home.cred \in captured'[n],
           to.at # "idle" => /\ to.name \in Profiles
                             /\ OwnAsks(to, profile'[to.name].home, captured'[to.name]),
           OpensHome(to),
           to.at = "readFirst" => home'.cred # "absent"
    PROVE  Named'
<1>1. request' \in [Requests -> AskOf] /\ request'[r] = to /\ \A q \in Requests \ {r} : request'[q] = request[q]
  BY DEF Named
<1>2. ASSUME NEW q \in Requests PROVE Asks(request[q])'
  <2>1. CASE q = r
    BY <1>1, <2>1 DEF Asks
  <2>2. CASE q # r
    <3>1. Asks(request[q]) /\ request'[q] = request[q]
      BY <1>1, <2>2 DEF Named
    <3>2. request[q].at # "idle" =>
            OwnAsks(request[q], profile'[request[q].name].home, captured'[request[q].name])
      BY <3>1 DEF Asks, OwnAsks
    <3> QED
      BY <3>1, <3>2 DEF Asks
  <2> QED
    BY <2>1, <2>2
<1>3. (\A n \in Profiles : Keeps(profile[n], captured[n]))'
  BY DEF Keeps
<1>4. Token(home)' /\ kind' \in {"split", "whole"}
  BY DEF Token, Named
<1> QED
  BY <1>1, <1>2, <1>3, <1>4 DEF Named

\* What is overlaid on a home is its token.
LEMMA Overlaid ==
    ASSUME NEW h \in PartsOf, NEW p \in PartsOf
    PROVE  /\ A!Overlay(h, p) \in PartsOf
           /\ p.cred \in A!Everyone => A!Overlay(h, p).cred = p.cred
           /\ p.cred \notin A!Everyone => A!Overlay(h, p).cred = h.cred
<1> DEFINE c == IF p.cred \in A!Everyone THEN p.cred ELSE h.cred
           i == IF p.ident \in A!Everyone THEN p.ident ELSE h.ident
<1>1. c \in Marks /\ i \in Marks
  BY DEF PartsOf
<1>2. A!Overlay(h, p) = A!Parts(c, i)
  BY DEF A!Overlay
<1> HIDE DEF c, i
<1>3. A!Overlay(h, p) \in PartsOf /\ A!Overlay(h, p).cred = c
  BY <1>1, <1>2, Constants
<1> QED
  BY <1>3 DEF c

\* The steps of a request that leave the profiles as they are.
LEMMA HomeSteps ==
    ASSUME Named, NEW r \in Requests,
           \/ A!Begin(r) \/ A!Boot(r) \/ A!FillHome(r) \/ A!Strip(r) \/ A!SignIn(r)
           \/ A!Answered(r) \/ A!UseFirst(r) \/ A!UseSecond(r)
    PROVE  Named'
<1>0. /\ kind \in {"split", "whole"} /\ home \in PartsOf /\ Token(home)
      /\ request[r] \in AskOf /\ Asks(request[r])
      /\ UNCHANGED <<kind, profile, captured>>
  BY DEF Named, A!Begin, A!Boot, A!FillHome, A!Strip, A!SignIn, A!Answered, A!UseFirst, A!UseSecond
\* What the request becomes, once its home is shown to be one.
<1>1. ASSUME NEW to \in AskOf, request' = [request EXCEPT ![r] = to],
             to.at # "idle" => to.name \in Profiles, to.at \notin {"readFirst", "runningAs"} \cup A!OwnSteps,
             OpensHome(to),
             home' \in PartsOf, Token(home'), home.cred # "absent" => home'.cred # "absent"
      PROVE  Named'
  <2>1. /\ profile' \in [Profiles -> ProfileOf] /\ captured' \in [Profiles -> SUBSET A!Everyone]
        /\ \A n \in Profiles : captured[n] \subseteq captured'[n] /\ Keeps(profile'[n], captured'[n])
    BY <1>0 DEF Named
  <2>2. \A h, tokens : OwnAsks(to, h, tokens)
    BY <1>1 DEF OwnAsks, A!OwnSteps
  <2> QED
    BY <1>0, <1>1, <2>1, <2>2, RequestGoesOn
<1>2. ASSUME NEW at \in {"seed", "strip", "signIn", "check", "useFirst", "useSecond", "running"},
             A!Go(r, at), request[r].at # "idle",
             at \in {"seed", "strip"} => request[r].at \in {"boot", "seed"},
             home' \in PartsOf, Token(home'), home.cred # "absent" => home'.cred # "absent"
      PROVE  Named'
  <2> DEFINE to == [request[r] EXCEPT !.at = at]
  <2>1. to \in AskOf /\ to.at = at /\ to.name = request[r].name /\ to.op = request[r].op
    BY <1>0 DEF AskOf
  <2>2. request' = [request EXCEPT ![r] = to]
    BY <1>2 DEF A!Go
  <2> HIDE DEF to
  <2>3. OpensHome(to) /\ at \notin A!OwnSteps
    BY <1>0, <1>2, <2>1 DEF Asks, OpensHome, A!OwnSteps
  <2> QED
    BY <1>0, <1>1, <1>2, <2>1, <2>2, <2>3 DEF Asks
<1>3. ASSUME A!End(r), home' \in PartsOf, Token(home'), home.cred # "absent" => home'.cred # "absent"
      PROVE  Named'
  BY <1>1, <1>3, Constants DEF A!End, OpensHome, A!OwnSteps
<1>4. CASE A!Begin(r)
  <2>1. PICK op \in {"login", "capture", "use", "run", "runAs"}, n \in Profiles :
          request' = [request EXCEPT ![r] =
            [op |-> op, name |-> n, at |-> IF op = "runAs" THEN "isolate" ELSE "boot",
             parts |-> A!NoParts, cut |-> FALSE]]
    BY <1>4 DEF A!Begin
  <2> DEFINE to == [op |-> op, name |-> n, at |-> IF op = "runAs" THEN "isolate" ELSE "boot",
                    parts |-> A!NoParts, cut |-> FALSE]
  <2>2. /\ to \in AskOf /\ to.at \in {"isolate", "boot"} /\ to.name = n
        /\ to.op = op /\ (to.at = "boot" => op # "runAs")
    BY Constants DEF AskOf
  <2>3. request' = [request EXCEPT ![r] = to] /\ UNCHANGED home
    BY <1>4, <2>1 DEF A!Begin
  <2> HIDE DEF to
  <2>4. OpensHome(to) /\ to.at \notin A!OwnSteps
    BY <2>2 DEF OpensHome, A!OwnSteps
  <2> QED
    BY <1>0, <1>1, <2>2, <2>3, <2>4
<1>5. CASE A!Boot(r)
  <2>1. CASE home = A!Absent
    <3>1. home' = A!NoParts /\ A!Go(r, "seed") /\ request[r].at = "boot"
      BY <1>5, <2>1 DEF A!Boot
    <3> QED
      BY <1>2, <3>1, Constants DEF Token
  <2>2. CASE home # A!Absent
    <3>1. home' = home /\ A!Go(r, "strip") /\ request[r].at = "boot"
      BY <1>5, <2>2 DEF A!Boot
    <3> QED
      BY <1>0, <1>2, <3>1
  <2> QED
    BY <2>1, <2>2
<1>6. CASE A!FillHome(r)
  <2>1. home' = A!Overlay(home, A!Seed) /\ A!Go(r, "strip") /\ request[r].at = "seed"
    BY <1>6 DEF A!FillHome
  <2>2. A!Seed \in PartsOf
    <3>1. RealLogin \in Marks
      BY DEF Marks, A!Everyone
    <3> QED
      BY <1>0, <3>1, Constants DEF A!Seed
  <2>3. home' \in PartsOf /\ (home'.cred \in A!Everyone \/ home'.cred = home.cred)
    BY <1>0, <2>1, <2>2, Overlaid
  <2> QED
    BY <1>0, <1>2, <2>1, <2>3, Constants DEF Token
<1>7. CASE A!Strip(r)
  <2>1. home' = A!Stripped(home) /\ request[r].at = "strip"
    BY <1>7 DEF A!Strip
  <2>2. home' \in PartsOf /\ (home'.cred = Nothing \/ home'.cred = home.cred)
    <3>1. home' = [home EXCEPT !.cred = Nothing] \/ home' = home
      BY <1>0, <2>1 DEF A!Stripped
    <3> QED
      BY <1>0, <3>1 DEF PartsOf, Marks
  <2>3. Token(home') /\ (home.cred # "absent" => home'.cred # "absent")
    BY <1>0, <2>2, Constants DEF Token
  <2>4. request[r].op \in {"login", "capture", "use", "run"}
           => \E at \in {"signIn", "check", "useFirst", "running"} : A!Go(r, at)
    BY <1>7 DEF A!Strip
  <2>5. request[r].op \in {"login", "capture", "use", "run"}
    BY <1>0, <2>1 DEF Asks, OpensHome
  <2> QED
    BY <1>2, <2>1, <2>2, <2>3, <2>4, <2>5
<1>8. CASE A!SignIn(r)
  <2>1. PICK l \in Logins : home' = A!Parts(l, l)
    BY <1>0, <1>8 DEF A!SignIn
  <2>2. l \in A!Everyone /\ l \in Marks
    BY DEF A!Everyone, Marks
  <2>3. home' \in PartsOf /\ home'.cred \in A!Everyone
    BY <2>1, <2>2, Constants
  <2> DEFINE to == [op |-> "capture", name |-> request[r].name, at |-> "boot", parts |-> request[r].parts,
                    cut |-> request[r].cut]
  <2>4. /\ to \in AskOf /\ to.at = "boot" /\ to.name = request[r].name /\ to.op = "capture"
        /\ to.at \notin A!OwnSteps
    BY <1>0 DEF AskOf, A!OwnSteps
  <2>5. request' = [request EXCEPT ![r] = to] /\ request[r].at = "signIn"
    BY <1>8 DEF A!SignIn, A!Becomes
  <2> HIDE DEF to
  <2> QED
    BY <1>0, <1>1, <2>3, <2>4, <2>5, Constants DEF Token, Asks, OpensHome
<1>9. CASE A!Answered(r)
  <2>1. A!End(r) /\ UNCHANGED home
    BY <1>9 DEF A!Answered
  <2> QED
    BY <1>0, <1>3, <2>1
<1>10. CASE A!UseFirst(r)
  <2> DEFINE p == profile[request[r].name].kept
  <2>1. CASE A!End(r) /\ UNCHANGED home
    BY <1>0, <1>3, <2>1
  <2>2. CASE ~(A!End(r) /\ UNCHANGED home)
    <3>1. /\ p.cred # "missing" /\ A!Go(r, "useSecond") /\ request[r].at = "useFirst"
          /\ home' = [home EXCEPT !.cred = p.cred] \/ home' = p
      BY <1>0, <1>10, <2>2 DEF A!UseFirst, A!FirstThere, A!Missing
    <3>2. p \in PartsOf /\ p.cred \in A!Everyone
      BY <1>0, <3>1 DEF Asks, Named, Keeps, ProfileOf
    <3> HIDE DEF p
    <3>3. home' \in PartsOf /\ home'.cred = p.cred
      BY <1>0, <3>1, <3>2 DEF PartsOf
    <3> QED
      BY <1>2, <3>1, <3>2, <3>3, Constants DEF Token
  <2> QED
    BY <2>1, <2>2
<1>11. CASE A!UseSecond(r)
  <2> DEFINE p == profile[request[r].name].kept
             rest == [p EXCEPT !.cred = Nothing]
  <2>1. /\ request[r].at = "useSecond" /\ A!End(r)
        /\ home' = A!Overlay(home, rest) \/ home' = home
    BY <1>11 DEF A!UseSecond
  <2>2. p \in PartsOf
    BY <1>0, <2>1 DEF Asks, Named, ProfileOf
  <2>3. rest \in PartsOf
    <3> HIDE DEF p
    <3> QED
      BY <2>2 DEF PartsOf, Marks
  <2> HIDE DEF rest
  <2>4. home' \in PartsOf /\ (home'.cred \in A!Everyone \/ home'.cred = home.cred)
    BY <1>0, <2>1, <2>3, Overlaid
  <2> QED
    BY <1>0, <1>3, <2>1, <2>4, Constants DEF Token
<1> QED
  BY <1>4, <1>5, <1>6, <1>7, <1>8, <1>9, <1>10, <1>11

\* A profile comes to hold what was captured under its name.
LEMMA ProfileGoesOn ==
    ASSUME Named, NEW r \in Requests, NEW n \in Profiles, NEW p \in ProfileOf,
           NEW tokens \in SUBSET A!Everyone,
           profile' = [profile EXCEPT ![n] = p], captured' = [captured EXCEPT ![n] = @ \cup tokens],
           Keeps(p, captured[n] \cup tokens), p.home = profile[n].home,
           NEW to \in AskOf, request' = [request EXCEPT ![r] = to], UNCHANGED <<kind, home>>,
           to.at # "idle" => to.name \in Profiles, OpensHome(to),
           to.at = "readFirst" => home.cred # "absent",
           to.at \notin {"runningAs"} \cup A!OwnSteps
    PROVE  Named'
<1>1. /\ profile \in [Profiles -> ProfileOf] /\ captured \in [Profiles -> SUBSET A!Everyone]
      /\ home \in PartsOf /\ Token(home)
      /\ \A m \in Profiles : Keeps(profile[m], captured[m])
  BY DEF Named
<1>2. captured[n] \cup tokens \in SUBSET A!Everyone
  BY <1>1
<1>3. /\ profile' \in [Profiles -> ProfileOf] /\ captured' \in [Profiles -> SUBSET A!Everyone]
      /\ profile'[n] = p /\ captured'[n] = captured[n] \cup tokens
      /\ \A m \in Profiles \ {n} : profile'[m] = profile[m] /\ captured'[m] = captured[m]
  BY <1>1, <1>2
<1>4. \A m \in Profiles : captured[m] \subseteq captured'[m] /\ Keeps(profile'[m], captured'[m])
  BY <1>1, <1>3
<1>5. \A h, kept : OwnAsks(to, h, kept)
  BY DEF OwnAsks, A!OwnSteps
<1>6. home' \in PartsOf /\ Token(home') /\ UNCHANGED kind /\ home' = home
  BY <1>1
<1>7. \A m \in Profiles : profile'[m].home = profile[m].home /\ captured[m] \subseteq captured'[m]
  BY <1>1, <1>3
<1> QED
  BY <1>3, <1>4, <1>5, <1>6, <1>7, RequestGoesOn

\* The steps of a request that change a profile.
LEMMA ProfileSteps ==
    ASSUME Named, NEW r \in Requests,
           A!Check(r) \/ A!CaptureFirst(r) \/ A!CaptureSecond(r) \/ A!List(r)
    PROVE  Named'
<1> DEFINE n == request[r].name
           p == profile[n]
<1>1. /\ kind \in {"split", "whole"} /\ home \in PartsOf /\ Token(home)
      /\ request[r] \in AskOf /\ Asks(request[r])
      /\ profile \in [Profiles -> ProfileOf] /\ captured \in [Profiles -> SUBSET A!Everyone]
      /\ UNCHANGED <<kind, home>>
  BY DEF Named, A!Check, A!CaptureFirst, A!CaptureSecond, A!List
<1>2. n \in Profiles
  BY <1>1 DEF A!Check, A!CaptureFirst, A!CaptureSecond, A!List, Asks
<1>3. /\ p \in ProfileOf /\ p.kept \in PartsOf /\ p.home \in PartsOf
      /\ p.listed \in BOOLEAN /\ Keeps(p, captured[n])
  BY <1>1, <1>2 DEF Named, ProfileOf
<1> HIDE DEF n, p
\* Nothing more is captured.
<1>4. ASSUME NEW q \in ProfileOf, q.kept.cred = p.kept.cred, q.home = p.home,
             profile' = [profile EXCEPT ![n] = q],
             UNCHANGED captured, NEW to \in AskOf, request' = [request EXCEPT ![r] = to],
             to.at # "idle" => to.name \in Profiles, OpensHome(to),
             to.at = "readFirst" => home.cred # "absent",
             to.at \notin {"runningAs"} \cup A!OwnSteps
      PROVE  Named'
  <2>1. captured' = [captured EXCEPT ![n] = @ \cup {}] /\ {} \in SUBSET A!Everyone
    BY <1>1, <1>4
  <2>2. Keeps(q, captured[n] \cup {})
    BY <1>3, <1>4 DEF Keeps
  <2>3. q.home = profile[n].home
    BY <1>4 DEF p
  <2> QED
    BY <1>1, <1>2, <1>4, <2>1, <2>2, <2>3, ProfileGoesOn
<1>5. ASSUME NEW at \in {"readFirst", "notLoggedIn", "list"}, A!Go(r, at),
             NEW q \in ProfileOf, q.kept.cred = p.kept.cred, q.home = p.home,
             profile' = [profile EXCEPT ![n] = q],
             UNCHANGED captured, at = "readFirst" => home.cred # "absent"
      PROVE  Named'
  <2> DEFINE to == [request[r] EXCEPT !.at = at]
  <2>1. to \in AskOf /\ to.at = at /\ to.name = n
    BY <1>1 DEF AskOf, n
  <2>2. request' = [request EXCEPT ![r] = to]
    BY <1>5 DEF A!Go
  <2> HIDE DEF to
  <2>3. OpensHome(to) /\ to.at \notin {"runningAs"} \cup A!OwnSteps
    BY <2>1 DEF OpensHome, A!OwnSteps
  <2> QED
    BY <1>2, <1>4, <1>5, <2>1, <2>2, <2>3
<1>6. ASSUME A!End(r), NEW q \in ProfileOf, q.kept.cred = p.kept.cred, q.home = p.home,
             profile' = [profile EXCEPT ![n] = q], UNCHANGED captured
      PROVE  Named'
  BY <1>4, <1>6, Constants DEF A!End, OpensHome, A!OwnSteps
<1>7. ASSUME UNCHANGED profile PROVE profile' = [profile EXCEPT ![n] = p]
  BY <1>1, <1>2, <1>7 DEF p
<1>8. CASE A!Check(r)
  <2> DEFINE q == [p EXCEPT !.dir = TRUE]
             at == IF A!Live(home) THEN "readFirst" ELSE "notLoggedIn"
  <2>1. q \in ProfileOf /\ q.kept.cred = p.kept.cred /\ q.home = p.home
    BY <1>3 DEF ProfileOf
  <2>2. profile' = [profile EXCEPT ![n] = q] /\ A!Go(r, at) /\ UNCHANGED captured
    BY <1>8 DEF A!Check, n, p
  <2>3. A!Live(home) => home.cred # "absent"
    BY <1>1, Constants DEF A!Live, A!Token
  <2>4. at \in {"readFirst", "notLoggedIn"} /\ (at = "readFirst" => home.cred # "absent")
    BY <2>3
  <2> HIDE DEF q, at
  <2> QED
    BY <1>5, <2>1, <2>2, <2>4
<1>9. CASE A!CaptureFirst(r)
  <2>1. kind # "pointer" /\ request[r].at = "readFirst"
    BY <1>1, <1>9 DEF A!CaptureFirst
  <2>2. CASE home.cred = Nothing
    <3>1. A!End(r) /\ UNCHANGED <<profile, captured>>
      BY <1>9, <2>1, <2>2 DEF A!CaptureFirst
    <3> QED
      BY <1>3, <1>6, <1>7, <3>1
  <2>3. CASE home.cred # Nothing
    <3> DEFINE part == home.cred
               kept == IF kind = "split" THEN A!Parts(part, p.kept.ident) ELSE A!Parts(part, part)
               q == [dir |-> TRUE, kept |-> kept, listed |-> p.listed, home |-> p.home]
               parts == A!Parts(request[r].parts.cred, part)
               to == [op |-> request[r].op, name |-> n, at |-> "readSecond", parts |-> parts,
                      cut |-> request[r].cut]
    <3>1. /\ request' = [request EXCEPT ![r] = to]
          /\ profile' = [profile EXCEPT ![n] = q]
          /\ captured' = [captured EXCEPT ![n] = @ \cup {part}]
      BY <1>1, <1>9, <2>1, <2>3 DEF A!CaptureFirst, A!Becomes, A!Captures, n, p
    <3>2. part \in A!Everyone /\ part \in Marks
      BY <1>1, <2>1, <2>3 DEF Asks, Token, Marks
    <3>3. request[r].parts.cred \in Marks /\ p.kept.ident \in Marks
      BY <1>1, <1>3 DEF AskOf, PartsOf
    <3> HIDE DEF part
    <3>4. kept \in PartsOf /\ kept.cred = part /\ parts \in PartsOf
      BY <3>2, <3>3, Constants
    <3> HIDE DEF kept, parts
    <3>5. q \in ProfileOf /\ q.kept = kept /\ q.home = p.home
      BY <1>3, <3>4 DEF ProfileOf
    <3>6. to \in AskOf /\ to.at = "readSecond" /\ to.name = n
      BY <1>1, <1>2, <3>4 DEF AskOf
    <3> HIDE DEF q, to
    <3>7. Keeps(q, captured[n] \cup {part}) /\ {part} \in SUBSET A!Everyone /\ OpensHome(to)
      BY <1>3, <3>2, <3>4, <3>5, <3>6 DEF Keeps, OpensHome
    <3>8. to.at \notin {"runningAs"} \cup A!OwnSteps /\ q.home = profile[n].home
      BY <3>5, <3>6 DEF A!OwnSteps, p
    <3> QED
      BY <1>1, <1>2, <3>1, <3>5, <3>6, <3>7, <3>8, ProfileGoesOn
  <2> QED
    BY <2>2, <2>3
<1>10. CASE A!CaptureSecond(r)
  <2> DEFINE kept == IF kind = "split" THEN A!Parts(p.kept.cred, home.ident) ELSE p.kept
             q == [dir |-> TRUE, kept |-> kept, listed |-> p.listed, home |-> p.home]
  <2>1. /\ A!Go(r, "list") /\ profile' = [profile EXCEPT ![n] = q]
        /\ captured' = [captured EXCEPT ![n] = @ \cup {}]
    BY <1>1, <1>10 DEF A!CaptureSecond, A!Captures, n, p
  <2>2. p.kept.cred \in Marks /\ home.ident \in Marks
    BY <1>1, <1>3 DEF PartsOf
  <2>3. kept \in PartsOf /\ kept.cred = p.kept.cred
    BY <1>3, <2>2, Constants
  <2> HIDE DEF kept
  <2>4. q \in ProfileOf /\ q.kept.cred = p.kept.cred /\ q.home = p.home
    BY <1>3, <2>3 DEF ProfileOf
  <2> HIDE DEF q
  <2>5. UNCHANGED captured
    BY <1>1, <2>1
  <2> QED
    BY <1>5, <2>1, <2>4, <2>5
<1>11. CASE A!List(r)
  <2> DEFINE q == [p EXCEPT !.listed = p.dir]
  <2>1. q \in ProfileOf /\ q.kept.cred = p.kept.cred /\ q.home = p.home
    BY <1>3 DEF ProfileOf
  <2>2. profile' = [profile EXCEPT ![n] = q] /\ A!End(r) /\ UNCHANGED captured
    BY <1>11 DEF A!List, n, p
  <2> HIDE DEF q
  <2> QED
    BY <1>6, <2>1, <2>2
<1> QED
  BY <1>8, <1>9, <1>10, <1>11

\* A request that makes the home of an account ready goes on, and writes to that home what
\* was captured or nothing.
LEMMA OwnGoesOn ==
    ASSUME Named, NEW r \in Requests, request[r].at # "idle",
           NEW h \in PartsOf,
           LET own == profile[request[r].name].home
               tokens == captured[request[r].name] IN
           /\ h.cred \in tokens \cup NoToken /\ (own.cred \in tokens => h.cred \in tokens)
           /\ A!OwnBecomes(r, h) \/ (h = own /\ UNCHANGED profile),
           UNCHANGED <<kind, home, captured>>,
           NEW to \in AskOf, request' = [request EXCEPT ![r] = to],
           to.at # "idle" => /\ to.name = request[r].name
                             /\ OwnAsks(to, h, captured[to.name]),
           to.at \notin {"boot", "seed", "strip", "readFirst"}
    PROVE  Named'
<1> DEFINE n == request[r].name
           q == [dir |-> TRUE, kept |-> profile[n].kept, listed |-> profile[n].listed, home |-> h]
<1>1. /\ profile \in [Profiles -> ProfileOf] /\ captured \in [Profiles -> SUBSET A!Everyone]
      /\ n \in Profiles /\ home \in PartsOf /\ Token(home)
      /\ \A m \in Profiles : Keeps(profile[m], captured[m])
  BY DEF Named, Asks
<1>2. profile[n] \in ProfileOf /\ profile[n].home \in PartsOf
  BY <1>1 DEF ProfileOf
<1>3. q \in ProfileOf /\ q.home = h /\ q.kept = profile[n].kept
  BY <1>2 DEF ProfileOf
<1>4. profile' = [profile EXCEPT ![n] = q] \/ (h = profile[n].home /\ UNCHANGED profile)
  BY DEF A!OwnBecomes
<1> HIDE DEF q
<1>5. /\ profile' \in [Profiles -> ProfileOf] /\ profile'[n].home = h
      /\ profile'[n].kept = profile[n].kept
      /\ \A m \in Profiles \ {n} : profile'[m] = profile[m]
  BY <1>1, <1>3, <1>4
<1>6. \A m \in Profiles : Keeps(profile'[m], captured[m])
  BY <1>1, <1>5 DEF Keeps
<1>7. OpensHome(to)
  BY DEF OpensHome
<1> QED
  BY <1>1, <1>5, <1>6, <1>7, RequestGoesOn

\* The request as it is, but for where it is.
LEMMA OnlyAt ==
    ASSUME NEW q \in AskOf, NEW at \in A!OwnSteps \cup {"runningAs"}
    PROVE  LET to == [q EXCEPT !.at = at] IN
           /\ to \in AskOf /\ to.at = at /\ to.name = q.name
           /\ to.parts = q.parts /\ to.cut = q.cut
  BY DEF AskOf

\* The steps that make the home of an account ready.
LEMMA HomesOfAccounts ==
    ASSUME Named, NEW r \in Requests,
           \/ A!Isolate(r) \/ A!MakeOwn(r) \/ A!Config(r) \/ A!CopyConfig(r)
           \/ A!ReadOwnFirst(r) \/ A!WriteOwnFirst(r) \/ A!ReadOwnSecond(r)
           \/ A!WriteOwnSecond(r) \/ A!Start(r)
    PROVE  Named'
<1> DEFINE n == request[r].name
           own == profile[n].home
           kept == profile[n].kept
           parts == request[r].parts
           tokens == captured[n]
<1>1. /\ kind \in {"split", "whole"} /\ request[r] \in AskOf /\ Asks(request[r])
      /\ UNCHANGED <<kind, home, captured>> /\ request[r].at # "idle"
  BY DEF Named, A!OnlyOwn, A!Isolate, A!MakeOwn, A!Config, A!CopyConfig, A!ReadOwnFirst,
     A!WriteOwnFirst, A!ReadOwnSecond, A!WriteOwnSecond, A!Start
<1>2. /\ n \in Profiles /\ profile[n] \in ProfileOf /\ own \in PartsOf /\ kept \in PartsOf
      /\ parts \in PartsOf /\ Keeps(profile[n], tokens) /\ OwnAsks(request[r], own, tokens)
      /\ own.cred \in tokens \cup NoToken
  BY <1>1 DEF Named, ProfileOf, AskOf, Asks, Keeps
\* The request ends, the home as it is or written.
<1>3. ASSUME A!End(r), UNCHANGED profile PROVE Named'
  <2>1. request' = [request EXCEPT ![r] = A!Idle] /\ A!Idle.at = "idle" /\ A!Idle \in AskOf
    BY <1>3, Constants DEF A!End
  <2> QED
    BY <1>1, <1>2, <1>3, <2>1, OwnGoesOn
\* The request goes on with what it has.
<1>4. ASSUME NEW at \in A!OwnSteps, A!Go(r, at),
             NEW h \in PartsOf, h.cred \in tokens \cup NoToken, own.cred \in tokens => h.cred \in tokens,
             A!OwnBecomes(r, h) \/ (h = own /\ UNCHANGED profile),
             OwnAsks([request[r] EXCEPT !.at = at], h, tokens)
      PROVE  Named'
  <2> DEFINE to == [request[r] EXCEPT !.at = at]
  <2>1. to \in AskOf /\ to.at = at /\ to.name = n
    BY <1>1, OnlyAt
  <2>2. request' = [request EXCEPT ![r] = to] /\ OwnAsks(to, h, captured[to.name])
    BY <1>4, <2>1 DEF A!Go
  <2>3. to.at \notin {"idle", "boot", "seed", "strip", "readFirst"}
    BY <2>1 DEF A!OwnSteps
  <2> HIDE DEF to
  <2> QED
    BY <1>1, <1>4, <2>1, <2>2, <2>3, OwnGoesOn
\* The request goes on with more.
<1>5. ASSUME NEW at \in A!OwnSteps \cup {"runningAs"}, NEW p \in PartsOf,
             A!Becomes(r, request[r].op, at, p), UNCHANGED profile,
             \A q : q.at = at /\ q.parts = p /\ q.cut = request[r].cut => OwnAsks(q, own, tokens)
      PROVE  Named'
  <2> DEFINE to == [op |-> request[r].op, name |-> n, at |-> at, parts |-> p, cut |-> request[r].cut]
  <2>1. /\ to \in AskOf /\ to.at = at /\ to.name = n /\ to.parts = p /\ to.cut = request[r].cut
        /\ request' = [request EXCEPT ![r] = to]
    BY <1>1, <1>5 DEF AskOf, A!Becomes
  <2> HIDE DEF to
  <2>2. OwnAsks(to, own, captured[to.name])
    BY <1>5, <2>1
  <2>3. to.at \notin {"idle", "boot", "seed", "strip", "readFirst"}
    BY <2>1 DEF A!OwnSteps
  <2> QED
    BY <1>1, <1>2, <1>5, <2>1, <2>2, <2>3, OwnGoesOn
\* Where the request has not written yet, nothing is asked of it but what it has read.
<1>6. ASSUME NEW at \in {"make", "config", "copy", "readOwnFirst"}, NEW h
      PROVE  at \in A!OwnSteps /\ OwnAsks([request[r] EXCEPT !.at = at], h, tokens)
  <2>1. at \in A!OwnSteps
    BY DEF A!OwnSteps
  <2>2. [request[r] EXCEPT !.at = at].at = at
    BY <1>1, <2>1, OnlyAt
  <2> QED
    BY <2>1, <2>2 DEF OwnAsks
\* After that it is there, or the profile has been removed.
<1>7. ASSUME NEW at \in {"readOwnSecond", "start"}, NEW h, request[r].cut \/ h.cred \in tokens
      PROVE  at \in A!OwnSteps /\ OwnAsks([request[r] EXCEPT !.at = at], h, tokens)
  <2>1. at \in A!OwnSteps
    BY DEF A!OwnSteps
  <2>2. [request[r] EXCEPT !.at = at].at = at /\ [request[r] EXCEPT !.at = at].cut = request[r].cut
    BY <1>1, <2>1, OnlyAt
  <2> QED
    BY <1>7, <2>1, <2>2 DEF OwnAsks
<1>8. A!Own(r) = own /\ own.cred \in Marks /\ own.ident \in Marks
  BY <1>2 DEF A!Own, PartsOf
<1>9. A!MakeDir(own) \in PartsOf /\ A!MakeDir(own).cred \in {own.cred, Nothing}
      /\ (own.cred \in tokens => A!MakeDir(own).cred \in tokens)
  <2>1. own = A!Absent => own.cred = "absent" /\ own.cred \notin tokens
    BY <1>1, <1>2, Constants DEF Named
  <2> QED
    BY <1>2, <2>1, Constants DEF A!MakeDir
<1> HIDE DEF n, own, kept, parts, tokens
<1>10. CASE A!Isolate(r)
  BY <1>1, <1>2, <1>3, <1>4, <1>6, <1>10 DEF A!Isolate
<1>11. CASE A!MakeOwn(r)
  <2>1. PICK at \in {"readOwnFirst", "config"} : A!Go(r, at) /\ A!OwnBecomes(r, A!MakeDir(own))
    BY <1>8, <1>11 DEF A!MakeOwn
  <2>2. A!MakeDir(own).cred \in tokens \cup NoToken
    BY <1>2, <1>9 DEF NoToken
  <2> QED
    BY <1>4, <1>6, <1>9, <2>1, <2>2
<1>12. CASE A!Config(r)
  <2>1. PICK at \in {"copy", "readOwnFirst"} : A!Go(r, at) /\ UNCHANGED profile
    BY <1>12 DEF A!Config
  <2> QED
    BY <1>2, <1>4, <1>6, <2>1
<1>13. CASE A!CopyConfig(r)
  <2>1. CASE own = A!Absent
    BY <1>3, <1>8, <1>13, <2>1 DEF A!CopyConfig
  <2>2. CASE own # A!Absent
    <3> DEFINE h == [own EXCEPT !.ident = RealLogin]
    <3>1. A!OwnBecomes(r, h) /\ A!Go(r, "readOwnFirst")
      BY <1>8, <1>13, <2>2 DEF A!CopyConfig
    <3>2. h \in PartsOf /\ h.cred = own.cred
      BY <1>2 DEF PartsOf, Marks, A!Everyone
    <3> HIDE DEF h
    <3> QED
      BY <1>2, <1>4, <1>6, <3>1, <3>2
  <2> QED
    BY <2>1, <2>2
<1>14. CASE A!ReadOwnFirst(r)
  <2> DEFINE p == A!Overlay(parts, A!Parts(kept.cred, Nothing))
  <2>1. CASE ~A!FirstKept(kept)
    BY <1>3, <1>14, <2>1 DEF A!ReadOwnFirst, kept, n
  <2>2. CASE A!FirstKept(kept)
    <3>1. kept.cred # "missing" /\ A!Becomes(r, request[r].op, "writeOwnFirst", p)
      BY <1>1, <1>14, <2>2 DEF A!ReadOwnFirst, A!FirstKept, A!FirstThere, A!Missing, A!Reads, kept, n, parts
    <3>2. kept.cred \in A!Everyone /\ kept.cred \in tokens /\ kept.cred \in Marks /\ Nothing \in Marks
      BY <1>2, <3>1 DEF Keeps, kept, Marks
    <3>3. A!Parts(kept.cred, Nothing) \in PartsOf /\ A!Parts(kept.cred, Nothing).cred = kept.cred
      BY <3>2, Constants
    <3>4. p \in PartsOf /\ p.cred \in tokens
      BY <1>2, <3>2, <3>3, Overlaid
    <3> HIDE DEF p
    <3>5. \A q : q.at = "writeOwnFirst" /\ q.parts = p => OwnAsks(q, own, tokens)
      BY <3>4 DEF OwnAsks
    <3> QED
      BY <1>5, <1>14, <3>1, <3>4, <3>5 DEF A!ReadOwnFirst, A!OwnSteps
  <2> QED
    BY <2>1, <2>2
<1>15. CASE A!WriteOwnFirst(r)
  <2> DEFINE h == IF kind = "split" THEN [A!MakeDir(own) EXCEPT !.cred = parts.cred]
                  ELSE A!Parts(parts.cred, parts.cred)
  <2>1. PICK at \in {"start", "readOwnSecond"} : A!OwnBecomes(r, h) /\ A!Go(r, at)
    BY <1>1, <1>8, <1>15 DEF A!WriteOwnFirst, parts
  <2>2. parts.cred \in tokens /\ parts.cred \in Marks
    BY <1>2, <1>15 DEF A!WriteOwnFirst, OwnAsks, parts, PartsOf
  <2>3. h \in PartsOf /\ h.cred = parts.cred
    <3>1. [A!MakeDir(own) EXCEPT !.cred = parts.cred] \in PartsOf
          /\ [A!MakeDir(own) EXCEPT !.cred = parts.cred].cred = parts.cred
      BY <1>9, <2>2 DEF PartsOf
    <3> QED
      BY <2>2, <3>1, Constants
  <2> HIDE DEF h
  <2> QED
    BY <1>4, <1>7, <2>1, <2>2, <2>3
<1>16. CASE A!ReadOwnSecond(r)
  <2> DEFINE p == A!Overlay(parts, A!Parts(Nothing, kept.ident))
  <2>1. CASE ~(kept.cred # "missing" /\ kept.ident # "missing")
    BY <1>3, <1>16, <2>1 DEF A!ReadOwnSecond, A!Missing, kept, n
  <2>2. CASE kept.cred # "missing" /\ kept.ident # "missing"
    <3>1. A!Becomes(r, request[r].op, "writeOwnSecond", p) /\ UNCHANGED profile
      BY <1>1, <1>16, <2>2 DEF A!ReadOwnSecond, A!Missing, A!Reads, kept, n, parts
    <3>2. request[r].cut \/ own.cred \in tokens
      BY <1>2, <1>16 DEF A!ReadOwnSecond, OwnAsks
    <3>3. A!Parts(Nothing, kept.ident) \in PartsOf
      BY <1>2, Constants DEF PartsOf, Marks
    <3>4. p \in PartsOf
      BY <1>2, <3>3, Overlaid
    <3> HIDE DEF p
    <3>5. \A q : q.at = "writeOwnSecond" /\ q.parts = p /\ q.cut = request[r].cut => OwnAsks(q, own, tokens)
      BY <3>2 DEF OwnAsks
    <3> QED
      BY <1>5, <3>1, <3>4, <3>5 DEF A!OwnSteps
  <2> QED
    BY <2>1, <2>2
<1>17. CASE A!WriteOwnSecond(r)
  <2> DEFINE rest == A!Parts(Nothing, parts.ident)
             h == A!Overlay(own, rest)
  <2>1. request[r].cut \/ own.cred \in tokens
    BY <1>2, <1>17 DEF A!WriteOwnSecond, OwnAsks
  <2>2. CASE kind = "split" /\ own = A!Absent
    BY <1>3, <1>8, <1>17, <2>2 DEF A!WriteOwnSecond
  <2>3. CASE ~(kind = "split" /\ own = A!Absent)
    <3>1. A!OwnBecomes(r, h) /\ A!Go(r, "start")
      BY <1>1, <1>8, <1>17, <2>3 DEF A!WriteOwnSecond, parts
    <3>2. rest \in PartsOf /\ rest.cred = Nothing /\ Nothing \notin A!Everyone
      BY <1>2, Constants DEF PartsOf, Marks, NoToken
    <3> HIDE DEF rest
    <3>3. h \in PartsOf /\ h.cred = own.cred
      BY <1>2, <3>2, Overlaid
    <3> HIDE DEF h
    <3> QED
      BY <1>2, <1>4, <1>7, <2>1, <3>1, <3>3
  <2> QED
    BY <2>2, <2>3
<1>18. CASE A!Start(r)
  <2>1. A!Becomes(r, request[r].op, "runningAs", own) /\ UNCHANGED profile
    BY <1>8, <1>18 DEF A!Start
  <2>2. request[r].cut \/ own.cred \in tokens
    BY <1>2, <1>18 DEF A!Start, OwnAsks
  <2>3. \A q : q.at = "runningAs" /\ q.parts = own /\ q.cut = request[r].cut => OwnAsks(q, own, tokens)
    BY <1>2, <2>2 DEF OwnAsks
  <2> QED
    BY <1>2, <1>5, <2>1, <2>3
<1> QED
  BY <1>10, <1>11, <1>12, <1>13, <1>14, <1>15, <1>16, <1>17, <1>18

LEMMA StepNamed ==
    ASSUME NamedIfInFile, [A!Next]_AccountVars
    PROVE  NamedIfInFile'
<1> SUFFICES ASSUME kind' # "pointer" PROVE Named'
  BY DEF NamedIfInFile
<1>1. UNCHANGED kind
  BY DEF AccountVars, A!Next, A!OnlyOwn, A!Isolate, A!MakeOwn, A!Config, A!CopyConfig,
     A!ReadOwnFirst, A!WriteOwnFirst, A!ReadOwnSecond, A!WriteOwnSecond, A!Start, A!Begin, A!Boot,
     A!FillHome, A!Strip, A!SignIn, A!Check, A!CaptureFirst, A!CaptureSecond, A!List, A!Answered, A!UseFirst, A!UseSecond,
     A!Remove, A!Crash
<1>2. Named
  BY <1>1 DEF NamedIfInFile
<1>3. ASSUME NEW r \in Requests,
             \/ A!Begin(r) \/ A!Boot(r) \/ A!FillHome(r) \/ A!Strip(r) \/ A!SignIn(r)
             \/ A!Answered(r) \/ A!UseFirst(r) \/ A!UseSecond(r)
      PROVE  Named'
  BY <1>2, <1>3, HomeSteps
<1>4. ASSUME NEW r \in Requests,
             A!Check(r) \/ A!CaptureFirst(r) \/ A!CaptureSecond(r) \/ A!List(r)
      PROVE  Named'
  BY <1>2, <1>4, ProfileSteps
<1>8. ASSUME NEW r \in Requests,
             \/ A!Isolate(r) \/ A!MakeOwn(r) \/ A!Config(r) \/ A!CopyConfig(r)
             \/ A!ReadOwnFirst(r) \/ A!WriteOwnFirst(r) \/ A!ReadOwnSecond(r)
             \/ A!WriteOwnSecond(r) \/ A!Start(r)
      PROVE  Named'
  BY <1>2, <1>8, HomesOfAccounts
<1>5. ASSUME NEW n \in Profiles, A!Remove(n) PROVE Named'
  <2>1. /\ profile' = [profile EXCEPT ![n] = A!NoProfile] /\ UNCHANGED <<kind, home, captured>>
        /\ request' = [r \in Requests |-> IF request[r].name = n /\ request[r].at \in A!OwnSteps
                                        THEN [request[r] EXCEPT !.cut = TRUE] ELSE request[r]]
    BY <1>5 DEF A!Remove, A!OnlyOwn
  <2>2. Keeps(A!NoProfile, captured[n])
    BY Constants DEF Keeps, NoToken
  <2>3. /\ profile' \in [Profiles -> ProfileOf] /\ profile'[n] = A!NoProfile
        /\ \A m \in Profiles \ {n} : profile'[m] = profile[m]
    BY <1>2, <2>1, Constants DEF Named
  <2>4. \A m \in Profiles : Keeps(profile'[m], captured[m])
    BY <1>2, <2>2, <2>3 DEF Named
  <2>5. ASSUME NEW r \in Requests PROVE request'[r] \in AskOf /\ Asks(request[r])'
    <3> DEFINE q == request[r]
    <3>1. q \in AskOf /\ Asks(q)
      BY <1>2 DEF Named
    <3>2. CASE q.name = n /\ q.at \in A!OwnSteps
      <4>1. /\ request'[r] \in AskOf /\ request'[r].cut /\ request'[r].at = q.at /\ request'[r].op = q.op
            /\ request'[r].name = q.name /\ request'[r].parts = q.parts
        BY <2>1, <3>1, <3>2 DEF AskOf
      <4>2. \A h : OwnAsks(request'[r], h, captured[q.name])
        BY <3>1, <3>2, <4>1 DEF Asks, OwnAsks, A!OwnSteps
      <4> QED
        BY <2>1, <3>1, <3>2, <4>1, <4>2 DEF Asks, OpensHome, A!OwnSteps
    <3>3. CASE ~(q.name = n /\ q.at \in A!OwnSteps)
      <4>1. request'[r] = q
        BY <2>1, <3>3
      <4>2. q.at \notin A!OwnSteps \/ q.at = "idle" \/ profile'[q.name] = profile[q.name]
        BY <2>3, <3>1, <3>3 DEF Asks
      <4>3. q.at # "idle" => OwnAsks(q, profile'[q.name].home, captured[q.name])
        BY <3>1, <4>2 DEF Asks, OwnAsks, A!OwnSteps
      <4> QED
        BY <2>1, <3>1, <4>1, <4>3 DEF Asks
    <3> QED
      BY <3>2, <3>3
  <2>6. request' \in [Requests -> AskOf]
    BY <2>1, <2>5
  <2> QED
    BY <1>2, <2>1, <2>3, <2>4, <2>5, <2>6 DEF Named, Token
<1>6. CASE A!Crash
  <2>1. request' = [r \in Requests |-> A!Idle] /\ UNCHANGED <<kind, home, profile, captured>>
    BY <1>6 DEF A!Crash
  <2> QED
    BY <1>2, <2>1, Constants DEF Named, Token, Keeps, Asks, OpensHome
<1>7. CASE UNCHANGED AccountVars
  BY <1>2, <1>7 DEF AccountVars, Named, Token, Keeps, Asks
<1> QED
  BY <1>3, <1>4, <1>5, <1>6, <1>7, <1>8 DEF A!Next

\* For any number of accounts and requests: an agent that keeps its token in a file and runs as
\* a named account was started with a token captured under that name, whatever captures,
\* removals, switches, other runs and crashes come between the file operations that make its
\* home ready (account.rs:541-645); never with another's or the real home's, and with none only
\* where the account was removed meanwhile.
THEOREM RunsUnderItsName == Spec => []RunsAsNamed
<1>1. Init => NamedIfInFile
  <2>1. Init => A!Init
    BY DEF Init
  <2> QED
    BY <2>1, InitNamed
<1>2. NamedIfInFile /\ [Next]_<<which, AccountVars, HealVars, RegistryVars, KeyVars>> => NamedIfInFile'
  <2>1. [Next]_<<which, AccountVars, HealVars, RegistryVars, KeyVars>> => [A!Next]_AccountVars
    BY DEF Next
  <2> QED
    BY <2>1, StepNamed
<1>3. NamedIfInFile => RunsAsNamed
  <2> SUFFICES ASSUME NamedIfInFile, kind # "pointer", NEW r \in Requests, request[r].at = "runningAs"
               PROVE  \/ A!Token(request[r].parts) \in captured[request[r].name]
                      \/ request[r].cut /\ ~A!Live(request[r].parts)
    BY DEF RunsAsNamed, A!RunsAsNamed
  <2>1. OwnAsks(request[r], profile[request[r].name].home, captured[request[r].name])
    BY DEF NamedIfInFile, Named, Asks
  <2>2. A!Token(request[r].parts) = request[r].parts.cred
    BY DEF A!Token
  <2> QED
    BY <2>1, <2>2, Constants DEF OwnAsks, A!Live
<1> QED
  BY <1>1, <1>2, <1>3, PTL DEF Spec

=============================================================================
