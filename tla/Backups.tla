---------------------------------- MODULE Backups ----------------------------------
(***************************************************************************)
(* `single backup` (single-core/src/backup.rs, run_backup_command of main.rs): the      *)
(* files under SingleCLI's directory and the secrets of the system's keychain, in one     *)
(* encrypted archive, and back.  Both run in the command's own process, beside a daemon     *)
(* that may be at work on the same files.  Contents are values; a copy that an import        *)
(* makes of a file it replaces is named for the second.                                   *)
(***************************************************************************)
EXTENDS Integers, FiniteSets

CONSTANTS Files,      \* files that are part of the set-up
          Excluded,   \* those that are not: the socket, the logs
          Unsafe,     \* entry names of an archive that do not stay under the directory
          Secrets, Texts, None, MaxSeconds

VARIABLES
    disk,      \* disk[f]
    ring,      \* ring[s]: the keychain
    locked,    \* the keychain does not answer
    archive,   \* the archive at the destination: files, secrets, passphrase; or None
    reading,   \* an export under way: the files left, what it has read; or None
    import,    \* an import under way or at its end: entries left, the file it has copied,
               \* its report, what it replaced, and what others wrote meanwhile
    baks,      \* <file>.bak-<second>
    second

vars == <<disk, ring, locked, archive, reading, import, baks, second>>

Contents == Texts \cup {None}

Init == /\ disk \in [Files -> Contents]
        /\ ring \in [Secrets -> Contents]
        /\ locked = FALSE /\ archive = None /\ reading = None /\ import = None
        /\ baks = [f \in Files |-> [n \in 0..MaxSeconds |-> None]]
        /\ second = 0

-----------------------------------------------------------------------------
(* Around the command. *)

\* The daemon or the user writes a file.
Write(f, x) ==
    /\ disk[f] # x /\ disk' = [disk EXCEPT ![f] = x]
    /\ import' = IF import = None THEN None
                 ELSE [import EXCEPT !.late = IF f = import.file THEN @ \cup {f} ELSE @,
                                     !.touched = IF f \in import.replaced THEN @ \cup {f} ELSE @]
    /\ UNCHANGED <<ring, locked, archive, reading, baks, second>>

Lock == /\ locked' = ~locked
        /\ UNCHANGED <<disk, ring, archive, reading, import, baks, second>>

Tick == /\ second < MaxSeconds /\ second' = second + 1
        /\ UNCHANGED <<disk, ring, locked, archive, reading, import, baks>>

-----------------------------------------------------------------------------
(* Export. *)

\* The passphrase is asked for twice, and is not empty.
ExportAsks(pass, confirm) ==
    /\ reading = None /\ import = None
    /\ pass = confirm /\ pass # "empty"
    /\ reading' = [pass |-> pass, left |-> Files, files |-> [f \in Files |-> None]]
    /\ UNCHANGED <<disk, ring, locked, archive, import, baks, second>>

\* add_dir_recursive: one file after the other, without what is excluded.
AddFile(f) ==
    /\ reading # None /\ f \in reading.left
    /\ reading' = [reading EXCEPT !.left = @ \ {f},
                                  !.files[f] = IF f \in Excluded THEN None ELSE disk[f]]
    /\ UNCHANGED <<disk, ring, locked, archive, import, baks, second>>

\* The secrets come last; a keychain that does not answer is a warning.  Then the archive
\* is written in one go.
ExportEnds ==
    /\ reading # None /\ reading.left = {}
    /\ archive' = [pass |-> reading.pass, files |-> reading.files,
                   secrets |-> IF locked THEN [s \in Secrets |-> None] ELSE ring]
    /\ reading' = None
    /\ UNCHANGED <<disk, ring, locked, import, baks, second>>

-----------------------------------------------------------------------------
(* Import. *)

Present(g) == {x \in DOMAIN g : g[x] # None}

\* The archive may have been made by something else, with names that are refused.
ImportBegins(pass, dry, stray) ==
    /\ archive # None /\ import = None /\ reading = None
    /\ pass = archive.pass
    /\ import' = [dry |-> dry, left |-> Present(archive.files) \cup stray, file |-> None,
                  secrets |-> FALSE, ok |-> {}, failed |-> {},
                  replaced |-> {}, had |-> [f \in Files |-> None], late |-> {}, touched |-> {}]
    /\ UNCHANGED <<disk, ring, locked, archive, reading, baks, second>>

Reports(m, x, good) ==
    [m EXCEPT !.left = @ \ {x}, !.file = None,
              !.ok = IF good THEN @ \cup {x} ELSE @, !.failed = IF good THEN @ ELSE @ \cup {x}]

Same == UNCHANGED <<ring, locked, archive, reading, second>>

\* A name that is unsafe is reported and skipped, a dry run reports only.
SkipEntry(x) ==
    /\ import # None /\ import.file = None /\ x \in import.left
    /\ x \in Unsafe \/ import.dry
    /\ import' = Reports(import, x, x \notin Unsafe)
    /\ Same /\ UNCHANGED <<disk, baks>>

NotCopied(f) == baks
Copied(f) == IF disk[f] = None THEN baks ELSE [baks EXCEPT ![f][second] = disk[f]]

\* restore_one_file: first a copy of the file that is there.  When it fails, nothing is
\* written.
CopyFile(f) ==
    /\ import # None /\ import.file = None /\ f \in import.left /\ f \in Files /\ ~import.dry
    /\ \/ baks' = Copied(f) /\ import' = [import EXCEPT !.file = f]
       \/ UNCHANGED baks /\ import' = Reports(import, f, FALSE)
    /\ Same /\ UNCHANGED disk

\* Then the file is written, whatever it says by now.  When that fails, it may be empty.
Replaces(f) == [import EXCEPT !.replaced = @ \cup {f}, !.had[f] = disk[f]]

RestoreFile(f) ==
    /\ import # None /\ import.file = f
    /\ \/ disk' = [disk EXCEPT ![f] = archive.files[f]] /\ import' = Reports(Replaces(f), f, TRUE)
       \/ disk' = [disk EXCEPT ![f] = None] /\ import' = Reports(Replaces(f), f, FALSE)
       \/ UNCHANGED disk /\ import' = Reports(import, f, FALSE)
    /\ Same /\ UNCHANGED baks

\* restore_secrets: each one on its own.
RestoreSecrets ==
    LET all == Present(archive.secrets)
        good == IF import.dry THEN all ELSE IF locked THEN {} ELSE all
    IN  /\ import # None /\ import.left = {} /\ ~import.secrets
        /\ import' = [import EXCEPT !.secrets = TRUE, !.ok = @ \cup good,
                                    !.failed = @ \cup (all \ good)]
        /\ ring' = IF import.dry THEN ring
                   ELSE [s \in Secrets |-> IF s \in good THEN archive.secrets[s] ELSE ring[s]]
        /\ UNCHANGED <<disk, locked, archive, reading, baks, second>>

\* The report is printed, and the command succeeds whatever it says.
ImportEnds == /\ import # None /\ import.secrets /\ import' = None
              /\ UNCHANGED <<disk, ring, locked, archive, reading, baks, second>>

Next == \/ \E f \in Files : AddFile(f) \/ CopyFile(f) \/ RestoreFile(f) \/ \E x \in Texts : Write(f, x)
        \/ \E x \in Files \cup Unsafe : SkipEntry(x)
        \/ \E p, q \in {"right", "wrong", "empty"} : ExportAsks(p, q)
        \/ \E p \in {"right", "wrong"}, dry \in BOOLEAN, stray \in SUBSET Unsafe :
              ImportBegins(p, dry, stray)
        \/ Lock \/ Tick \/ ExportEnds \/ RestoreSecrets \/ ImportEnds

Spec == Init /\ [][Next]_vars

-----------------------------------------------------------------------------
(* Properties. *)

Saved(f, x) == \E n \in 0..MaxSeconds : baks[f][n] = x

\* What an import says it restored is what the archive holds, which has nothing that is
\* excluded, unless somebody wrote the file since; and every text it replaced, whether the
\* write succeeded or not, is still there under another name, unless somebody wrote it
\* between the copy and the replacement (backup.rs:150-230).
RestoredAsReported ==
    (import # None /\ ~import.dry) =>
       /\ \A f \in Files \cap import.ok : disk[f] = archive.files[f] \/ f \in import.touched
       /\ import.secrets => \A s \in Secrets \cap import.ok : ring[s] = archive.secrets[s]
       /\ \A f \in Excluded : archive.files[f] = None
       /\ \A f \in Files : import.had[f] = None \/ Saved(f, import.had[f]) \/ f \in import.late

\* NOT TRUE: "backup-before-overwrite" (backup.rs:145-149): the daemon may write the file
\* after it was copied, and what it wrote is then neither in place nor copied.
EveryTextSaved ==
    import # None => \A f \in Files : import.had[f] = None \/ Saved(f, import.had[f])
=============================================================================
