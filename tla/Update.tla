---------------------------------- MODULE Update ----------------------------------
(***************************************************************************)
(* `single update` (single-cli/src/update.rs, run_update of main.rs): it asks for     *)
(* the latest release of a channel, compares versions, and replaces the binaries of     *)
(* the installation one after the other.  A file is replaced by renaming, or, when the    *)
(* download lies on another file system, by copying to <name>.update-tmp and renaming      *)
(* that; then it is made executable.  The process may end at any step.  Versions are       *)
(* numbers; Nightly is a tag that is no version.  Binaries are numbered in the order of      *)
(* the loop, the command itself is 1.                                                     *)
(***************************************************************************)
EXTENDS Integers

CONSTANTS Updaters,   \* processes of `single update`
          Binaries,   \* how many binaries the loop replaces
          MaxVersion, Nightly

VARIABLES
    latest,     \* the newest release; a nightly build is built from it as well
    installed,  \* installed[b]: version, whether the file is whole and may be executed
    tmp,        \* tmp[b]: <name>.update-tmp, or NoFile
    run         \* run[u]: what it does next and with which binary, what it found installed,
                \* which binaries its archive has and what they are, and what it said

vars == <<latest, installed, tmp, run>>

Places == 1..Binaries
File(version, whole, runs) == [version |-> version, whole |-> whole, runs |-> runs]
NoFile == File(0, FALSE, FALSE)
Cut(f) == File(f.version, FALSE, f.runs)
Executable(f) == File(f.version, f.whole, TRUE)

Begins(at, as, has, new, told) ==
    [at |-> at, as |-> as, next |-> 1, has |-> has, new |-> new, old |-> installed, told |-> told]

Init == /\ latest = 1
        /\ installed = [b \in Places |-> File(1, TRUE, TRUE)]
        /\ tmp = [b \in Places |-> NoFile]
        /\ run = [u \in Updaters |-> Begins("idle", 0, {}, NoFile, "nothing")]

Release == latest < MaxVersion /\ latest' = latest + 1 /\ UNCHANGED <<installed, tmp, run>>

\* is_newer: unknown for a tag that is no version.
IsNewer(current, tag) == IF tag = Nightly THEN "unknown"
                         ELSE IF tag > current THEN "yes" ELSE "no"

\* run_update up to the download: the version compared is the command's own, and the
\* archive holds binaries of the release that it was built with, executable or not.
Start(u, channel) ==
    LET tag == IF channel = "stable" THEN latest ELSE Nightly
        own == installed[1].version
    IN  /\ run[u].at = "idle"
        /\ installed[1].whole /\ installed[1].runs
        /\ \E has \in SUBSET Places, runs \in BOOLEAN :
              run' = [run EXCEPT ![u] =
                 IF IsNewer(own, tag) = "no" THEN Begins("idle", own, {}, NoFile, "latest")
                 ELSE Begins("replace", own, has, File(latest, TRUE, runs), "nothing")]
        /\ UNCHANGED <<latest, installed, tmp>>

\* The loop goes on; at its end nothing replaced is an error.
Advance(u) ==
    LET last == run[u].next = Binaries
    IN  run' = [run EXCEPT ![u].at = IF last THEN "idle" ELSE "replace",
                           ![u].next = @ + 1,
                           ![u].told = IF ~last THEN @
                                       ELSE IF run[u].has = {} THEN "failed" ELSE "updated"]

\* A binary that the archive does not have stays as it is.
Skip(u) == /\ run[u].at = "replace" /\ run[u].next \notin run[u].has
           /\ Advance(u)
           /\ UNCHANGED <<latest, installed, tmp>>

\* Written in place.
ReplaceInPlace(u) ==
    /\ run[u].at = "replace" /\ run[u].next \in run[u].has
    /\ installed' = [installed EXCEPT ![run[u].next] = Cut(run[u].new)]
    /\ run' = [run EXCEPT ![u].at = "copy"]
    /\ UNCHANGED <<latest, tmp>>

\* The download and the installation share a file system, or they do not.
Replace(u) ==
    LET b == run[u].next
    IN  /\ run[u].at = "replace" /\ b \in run[u].has
        /\ \/ installed' = [installed EXCEPT ![b] = run[u].new]
              /\ run' = [run EXCEPT ![u].at = "chmod"]
              /\ UNCHANGED <<latest, tmp>>
           \/ tmp' = [tmp EXCEPT ![b] = Cut(run[u].new)]
              /\ run' = [run EXCEPT ![u].at = "copy"]
              /\ UNCHANGED <<latest, installed>>

\* The copy is complete.  The file it was written to is that of its name when it was
\* opened: another update may have renamed it meanwhile.
Copied(u) ==
    LET b == run[u].next
    IN  /\ run[u].at = "copy"
        /\ IF tmp[b] # NoFile
           THEN tmp' = [tmp EXCEPT ![b] = run[u].new] /\ UNCHANGED installed
           ELSE installed' = [installed EXCEPT ![b] = run[u].new] /\ UNCHANGED tmp
        /\ run' = [run EXCEPT ![u].at = "rename"]
        /\ UNCHANGED latest

Rename(u) ==
    LET b == run[u].next
    IN  /\ run[u].at = "rename" /\ tmp[b] # NoFile
        /\ installed' = [installed EXCEPT ![b] = tmp[b]]
        /\ tmp' = [tmp EXCEPT ![b] = NoFile]
        /\ run' = [run EXCEPT ![u].at = "chmod"]
        /\ UNCHANGED latest

\* set_permissions on the file that is in place by now.
SetPermissions(u) ==
    LET b == run[u].next
    IN  /\ run[u].at = "chmod"
        /\ installed' = [installed EXCEPT ![b] = Executable(installed[b])]
        /\ Advance(u)
        /\ UNCHANGED <<latest, tmp>>

Failed(r) == [at |-> "idle", as |-> r.as, next |-> r.next, has |-> r.has, new |-> r.new,
              old |-> r.old, told |-> "failed"]

\* A step fails, as a rename does without its file, or the process is killed.
Ends(u) == /\ run[u].at # "idle"
           /\ run' = [run EXCEPT ![u] = Failed(@)]
           /\ UNCHANGED <<latest, installed, tmp>>

Next == \/ Release
        \/ \E u \in Updaters :
              \/ \E channel \in {"stable", "nightly"} : Start(u, channel)
              \/ Skip(u) \/ Replace(u) \/ Copied(u) \/ Rename(u) \/ SetPermissions(u) \/ Ends(u)

Spec == Init /\ [][Next]_vars

-----------------------------------------------------------------------------
(* Properties. *)

\* With one update at a time, every binary is a whole file whenever the update goes on,
\* ends or is killed; those of the archive before the one it is at are the new ones and can
\* be executed, those behind it and those that the archive does not have are what they
\* were, and an update that reports success has been through all (update.rs:156-187).
\* NOT TRUE of two updates: they share <name>.update-tmp, so that one renames the file
\* which the other has just begun to write.
InstalledWhole ==
    /\ \A b \in Places : installed[b].whole
    /\ \A u \in Updaters, b \in Places :
          /\ b < run[u].next /\ b \in run[u].has => installed[b] = Executable(run[u].new)
          /\ b > run[u].next \/ b \notin run[u].has => installed[b] = run[u].old[b]
          /\ b = run[u].next => installed[b] \in {run[u].old[b], run[u].new}
    /\ \A u \in Updaters : run[u].told = "updated" => run[u].next > Binaries

\* NOT TRUE: "atomically replaces" (update.rs:122): an update that is killed between the
\* rename and set_permissions leaves a binary that cannot be executed, when that of the
\* archive cannot.
ReplacedRuns == \A b \in Places : installed[b].runs

\* NOT TRUE: "already up to date" although an update that failed half-way left the
\* daemon at the old version: only the command's own version is compared
\* (main.rs:3056-3061).
UpToDateIsAll ==
    \A u \in Updaters : run[u].told = "latest" =>
       \A b \in Places : installed[b].version >= run[u].as
=============================================================================
