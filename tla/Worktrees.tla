-------------------------------- MODULE Worktrees --------------------------------
(***************************************************************************)
(* The working trees of isolated tasks and the way their branches come back   *)
(* (single-core/src/worktree.rs, the merge requests of handlers.rs, the        *)
(* clean-up of task.rs, single-core/src/pending_merge.rs).                     *)
(*                                                                         *)
(* A task works in a tree of its own on a branch of its own.  Nothing in the   *)
(* program commits there: an agent may do so itself.  A merge is asked for by    *)
(* task, or by answering an offer of the coordinator; it is two git commands,     *)
(* `git merge` and, when that fails, `git merge --abort`, each of which holds      *)
(* git's own lock.  The abort may fail as well, or not start, and a process may end   *)
(* between the two: the merge is then left for the user.  The user works in the same    *)
(* repository and may be in the middle of a merge of their own.                       *)
(***************************************************************************)
EXTENDS FiniteSets

CONSTANTS Tasks,    \* tasks that run with use_worktree
          Callers   \* requests to merge that may be at work at once

VARIABLES
    row,      \* row[t]: status, and whether worktree_path is recorded
    tree,     \* the tasks whose working tree exists
    dirty,    \* the tasks with work that is not committed
    commits,  \* the tasks whose branch has commits of its own
    offer,    \* offer[t]: the row of pending_merges, "none" when there is none
    head,     \* the tasks whose branch the user's branch contains
    merging,  \* what the repository is in the middle of merging
    leftover, \* how a task's merge was left to the user: "told" to the caller, or "died"
    call,     \* call[c]: what a request to merge does next, and for which task
    asked,    \* the tasks somebody asked to merge by WorktreeMergeApply
    told,     \* the tasks a merge of which was reported as done
    harmed    \* the user's unfinished merge was aborted by a request

vars == <<row, tree, dirty, commits, offer, head, merging, leftover, call, asked, told, harmed>>

Nothing == "nothing"
Users == "user"
Idle == [at |-> "idle", of |-> Nothing]

Init == /\ row = [t \in Tasks |-> [status |-> "none", path |-> FALSE]]
        /\ tree = {} /\ dirty = {} /\ commits = {}
        /\ offer = [t \in Tasks |-> "none"]
        /\ head = {} /\ merging = Nothing /\ leftover = "no"
        /\ call = [c \in Callers |-> Idle]
        /\ asked = {} /\ told = {} /\ harmed = FALSE

GitSame == UNCHANGED <<offer, head, merging, leftover, call, asked, told, harmed>>

-----------------------------------------------------------------------------
(* The task. *)

\* worktree::add makes the tree and the branch; without a repository the task fails.
Add(t) == /\ row[t].status = "none"
          /\ \/ /\ row' = [row EXCEPT ![t].status = "running"]
                /\ tree' = tree \cup {t}
             \/ /\ row' = [row EXCEPT ![t].status = "ended"]
                /\ UNCHANGED tree
          /\ UNCHANGED <<dirty, commits>> /\ GitSame

\* The agent changes files, and commits them when it likes.
Work(t) == /\ row[t].status = "running"
           /\ \/ t \notin dirty /\ dirty' = dirty \cup {t} /\ UNCHANGED commits
              \/ t \in dirty /\ dirty' = dirty \ {t} /\ commits' = commits \cup {t}
           /\ UNCHANGED <<row, tree>> /\ GitSame

\* The end of the run records the tree's path; an end that is forced does not.
End(t) == /\ row[t].status = "running"
          /\ \E path \in BOOLEAN : row' = [row EXCEPT ![t] = [status |-> "ended", path |-> path]]
          /\ UNCHANGED <<tree, dirty, commits>> /\ GitSame

\* Clean-up always removes with --force, and leaves the branch.  It goes by the row
\* it read, so a running task that it fails by force keeps its tree.
Cleanup(t, force) ==
    /\ row[t].status # "none"
    /\ row[t].status = "running" => force
    /\ row' = [row EXCEPT ![t].status = "ended"]
    /\ tree' = IF row[t].path THEN tree \ {t} ELSE tree
    /\ dirty' = IF row[t].path THEN dirty \ {t} ELSE dirty
    /\ UNCHANGED commits /\ GitSame

TaskSame == UNCHANGED <<row, tree, dirty, commits>>

-----------------------------------------------------------------------------
(* The merge. *)

\* What `git diff HEAD...branch` shows: commits only.
Diff(t) == t \in commits \ head

\* The coordinator offers the branch of a task whose review passed.
Offer(t) == /\ row[t].status = "ended" /\ row[t].path /\ offer[t] = "none"
            /\ offer' = [offer EXCEPT ![t] = "pending"]
            /\ TaskSame /\ UNCHANGED <<head, merging, leftover, call, asked, told, harmed>>

\* WorktreeMergeApply: of a task at its end that recorded a tree.
MergeApply(c, t) ==
    /\ call[c] = Idle
    /\ row[t].status = "ended" /\ row[t].path
    /\ call' = [call EXCEPT ![c] = [at |-> "merge", of |-> t]]
    /\ asked' = asked \cup {t}
    /\ TaskSame /\ UNCHANGED <<offer, head, merging, leftover, told, harmed>>

\* GoalMergeResolve: only a pending row is answered, but the merge goes by `allow`.
Resolve(c, t, allow) ==
    /\ call[c] = Idle
    /\ offer[t] # "none"
    /\ offer' = [offer EXCEPT ![t] = IF @ # "pending" THEN @
                                     ELSE IF allow THEN "confirmed" ELSE "rejected"]
    /\ call' = [call EXCEPT ![c] = IF allow THEN [at |-> "merge", of |-> t] ELSE Idle]
    /\ TaskSame /\ UNCHANGED <<head, merging, leftover, asked, told, harmed>>

\* The failure is reported, and that is all.
FailsSilently(c, next) == call' = [call EXCEPT ![c] = Idle]
FailsThen(c, next) == call' = [call EXCEPT ![c] = next]

\* `git merge` fails when a merge is under way, whoever's it is, when files of the user's
\* are in the way, and on a conflict, which leaves the repository in the middle.
GitMerge(c) ==
    LET t == call[c].of
        ToAbort == [call[c] EXCEPT !.at = "abort"]
    IN  /\ call[c].at = "merge"
        /\ \/ /\ merging = Nothing
              /\ head' = head \cup {t} /\ told' = told \cup {t}
              /\ call' = [call EXCEPT ![c] = Idle]
              /\ UNCHANGED merging
           \/ /\ merging = Nothing /\ Diff(t)
              /\ merging' = t
              /\ FailsThen(c, ToAbort) /\ UNCHANGED <<head, told>>
           \/ /\ merging # Nothing \/ Diff(t)
              /\ FailsThen(c, ToAbort) /\ UNCHANGED <<head, told, merging>>
        /\ TaskSame /\ UNCHANGED <<offer, leftover, asked, harmed>>

\* `git merge --abort` aborts whatever merge is under way.  It fails without one, and may
\* fail with one, or not be started: the reply then says that a merge may be left.
GitAbort(c) ==
    /\ call[c].at = "abort"
    /\ \/ /\ merging # Nothing
          /\ merging' = Nothing /\ leftover' = "no"
          /\ harmed' = (harmed \/ merging = Users)
       \/ /\ leftover' = IF merging \in Tasks THEN "told" ELSE leftover
          /\ UNCHANGED <<merging, harmed>>
    /\ FailsThen(c, Idle)
    /\ TaskSame /\ UNCHANGED <<offer, head, asked, told>>

\* The process of a request ends, between the two commands or before them.
Dies(c) ==
    /\ call[c] # Idle
    /\ leftover' = IF merging \in Tasks /\ call[c].at = "abort" THEN "died" ELSE leftover
    /\ call' = [call EXCEPT ![c] = Idle]
    /\ TaskSame /\ UNCHANGED <<offer, head, merging, asked, told, harmed>>

\* The user begins a merge of their own that needs their hand, and ends it, or ends one
\* that was left in the repository.
UserMerges == /\ \/ merging = Nothing /\ merging' = Users
                 \/ merging # Nothing /\ merging' = Nothing
              /\ leftover' = "no"
              /\ TaskSame /\ UNCHANGED <<offer, head, call, asked, told, harmed>>

Next == \/ \E t \in Tasks : Add(t) \/ Work(t) \/ End(t) \/ Offer(t)
        \/ \E t \in Tasks, force \in BOOLEAN : Cleanup(t, force)
        \/ \E c \in Callers : GitMerge(c) \/ GitAbort(c) \/ Dies(c)
        \/ \E c \in Callers, t \in Tasks :
              MergeApply(c, t) \/ \E allow \in BOOLEAN : Resolve(c, t, allow)
        \/ UserMerges

Spec == Init /\ [][Next]_vars

-----------------------------------------------------------------------------
(* Properties. *)

\* A repository in the middle of merging a task's branch has a request at work that goes
\* on to abort it, or a request could not: its abort failed, which its caller was told
\* ("manual cleanup required"), or its process ended before.  No interleaving of requests
\* and the user's own merges leaves one without (worktree.rs:150-180).
MergeAttended ==
    merging \in Tasks => \/ \E c \in Callers : call[c].at = "abort"
                         \/ leftover \in {"told", "died"}

\* NOT TRUE: a merge that failed is always undone, "known-clean over half-done"
\* (worktree.rs:162-168): its abort may fail too.
MergesUndone == leftover = "no"

\* NOT TRUE: an offer that was rejected is merged by a later confirmation, although
\* its row stays as it is (pending_merge.rs:120-123, handlers.rs:1931-1940).
RejectedStays == \A t \in Tasks \ asked : offer[t] = "rejected" => t \notin head

\* NOT TRUE: the merge the user was in the middle of is aborted, while the reply says
\* that the repository was restored (worktree.rs:164-180).
UsersMergeKept == ~harmed

\* NOT TRUE: the work of a task whose merge was reported done is gone after the
\* clean-up the command line then recommends, when the agent had not committed it
\* (main.rs:2650-2653).
\* Work of t is lost when its tree is, unless its branch has it.
WorkKept == [][\A t \in told : t \in dirty /\ row[t].status = "ended" => t \in dirty']_vars
=============================================================================
