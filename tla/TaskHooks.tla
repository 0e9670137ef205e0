--------------------------------- MODULE TaskHooks ---------------------------------
(***************************************************************************)
(* Commands that run when a task ends (single-core/src/task_hooks.rs, with              *)
(* notify_task_hooks, finish and force_fail of task.rs).  The rules are a file that        *)
(* every request reads and writes as a whole, and that a task which ends reads again.       *)
(* A hook runs beside the task, for at most a fixed time.  The file is a list: a rule     *)
(* that is added twice is in it twice and runs twice.  A rule stands for its command,     *)
(* by which it is removed; AskedFor says for which statuses it asks.                      *)
(***************************************************************************)
EXTENDS Naturals, Sequences, FiniteSets

CONSTANTS Tasks, Editors, Rules,
          MaxHooks,     \* bound on the entries of the file
          AskedFor(_)   \* the statuses a rule names

VARIABLES
    file,     \* task_hooks.toml: a list of rules, empty while it is being written
    editor,   \* editor[e]: a request to add or to remove, what it has read
    row,      \* row[t]: the status of the task
    at,       \* at[t]: what execute does next
    forcing,  \* requests to force a task that have read its row
    notice,   \* notice[t]: the status a task told at its end, and the list it read then
    fired     \* the runs of hooks: task, place in that list, rule, status, state

vars == <<file, editor, row, at, forcing, notice, fired>>

Terminal == {"completed", "failed", "cancelled"}
NoEdit == [step |-> "none", rules |-> <<>>]
NoNotice == [status |-> "none", rules |-> <<>>]

Init == /\ file \in UNION {[1..n -> Rules] : n \in 0..MaxHooks}
        /\ editor = [e \in Editors |-> NoEdit]
        /\ row = [t \in Tasks |-> "running"]
        /\ at = [t \in Tasks |-> "execute"]
        /\ notice = [t \in Tasks |-> NoNotice]
        /\ forcing = {} /\ fired = {}

TasksSame == UNCHANGED <<row, at, forcing, notice, fired>>

-----------------------------------------------------------------------------
(* add and remove: load, change, write.  fs::write empties the file first. *)

Load(e, r, step) ==
    /\ editor[e] = NoEdit
    /\ \/ step = "add" /\ Len(file) < MaxHooks
       \/ step = "remove" /\ \E p \in DOMAIN file : file[p] = r
    /\ editor' = [editor EXCEPT ![e] = [step |-> "open",
                     rules |-> IF step = "add" THEN Append(file, r)
                                               ELSE SelectSeq(file, LAMBDA q : q # r)]]
    /\ UNCHANGED file /\ TasksSame

Truncate(e) == /\ editor[e].step = "open"
               /\ file' = <<>>
               /\ editor' = [editor EXCEPT ![e].step = "write"]
               /\ TasksSame

Save(e) == /\ editor[e].step = "write"
           /\ file' = editor[e].rules
           /\ editor' = [editor EXCEPT ![e] = NoEdit]
           /\ TasksSame

-----------------------------------------------------------------------------
(* A task's end. *)

\* finish writes the row whatever it says by now.
Finish(t, s) == /\ at[t] = "execute"
                /\ row' = [row EXCEPT ![t] = s]
                /\ at' = [at EXCEPT ![t] = "notify"]
                /\ UNCHANGED <<file, editor, forcing, notice, fired>>

\* The entries that are run for a status, by their places.
Every(s) == DOMAIN file
Matching(s) == {p \in DOMAIN file : s \in AskedFor(file[p])}
Entry(t, p) == [task |-> t, place |-> p, rule |-> file[p], status |-> row[t], state |-> "running"]

\* notify_task_hooks reads the row, fire reads the file and starts what matches.
Fire(t) == /\ at[t] = "notify"
           /\ notice' = [notice EXCEPT ![t] = [status |-> row[t], rules |-> file]]
           /\ fired' = fired \cup {Entry(t, p) : p \in Matching(row[t])}
           /\ at' = [at EXCEPT ![t] = "returned"]
           /\ UNCHANGED <<file, editor, row, forcing>>

\* run_one: the command ends, well or not, or is killed at the deadline.
HookEnds(h) == /\ h \in fired /\ h.state = "running"
               /\ fired' = (fired \ {h}) \cup {[h EXCEPT !.state = "ended"]}
               /\ UNCHANGED <<file, editor, row, at, forcing, notice>>

\* force_fail: reads the row, and then writes it.
ForceReads(t) == /\ row[t] = "running" /\ t \notin forcing
                 /\ forcing' = forcing \cup {t}
                 /\ UNCHANGED <<file, editor, row, at, notice, fired>>

ForceWrites(t) == /\ t \in forcing
                  /\ forcing' = forcing \ {t}
                  /\ row' = [row EXCEPT ![t] = "failed"]
                  /\ UNCHANGED <<file, editor, at, notice, fired>>

Next == \/ \E e \in Editors : Truncate(e) \/ Save(e)
                              \/ \E r \in Rules, s \in {"add", "remove"} : Load(e, r, s)
        \/ \E t \in Tasks : Fire(t) \/ ForceReads(t) \/ ForceWrites(t)
                            \/ \E s \in Terminal : Finish(t, s)
        \/ \E h \in fired : HookEnds(h)

Spec == Init /\ [][Next]_vars

-----------------------------------------------------------------------------
(* Properties. *)

\* The runs of a task's hooks are those its end asks for, whatever is forced, added or
\* removed meanwhile: each is of an entry of the list its one notification read, for the
\* status told, an entry has one run, and once the task has returned an entry that asks
\* for the status has its run (task_hooks.rs:41-47, 115-145).
FiredOnceForItsStatus ==
    /\ \A h \in fired : /\ h.place \in DOMAIN notice[h.task].rules
                        /\ h.rule = notice[h.task].rules[h.place]
                        /\ h.status = notice[h.task].status
                        /\ h.status \in AskedFor(h.rule) \cap Terminal
    /\ \A h, i \in fired : h.task = i.task /\ h.place = i.place => h = i
    /\ \A t \in Tasks : at[t] = "returned" =>
          \A p \in DOMAIN notice[t].rules :
             notice[t].status \in AskedFor(notice[t].rules[p]) =>
                \E h \in fired : h.task = t /\ h.place = p

\* NOT TRUE: a rule that was added again, by a request that was sent twice, is in the list
\* twice and runs twice for one task (task_hooks.rs:82-85).
RuleRunsOnce == \A h, i \in fired : h.task = i.task /\ h.rule = i.rule => h = i

\* NOT TRUE: a task that was forced has its end without any notification, although hooks
\* are for a task that "reaches a terminal status" (task_hooks.rs:1-3).
ForcedIsNotified ==
    \A t \in Tasks : row[t] \in Terminal => at[t] # "execute"

\* NOT TRUE: what was told is not what the row says when a forced failure was read
\* before the task's own end and written after it (task.rs:483-486).
ToldIsFinal == \A h \in fired : row[h.task] = h.status
=============================================================================
