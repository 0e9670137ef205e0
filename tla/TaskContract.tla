----------------------------- MODULE TaskContract -----------------------------
(***************************************************************************)
(* What a task promises to whoever started it (the coordinator, a client):  *)
(* it runs, and then it has one result for good.  Two things may come in    *)
(* between: the row is forced to an end from outside, or the thread that    *)
(* works on it breaks off and the row is lost until the daemon restarts.    *)
(* A task may be delayed, for ever if need be: only one that is not is      *)
(* promised to end.                                                         *)
(***************************************************************************)
CONSTANT Ids        \* task ids

VARIABLES
    outcome,    \* what can be seen of each task
    delayed     \* tasks that cannot go on; nothing is promised of it

Results == {"completed", "failed", "limited", "cancelled"}

Init == outcome = [k \in Ids |-> "none"]

Becomes(k, o) == outcome' = [outcome EXCEPT ![k] = o]

Start(k) == outcome[k] = "none" /\ Becomes(k, "running")
End(k) == outcome[k] = "running" /\ \E o \in Results \cup {"lost"} : Becomes(k, o)
Force(k) == outcome[k] \in {"running", "lost"} /\ Becomes(k, "forced")

\* The daemon starts again: what was in flight has failed.
Restart ==
    outcome' = [k \in Ids |-> IF outcome[k] \in {"running", "lost"} THEN "failed"
                              ELSE outcome[k]]

Next == Restart \/ \E k \in Ids : Start(k) \/ End(k) \/ Force(k)

Spec == Init /\ [][Next]_outcome

\* Every task that runs ends, when it is not delayed.
FairSpec == Spec /\ \A k \in Ids : WF_outcome(k \notin delayed /\ End(k))
=============================================================================
