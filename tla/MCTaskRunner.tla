----------------------------- MODULE MCTaskRunner -----------------------------
(* Instances of the task runner for TLC: two accounts of one agent that allows *)
(* a single instance, and the pool.                                            *)
EXTENDS TaskRunner

EntryAgent == [e \in Entries |-> IF e = "pool" THEN "single-pool" ELSE "opencode"]
OneSlot == [a \in Slotted |-> 1]
TwoWays == <<<<"work", "home", "pool">>, <<"home", "work">>>>
Returning == <<<<"work", "home", "work">>>>
=============================================================================
