---------------------------- MODULE MCCoordinator ----------------------------
(* Instances of the coordinator for TLC. *)
EXTENDS CoordinatorProps

Solo == GraphOf(<<NewNode({}, "grok", "code", 0)>>)
Fork == GraphOf(<<NewNode({}, "grok", "code", 0), NewNode({}, Unpinned, "code", 1)>>)
\* s2 reviews what s1 did in its worktree.
Reviewed == GraphOf(<<NewNode({}, "grok", "code", 0), NewNode({1}, "grok", "review", 0)>>)
\* Replacements for s2: a new node, one the supervisor writes as running for task 1 or
\* as done; for s1, one that runs for a task there may never be.
Redo == GraphOf(<<NoNode, NewNode({}, Unpinned, "code", 0)>>)
Taken(status, k) ==
    [NewNode({}, Unpinned, "code", 0) EXCEPT !.status = status, !.task = k, !.attempts = 5]
Claimed == GraphOf(<<NoNode, Taken("running", 1)>>)
Declared == GraphOf(<<NoNode, Taken("done", 4)>>)
Assumed == GraphOf(<<Taken("running", 4)>>)

QuietPlans == {Fork, Reviewed}
QuietPieces == {Redo, Claimed, Declared}
LivePieces == {Redo}
RacesPieces == {Assumed}
LivePlans == {Reviewed}
RacesPlans == {Solo}

CapOne == [a \in Agents |-> 1]
CapTwo == [a \in Agents |-> 2]
=============================================================================
