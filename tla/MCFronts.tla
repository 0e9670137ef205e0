-------------------------------- MODULE MCFronts --------------------------------
(***************************************************************************)
(* The front ends a person sits before, in one run: the editor bridge and the  *)
(* dashboard.  They share nothing that is modelled: which of them a behaviour  *)
(* is about is chosen at the start, the other stays as it is.                 *)
(***************************************************************************)
EXTENDS Integers, Sequences

CONSTANTS
    EditorTurns, Goals, NoGoal, MaxEvents, MaxAsks, MaxLoads,
    About, Rows, Height, MaxOthers

VARIABLES
    which,
    sess, loading, turn, goal, events,
    about, rows, others, loop, tab, inside, selected, shown, error, refresh, extra,
    flow, detail, drawn, request

EditorVars == <<sess, loading, turn, goal, events>>
TuiVars == <<about, rows, others, loop, tab, inside, selected, shown, error, refresh,
             extra, flow, detail, drawn, request>>

\* The list of a tab of the dashboard.
TwoRows == <<"s1", "s2">>

E == INSTANCE Acp WITH Turns <- EditorTurns
T == INSTANCE Tui

\* The list has names, none of which stands for no row.
ASSUME FrontsAssumption == Rows \in Seq(STRING) /\ "none" \notin T!Names /\ Height \in Nat

\* Where the dashboard is not what is chosen, its choices are made for it.
Init ==
    /\ which \in {"editor", "dashboard"}
    /\ E!Init /\ T!Init
    /\ which # "dashboard" =>
          /\ about = CHOOSE a \in About : TRUE
          /\ rows = [n \in T!Names |-> CHOOSE w \in T!Words : TRUE]

Next ==
    /\ UNCHANGED which
    /\ \/ which = "editor" /\ E!Next /\ UNCHANGED TuiVars
       \/ which = "dashboard" /\ T!Next /\ UNCHANGED EditorVars

\* The fairness of each module, in the behaviours that are about it.
Fairness ==
    /\ \A t \in EditorTurns : /\ WF_EditorVars(which = "editor" /\ ~E!In(t, "wait") /\ E!Acts(t))
                        /\ SF_EditorVars(which = "editor" /\ (E!CancelSeen(t) \/ E!Late(t)))
    /\ WF_EditorVars(which = "editor" /\ E!Loaded)
    /\ WF_TuiVars(which = "dashboard" /\ T!Turns)

Spec == Init /\ [][Next]_<<which, EditorVars, TuiVars>> /\ Fairness

-----------------------------------------------------------------------------
(* The properties of each part, as its module states them. *)

\* What a person is shown is what there is: no event behind the cursor of a turn is
\* lost, and a key of the dashboard acts on the row the screen has highlighted.
ShowsIt ==
    /\ which = "editor" => E!NoneSkipped
    /\ which = "dashboard" => T!ActsOnShown /\ T!Highlights

\* What is asked gets its answer on the screen: a prompt of the editor, unless a panic
\* ends its thread or the bridge, or the daemon is at work for it for ever, and what is sent and fetched by the dashboard.
AnswersShown ==
    /\ which = "editor" => E!PromptAnswered
    /\ T!AnswersCome

\* Not so: the dashboard tells every failure, shows what it has changed and the pool it
\* has fetched, and follows a task that it views.
FailureTold == which = "dashboard" => T!FailureTold
ShownIsCurrent == which = "dashboard" => T!ShownIsCurrent
PoolShown == T!PoolShown
DetailFollows == T!DetailFollows

\* Not so: no event of a turn's goal is lost, and every prompt has its response.
NoneDropped == which = "editor" => E!NoneDropped
AnswerOwed == which = "editor" => E!AnswerOwed
=============================================================================
