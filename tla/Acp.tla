---------------------------------- MODULE Acp ----------------------------------
(***************************************************************************)
(* The editor bridge, crates/single-cli/src/acp.rs: one stdin loop, a thread  *)
(* per prompt that submits a goal and tails the events of its session, and    *)
(* the daemon as far as the bridge sees it.  One ACP session; what its mode   *)
(* and its pinned agent do to a goal is left out, and so are events that      *)
(* belong to no goal.                                                        *)
(***************************************************************************)
EXTENDS Integers, Sequences

CONSTANTS
    Turns,          \* prompts and re-attachments of the session
    Goals,
    NoGoal,
    MaxEvents,      \* bound: events the session logs
    MaxAsks,        \* bound: how often one turn gets its budget raised
    MaxLoads        \* bound: session/load requests

VARIABLES
    sess,       \* AcpSession: last_event_id, the cancel flag; loads counts them
    loading,    \* session/load in the stdin loop: events it has read, or -1;
                \* -2 when the process is gone
    turn,       \* threads of run_turn and of session_load
    goal,       \* status of a goal in the daemon: none before it exists, over
                \* when it is done, failed or cancelled
    events      \* coordinator_events of the session: the goal of each

acpVars == <<sess, loading, turn, goal, events>>

\* since, start: cursor of stream_goal and where it began.  seen: the events
\* that were translated.  mine: history, the goal was made for this prompt.
NoTurn == [pc |-> "idle", goal |-> NoGoal, since |-> 0,
           start |-> 0, seen |-> {}, mine |-> FALSE, asks |-> 0]

Active == {"planning", "running", "blocked"}

Init ==
    /\ sess = [last |-> 0, cancel |-> FALSE, loads |-> 0]
    /\ loading = -1
    /\ turn = [t \in Turns |-> NoTurn]
    /\ goal = [g \in Goals |-> "none"]
    /\ events = <<>>

Now == Len(events)
Reading == loading = -1         \* the stdin loop waits for a line
In(t, pc) == turn[t].pc = pc
Moves(t, to) == turn' = [turn EXCEPT ![t] = to]
Stops(t) == Moves(t, [NoTurn EXCEPT !.pc = "done"])
Ends(g, status) == goal' = [goal EXCEPT ![g] = status]
Upto(n, m) == IF n < m THEN m ELSE n

-----------------------------------------------------------------------------
(* The stdin loop. *)

\* session/prompt forgets a cancel, also one a running turn has not seen.
Prompt(t) ==
    /\ Reading /\ In(t, "idle")
    /\ sess' = [sess EXCEPT !.cancel = FALSE]
    /\ Moves(t, [NoTurn EXCEPT !.pc = "submit"])
    /\ UNCHANGED <<loading, goal, events>>

\* active_goal: one of the session's goals that are not over.
ActiveGoals == {g \in Goals : goal[g] \in Active}

\* session/cancel; the goal is not reached when the socket fails.
Cancel ==
    /\ Reading
    /\ sess' = [sess EXCEPT !.cancel = TRUE]
    /\ \/ UNCHANGED goal
       \/ \E g \in ActiveGoals : Ends(g, "over")
    /\ UNCHANGED <<loading, turn, events>>

\* session/load reads the whole log ...
Load ==
    /\ Reading /\ sess.loads < MaxLoads
    /\ loading' = Now
    /\ sess' = [sess EXCEPT !.loads = @ + 1]
    /\ UNCHANGED <<turn, goal, events>>

\* ... shows it, moves the cursor there and tails a goal that is not over.
Loaded ==
    /\ loading >= 0
    /\ sess' = [sess EXCEPT !.last = IF loading > 0 THEN loading ELSE @]
    /\ loading' = -1
    /\ IF ActiveGoals = {} THEN UNCHANGED turn
       ELSE \E t \in Turns : \E g \in ActiveGoals :
                /\ In(t, "idle")
                /\ Moves(t, [NoTurn EXCEPT !.pc = "open", !.goal = g])
    /\ UNCHANGED <<goal, events>>

\* A line of stdin, or a message that a load replays, has a character where the log
\* cuts it; stdin closes or is not UTF-8.  The process ends with all its threads.
Dies ==
    /\ loading # -2
    /\ loading' = -2
    /\ turn' = [t \in Turns |-> IF turn[t].pc \in {"idle", "done"} THEN turn[t]
                                ELSE [NoTurn EXCEPT !.pc = "dead"]]
    /\ UNCHANGED <<sess, goal, events>>

-----------------------------------------------------------------------------
(* A turn. *)

\* The log takes the first 60 bytes of a prompt and 300 of what is sent (a reply, an
\* event, the plan, a question), before it is sent: a panic inside a character.
Sends == {"submit", "poll", "view", "ask"}
Panics(t) ==
    /\ turn[t].pc \in Sends
    /\ Moves(t, [NoTurn EXCEPT !.pc = "dead"])
    /\ UNCHANGED <<sess, loading, goal, events>>

\* A slash command, a status question, a submit that fails, at once or in the end.
Reply(t) ==
    /\ In(t, "submit") \/ (In(t, "wait") /\ turn[t].asks = 0)
    /\ Stops(t)
    /\ UNCHANGED <<sess, loading, goal, events>>

\* GoalSubmit answers when the goal has been planned and driven once, however long the
\* agents take: the bridge reads its socket without a timeout ...
Submit(t) ==
    /\ In(t, "submit")
    /\ \E g \in Goals :
           /\ goal[g] = "none"
           /\ Ends(g, "planning")
           /\ Moves(t, [turn[t] EXCEPT !.pc = "wait", !.goal = g, !.mine = TRUE])
    /\ UNCHANGED <<sess, loading, events>>

Submitted(t) ==
    /\ In(t, "wait") /\ goal[turn[t].goal] # "planning"
    /\ Moves(t, [turn[t] EXCEPT !.pc = "open"])
    /\ UNCHANGED <<sess, loading, goal, events>>

\* ... or at once, with a goal of the same text that is not over.
Overlaps(t) ==
    /\ In(t, "submit")
    /\ \E g \in ActiveGoals :
           Moves(t, [turn[t] EXCEPT !.pc = "open", !.goal = g])
    /\ UNCHANGED <<sess, loading, goal, events>>

\* stream_goal takes the shared cursor once.
Cursor == sess.last
Open(t) ==
    /\ In(t, "open")
    /\ Moves(t, [turn[t] EXCEPT !.pc = "poll", !.since = Cursor, !.start = Cursor])
    /\ UNCHANGED <<sess, loading, goal, events>>

CancelSeen(t) ==
    /\ In(t, "poll") /\ sess.cancel
    /\ Ends(turn[t].goal, "over")
    /\ Stops(t)
    /\ UNCHANGED <<sess, loading, events>>

\* An hour is over.
Late(t) ==
    /\ In(t, "poll") /\ ~sess.cancel
    /\ Stops(t)
    /\ UNCHANGED <<sess, loading, goal, events>>

Own(t, since) == {e \in (since + 1)..Now : events[e] = turn[t].goal}

\* SessionEvents: own events are translated, all move the cursor; the shared
\* one is only pushed forward.
FromShared(t) == sess.last
From(t) == turn[t].since
Fetch(t) ==
    /\ In(t, "poll") /\ ~sess.cancel
    /\ Moves(t, [turn[t] EXCEPT !.pc = "view", !.since = Upto(From(t), Now),
                     !.seen = @ \cup Own(t, From(t))])
    /\ sess' = [sess EXCEPT !.last = Upto(@, Upto(From(t), Now))]
    /\ UNCHANGED <<loading, goal, events>>

FetchFails(t) ==
    /\ In(t, "poll") /\ ~sess.cancel
    /\ Moves(t, [turn[t] EXCEPT !.pc = "view"])
    /\ UNCHANGED <<sess, loading, goal, events>>

View(t) ==
    /\ In(t, "view")
    /\ CASE goal[turn[t].goal] = "over" -> Stops(t)
         [] goal[turn[t].goal] = "blocked" ->
                Moves(t, [turn[t] EXCEPT !.pc = "ask"])
         [] OTHER -> Moves(t, [turn[t] EXCEPT !.pc = "poll"])
    /\ UNCHANGED <<sess, loading, goal, events>>

ViewFails(t) ==
    /\ In(t, "view")
    /\ Stops(t)
    /\ UNCHANGED <<sess, loading, goal, events>>

\* handle_blocked: the answer comes over stdin; GoalAmend sets a blocked goal running and
\* drives, and then the turn tails on, from the shared cursor.
Raise(t) ==
    /\ In(t, "ask") /\ Reading /\ turn[t].asks < MaxAsks
    /\ goal' = [goal EXCEPT ![turn[t].goal] =
                   IF @ = "blocked" THEN "running" ELSE @]
    /\ Moves(t, [turn[t] EXCEPT !.pc = "wait", !.asks = @ + 1])
    /\ UNCHANGED <<sess, loading, events>>

Refuse(t) ==
    /\ In(t, "ask") /\ Reading
    /\ Ends(turn[t].goal, "over")
    /\ Stops(t)
    /\ UNCHANGED <<sess, loading, events>>

UnansweredWaits(t) == In(t, "ask") /\ UNCHANGED acpVars

\* No answer in 180 s, or none that can be read.
Unanswered(t) ==
    /\ In(t, "ask")
    /\ Stops(t)
    /\ UNCHANGED <<sess, loading, goal, events>>

-----------------------------------------------------------------------------
(* The daemon: external to the bridge, see Coordinator.tla. *)

Logs(g) == events' = Append(events, g)

Works(g) ==
    /\ goal[g] \in Active \ {"blocked"} /\ Now < MaxEvents
    /\ Logs(g)
    /\ UNCHANGED <<sess, loading, turn, goal>>

Turnout(g) ==
    /\ \/ goal[g] = "planning" /\ \E s \in {"running", "over"} : Ends(g, s)
       \/ goal[g] = "running" /\ \E s \in {"blocked", "over"} : Ends(g, s)
    /\ UNCHANGED <<sess, loading, turn, events>>

Acts(t) == \/ Reply(t) \/ Submit(t) \/ Submitted(t) \/ Overlaps(t) \/ Open(t)
           \/ CancelSeen(t) \/ Late(t) \/ Fetch(t) \/ FetchFails(t) \/ View(t)
           \/ ViewFails(t) \/ Unanswered(t)

Next == \/ \E t \in Turns : Prompt(t) \/ Acts(t) \/ Raise(t) \/ Refuse(t) \/ Panics(t)
        \/ \E g \in Goals : Works(g) \/ Turnout(g)
        \/ Cancel \/ Load \/ Loaded \/ Dies

\* Threads run, a load ends, the clock of the one-hour deadline does not stop.  The person
\* need not answer anything, nor the daemon a request under which agents work.
Fairness == /\ \A t \in Turns : /\ WF_acpVars(~In(t, "wait") /\ Acts(t))
                                /\ SF_acpVars(CancelSeen(t) \/ Late(t))
            /\ WF_acpVars(Loaded)

Spec == Init /\ [][Next]_acpVars /\ Fairness

-----------------------------------------------------------------------------
(* Properties. *)

\* Between its first cursor and its present one a turn has shown the events of
\* its own goal, whichever other turns move the shared cursor meanwhile
\* (stream_goal's comment on the cursor that two goals used to share).
NoneSkipped ==
    \A t \in Turns : turn[t].pc \in {"poll", "view", "ask"} =>
        {e \in (turn[t].start + 1)..turn[t].since : events[e] = turn[t].goal}
            \subseteq turn[t].seen

\* Every prompt gets its response, whatever the daemon, the user and the other turns do:
\* by the goal's end, a cancel, the deadline or the ask's timeout.  It may wait for the
\* daemon to plan or drive, for ever if an agent is held up there, and a panic of its
\* thread, or the end of the bridge, takes it away; nothing else does.
Waits(t) == In(t, "wait")
PromptAnswered ==
    \A t \in Turns : In(t, "submit") \/ In(t, "open") ~> In(t, "done") \/ In(t, "dead") \/ Waits(t)

\* NOT TRUE.  acp.rs owes no response for the stream of a session/load, "unlike
\* run_turn's prompt-driven one".  So every prompt has its response in the end.
AnswerOwed == \A t \in Turns : In(t, "submit") ~> In(t, "done")

\* NOT TRUE.  acp.rs, on the cursor: reading it once is to keep one goal's burst of events
\* from advancing it past "events belonging to the other goal, silently dropping
\* them from that goal's own `stream_goal` call".  So no event of the goal it
\* submitted that is behind a turn's cursor is one the turn has not shown.
NoneDropped ==
    \A t \in Turns : In(t, "view") /\ turn[t].mine =>
        {e \in 1..turn[t].since : events[e] = turn[t].goal} \subseteq turn[t].seen
=============================================================================
