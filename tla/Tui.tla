---------------------------------- MODULE Tui ----------------------------------
(***************************************************************************)
(* The dashboard, single-tui: a loop that draws, polls its background      *)
(* threads and handles one key; the list of a tab with its highlighted     *)
(* row; the copy of the daemon's data, replaced as a whole by a background *)
(* refresh; the windows that ask for input and send on threads of their    *)
(* own.                                                                    *)
(*                                                                         *)
(* A behaviour is about one tab (one with a list, Backup, Usage or Pool);  *)
(* every other tab counts as Help.  Other clients change what the daemon   *)
(* has.  The gateway switch and what the other tabs show are left out.     *)
(***************************************************************************)
EXTENDS Integers, Sequences, FiniteSets

CONSTANTS
    About,       \* tabs a behaviour may be about
    Rows,        \* the names of its list, in their order: a sequence
    Height,      \* how many rows of a list the screen has room for
    MaxOthers    \* bound on what other clients do

VARIABLES
    about,       \* the tab it is about
    rows,        \* the daemon's: what each name is, "gone" when there is none
    others,      \* what other clients have done so far
    loop,        \* its step: draw, poll, key or quit
    tab, inside, selected,   \* where the user is; inside: in a workspace's tasks
    shown,       \* the copy of rows
    error,       \* whether a failure is on the status line
    refresh,     \* the refresh: none, asked, or the answer
    extra,       \* the fetch of the Usage or the Pool tab: no, asked, here
    flow,        \* the window that is open
    detail,      \* the task that is viewed, as it was read last
    drawn,       \* what the screen says: the highlighted row and the open window
    request      \* what the last key asked of the daemon, and whether it did it

vars == <<about, rows, others, loop, tab, inside, selected, shown, error, refresh,
          extra, flow, detail, drawn, request>>

Names == {Rows[i] : i \in 1..Len(Rows)}
NoRows == [n \in Names |-> "gone"]
Statuses == <<"created", "running", "ended">>
Words == CASE about = "Tasks" -> {"created", "running", "ended"}
           [] about \in {"Backup", "Usage", "Pool"} -> {"gone"}
           [] OTHER -> {"off", "on"}
NoRow == [name |-> "none", was |-> "gone"]

\* Tab::ALL, of which this one counts.
OtherTab == IF tab = about THEN "Help" ELSE about

\* The rows that are there, in the order of their names: the k-th one is that up to which
\* there are k.
There(sh) == {i \in DOMAIN Rows : sh[Rows[i]] # "gone"}
Kth(sh, k) == CHOOSE i \in There(sh) : Cardinality(There(sh) \cap 1..i) = k

\* The list of a tab; a workspace is one row, its tasks are behind it.
Listed(t, in, sh) ==
    IF t # about THEN <<>>
    ELSE IF t = "Tasks" /\ ~in THEN <<"workspace">>
    ELSE [k \in 1..Cardinality(There(sh)) |-> Rows[Kth(sh, k)]]

Current == Listed(tab, inside, shown)
Clamped(sel, list) == IF sel < Len(list) THEN sel ELSE IF list = <<>> THEN 0 ELSE Len(list) - 1

\* visible_window: the rows that are drawn.
Window(total) ==
    LET start == IF selected < Height THEN 0 ELSE selected - Height + 1 IN
    IF Height = 0 \/ total <= Height THEN 0..(total - 1)
    ELSE LET first == IF start > total - Height THEN total - Height ELSE start
         IN first..(first + Height - 1)

\* What the highlighted row says.
Highlighted ==
    IF selected >= Len(Current) THEN NoRow
    ELSE LET n == Current[selected + 1] IN
         [name |-> n, was |-> IF n \in Names THEN shown[n] ELSE "gone"]

-----------------------------------------------------------------------------
(* Windows: what each one asks for, one after the other, before it sends. *)

Steps == [install |-> <<"confirm">>, provider |-> <<"pick", "key">>, quick |-> <<"line">>,
          task |-> <<"description", "cwd", "agents">>,
          export |-> <<"path", "passphrase", "again">>, import |-> <<"path", "passphrase">>]

Closed == [kind |-> "none", step |-> "none", of |-> NoRow]
Asking == flow.kind # "none" /\ \E i \in DOMAIN Steps[flow.kind] : Steps[flow.kind][i] = flow.step
Answered == {"fine", "refused"}
Modal == flow # Closed \/ detail # NoRow

\* The step after this one; the last sends.
NextStep ==
    LET s == Steps[flow.kind]
        i == CHOOSE j \in DOMAIN s : s[j] = flow.step
    IN IF i = Len(s) THEN "sending" ELSE s[i + 1]

\* Input that is refused: an empty one, no agent, another passphrase.
Refusable == {"key", "line", "description", "agents", "path", "passphrase", "again"}

\* The tabs where a key opens one, and where rows are deleted or switched.
OpensOn == [install |-> {"Agents"}, provider |-> {"Providers"}, task |-> {"Tasks"},
            quick |-> {"Mcp", "Lsp", "Plugins", "Tools"},
            export |-> {"Backup"}, import |-> {"Backup"}]
Deletes == {"Mcp", "Lsp", "Plugins", "Providers", "Accounts"}
Toggles == {"Mcp", "Tools"}

\* What the open window says, the agent to install by its name.
Dialog == flow

-----------------------------------------------------------------------------
(* The background. *)

\* refresh() and the two fetches: one of a kind at a time.
NoRefresh == [at |-> "none", rows |-> NoRows, failed |-> FALSE]
Asked(r) == IF r.at = "none" THEN [NoRefresh EXCEPT !.at = "asked"] ELSE r
Fetched(t) == IF t \in {"Usage", "Pool"} /\ extra = "no" THEN "asked" ELSE extra

NoRequest == [row |-> NoRow, flow |-> Closed, done |-> TRUE]

Init ==
    /\ about \in About
    /\ rows \in [Names -> Words]
    /\ others = 0 /\ loop = "draw" /\ tab = about /\ inside = FALSE /\ selected = 0
    /\ shown = NoRows /\ error = FALSE /\ refresh = Asked(NoRefresh)
    /\ extra = "no" /\ flow = Closed /\ detail = NoRow
    /\ drawn = [row |-> NoRow, flow |-> Closed] /\ request = NoRequest

\* The thread of refresh asks for all lists at once; a list that fails is empty.
RefreshAnswers ==
    /\ refresh.at = "asked"
    /\ refresh' \in {[at |-> "here", rows |-> rows, failed |-> FALSE],
                     [at |-> "here", rows |-> NoRows, failed |-> TRUE]}
    /\ UNCHANGED <<about, rows, others, loop, tab, inside, selected, shown, error,
                   extra, flow, detail, drawn, request>>

ExtraAnswers ==
    /\ extra = "asked" /\ extra' = "here"
    /\ UNCHANGED <<about, rows, others, loop, tab, inside, selected, shown, error,
                   refresh, flow, detail, drawn, request>>

\* What a request does to the list; a backup does nothing, an import is a preview.
Effect ==
    CASE flow.kind = "install" -> {[rows EXCEPT ![flow.of.name] = "on"]}
      [] flow.kind \in {"provider", "quick"} -> {[rows EXCEPT ![n] = "on"] : n \in Names}
      [] flow.kind = "task" -> {[rows EXCEPT ![n] = "created"] : n \in {m \in Names : rows[m] = "gone"}}
      [] OTHER -> {rows}

FlowAnswers ==
    /\ flow.step = "sending"
    /\ \/ rows' \in Effect \cup {rows} /\ flow' = [flow EXCEPT !.step = "fine"]
       \/ UNCHANGED rows /\ flow' = [flow EXCEPT !.step = "refused"]
    /\ UNCHANGED <<about, others, loop, tab, inside, selected, shown, error, refresh,
                   extra, detail, drawn, request>>

\* Another client, or a task that goes on.
Others ==
    /\ others < MaxOthers /\ others' = others + 1
    /\ \E n \in Names, w \in Words \cup {"gone"} :
          /\ rows[n] # w
          /\ about = "Tasks" => \E i \in 1..2 : rows[n] = Statuses[i] /\ w = Statuses[i + 1]
          /\ rows' = [rows EXCEPT ![n] = w]
    /\ UNCHANGED <<about, loop, tab, inside, selected, shown, error, refresh, extra,
                   flow, detail, drawn, request>>

-----------------------------------------------------------------------------
(* The loop: draw, poll, one key.  The polls go in order, and one that has found
   something is drawn before a key is read. *)

Draw ==
    /\ loop = "draw" /\ loop' = "poll"
    /\ drawn' = [row |-> Highlighted, flow |-> Dialog] /\ request' = NoRequest
    /\ UNCHANGED <<about, rows, others, tab, inside, selected, shown, error, refresh,
                   extra, flow, detail>>

KeyNext == "key"   \* mutant: the key is read before that
Found == "draw"
Polled == {"Usage"}
RefreshHere == refresh.at = "here"
FlowHere == flow.step \in Answered
DetailHere == detail.was = "running" /\ rows[detail.name] # "running"
ExtraHere == about \in Polled /\ extra = "here"

\* poll_refresh: the copy, the fetches of the tab, the highlighted row.
PollRefresh ==
    /\ RefreshHere /\ shown' = refresh.rows /\ refresh' = NoRefresh
    /\ error' = (error \/ refresh.failed) /\ extra' = Fetched(tab)
    /\ selected' = Clamped(selected, Listed(tab, inside, refresh.rows))
    /\ UNCHANGED <<flow, detail>>

\* poll_install and its like; all but poll_backup refresh.
PollFlow ==
    /\ ~RefreshHere /\ FlowHere
    /\ flow' = [flow EXCEPT !.step = IF @ = "fine" THEN "done" ELSE "failed"]
    /\ IF flow.kind \in {"export", "import"} THEN UNCHANGED <<refresh, error>>
       ELSE refresh' = Asked(refresh) /\ error' = FALSE
    /\ UNCHANGED <<selected, shown, extra, detail>>

\* poll_task_detail, when something is new: of a task that runs.
PollDetail ==
    /\ ~RefreshHere /\ DetailHere /\ detail' = [detail EXCEPT !.was = rows[detail.name]]
    /\ UNCHANGED <<selected, shown, error, refresh, extra, flow>>

\* poll_usage.  poll_pool is called by nobody.
PollExtra ==
    /\ ~RefreshHere /\ ~FlowHere /\ ~DetailHere /\ ExtraHere /\ extra' = "no"
    /\ UNCHANGED <<selected, shown, error, refresh, flow, detail>>

Poll ==
    /\ loop = "poll"
    /\ \/ (PollRefresh \/ PollFlow \/ PollDetail \/ PollExtra) /\ loop' = Found
       \/ /\ ~(RefreshHere \/ FlowHere \/ DetailHere \/ ExtraHere) /\ loop' = "key"
          /\ UNCHANGED <<selected, shown, error, refresh, extra, flow, detail>>
    /\ UNCHANGED <<about, rows, others, tab, inside, drawn, request>>

-----------------------------------------------------------------------------
(* Keys.  A window takes them all. *)

NoKey ==
    /\ UNCHANGED <<rows, tab, inside, selected, error, refresh, extra, flow, detail, request>>

Close ==
    /\ \/ Asking \/ flow.step \in {"done", "failed"} \/ detail # NoRow
    /\ flow' = Closed /\ detail' = NoRow
    /\ UNCHANGED <<rows, tab, inside, selected, error, refresh, extra, request>>

Enter ==
    /\ Asking /\ flow' = [flow EXCEPT !.step = NextStep]
    /\ request' = IF NextStep = "sending" THEN [NoRequest EXCEPT !.flow = flow] ELSE request
    /\ UNCHANGED <<rows, tab, inside, selected, error, refresh, extra, detail>>

Refuse ==
    /\ Asking /\ flow.step \in Refusable /\ error' = TRUE
    /\ flow' = [flow EXCEPT !.step = IF @ = "again" THEN "passphrase" ELSE @]
    /\ UNCHANGED <<rows, tab, inside, selected, refresh, extra, detail, request>>

SwitchTab ==
    /\ tab' = OtherTab
    /\ inside' = FALSE /\ selected' = 0 /\ extra' = Fetched(tab')
    /\ UNCHANGED <<rows, error, refresh, flow, detail, request>>

Move ==
    /\ Current # <<>>
    /\ \E by \in {1, Len(Current) - 1} : selected' = (selected + by) % Len(Current)
    /\ UNCHANGED <<rows, tab, inside, error, refresh, extra, flow, detail, request>>

RefreshKey ==
    /\ refresh' = Asked(refresh) /\ error' = FALSE
    /\ UNCHANGED <<rows, tab, inside, selected, extra, flow, detail, request>>

\* delete_selected, toggle_selected: the request on the loop's own thread, by what
\* the copy says; then a refresh, which clears the error there may have been.
Change(to) ==
    LET row == Highlighted IN
       /\ tab = about /\ row # NoRow
       /\ rows' \in {rows} \cup (IF rows[row.name] = "gone" THEN {} ELSE {[rows EXCEPT ![row.name] = to]})
       /\ request' = [row |-> row, flow |-> Closed, done |-> rows'[row.name] = to]
       /\ refresh' = Asked(refresh) /\ error' = FALSE
       /\ UNCHANGED <<tab, inside, selected, extra, flow, detail>>

Delete == about \in Deletes /\ Change("gone")
Toggle == about \in Toggles /\ Change(IF Highlighted.was = "on" THEN "off" ELSE "on")

\* begin_install and its like: an agent that is there already, or has no installer,
\* and presets that cannot be had, are errors.
Open ==
    /\ \E kind \in DOMAIN OpensOn :
          /\ tab \in OpensOn[kind] /\ (kind = "install" => Highlighted # NoRow)
          /\ \/ /\ kind = "install" => Highlighted.was = "off"
                /\ flow' = [kind |-> kind, step |-> Steps[kind][1],
                            of |-> IF kind = "install" THEN Highlighted ELSE NoRow]
                /\ UNCHANGED error
             \/ kind \in {"install", "provider"} /\ error' = TRUE /\ UNCHANGED flow
    /\ UNCHANGED <<rows, tab, inside, selected, refresh, extra, detail, request>>

\* tasks_enter and Esc.
TasksEnter ==
    /\ tab = "Tasks" /\ Highlighted # NoRow
    /\ IF inside THEN detail' = Highlighted /\ UNCHANGED <<inside, selected>>
       ELSE inside' = TRUE /\ selected' = 0 /\ UNCHANGED detail
    /\ UNCHANGED <<rows, tab, error, refresh, extra, flow, request>>

ExitWorkspace ==
    /\ inside /\ inside' = FALSE /\ selected' = 0
    /\ UNCHANGED <<rows, tab, error, refresh, extra, flow, detail, request>>

Key ==
    /\ loop = "key" /\ loop' = "draw"
    /\ \/ NoKey \/ Close \/ Enter \/ Refuse
       \/ /\ ~Modal
          /\ \/ SwitchTab \/ Move \/ RefreshKey \/ Delete \/ Toggle \/ Open
             \/ TasksEnter \/ ExitWorkspace
    /\ UNCHANGED <<about, others, shown, drawn>>

Quit ==
    /\ loop = "key" /\ ~Modal /\ loop' = "quit"
    /\ UNCHANGED <<about, rows, others, tab, inside, selected, shown, error, refresh,
                   extra, flow, detail, drawn, request>>

Turns == Draw \/ Poll \/ Key
Next == RefreshAnswers \/ ExtraAnswers \/ FlowAnswers \/ Others \/ Turns \/ Quit

\* The loop goes round.  The threads beside it wait for the daemon without a timeout, and
\* an agent or an installer that works there may be held up.
Fairness == WF_vars(Turns)

Spec == Init /\ [][Next]_vars /\ Fairness

-----------------------------------------------------------------------------
(* Properties. *)

\* lib.rs, event_loop: a key acts on what the screen says.  However refreshes come in
\* while a key is on its way, the row that is deleted or switched, and the agent whose
\* installer runs, are the ones the user has seen highlighted or named.
ActsOnShown ==
    /\ request.row # NoRow => request.row = drawn.row
    /\ request.flow # Closed => request.flow = drawn.flow

\* app.rs, clamp_selection, and ui.rs, visible_window: a list that has rows has a
\* highlighted one, and it is drawn.
Highlights == Current # <<>> => Highlighted # NoRow /\ selected \in Window(Len(Current))

\* The answer to a window that has sent comes to the screen, and so does the usage that was
\* fetched: the polls of a pass that give way to an earlier one get their turn.  (No
\* behaviour is about both.)
AnswersCome ==
    flow.step \in {"fine", "refused"} \/ (about = "Usage" /\ extra = "here")
        ~> \/ flow.step \in {"done", "failed"} \/ loop = "quit"
           \/ (about = "Usage" /\ extra = "no")

\* NOT TRUE.  app.rs:1293: the pool's status that is fetched, "a new pool-status snapshot", is
\* shown.  The loop polls every thread but that one.
PoolShown == about = "Pool" /\ extra = "here" ~> extra = "no" \/ loop = "quit"

\* NOT TRUE.  app.rs:540-552: a request that has failed is told.
FailureTold == loop = "draw" /\ ~request.done => error

\* NOT TRUE.  app.rs:356-362: a refresh in flight does for the keys that follow.  It may have
\* read the list before their requests, and no other refresh comes.
ShownIsCurrent ==
    refresh.at = "none" /\ others = 0 /\ flow = Closed =>
        \A n \in Names : shown[n] \in {rows[n], "gone"}

\* NOT TRUE.  app.rs:1084-1087: the view of a task "stops polling once the task finishes".  One
\* that waits to run when it is opened is not polled at all.
DetailFollows ==
    \A n \in Names : detail.name = n /\ rows[n] = "ended" ~> detail.name # n \/ detail.was = "ended"
=============================================================================
