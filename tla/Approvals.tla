------------------------------- MODULE Approvals -------------------------------
(***************************************************************************)
(* What an agent may do through SingleCLI, and with whose leave:             *)
(* crates/single-core/src/preferences.rs and permissions.rs, asked by the    *)
(* MCP gateway (crates/single-mcp/src/gateway.rs), by the tools of           *)
(* singlecli-mcp and by the PreToolUse hook of claude (single-cli/main.rs),  *)
(* which are processes of their own on one database; and the MCP servers     *)
(* that the gateway spawns for the calls it lets through.                    *)
(***************************************************************************)
EXTENDS Integers, Sequences

CONSTANTS
    Asks,           \* tool calls, each made once; a retry is another one
    Hooks,          \* those that wait for the answer
    Tools,          \* those of singlecli-mcp; the others go to the gateway
    Listings,       \* calls of the gateway with tool: null
    ServerOf,       \* the MCP server of a call of the gateway
    Persons,        \* single approval resolve, in a terminal or the TUI
    Resources, ResourceOf,
    Covers,         \* <<p, r>>: the pattern p is a prefix of r
    Rules,          \* permissions.toml: decisions for some patterns
    Procs, NoProc,  \* processes of MCP servers
    NoOne

VARIABLES
    pref,       \* table preferences: the learned decision, or none
    approval,   \* table approvals, by id
    ask,        \* each call
    person,     \* each resolve under way
    said,       \* history: what persons have decided
    session,    \* sessions: server to process; old when idle for ten minutes
    lock,       \* who holds the mutex of sessions over a spawn
    child,      \* each process; evicted: dropped from the map
    mute        \* processes that will never answer, nor end

askVars == <<pref, approval, ask, person, said, session, lock, child, mute>>

Servers == {ServerOf[c] : c \in Asks \ (Hooks \cup Tools)}
NoSession == [child |-> NoProc, old |-> FALSE]

Init ==
    /\ pref = [r \in Resources |-> "none"]
    /\ approval = <<>>
    /\ ask = [c \in Asks |-> [pc |-> "idle", id |-> 0, child |-> NoProc]]
    /\ person = [p \in Persons |-> [pc |-> "idle", id |-> 0, allow |-> FALSE,
                                    remember |-> FALSE]]
    /\ said = {}
    /\ session = [s \in Servers |-> NoSession]
    /\ lock = NoOne
    /\ child = [g \in Procs |-> "none"]
    /\ mute = {}

Is(c, pc) == ask[c].pc = pc
To(c, pc) == ask' = [ask EXCEPT ![c].pc = pc]
Table == <<pref, approval, person, said>>
Gate == <<session, lock, child, mute>>

-----------------------------------------------------------------------------
(* The verdict. *)

\* permissions::evaluate and preferences::lookup: the longest prefix decides.
Longest(patterns) ==
    CHOOSE p \in patterns : \A q \in patterns : <<q, p>> \in Covers
Decision(table, r) ==
    LET hits == {p \in DOMAIN table : <<p, r>> \in Covers /\ table[p] # "none"}
    IN  IF hits = {} THEN "ask" ELSE table[Longest(hits)]

\* A rule that does not ask comes before what was learned.
Verdict(r) == IF Decision(Rules, r) # "ask" THEN Decision(Rules, r)
              ELSE Decision(pref, r)

Admitted(c) == IF c \in Hooks \cup Tools THEN "ran" ELSE "ensure"

\* evaluate_and_learn; a listing is not gated.
Check(c) ==
    /\ Is(c, "idle")
    /\ To(c, IF c \in Listings THEN "ensure"
             ELSE CASE Verdict(ResourceOf[c]) = "allow" -> Admitted(c)
                    [] Verdict(ResourceOf[c]) = "deny" -> "denied"
                    [] OTHER -> "asking")
    /\ UNCHANGED <<Table, Gate>>

\* request_approval; only a hook stays for the answer.
RequestApproval(c) ==
    /\ Is(c, "asking")
    /\ approval' = Append(approval, [resource |-> ResourceOf[c],
                                     status |-> "pending"])
    /\ ask' = [ask EXCEPT ![c] = [@ EXCEPT !.id = Len(approval'),
                                  !.pc = IF c \in Hooks THEN "waiting" ELSE "told"]]
    /\ UNCHANGED <<pref, person, said, Gate>>

PollAnyAnswer(c) ==
    /\ Is(c, "waiting") /\ approval[ask[c].id].status # "pending"
    /\ To(c, "ran")
    /\ UNCHANGED <<Table, Gate>>

\* wait_for_approval looks once a second; after 280 s no answer is a denial.
Poll(c) ==
    /\ Is(c, "waiting") /\ approval[ask[c].id].status # "pending"
    /\ To(c, IF approval[ask[c].id].status = "allowed" THEN "ran" ELSE "denied")
    /\ UNCHANGED <<Table, Gate>>

Deadline(c) ==
    /\ Is(c, "waiting") /\ approval[ask[c].id].status = "pending"
    /\ To(c, "denied")
    /\ UNCHANGED <<Table, Gate>>

-----------------------------------------------------------------------------
(* preferences::resolve: three statements, each by itself. *)

Resolve(p) ==
    /\ person[p].pc = "idle"
    /\ \E id \in DOMAIN approval : \E allow, remember \in BOOLEAN :
           /\ approval[id].status = "pending"
           /\ person' = [person EXCEPT ![p] = [pc |-> "update", id |-> id,
                                     allow |-> allow, remember |-> remember]]
    /\ UNCHANGED <<pref, approval, ask, said, Gate>>

Update(p) ==
    /\ person[p].pc = "update"
    /\ approval' = [approval EXCEPT ![person[p].id].status =
                       IF person[p].allow THEN "allowed" ELSE "denied"]
    /\ said' = said \cup {[resource |-> approval[person[p].id].resource,
                           id |-> person[p].id, allow |-> person[p].allow,
                           remember |-> person[p].remember]}
    /\ person' = [person EXCEPT ![p].pc =
                     IF person[p].remember THEN "learn" ELSE "done"]
    /\ UNCHANGED <<pref, ask, Gate>>

Learn(p) ==
    /\ person[p].pc = "learn"
    /\ pref' = [pref EXCEPT ![approval[person[p].id].resource] =
                   IF person[p].allow THEN "allow" ELSE "deny"]
    /\ person' = [person EXCEPT ![p].pc = "done"]
    /\ UNCHANGED <<approval, ask, said, Gate>>

-----------------------------------------------------------------------------
(* ensure_session: the mutex is held over spawn and initialize. *)

Server(c) == ServerOf[c]
LockIgnored == TRUE
LockFree == lock = NoOne
Takes(c, pc, g) == ask' = [ask EXCEPT ![c] = [@ EXCEPT !.pc = pc, !.child = g]]

Reuse(c) ==
    /\ Is(c, "ensure") /\ LockFree /\ session[Server(c)].child # NoProc
    /\ session' = [session EXCEPT ![Server(c)].old = FALSE]
    /\ Takes(c, "calling", session[Server(c)].child)
    /\ UNCHANGED <<Table, lock, child, mute>>

\* No such server, a secret that is missing, a command that does not start.
NoSpawn(c) ==
    /\ Is(c, "ensure") /\ LockFree /\ session[Server(c)].child = NoProc
    /\ To(c, "failed")
    /\ UNCHANGED <<Table, Gate>>

Spawn(c, g) ==
    /\ Is(c, "ensure") /\ LockFree /\ session[Server(c)].child = NoProc
    /\ child[g] = "none"
    /\ child' = [child EXCEPT ![g] = "starting"]
    /\ lock' = c
    /\ Takes(c, "initializing", g)
    /\ UNCHANGED <<Table, session, mute>>

\* An MCP server may stop to answer at any time; neither initialize nor call_tool
\* has a timeout.
GoesMute(g) ==
    /\ child[g] \in {"starting", "up", "evicted"}
    /\ mute' = mute \cup {g}
    /\ UNCHANGED <<Table, ask, session, lock, child>>
Answers(c) == ask[c].child \notin mute

Initialized(c) ==
    /\ Is(c, "initializing") /\ Answers(c)
    /\ child' = [child EXCEPT ![ask[c].child] = "up"]
    /\ session' = [session EXCEPT ![Server(c)] = [child |-> ask[c].child, old |-> FALSE]]
    /\ lock' = NoOne
    /\ To(c, "calling")
    /\ UNCHANGED <<Table, mute>>

InitializeFails(c) ==
    /\ Is(c, "initializing") /\ Answers(c)
    /\ child' = [child EXCEPT ![ask[c].child] = "gone"]
    /\ lock' = NoOne
    /\ To(c, "failed")
    /\ UNCHANGED <<Table, session, mute>>

\* The last holder of an evicted session closes the process.
Held(g, but) == \E c \in Asks \ {but} : Is(c, "calling") /\ ask[c].child = g
CallEnds(c) ==
    /\ Is(c, "calling") /\ Answers(c)
    /\ \E end \in {"ran", "failed"} : To(c, end)
    /\ child' = [g \in Procs |->
          IF g = ask[c].child /\ child[g] = "evicted" /\ ~Held(g, c) THEN "gone"
          ELSE child[g]]
    /\ UNCHANGED <<Table, session, lock, mute>>

Ages(s) ==
    /\ session[s].child # NoProc /\ ~session[s].old
    /\ session' = [session EXCEPT ![s].old = TRUE]
    /\ UNCHANGED <<Table, ask, lock, child, mute>>

\* spawn_idle_sweeper: idle is counted from when a call got the session.
Idle == {s \in Servers : session[s].old}
Sweep ==
    /\ LockFree /\ Idle # {}
    /\ session' = [s \in Servers |-> IF s \in Idle THEN NoSession ELSE session[s]]
    /\ child' = [g \in Procs |->
          IF \E s \in Idle : session[s].child = g
          THEN IF Held(g, NoOne) THEN "evicted" ELSE "gone"
          ELSE child[g]]
    /\ UNCHANGED <<Table, ask, lock, mute>>

Step(c) == \/ RequestApproval(c) \/ Poll(c) \/ Deadline(c) \/ Reuse(c)
           \/ NoSpawn(c) \/ Initialized(c) \/ InitializeFails(c) \/ CallEnds(c)
           \/ \E g \in Procs : Spawn(c, g)

Next == \/ \E c \in Asks : Check(c) \/ Step(c)
        \/ \E p \in Persons : Resolve(p) \/ Update(p) \/ Learn(p)
        \/ \E s \in Servers : Ages(s)
        \/ \E g \in Procs : GoesMute(g)
        \/ Sweep

\* Processes run; an MCP server that is not mute answers or its pipe breaks.
Fairness == \A c \in Asks : WF_askVars(Step(c))
Spec == Init /\ [][Next]_askVars /\ Fairness

-----------------------------------------------------------------------------
(* Properties. *)

\* Nothing is done that a rule or a person has not allowed: a person allowed it
\* for this very hook, or said that it be remembered, for a prefix of it; never
\* a call whose approval is pending, denied, or lost in a race of two persons.
Leave(c) ==
    \/ c \in Listings
    \/ Decision(Rules, ResourceOf[c]) = "allow"
    \/ \E d \in said : /\ d.allow /\ <<d.resource, ResourceOf[c]>> \in Covers
                       /\ d.remember \/ (c \in Hooks /\ d.id = ask[c].id)
DoneWithLeave ==
    \A c \in Asks : ask[c].pc \in {"ensure", "initializing", "calling", "ran"} => Leave(c)

\* However calls of one server overlap with each other and with the sweeper,
\* they share one process: another one that runs was given up by the sweeper
\* while a call used it, or is starting for the holder of the lock.
OneProcess ==
    \A c \in Asks : Is(c, "calling") /\ session[Server(c)].child # ask[c].child =>
        child[ask[c].child] = "evicted"

\* Every call ends, but for one that waits for a server that never answers, or for
\* the mutex that is held over the start of one: no wait for a person is for ever.
Ended(c) == ask[c].pc \in {"ran", "denied", "told", "failed"}
WaitsForMute(c) == ask[c].pc \in {"initializing", "calling"} /\ ask[c].child \in mute
Stuck(c) == \/ WaitsForMute(c)
            \/ Is(c, "ensure") /\ lock # NoOne /\ WaitsForMute(lock)
AsksEnd == \A c \in Asks : ~Is(c, "idle") ~> Ended(c) \/ Stuck(c)

\* NOT TRUE.  gateway.rs: "run `single approval resolve {id} --allow` (or --deny), then
\* retry": a retry of what was allowed is not put before the person again.
NotAskedAgain ==
    [][\A c \in Asks : Is(c, "idle") /\ ask'[c].pc = "asking" =>
           \A id \in DOMAIN approval :
               approval[id].resource = ResourceOf[c]
               => approval[id].status # "allowed"]_askVars

\* NOT TRUE.  preferences.rs: resolve "errors if `id` doesn't exist or was already resolved".
ResolvedOnce ==
    [][\A id \in DOMAIN approval :
           approval[id].status # "pending" => approval'[id] = approval[id]]_askVars
=============================================================================
