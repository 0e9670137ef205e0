------------------------------- MODULE MCClients -------------------------------
(***************************************************************************)
(* The processes around the daemon, in one run: the socket and who starts a   *)
(* daemon, the leave that tool calls need, the agent that comes with          *)
(* SingleCLI, requests that use several agents, the run of one agent's CLI,    *)
(* and the language-server proxy.  They share nothing that is modelled: which of them a behaviour is  *)
(* about is chosen at the start, the others stay as they are.                 *)
(***************************************************************************)
EXTENDS Integers, Sequences, FiniteSets

CONSTANTS
    Callers, Https, Daemons, Starters, NoDaemon,
    Asks, Hooks, Tools, Listings, Persons, Resources, Procs, NoProc, NoOne,
    ServerOf, ResourceOf, Covers, Rules,
    MaxSteps, MaxCalls,
    Nodes, Missing, Modes, Order, Graphs,
    Langs, Unknown, Reqs, Gens, NoReq,
    AgentNames, Backends, HasKill

VARIABLES
    which,
    file, daemon, caller, job, ran, starter,
    pref, approval, ask, person, said, session, lock, child, mute,
    steps, talk, calls, late, outcome,
    mode, graph, at, task, worker, completed, joining,
    backends, docs, pending, asked, proc, reader, client, replies, open,
    use, pc, main, helper, holds, drain, passed, cancel, killed, given

DaemonVars == <<file, daemon, caller, job, ran, starter>>
AskVars == <<pref, approval, ask, person, said, session, lock, child, mute>>
AgentVars == <<steps, talk, calls, late, outcome>>
OrchVars == <<mode, graph, at, task, worker, completed, joining>>
LspVars == <<backends, docs, pending, asked, proc, reader, client, replies, open>>
RunVars == <<use, pc, main, helper, holds, drain, passed, cancel, killed, given>>

D == INSTANCE Daemon
P == INSTANCE Approvals
N == INSTANCE NativeAgent
O == INSTANCE Orchestrate
L == INSTANCE LspProxy
R == INSTANCE AgentRun

\* A listing is a call of the gateway; of the patterns that are prefixes of a resource
\* one is the longest, and a resource is a prefix of itself.
AsksAssumption ==
    /\ Listings \cap (Hooks \cup Tools) = {}
    /\ NoProc \notin Procs /\ NoOne \notin Asks
    /\ ResourceOf \in [Asks -> Resources]
    /\ \A r \in Resources : <<r, r>> \in Covers
    /\ \A r \in Resources : \A hits \in (SUBSET {p \in Resources : <<p, r>> \in Covers}) \ {{}} :
           \E p \in hits : \A q \in hits : <<q, p>> \in Covers

ASSUME ClientsAssumption == AsksAssumption /\ MaxCalls \in Nat

\* The request of Orchestrate is chosen where the others have no choice.
Init == /\ which \in {"daemon", "approvals", "agent", "orchestrate", "lsp", "run"}
        /\ D!Init /\ P!Init /\ N!Init /\ L!Init /\ R!Init
        /\ which # "run" => use = CHOOSE u \in R!Uses : TRUE
        /\ IF which = "orchestrate" THEN O!Init
           ELSE /\ mode = "none" /\ graph = <<>> /\ at = "none" /\ task = <<>>
                /\ worker = [n \in Nodes |-> "none"] /\ completed = {} /\ joining = {}

Next ==
    /\ UNCHANGED which
    /\ \/ which = "daemon" /\ D!Next /\ UNCHANGED <<AskVars, AgentVars, OrchVars, LspVars, RunVars>>
       \/ which = "approvals" /\ P!Next /\ UNCHANGED <<DaemonVars, AgentVars, OrchVars, LspVars, RunVars>>
       \/ which = "agent" /\ N!Next /\ UNCHANGED <<DaemonVars, AskVars, OrchVars, LspVars, RunVars>>
       \/ which = "orchestrate" /\ O!Next /\ UNCHANGED <<DaemonVars, AskVars, AgentVars, LspVars, RunVars>>
       \/ which = "lsp" /\ L!Next /\ UNCHANGED <<DaemonVars, AskVars, AgentVars, OrchVars, RunVars>>
       \/ which = "run" /\ R!Next /\ UNCHANGED <<DaemonVars, AskVars, AgentVars, OrchVars, LspVars>>

\* The fairness of each module, in the behaviours that are about it.
Fairness ==
    /\ \A c \in Asks : WF_AskVars(which = "approvals" /\ P!Step(c))
    /\ WF_OrchVars(which = "orchestrate" /\ O!PlansOn)
    /\ \A n \in Nodes : WF_OrchVars(which = "orchestrate" /\ O!WorksOn(n))
    /\ WF_LspVars(which = "lsp" /\ L!ClientStep)
    /\ \A g \in Gens : WF_LspVars(which = "lsp" /\ L!Reader(g))
    /\ WF_RunVars(which = "run" /\ R!Thread)
    /\ WF_RunVars(which = "run" /\ R!Deadline)

Spec == Init /\ [][Next]_<<which, DaemonVars, AskVars, AgentVars, OrchVars, LspVars, RunVars>> /\ Fairness

-----------------------------------------------------------------------------
(* The properties of each part, as its module states them. *)

\* A request is executed at most once, whichever daemons come and go.
ExecutedOnce == which = "daemon" => D!ExecutedOnce

\* Nothing is done that no rule and no person has allowed, and what is done for one MCP
\* server is done by one process.
DoneWithLeave == which = "approvals" => P!DoneWithLeave /\ P!OneProcess

\* Every tool call ends, unless an MCP server that never answers is in its way.
AsksEnd == which = "approvals" => P!AsksEnd

\* Records are returned for settled work, run on final statuses.
Settled == which = "orchestrate" => O!Settled

\* A request for several agents ends, unless one of them is held up for ever.
RequestEnds == which = "orchestrate" => O!RequestEnds

\* One answer for each: the provider is sent one for every tool call it asked for,
\* and no request to a language server is answered twice.
EachAnsweredOnce ==
    /\ which = "agent" => N!EachCallAnswered
    /\ which = "lsp" => L!AnsweredOnce

\* Every request that reached the table is answered, whatever its backend does.
RequestsEnd == which = "lsp" => L!RequestsEnd

\* A run that is killed leaves nothing of its group behind.
NoneLeft == which = "run" => R!NoneLeft

\* A run that is killed ends.
KilledEnds == R!KilledEnds

\* What is asked comes to an end: a tool call, a request for several agents, a
\* request to a language server, the run of an agent that is to be killed.  A server
\* that never answers and an agent whose helper keeps its pipes are excused.
AllAnswered == AsksEnd /\ RequestEnds /\ RequestsEnd /\ KilledEnds

\* Not so: what a person has allowed is not asked again, what was decided stays.
NotAskedAgain == P!NotAskedAgain
ResolvedOnce == P!ResolvedOnce

\* Not so: an answer to a batch has all its pieces.
BatchReported == which = "orchestrate" => O!BatchReported

\* Not so: a run ends by its deadline, nothing of it is left in a container, an agent
\* is asked its prompt and no more.
EndsByDeadline == R!EndsByDeadline
NoneLeftInside == which = "run" => R!NoneLeftInside
PromptWhole == which = "run" => R!PromptWhole

-----------------------------------------------------------------------------
(* The instance for TLC. *)

\* Calls of the gateway to one server, and hooks whose command is a prefix of
\* theirs; a rule asks for one more.
OneServer == [c \in Asks \ (Hooks \cup Tools) |-> "git"]
Commands == [c \in Asks |-> CASE c \in Tools -> "run" [] c \in Hooks -> "sh"
                                [] OTHER -> "shell"]
Prefixes == {<<r, r>> : r \in Resources} \cup {<<"sh", "shell">>}
AskForRun == [r \in {"run"} |-> "ask"]

\* Graphs of three nodes without one that depends on all, and one with an id
\* that nobody has.
InOrder == <<"n1", "n2", "n3">>
Conditions == {"always", "on_success", "on_failure"}
MayRunIf == [n1 |-> {"always"}, n2 |-> Conditions \ {"always"}, n3 |-> Conditions]
ThreeNodes ==
    {g \in [Nodes -> [depends_on : SUBSET Nodes, run_if : Conditions]] :
        \A n \in Nodes : g[n].run_if \in MayRunIf[n] /\ g[n].depends_on # Nodes}
    \cup {[n \in Nodes |-> [depends_on |-> {Missing}, run_if |-> "always"]]}
=============================================================================
