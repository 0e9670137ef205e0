-------------------------------- MODULE AgentRun --------------------------------
(***************************************************************************)
(* One run of an agent's CLI, run.rs of the agent SDK: the process that is     *)
(* spawned, what it starts itself, the loop that polls it for its end, the     *)
(* deadline and a cancel, the kill of its process group, and the threads that  *)
(* drain its pipes and are joined at the end.  On the host, or as docker exec  *)
(* in a container.  The two pipes count as one.                              *)
(***************************************************************************)
CONSTANTS
    AgentNames,   \* of the domain of AdapterOf
    Backends,     \* of "host", "docker"
    HasKill       \* whether there is a kill command on the PATH

VARIABLES
    use,       \* the agent, what it is run for and where
    pc,        \* of the thread that runs it
    main,      \* the process: none, runs, failed or ok until it is reaped
    helper,    \* what it has started: none, group, escaped, inside or gone
    holds,     \* whether that has the pipes
    drain,     \* the thread on the pipe: open, or broken by a line it cannot read
    passed, cancel,   \* the deadline has passed; the cancel flag
    killed,    \* no, timed_out or cancelled
    given      \* what the agent was given

vars == <<use, pc, main, helper, holds, drain, passed, cancel, killed, given>>

-----------------------------------------------------------------------------
(* The agents SingleCLI knows, adapters.rs: for each one the format of the     *)
(* file its MCP servers go to, how a prompt is put on its command line, and    *)
(* whether it has a login and a plugin command.  What a CLI makes of its       *)
(* command line is external, and modelled as the comments of adapters.rs       *)
(* describe it.                                                                *)

\* format: one of AgentConfigs, or none.  prompt: "after" a "--", "bound" to its
\* flag with "=", the "value" of the flag before it, a "word", or no run mode.
\* more: arguments follow the prompt.  The others: commands the agent has.
Adapter(format, prompt, more, commands) ==
    [format |-> format, prompt |-> prompt, more |-> more, commands |-> commands]

Both == {"login", "plugin"}

Claude == Adapter("claude", "after", FALSE, Both)
Codex == Adapter("codex", "after", FALSE, Both)
OpenCode == Adapter("opencode", "after", TRUE, Both)
Agy == Adapter("none", "bound", FALSE, {"plugin"})
Perplexity == Adapter("none", "none", FALSE, {"login"})
Cursor == Adapter("cursor", "after", FALSE, {"login"})
Aider == Adapter("none", "value", TRUE, {})
Goose == Adapter("goose", "bound", TRUE, {"login"})
Copilot == Adapter("copilot", "value", TRUE, Both)
Kiro == Adapter("none", "word", TRUE, {"login"})
Cody == Adapter("none", "value", FALSE, {"login"})
QwenCode == Adapter("none", "bound", FALSE, {"login"})
Amp == Adapter("none", "bound", FALSE, {"login"})
Droid == Adapter("none", "after", FALSE, {})
Codebuff == Adapter("none", "none", FALSE, {"login"})
ContinueCli == Adapter("none", "after", FALSE, {})
Grok == Adapter("none", "bound", TRUE, {"login"})
MistralVibe == Adapter("none", "value", TRUE, {"login"})
Crush == Adapter("none", "after", FALSE, {"login"})
KiloCode == Adapter("none", "after", FALSE, {"login"})
SingleAgent == Adapter("none", "value", TRUE, {})
SinglePool == Adapter("none", "none", FALSE, {})
Cline == Adapter("cline", "none", FALSE, {})
Roo == Adapter("roo", "none", FALSE, {})
Mimo == Adapter("mimo", "none", FALSE, {})
Atomcode == Adapter("atomcode", "none", FALSE, {})
Dsh == Adapter("dsh", "none", FALSE, {})
Continue == Adapter("continue", "none", FALSE, {})

\* A custom agent, agents/<name>.toml: its prompt goes behind a flag or a word.
CustomAgent(format, runs) ==
    Adapter(format, IF runs THEN "value" ELSE "none", FALSE, {})

\* for_agent.
AdapterOf ==
    [claude |-> Claude, codex |-> Codex, opencode |-> OpenCode, agy |-> Agy,
     perplexity |-> Perplexity, cursor |-> Cursor, aider |-> Aider, goose |-> Goose,
     copilot |-> Copilot, kiro |-> Kiro, cody |-> Cody, qwen_code |-> QwenCode,
     amp |-> Amp, droid |-> Droid, codebuff |-> Codebuff, continue_cli |-> ContinueCli,
     grok |-> Grok, crush |-> Crush, kilocode |-> KiloCode, mistral_vibe |-> MistralVibe,
     single_agent |-> SingleAgent, single_pool |-> SinglePool, cline |-> Cline,
     continue |-> Continue, roo |-> Roo, mimo |-> Mimo, atomcode |-> Atomcode, dsh |-> Dsh,
     custom_json |-> CustomAgent("json_flat", TRUE), custom_toml |-> CustomAgent("toml_flat", TRUE),
     detected |-> CustomAgent("none", FALSE)]

\* What the agent takes for its prompt, of one that starts with "---" as the
\* preamble of a task does.  Behind "--" everything is prompt; a dashed value or
\* word may be refused as an unknown option, "value" by some parsers and not others.
Taken(a) ==
    CASE a.prompt = "bound" -> {"prompt"}
      [] a.prompt = "after" -> {IF a.more THEN "prompt and arguments" ELSE "prompt"}
      [] a.prompt = "value" -> {"prompt", "refused"}
      [] OTHER -> {"refused"}

-----------------------------------------------------------------------------
(* A run. *)

Purposes == {"prompt", "plugin", "login"}
Can(a, purpose) == IF purpose = "prompt" THEN a.prompt # "none" ELSE purpose \in a.commands

\* A plugin is installed and a login made on the host.
Uses == {u \in [agent : AgentNames, for : Purposes, at : Backends] :
            Can(AdapterOf[u.agent], u.for) /\ (u.for = "prompt" \/ u.at = "host")}

Init ==
    /\ use \in Uses
    /\ pc = "spawn" /\ main = "none" /\ helper = "none" /\ holds = FALSE
    /\ drain = "open" /\ passed = FALSE /\ cancel = FALSE
    /\ killed = "no" /\ given = "nothing"

-----------------------------------------------------------------------------
(* The agent and what it starts. *)

Alive == {"group", "escaped", "inside"}
Pipes == use.for # "login"

Fork ==
    /\ main = "runs" /\ helper = "none" /\ use.at = "host"
    /\ helper' \in {"group", "escaped"} /\ holds' \in {FALSE, Pipes}
    /\ UNCHANGED <<use, pc, main, drain, passed, cancel, killed, given>>

HelperEnds ==
    /\ helper \in Alive /\ helper' = "gone"
    /\ UNCHANGED <<use, pc, main, holds, drain, passed, cancel, killed, given>>

\* docker exec ends with the process in the container; a refused prompt is an error.
Exit ==
    /\ main = "runs" /\ helper # "inside"
    /\ main' \in IF given = "refused" THEN {"failed"} ELSE {"ok", "failed"}
    /\ UNCHANGED <<use, pc, helper, holds, drain, passed, cancel, killed, given>>

\* drain_into stops at a line that is not UTF-8; with the pipe closed the next
\* write may end the writer.
BadLine ==
    /\ Pipes /\ drain = "open" /\ main = "runs" /\ drain' = "broken"
    /\ UNCHANGED <<use, pc, main, helper, holds, passed, cancel, killed, given>>

WriteFails ==
    /\ drain = "broken" /\ main = "runs" /\ main' = "failed"
    /\ UNCHANGED <<use, pc, helper, holds, drain, passed, cancel, killed, given>>

-----------------------------------------------------------------------------
(* run_command_live; run_interactive_with_home has neither deadline nor cancel. *)

Spawn ==
    /\ pc = "spawn"
    /\ \/ /\ pc' = "poll" /\ main' = "runs"
          /\ helper' = IF use.at = "docker" THEN "inside" ELSE "none"
          /\ given' \in IF use.for = "prompt" THEN Taken(AdapterOf[use.agent]) ELSE {"command"}
       \/ pc' = "done" /\ main' = "failed" /\ UNCHANGED <<helper, given>>
    /\ UNCHANGED <<use, holds, drain, passed, cancel, killed>>

Deadline ==
    /\ use.for # "login" /\ pc = "poll" /\ ~passed /\ passed' = TRUE
    /\ UNCHANGED <<use, pc, main, helper, holds, drain, cancel, killed, given>>

CancelRun ==
    /\ use.for = "prompt" /\ pc \in {"poll", "join"} /\ ~cancel /\ cancel' = TRUE
    /\ UNCHANGED <<use, pc, main, helper, holds, drain, passed, killed, given>>

\* try_wait first, then the deadline, then the flag.
Poll ==
    /\ pc = "poll"
    /\ \/ main \in {"ok", "failed"} /\ pc' = "join" /\ UNCHANGED killed
       \/ main = "runs" /\ passed /\ pc' = "kill" /\ killed' = "timed_out"
       \/ main = "runs" /\ ~passed /\ cancel /\ pc' = "kill" /\ killed' = "cancelled"
    /\ UNCHANGED <<use, main, helper, holds, drain, passed, cancel, given>>

\* kill_child: the whole group, or the process alone where there is no kill; then
\* it is waited for.  What is in a container is in no group of this host.
KillAlone ==
    /\ pc = "kill" /\ pc' = "join"
    /\ main' = IF main = "runs" THEN "failed" ELSE main
    /\ UNCHANGED <<use, helper, holds, drain, passed, cancel, killed, given>>
KillChild ==
    /\ pc = "kill" /\ pc' = "join"
    /\ main' = IF main = "runs" THEN "failed" ELSE main
    /\ helper' = IF HasKill /\ helper = "group" THEN "gone" ELSE helper
    /\ UNCHANGED <<use, holds, drain, passed, cancel, killed, given>>

\* The drain thread ends when nobody has the pipe any more, or has ended before.
Join ==
    /\ pc = "join"
    /\ drain = "broken" \/ ~(holds /\ helper \in Alive)
    /\ pc' = "done"
    /\ UNCHANGED <<use, main, helper, holds, drain, passed, cancel, killed, given>>

Thread == Spawn \/ Poll \/ KillChild \/ Join

Next == \/ Fork \/ HelperEnds \/ Exit \/ BadLine \/ WriteFails
        \/ Deadline \/ CancelRun \/ Thread

\* The thread runs and the clock goes on; what the agent and its helpers do is
\* their own affair.
Fairness == WF_vars(Thread) /\ WF_vars(Deadline)

Spec == Init /\ [][Next]_vars /\ Fairness

-----------------------------------------------------------------------------
(* Properties. *)

\* run.rs, kill_child: the kill "reaches every descendant at once".  Once a run on
\* the host is over its deadline or cancelled and killed, nothing of its group is
\* left, whatever the agent forked while it was being killed.
NoneLeft ==
    HasKill /\ use.at = "host" /\ killed # "no" /\ pc \in {"join", "done"} =>
        main # "runs" /\ helper # "group"

\* A run that is killed ends, though a helper has its pipes: only one that has left
\* the group can hold it up.
KilledEnds == pc = "kill" ~> pc = "done" \/ helper = "escaped"

\* NOT TRUE.  adapter.rs:55-56: a run is killed "if it runs past `timeout`".  An agent that
\* exits and leaves a helper with its pipes is waited for without a deadline.
EndsByDeadline == passed ~> pc = "done" \/ helper = "escaped"

\* NOT TRUE.  adapter.rs:73: a cancel "kills the child early".  In a container it kills the
\* docker exec; the agent goes on.
NoneLeftInside == killed # "no" /\ pc = "done" => helper # "inside"

\* NOT TRUE.  adapters.rs:285: opencode's prompt is followed by its "--dir" flag.  Behind the
\* "--" that comes first it is no flag.
PromptWhole == given # "prompt and arguments"

=============================================================================
