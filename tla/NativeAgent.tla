------------------------------ MODULE NativeAgent ------------------------------
(***************************************************************************)
(* single-agent, the agent that SingleCLI brings with it                     *)
(* (crates/single-native-agent/src/main.rs): one process per task asks a     *)
(* provider, does the tool calls it is told to, and asks again.  What a tool *)
(* reads or writes is left out; the provider and single-mcp are external.    *)
(***************************************************************************)
EXTENDS Integers, Sequences

CONSTANTS
    MaxSteps,       \* --max-steps
    MaxCalls        \* bound: tool calls in one answer

VARIABLES
    steps,      \* requests sent
    talk,       \* messages after the first two: calls of an assistant, 0 for a
                \* tool's, and the number of the call it is about
    calls,      \* tool calls of the last answer still to be done
    late,       \* commands that run on after their 30 seconds
    outcome     \* none, waits for the provider, ok, exit (status 1)

agentVars == <<steps, talk, calls, late, outcome>>

Init ==
    /\ steps = 0 /\ talk = <<>> /\ calls = <<>> /\ late = 0
    /\ outcome = "none"

\* The directory, the provider's entry and its key, then the loop.
ToolNames == {"read_file", "write_file", "run_shell", "call_mcp", "unknown"}
Call == [tool : ToolNames, n : 1..MaxCalls]
Ends(how) == outcome' = how

NotSetUp ==
    /\ outcome = "none" /\ steps = 0
    /\ Ends("exit")
    /\ UNCHANGED <<steps, talk, calls, late>>

Request ==
    /\ outcome = "none" /\ calls = <<>> /\ steps < MaxSteps
    /\ steps' = steps + 1
    /\ Ends("waits")
    /\ UNCHANGED <<talk, calls, late>>

\* No connection, an error status, no choice, an empty message.
RequestFails ==
    /\ outcome = "waits"
    /\ Ends("exit")
    /\ UNCHANGED <<steps, talk, calls, late>>

Answered ==
    /\ outcome = "waits"
    /\ Ends("ok")
    /\ UNCHANGED <<steps, talk, calls, late>>

ToolCalls ==
    /\ outcome = "waits"
    /\ \E n \in 1..MaxCalls : \E asked \in [1..n -> Call] :
           /\ \A k \in 1..n : asked[k].n = k
           /\ calls' = asked
           /\ talk' = Append(talk, [calls |-> n, about |-> 0])
    /\ Ends("none")
    /\ UNCHANGED <<steps, late>>

SaysIfKnown(call) == IF call.tool = "unknown" THEN talk
                     ELSE Append(talk, [calls |-> 0, about |-> call.n])

\* Wrong arguments, a path that is refused, a failing command, an unknown tool:
\* all of them are answers.
Says(call) == Append(talk, [calls |-> 0, about |-> call.n])
Execute ==
    /\ outcome = "none" /\ calls # <<>>
    /\ talk' = Says(Head(calls))
    /\ calls' = Tail(calls)
    /\ \/ UNCHANGED late
       \/ Head(calls).tool = "run_shell" /\ late' = late + 1
    /\ UNCHANGED <<steps, outcome>>

\* The output of a command is cut at a byte, which panics inside a character, and
\* call_mcp may find no runtime: the process ends.
ExecutePanics ==
    /\ outcome = "none" /\ calls # <<>>
    /\ Head(calls).tool \in {"run_shell", "call_mcp"}
    /\ Ends("exit")
    /\ UNCHANGED <<steps, talk, calls, late>>

\* A command that was given up comes to its end in its thread.
CommandEnds ==
    /\ late > 0 /\ outcome \in {"none", "waits"}
    /\ late' = late - 1
    /\ UNCHANGED <<steps, talk, calls, outcome>>

OutOfSteps ==
    /\ outcome = "none" /\ calls = <<>> /\ steps = MaxSteps
    /\ Ends("exit")
    /\ UNCHANGED <<steps, talk, calls, late>>

Next == \/ NotSetUp \/ Request \/ RequestFails \/ Answered \/ ToolCalls
        \/ Execute \/ ExecutePanics \/ CommandEnds \/ OutOfSteps

Spec == Init /\ [][Next]_agentVars

-----------------------------------------------------------------------------
(* Properties. *)

\* The provider is never sent a conversation it would refuse: behind each
\* message with tool calls stands one answer per call, in their order, whether
\* the tools are known, fail or time out, and no answer without its call.
EachCallAnswered ==
    outcome = "waits" =>
        \A i \in DOMAIN talk :
            IF talk[i].calls > 0
            THEN \A k \in 1..talk[i].calls :
                     i + k <= Len(talk) /\ talk[i + k] = [calls |-> 0, about |-> k]
            ELSE i > 1 /\ talk[i].about =
                     IF talk[i - 1].calls > 0 THEN 1 ELSE talk[i - 1].about + 1
=============================================================================
