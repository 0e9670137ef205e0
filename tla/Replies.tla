-------------------------------- MODULE Replies --------------------------------
(***************************************************************************)
(* What the coordinator's brain makes of an agent's reply:                     *)
(* crates/single-runtime/src/coordinator/brain.rs, run_role (the task of a       *)
(* planner, a supervisor or an integrator has ended), extract_first_json and      *)
(* the three parsers.  A reply is prose with, one hopes, a JSON value in it.       *)
(*                                                                          *)
(* A reply is a sequence of pieces: the four brackets, "q" a double quote,       *)
(* "b" a backslash, and "x" other text: a number where JSON wants one.  Commas,    *)
(* colons and, where no bracket or quote is in them, the members of objects are      *)
(* left out.                                                                    *)
(***************************************************************************)
EXTENDS Integers, Sequences, FiniteSets

CONSTANTS
    Texts,      \* what an agent may have written
    Summaries,  \* what may be kept of it in the task's row
    MaxNodes,   \* parse_plan: the most nodes of a plan
    Absent      \* no artifact file, or one that cannot be read; no answer

VARIABLES
    rec,        \* the row of the role's task
    reply,      \* its output, once it has been read
    start,      \* extract_first_json: the position it looks at
    answer,     \* the span <<first, after>> that parsed
    verdict     \* what the role made of the answer

replyVars == <<rec, reply, start, answer, verdict>>

Roles == {"planner", "supervisor", "integrator"}
Opening == {"{", "["}
CloseOf(open) == IF open = "{" THEN "}" ELSE "]"

\* serde_json: where a JSON value ends that begins at a position, 0 if there is none; so,
\* too, the rest of a string, the rest of an array, the rest of an object.
\* A string may have any piece in it, and after a backslash all but a bracket.
Strings(t) ==
    LET after[j \in 1..(Len(t) + 1)] ==
            IF j > Len(t) THEN 0
            ELSE IF t[j] = "q" THEN j + 1
            ELSE IF t[j] # "b" THEN after[j + 1]
            ELSE IF j < Len(t) /\ t[j + 1] \in {"q", "b", "x"} THEN after[j + 2] ELSE 0
    IN  after

Values(t) ==
    LET end[p \in (0..(Len(t) + 1)) \X {"value", "elements", "members"}] ==
            IF p[1] = 0 \/ p[1] > Len(t) THEN 0
            ELSE IF p[2] = "value"
                 THEN IF t[p[1]] = "x" THEN p[1] + 1
                      ELSE IF t[p[1]] = "q" THEN Strings(t)[p[1] + 1]
                      ELSE IF t[p[1]] = "[" THEN end[<<p[1] + 1, "elements">>]
                      ELSE IF t[p[1]] = "{" THEN end[<<p[1] + 1, "members">>]
                      ELSE 0
            ELSE IF p[2] = "elements"
                 THEN IF t[p[1]] = "]" THEN p[1] + 1
                      ELSE end[<<end[<<p[1], "value">>], "elements">>]
            ELSE IF t[p[1]] = "}" THEN p[1] + 1
            ELSE IF t[p[1]] = "q" THEN end[<<end[<<Strings(t)[p[1] + 1], "value">>], "members">>]
            ELSE 0
    IN  end

Parse(t, first) == Values(t)[<<first, "value">>]

\* One byte of the scan for the end of a span that began with the bracket open.
\* Brackets in a string do not count, nor does the other kind of bracket.
CountsAnywhere(s, c, open) ==
    [s EXCEPT !.depth = @ + (IF c = open THEN 1 ELSE IF c = CloseOf(open) THEN -1 ELSE 0)]

Counts(s, c, open) ==
    IF s.inStr
    THEN IF s.escaped THEN [s EXCEPT !.escaped = FALSE]
         ELSE IF c = "b" THEN [s EXCEPT !.escaped = TRUE]
         ELSE [s EXCEPT !.inStr = c # "q"]
    ELSE IF c = "q" THEN [s EXCEPT !.inStr = TRUE]
         ELSE CountsAnywhere(s, c, open)

Scanned(t, first) ==
    LET state[j \in (first - 1)..Len(t)] ==
            IF j < first THEN [inStr |-> FALSE, escaped |-> FALSE, depth |-> 0]
            ELSE Counts(state[j - 1], t[j], t[first])
    IN  state

\* The position after the bracket that brings the depth back to zero, 0 if none does.
SpanEnd(t, first) ==
    LET closed == {j \in first..Len(t) : Scanned(t, first)[j].depth = 0}
    IN  IF closed = {} THEN 0 ELSE 1 + (CHOOSE j \in closed : \A k \in closed : j <= k)

\* How many elements the array of a span has, and whether all are objects.
Elements(t, span) ==
    LET next[i \in 1..(Len(t) + 1)] ==
            IF t[i] = "]" THEN {} ELSE {i} \cup next[Parse(t, i)]
    IN  next[span[1] + 1]
AreObjects(t, S) == \A i \in S : t[i] = "{"

-----------------------------------------------------------------------------
Init ==
    /\ rec \in [status : {"completed", "failed"}, artifact : Texts \cup {Absent},
                summary : Summaries]
    /\ reply = Absent /\ start = 1 /\ answer = Absent /\ verdict = Absent

\* task_output, of whatever the task came to.
Read ==
    /\ reply = Absent
    /\ reply' = IF rec.artifact # Absent THEN rec.artifact ELSE rec.summary
    /\ UNCHANGED <<rec, start, answer, verdict>>

Searching == reply # Absent /\ answer = Absent /\ start <= Len(reply)

\* The span from here parses ...
Found ==
    /\ Searching /\ reply[start] \in Opening
    /\ LET e == SpanEnd(reply, start)
       IN  e # 0 /\ Parse(reply, start) = e /\ answer' = <<start, e>>
    /\ UNCHANGED <<rec, reply, start, verdict>>

\* ... or the scan begins again at the next position.
Advance ==
    /\ Searching
    /\ \/ reply[start] \notin Opening
       \/ SpanEnd(reply, start) = 0
       \/ Parse(reply, start) # SpanEnd(reply, start)
    /\ start' = start + 1
    /\ UNCHANGED <<rec, reply, answer, verdict>>

\* parse_plan, parse_patch_ops (an array, or an object with one), parse_integration.
Accepts(role) ==
    /\ answer # Absent
    /\ LET kind == reply[answer[1]] IN
       CASE role = "planner" ->
                /\ kind = "["
                /\ AreObjects(reply, Elements(reply, answer))
                /\ Cardinality(Elements(reply, answer)) \in 1..MaxNodes
         [] role = "supervisor" ->
                \/ kind = "[" /\ AreObjects(reply, Elements(reply, answer))
                \/ kind = "{"
         [] OTHER -> kind = "{"

Judge(role) ==
    /\ reply # Absent /\ verdict = Absent
    /\ answer # Absent \/ start > Len(reply)
    /\ \E malformed \in IF role = "planner" THEN {FALSE} ELSE BOOLEAN :
           verdict' = [role |-> role, accepted |-> Accepts(role) /\ ~malformed]
    /\ UNCHANGED <<rec, reply, start, answer>>

Next == Read \/ Found \/ Advance \/ \E role \in Roles : Judge(role)

Spec == Init /\ [][Next]_replyVars

-----------------------------------------------------------------------------
(* Properties. *)

TypeOK ==
    /\ reply \in Texts \cup Summaries \cup {Absent}
    /\ reply # Absent => start \in 1..(Len(reply) + 1)
    /\ verdict # Absent => verdict.role \in Roles

\* A role is judged by the first JSON value of its reply: no bracket before it begins
\* one, wherever strings, escapes and stray brackets are; and a reply without an answer
\* has none.
FirstValueAnswers ==
    verdict # Absent =>
        LET begins == {i \in DOMAIN reply : reply[i] \in Opening /\ Parse(reply, i) # 0}
        IN  IF answer = Absent THEN begins = {}
            ELSE /\ answer[1] \in begins /\ answer[2] = Parse(reply, answer[1])
                 /\ \A i \in begins : answer[1] <= i

\* NOT TRUE.  brain.rs: "expected 2–8", and so the prompt says: a plan of one node
\* is taken.
PlansHaveTwoNodes ==
    (verdict # Absent /\ verdict.accepted /\ verdict.role = "planner") =>
        Cardinality(Elements(reply, answer)) >= 2

\* NOT TRUE.  The plan is that of a task that completed: run_role does not look at how
\* the task ended.
PlannersCompleted == (verdict # Absent /\ verdict.accepted) => rec.status = "completed"
=============================================================================
