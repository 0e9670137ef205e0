--------------------------------- MODULE Daemon ---------------------------------
(***************************************************************************)
(* Processes that meet at the socket: crates/single-cli/src/client.rs (a      *)
(* request goes over the socket or runs in the caller's own process),         *)
(* daemon.rs (who starts and stops single-runtimed), serve_openai.rs (HTTP    *)
(* requests that become task runs) and the start-up and connections of        *)
(* crates/single-runtime/src/server.rs.                                       *)
(*                                                                          *)
(* A request is a task run, of which only the row's state is kept: what it    *)
(* does is TaskRunner.tla.                                                   *)
(***************************************************************************)
EXTENDS Integers

CONSTANTS
    Callers,        \* one-shot CLI commands, each with one request
    Https,          \* those of the callers that are connections of `serve`
    Daemons,        \* processes of single-runtimed, in any order
    Starters,       \* commands that want a daemon (ensure_running)
    NoDaemon

VARIABLES
    file,       \* which daemon's socket the path names
    daemon,     \* each process of single-runtimed
    caller,     \* each request: where it is and the daemon it was sent to
    job,        \* its task row
    ran,        \* history: how often it was executed
    starter     \* each ensure_running and stop_running

daemonVars == <<file, daemon, caller, job, ran, starter>>

Init ==
    /\ file = NoDaemon
    /\ daemon = [d \in Daemons |-> "none"]
    /\ caller = [c \in Callers |-> [pc |-> "idle", via |-> NoDaemon]]
    /\ job = [c \in Callers |-> "none"]
    /\ ran = [c \in Callers |-> 0]
    /\ starter = [s \in Starters |-> "idle"]

\* UnixStream::connect: a socket takes connections from bind on.
Listening(d) == d \in Daemons /\ daemon[d] \in {"bound", "live"}
Reachable == Listening(file)

Is(c, pc) == caller[c].pc = pc
Becomes(c, pc, via) == caller' = [caller EXCEPT ![c] = [pc |-> pc, via |-> via]]
Runs(c) == /\ ran' = [ran EXCEPT ![c] = @ + 1]
           /\ job' = [job EXCEPT ![c] = "running"]

-----------------------------------------------------------------------------
(* Requests. *)

\* handle_conn: read, health, host, key, route, messages, in this order.
Checks == {"read", "route", "host", "key", "messages"}
Gate(ok) ==
    IF "read" \notin ok THEN 400
    ELSE IF "host" \notin ok THEN 421
    ELSE IF "key" \notin ok THEN 401
    ELSE IF "route" \notin ok THEN 404
    ELSE IF "messages" \notin ok THEN 400
    ELSE 200

Refused(c) ==
    /\ c \in Https /\ Is(c, "idle")
    /\ \E ok \in SUBSET Checks : Gate(ok) # 200
    /\ Becomes(c, "failed", NoDaemon)
    /\ UNCHANGED <<file, daemon, job, ran, starter>>

Passes(c) == c \in Https => \E ok \in SUBSET Checks : Gate(ok) = 200

Connect(c) ==
    /\ Is(c, "idle") /\ Passes(c) /\ Reachable
    /\ Becomes(c, "sent", file)
    /\ UNCHANGED <<file, daemon, job, ran, starter>>

\* Nothing has been sent: the request runs in the caller's process.
InProcess(c) ==
    /\ Is(c, "idle") /\ Passes(c) /\ ~Reachable
    /\ Becomes(c, "inside", NoDaemon)
    /\ Runs(c)
    /\ UNCHANGED <<file, daemon, starter>>

\* A daemon serves its connections when its start-up is over, each on a thread.
Serve(c) ==
    /\ Is(c, "sent") /\ caller[c].via \in Daemons /\ daemon[caller[c].via] = "live"
    /\ Becomes(c, "served", caller[c].via)
    /\ Runs(c)
    /\ UNCHANGED <<file, daemon, starter>>

\* The row is written whatever it says by now, and the caller gets its answer.
Answer(c) ==
    /\ \/ Is(c, "inside")
       \/ Is(c, "served") /\ daemon[caller[c].via] = "live"
    /\ job' = [job EXCEPT ![c] = "ended"]
    /\ Becomes(c, "answered", NoDaemon)
    /\ UNCHANGED <<file, daemon, ran, starter>>

LostRunsInProcess(c) ==
    /\ caller[c].pc \in {"sent", "served"} /\ daemon[caller[c].via] = "dead"
    /\ Becomes(c, "inside", NoDaemon)
    /\ Runs(c)
    /\ UNCHANGED <<file, daemon, starter>>

\* The connection closes after the request was written: a hard error.
Lost(c) ==
    /\ caller[c].pc \in {"sent", "served"} /\ daemon[caller[c].via] = "dead"
    /\ Becomes(c, "failed", NoDaemon)
    /\ UNCHANGED <<file, daemon, job, ran, starter>>

\* The caller's process ends before its request does.
Killed(c) ==
    /\ Is(c, "inside")
    /\ Becomes(c, "failed", NoDaemon)
    /\ UNCHANGED <<file, daemon, job, ran, starter>>

-----------------------------------------------------------------------------
(* Daemons. *)

Turns(d, to) == daemon' = [daemon EXCEPT ![d] = to]

\* ensure_running, or a person who types single-runtimed.
Launch == \E d \in Daemons : daemon[d] = "none" /\ Turns(d, "new")

\* serve removes what the path names, and binds.
Sweep(d) ==
    /\ daemon[d] = "new"
    /\ Turns(d, "swept")
    /\ file' = NoDaemon
    /\ UNCHANGED <<caller, job, ran, starter>>

Bind(d) ==
    /\ daemon[d] = "swept"
    /\ IF file = NoDaemon THEN file' = d /\ Turns(d, "bound")
       ELSE Turns(d, "dead") /\ UNCHANGED file
    /\ UNCHANGED <<caller, job, ran, starter>>

\* reconcile_orphaned_tasks: no row in flight can have a process.
Orphans == {c \in Callers : job[c] = "running"}
Reconcile(d) ==
    /\ daemon[d] = "bound"
    /\ Turns(d, "live")
    /\ job' = [c \in Callers |-> IF c \in Orphans THEN "failed" ELSE job[c]]
    /\ UNCHANGED <<file, caller, ran, starter>>

\* A crash; the file of its socket stays.
Dies(d) ==
    /\ daemon[d] \in {"new", "swept", "bound", "live"}
    /\ Turns(d, "dead")
    /\ UNCHANGED <<file, caller, job, ran, starter>>

-----------------------------------------------------------------------------
(* Commands that start and stop one. *)

Sets(s, to) == starter' = [starter EXCEPT ![s] = to]

Ensure(s) ==
    /\ starter[s] = "idle"
    /\ IF Reachable THEN Sets(s, "ok") /\ UNCHANGED daemon
       ELSE Launch /\ Sets(s, "waits")
    /\ UNCHANGED <<file, caller, job, ran>>

\* Up within three seconds, or not.
Comes(s) ==
    /\ starter[s] = "waits"
    /\ Sets(s, IF Reachable THEN "ok" ELSE "late")
    /\ UNCHANGED <<file, daemon, caller, job, ran>>

\* Shutdown is acknowledged, then the process exits.
Stop(s) ==
    /\ starter[s] \in {"idle", "ok"} /\ Reachable /\ daemon[file] = "live"
    /\ Turns(file, "dead")
    /\ Sets(s, "stopped")
    /\ UNCHANGED <<file, caller, job, ran>>

Next == \/ \E c \in Callers : \/ Refused(c) \/ Connect(c) \/ InProcess(c) \/ Serve(c)
                              \/ Answer(c) \/ Lost(c) \/ Killed(c)
        \/ \E d \in Daemons : Sweep(d) \/ Bind(d) \/ Reconcile(d) \/ Dies(d)
        \/ \E s \in Starters : Ensure(s) \/ Comes(s) \/ Stop(s)

Spec == Init /\ [][Next]_daemonVars

-----------------------------------------------------------------------------
(* Properties. *)

\* A request is executed at most once, and a caller that has its answer has had
\* it executed, however daemons start, crash, stop and replace one another
\* (client.rs: a slow response must never trigger a duplicate execution).
ExecutedOnce ==
    \A c \in Callers : /\ ran[c] <= 1
                       /\ Is(c, "answered") => ran[c] = 1 /\ job[c] # "running"

\* NOT TRUE.  server.rs: "A daemon just now starting owns no in-flight tasks, so sweep those
\* orphans": what it fails has nobody at work on it.
Working(c) == Is(c, "inside") \/ (Is(c, "served") /\ daemon[caller[c].via] = "live")
SweepsOrphans ==
    [][\A c \in Callers : job[c] = "running" /\ job'[c] = "failed" => ~Working(c)]_daemonVars

=============================================================================
