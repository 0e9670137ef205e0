-------------------------------- MODULE Accounts --------------------------------
(***************************************************************************)
(* The homes in which one agent runs and the logins kept in them:             *)
(* single-core/src/agent_home.rs, account.rs, the Account requests of         *)
(* handlers.rs, the choice of a home in task.rs and the login of the CLI.     *)
(*                                                                         *)
(* A login has two parts, in two places.  For a "split" agent (claude) a      *)
(* credentials file and fields of the configuration; for a "pointer" agent    *)
(* (copilot) a pointer in the configuration and the token in the keyring of   *)
(* the desktop; a "whole" agent (grok, codebuff) has one file, both parts in   *)
(* one.  A part is named by the login it is of.                              *)
(*                                                                         *)
(* Requests are threads: a request stops between two file operations while    *)
(* the others go on; a capture and a switch read and write a part in one      *)
(* step.  Agents that must use the real home, labels, time stamps  *)
(* and the backups made before a file is overwritten are left out.            *)
(***************************************************************************)
EXTENDS FiniteSets

CONSTANTS Requests, Profiles, Logins, RealLogin, Nothing

VARIABLES
    kind,        \* the kind of agent
    home,        \* the managed home: absent, or the parts in it
    keyring,     \* login -> the token stored for it: shared by all homes
    profile,     \* profile -> captured parts, is it listed, the parts of its own home
    request,     \* the requests in progress; of one that makes an own home ready, whether
                 \* its profile has been removed meanwhile (history)
    signedIn,    \* somebody has logged in inside the managed home
    captured     \* profile -> the tokens ever captured under it

vars == <<kind, home, keyring, profile, request, signedIn, captured>>

Everyone == Logins \cup {RealLogin}
Parts(c, i) == [cred |-> c, ident |-> i]
NoParts == Parts(Nothing, Nothing)
Absent == [cred |-> "absent", ident |-> "absent"]
Missing == "missing"
NoProfile == [dir |-> FALSE, kept |-> Parts(Missing, Missing), listed |-> FALSE, home |-> Absent]
Idle == [op |-> "none", name |-> Nothing, at |-> "idle", parts |-> NoParts, cut |-> FALSE]

Init ==
    /\ kind \in {"split", "pointer", "whole"}
    /\ home = Absent
    /\ keyring = [l \in Everyone |-> IF kind = "pointer" /\ l = RealLogin THEN l ELSE Nothing]
    /\ profile = [n \in Profiles |-> NoProfile]
    /\ request = [r \in Requests |-> Idle]
    /\ signedIn = FALSE
    /\ captured = [n \in Profiles |-> {}]

-----------------------------------------------------------------------------
(* Homes. *)

\* What the files of a home say: has_live_login, the token an agent would use.
Token(h) == IF kind = "pointer"
            THEN IF h.ident \in Everyone THEN keyring[h.ident] ELSE Nothing
            ELSE h.cred
Live(h) == Token(h) \in Everyone

\* ensure_bootstrapped copies what lives under the listed paths of the real home.
Seed == CASE kind = "split" -> Parts(RealLogin, RealLogin)
          [] kind = "pointer" -> Parts(Nothing, RealLogin)
          [] kind = "whole" -> NoParts

\* strip_credentials: the file of a split agent, the pointer of a pointer agent.
Stripped(h) == CASE kind = "split" -> [h EXCEPT !.cred = Nothing]
                 [] kind = "pointer" -> [h EXCEPT !.ident = Nothing]
                 [] kind = "whole" -> h

\* What is overlaid on a home.
Overlay(h, parts) == Parts(IF parts.cred \in Everyone THEN parts.cred ELSE h.cred,
                           IF parts.ident \in Everyone THEN parts.ident ELSE h.ident)

\* A part that was never captured is a file that cannot be read.
FirstThere(p) == IF kind = "pointer" THEN p.ident # Missing ELSE p.cred # Missing

-----------------------------------------------------------------------------
(* Requests. *)

Go(r, at) == request' = [request EXCEPT ![r].at = at]
Becomes(r, op, at, parts) == request' = [request EXCEPT ![r] =
    [op |-> op, name |-> request[r].name, at |-> at, parts |-> parts, cut |-> request[r].cut]]
End(r) == request' = [request EXCEPT ![r] = Idle]

\* A login at the terminal, AccountCapture, AccountUse, and tasks that run in
\* the managed home or as a named account.
Begin(r) ==
    /\ request[r].at = "idle"
    /\ \E op \in {"login", "capture", "use", "run", "runAs"}, n \in Profiles :
         request' = [request EXCEPT ![r] =
           [op |-> op, name |-> n, at |-> IF op = "runAs" THEN "isolate" ELSE "boot",
            parts |-> NoParts, cut |-> FALSE]]
    /\ UNCHANGED <<kind, home, keyring, profile, signedIn, captured>>

\* ensure_bootstrapped: a home that exists is only stripped; a new one is made,
\* filled from the real one, then stripped.
Boot(r) ==
    /\ request[r].at = "boot"
    /\ IF home = Absent THEN home' = NoParts /\ Go(r, "seed")
                        ELSE Go(r, "strip") /\ UNCHANGED home
    /\ UNCHANGED <<kind, keyring, profile, signedIn, captured>>

FillHome(r) ==
    /\ request[r].at = "seed" /\ Go(r, "strip")
    /\ home' = Overlay(home, Seed)
    /\ UNCHANGED <<kind, keyring, profile, signedIn, captured>>

Strip(r) ==
    /\ request[r].at = "strip"
    /\ home' = Stripped(home)
    /\ Go(r, CASE request[r].op = "login" -> "signIn"
               [] request[r].op = "capture" -> "check"
               [] request[r].op = "use" -> "useFirst"
               [] request[r].op = "run" -> "running")
    /\ UNCHANGED <<kind, keyring, profile, signedIn, captured>>

\* The agent's own login command fills in both parts; then the CLI asks the
\* daemon to capture them.
SignIn(r) ==
    /\ request[r].at = "signIn"
    /\ \E l \in Logins :
         IF kind = "pointer"
         THEN /\ home' = [home EXCEPT !.ident = l]
              /\ keyring' = [keyring EXCEPT ![l] = l]
         ELSE home' = Parts(l, l) /\ UNCHANGED keyring
    /\ signedIn' = TRUE
    /\ Becomes(r, "capture", "boot", request[r].parts)
    /\ UNCHANGED <<kind, profile, captured>>

-----------------------------------------------------------------------------
(* capture: the directory, the check, each part, the listing. *)

Check(r) ==
    LET n == request[r].name IN
    /\ request[r].at = "check"
    /\ profile' = [profile EXCEPT ![n].dir = TRUE]
    /\ Go(r, IF Live(home) THEN "readFirst" ELSE "notLoggedIn")
    /\ UNCHANGED <<kind, home, keyring, signedIn, captured>>

\* A part is written to the directory of the profile.
Captures(n, kept) == [profile EXCEPT ![n] =
    [dir |-> TRUE, kept |-> kept, listed |-> profile[n].listed, home |-> profile[n].home]]

\* The credentials file of a split or a whole agent; the pointer of copilot.
CaptureFirst(r) ==
    LET n == request[r].name
        kept == profile[n].kept
        part == IF kind = "pointer" THEN home.ident ELSE home.cred
    IN
    /\ request[r].at = "readFirst"
    /\ IF part = Nothing THEN End(r) /\ UNCHANGED <<profile, captured>>
       ELSE /\ Becomes(r, request[r].op, "readSecond", Parts(request[r].parts.cred, part))
            /\ profile' = Captures(n, CASE kind = "split" -> Parts(part, kept.ident)
                                        [] kind = "pointer" -> Parts(kept.cred, part)
                                        [] kind = "whole" -> Parts(part, part))
            /\ captured' = [captured EXCEPT ![n] =
                 @ \cup (IF kind = "pointer" THEN {} ELSE {part})]
    /\ UNCHANGED <<kind, home, keyring, signedIn>>

\* The fields of the configuration; the token of the pointer read before.
CaptureSecond(r) ==
    LET n == request[r].name
        kept == profile[n].kept
        part == IF kind = "pointer" THEN keyring[request[r].parts.ident] ELSE home.ident
    IN
    /\ request[r].at = "readSecond"
    /\ IF kind = "pointer" /\ part = Nothing THEN End(r) /\ UNCHANGED <<profile, captured>>
       ELSE /\ Go(r, "list")
            /\ profile' = Captures(n, CASE kind = "split" -> Parts(kept.cred, part)
                                        [] kind = "pointer" -> Parts(part, kept.ident)
                                        [] kind = "whole" -> kept)
            /\ captured' = [captured EXCEPT ![n] =
                 @ \cup (IF kind = "pointer" THEN {part} ELSE {})]
    /\ UNCHANGED <<kind, home, keyring, signedIn>>

\* meta.json comes last; it is written without making the directory again.
List(r) ==
    LET n == request[r].name IN
    /\ request[r].at = "list" /\ End(r)
    /\ profile' = [profile EXCEPT ![n].listed = profile[n].dir]
    /\ UNCHANGED <<kind, home, keyring, signedIn, captured>>

\* The request is answered; a run ends.
Answered(r) ==
    /\ request[r].at \in {"notLoggedIn", "running", "runningAs"} /\ End(r)
    /\ UNCHANGED <<kind, home, keyring, profile, signedIn, captured>>

-----------------------------------------------------------------------------
(* switch: write_credentials_into, part by part; a file that cannot be read ends *)
(* the request.                                                              *)

UseFirst(r) ==
    LET p == profile[request[r].name].kept IN
    /\ request[r].at = "useFirst"
    /\ IF ~profile[request[r].name].dir \/ ~FirstThere(p) THEN End(r) /\ UNCHANGED home
       ELSE /\ Go(r, "useSecond")
            /\ home' = CASE kind = "split" -> [home EXCEPT !.cred = p.cred]
                         [] kind = "pointer" -> [home EXCEPT !.ident = p.ident]
                         [] kind = "whole" -> p
    /\ UNCHANGED <<kind, keyring, profile, signedIn, captured>>

\* The fields, or the token, which goes to the entry the stored pointer names.
UseSecond(r) ==
    LET p == profile[request[r].name].kept IN
    /\ request[r].at = "useSecond" /\ End(r)
    /\ home' = IF kind = "split" THEN Overlay(home, [p EXCEPT !.cred = Nothing]) ELSE home
    /\ keyring' = IF kind = "pointer" /\ p.ident \in Everyone /\ p.cred # Missing
                  THEN [keyring EXCEPT ![p.ident] = p.cred] ELSE keyring
    /\ UNCHANGED <<kind, profile, signedIn, captured>>

-----------------------------------------------------------------------------
(* ensure_isolated_home, before a task that runs as a named account: file by file, *)
(* in a home that other tasks of the account use and that may be removed.       *)

OwnSteps == {"make", "config", "copy", "readOwnFirst", "writeOwnFirst", "readOwnSecond",
             "writeOwnSecond", "start"}

Own(r) == profile[request[r].name].home
OwnBecomes(r, h) ==
    LET n == request[r].name IN
    profile' = [profile EXCEPT ![n] =
      [dir |-> TRUE, kept |-> profile[n].kept, listed |-> profile[n].listed, home |-> h]]
OnlyOwn == UNCHANGED <<kind, home, keyring, signedIn, captured>>

Isolate(r) ==
    /\ request[r].at = "isolate"
    /\ IF profile[request[r].name].dir THEN Go(r, "make") ELSE End(r)
    /\ UNCHANGED profile /\ OnlyOwn

\* create_dir_all makes the directory of the profile too, should it be gone.
MakeDir(h) == IF h = Absent THEN NoParts ELSE h

MakeOwn(r) ==
    /\ request[r].at = "make" /\ Go(r, IF kind = "whole" THEN "readOwnFirst" ELSE "config")
    /\ OwnBecomes(r, MakeDir(Own(r)))
    /\ OnlyOwn

\* Where there is no configuration yet, the one of the real home is copied.
Config(r) ==
    /\ request[r].at = "config"
    /\ Go(r, IF Own(r).ident \in {Nothing, "absent"} THEN "copy" ELSE "readOwnFirst")
    /\ UNCHANGED profile /\ OnlyOwn

CopyConfig(r) ==
    /\ request[r].at = "copy"
    /\ IF Own(r) = Absent THEN End(r) /\ UNCHANGED profile
       ELSE /\ OwnBecomes(r, [Own(r) EXCEPT !.ident = RealLogin])
            /\ Go(r, "readOwnFirst")
    /\ OnlyOwn

\* What was captured is read, part by part; a file that cannot be read ends the request.
Reads(r, p, at) == Becomes(r, request[r].op, at, Overlay(request[r].parts, p))
UnreadableToo(p) == TRUE   \* mutant: an unreadable part does not stop the run
FirstKept(p) == FirstThere(p)

ReadOwnFirst(r) ==
    LET p == profile[request[r].name].kept IN
    /\ request[r].at = "readOwnFirst"
    /\ IF FirstKept(p) THEN Reads(r, IF kind = "pointer" THEN Parts(Nothing, p.ident)
                                     ELSE Parts(p.cred, Nothing), "writeOwnFirst")
       ELSE End(r)
    /\ UNCHANGED profile /\ OnlyOwn

\* write_secure makes the directories it writes to, merge_json_fields does not.
WriteOwnFirst(r) ==
    LET cred == request[r].parts.cred
        ident == request[r].parts.ident
    IN
    /\ request[r].at = "writeOwnFirst"
    /\ IF kind = "pointer" /\ Own(r) = Absent THEN End(r) /\ UNCHANGED profile
       ELSE /\ OwnBecomes(r, CASE kind = "split" -> [MakeDir(Own(r)) EXCEPT !.cred = cred]
                                [] kind = "pointer" -> [Own(r) EXCEPT !.ident = ident]
                                [] kind = "whole" -> Parts(cred, cred))
            /\ Go(r, IF kind = "whole" THEN "start" ELSE "readOwnSecond")
    /\ OnlyOwn

ReadOwnSecond(r) ==
    LET p == profile[request[r].name].kept IN
    /\ request[r].at = "readOwnSecond"
    /\ IF p.cred # Missing /\ p.ident # Missing
       THEN Reads(r, IF kind = "pointer" THEN Parts(p.cred, Nothing)
                     ELSE Parts(Nothing, p.ident), "writeOwnSecond")
       ELSE End(r)
    /\ UNCHANGED profile /\ OnlyOwn

\* The fields; or the token, to the entry of the pointer that was read.
WriteOwnSecond(r) ==
    LET p == request[r].parts IN
    /\ request[r].at = "writeOwnSecond"
    /\ IF kind = "split" /\ Own(r) = Absent THEN End(r) /\ UNCHANGED <<profile, keyring>>
       ELSE /\ IF kind = "pointer"
               THEN keyring' = [keyring EXCEPT ![p.ident] = p.cred] /\ UNCHANGED profile
               ELSE /\ OwnBecomes(r, Overlay(Own(r), Parts(Nothing, p.ident)))
                    /\ UNCHANGED keyring
            /\ Go(r, "start")
    /\ UNCHANGED <<kind, home, signedIn, captured>>

\* The agent is started with what its home then holds.
Start(r) ==
    /\ request[r].at = "start"
    /\ Becomes(r, request[r].op, "runningAs", Own(r))
    /\ UNCHANGED profile /\ OnlyOwn

\* AccountRemove: the profile and its own home, whoever is about to use it.
Remove(n) ==
    /\ profile[n].dir
    /\ profile' = [profile EXCEPT ![n] = NoProfile]
    /\ request' = [r \in Requests |-> IF request[r].name = n /\ request[r].at \in OwnSteps
                                      THEN [request[r] EXCEPT !.cut = TRUE] ELSE request[r]]
    /\ OnlyOwn

\* The daemon, and the CLI, may end between any two file operations.
Crash ==
    /\ request # [r \in Requests |-> Idle]
    /\ request' = [r \in Requests |-> Idle]
    /\ UNCHANGED <<kind, home, keyring, profile, signedIn, captured>>

Next == \/ \E r \in Requests : Begin(r) \/ Boot(r) \/ FillHome(r) \/ Strip(r) \/ SignIn(r)
                            \/ Check(r) \/ CaptureFirst(r) \/ CaptureSecond(r) \/ List(r)
                            \/ Answered(r) \/ UseFirst(r) \/ UseSecond(r)
                            \/ Isolate(r) \/ MakeOwn(r) \/ Config(r) \/ CopyConfig(r)
                            \/ ReadOwnFirst(r) \/ WriteOwnFirst(r) \/ ReadOwnSecond(r)
                            \/ WriteOwnSecond(r) \/ Start(r)
        \/ \E n \in Profiles : Remove(n)
        \/ Crash

Spec == Init /\ [][Next]_vars

-----------------------------------------------------------------------------
(* Properties. *)

\* A split or a whole agent that runs as a named account was started with a token
\* captured under that name, whatever captures, removals, switches, other runs of the
\* account and crashes come between the files: never with another account's or the real
\* home's, and with none only where the account was removed while its home was made ready.
RunsAsNamed ==
    \A r \in Requests : request[r].at = "runningAs" /\ kind # "pointer" =>
        \/ Token(request[r].parts) \in captured[request[r].name]
        \/ request[r].cut /\ ~Live(request[r].parts)

\* NOT TRUE: a run has the login of one capture.  A capture between the two parts that are
\* read gives it the token of one login and the fields of another (account.rs:565-567).
RunsAsOne ==
    \A r \in Requests : request[r].at = "runningAs" /\ kind = "split" =>
        request[r].parts.ident \in {request[r].parts.cred, Nothing, RealLogin}

\* NOT TRUE.  account.rs:52-54 "capture read[s] only SingleCLI's isolated home"; a login made
\* in that home is there when it is captured.  ensure_bootstrapped strips it first.
LoginKept == \A r \in Requests : request[r].at = "notLoggedIn" => ~signedIn

\* NOT TRUE.  agent_home.rs:18-24 "Credentials are never seeded": no run in the managed home
\* has the token of the real one.  A second request may run between copy and strip.
NeverSeeded ==
    \A r \in Requests : request[r].at = "running" => Token(home) # RealLogin

\* NOT TRUE.  account.rs:217-221: pointer and token "never drift apart".  A capture that reads
\* the pointer, and a switch in between, store one login's token for another.
NeverDriftApart == \A l \in Everyone : keyring[l] \in {l, Nothing}
=============================================================================
