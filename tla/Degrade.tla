---------------------------------- MODULE Degrade ----------------------------------
(***************************************************************************)
(* The health of the pool over time (pool/degrade.rs): a mode that changes after    *)
(* the ratio of usable providers was on the other side long enough.  Nothing calls    *)
(* `tick` yet: the daemon's pool status is the ratio of the moment (handlers.rs).      *)
(* Ratios are numbers of usable providers among `enabled`; Healthy is a percentage.     *)
(***************************************************************************)
EXTENDS Integers

CONSTANTS MinProviders, EntryGrace, ExitGrace, Healthy, MaxEnabled, EndOfTime, Never

VARIABLES
    clock,
    mode,
    since,     \* since_ms
    lowFrom,   \* since when every tick saw a ratio of the other side, by the clock
    flips      \* the time of the last change of mode, and of the one before

vars == <<clock, mode, since, lowFrom, flips>>

Init == /\ clock = 0 /\ mode = "normal" /\ since = Never /\ lowFrom = Never
        /\ flips = [last |-> Never, before |-> Never]

\* No provider enabled counts as healthy.
IsHealthy(usable, enabled) == enabled = 0 \/ 100 * usable >= Healthy * enabled

\* The ratio is on the side of the other mode.
Crossing(usable, enabled) == IsHealthy(usable, enabled) = (mode = "degraded")
SwappedGrace == IF mode = "normal" THEN ExitGrace ELSE EntryGrace
Grace == IF mode = "normal" THEN EntryGrace ELSE ExitGrace
Other == IF mode = "normal" THEN "degraded" ELSE "normal"

Tick(usable, enabled) ==
    LET from == IF since = Never THEN clock ELSE since
    IN  IF enabled < MinProviders \/ ~Crossing(usable, enabled)
        THEN since' = Never /\ lowFrom' = Never /\ UNCHANGED <<mode, flips>>
        ELSE IF clock - from >= Grace
        THEN /\ mode' = Other /\ since' = clock /\ lowFrom' = Never
             /\ flips' = [last |-> clock, before |-> flips.last]
        ELSE /\ since' = from
             /\ lowFrom' = IF lowFrom = Never THEN clock ELSE lowFrom
             /\ UNCHANGED <<mode, flips>>

\* What pool status reports: the ratio of the moment, for three providers or more.
StatusDegraded(usable, enabled) == ~IsHealthy(usable, enabled) /\ enabled >= MinProviders

Next == /\ clock < EndOfTime
        /\ \E step \in 1..2 : clock' = clock + step
        /\ \E enabled \in 0..MaxEnabled : \E usable \in 0..enabled : Tick(usable, enabled)

Spec == Init /\ [][Next]_vars

-----------------------------------------------------------------------------
(* Properties. *)

\* The mode does not flap: two changes are the grace of the second apart, whatever the
\* ratio does in between (degrade.rs:76-80).
NeverFlaps ==
    flips.before # Never =>
       flips.last - flips.before >= (IF mode = "degraded" THEN EntryGrace ELSE ExitGrace)

\* NOT TRUE: a change follows a grace during which every tick saw the other side: the
\* count starts at the change before, not when the ratio "first crossed"
\* (degrade.rs:14-17, 91, 102).
OnlySustained ==
    [][mode' # mode => lowFrom # Never /\ clock - lowFrom >= Grace]_vars
=============================================================================
