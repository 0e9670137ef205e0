------------------------------ MODULE FrontsProofs ------------------------------
(***************************************************************************)
(* What holds of the editor bridge and the dashboard for any number of turns,  *)
(* goals and rows: each has its inductive invariant, the steps of the other    *)
(* leave it alone.                                                            *)
(***************************************************************************)
EXTENDS MCFronts, FiniteSets, FiniteSetTheorems, SequenceTheorems, WellFoundedInduction, TLAPS

-----------------------------------------------------------------------------
(* The editor bridge.                                                        *)

TurnOf == [pc : {"idle", "submit", "wait", "open", "poll", "view", "ask", "done", "dead"},
           goal : Goals \cup {NoGoal}, since : Nat, start : Nat, seen : SUBSET Nat,
           mine : BOOLEAN, asks : Nat]

Tailing == {"poll", "view", "ask"}

\* No cursor is ahead of the log, which only grows: the turns', the shared one, and the
\* one that a session/load is about to set.
Behind ==
    /\ events \in Seq(Goals)
    /\ sess.last \in 0..Len(events) /\ loading \in -2..Len(events)
    /\ \A t \in EditorTurns : turn[t].pc \in Tailing => turn[t].since <= Len(events)

Tails == /\ turn \in [EditorTurns -> TurnOf]
         /\ sess \in [last : Nat, cancel : BOOLEAN, loads : Nat]
         /\ Behind /\ E!NoneSkipped

\* A turn that goes elsewhere with what it has seen.
LEMMA TurnMoves ==
    ASSUME Tails, NEW t \in EditorTurns, NEW new \in TurnOf, turn' = [turn EXCEPT ![t] = new],
           UNCHANGED events, sess'.last \in 0..Len(events), loading' \in -2..Len(events),
           sess' \in [last : Nat, cancel : BOOLEAN, loads : Nat],
           \/ new.pc \notin Tailing
           \/ /\ new.since \in 0..Len(events)
              /\ \A e \in (new.start + 1)..new.since : events[e] = new.goal => e \in new.seen
    PROVE  Tails'
<1>1. turn' \in [EditorTurns -> TurnOf] /\ turn'[t] = new /\ \A u \in EditorTurns \ {t} : turn'[u] = turn[u]
  BY DEF Tails
<1>2. Behind'
  BY <1>1 DEF Tails, Behind
<1>3. E!NoneSkipped'
  BY <1>1 DEF Tails, E!NoneSkipped, Tailing
<1>. QED  BY <1>1, <1>2, <1>3 DEF Tails

LEMMA TurnStarts == E!NoTurn \in TurnOf /\ E!NoTurn.pc = "idle"
  BY DEF E!NoTurn, TurnOf

\* The steps of one turn.
LEMMA TurnActs ==
    ASSUME Tails, NEW t \in EditorTurns, E!Prompt(t) \/ E!Acts(t) \/ E!Raise(t) \/ E!Refuse(t) \/ E!Panics(t)
    PROVE  Tails'
<1>. DEFINE old == turn[t]
<1>1. /\ old \in TurnOf /\ Behind /\ E!NoneSkipped
      /\ sess \in [last : Nat, cancel : BOOLEAN, loads : Nat]
      /\ events \in Seq(Goals) /\ Len(events) \in Nat
      /\ sess.last \in 0..Len(events) /\ loading \in -2..Len(events)
  BY DEF Tails, Behind
<1>2. ASSUME NEW w \in {"done", "dead"}, turn' = [turn EXCEPT ![t] = [E!NoTurn EXCEPT !.pc = w]],
             UNCHANGED <<sess, loading, events>>
      PROVE  Tails'
  <2>. DEFINE new == [E!NoTurn EXCEPT !.pc = w]
  <2>1. new \in TurnOf /\ new.pc = w /\ w \notin Tailing
    BY TurnStarts DEF TurnOf, E!NoTurn, Tailing
  <2>. HIDE DEF new
  <2>. QED  BY <1>1, <1>2, <2>1, TurnMoves DEF new
<1>3. CASE \/ E!Reply(t) \/ E!CancelSeen(t) \/ E!Late(t) \/ E!ViewFails(t) \/ E!Unanswered(t)
           \/ E!Refuse(t) \/ E!Panics(t)
  BY <1>2, <1>3 DEF E!Reply, E!CancelSeen, E!Late, E!ViewFails, E!Unanswered, E!Refuse,
                    E!Panics, E!Stops, E!Moves
<1>4. CASE E!Prompt(t)
  <2>. DEFINE new == [E!NoTurn EXCEPT !.pc = "submit"]
  <2>1. new \in TurnOf /\ new.pc = "submit"
    BY TurnStarts DEF TurnOf, E!NoTurn
  <2>2. /\ turn' = [turn EXCEPT ![t] = new] /\ UNCHANGED <<loading, events>>
        /\ sess' = [sess EXCEPT !.cancel = FALSE]
    BY <1>4 DEF E!Prompt, E!Moves
  <2>. HIDE DEF new
  <2>. QED  BY <1>1, <2>1, <2>2, TurnMoves DEF Tailing
<1>5. CASE E!Submit(t) \/ E!Submitted(t) \/ E!Overlaps(t)
  <2>1. PICK g \in Goals \cup {NoGoal}, m \in BOOLEAN, w \in {"wait", "open"} :
           /\ turn' = [turn EXCEPT ![t] = [old EXCEPT !.pc = w, !.goal = g, !.mine = m]]
           /\ UNCHANGED <<sess, loading, events>>
    <3>1. CASE E!Submit(t)
      BY <3>1 DEF E!Submit, E!Moves
    <3>2. CASE E!Submitted(t)
      <4>1. [old EXCEPT !.pc = "open"] = [old EXCEPT !.pc = "open", !.goal = old.goal, !.mine = old.mine]
        BY <1>1 DEF TurnOf
      <4>2. old.goal \in Goals \cup {NoGoal} /\ old.mine \in BOOLEAN
        BY <1>1 DEF TurnOf
      <4>3. turn' = [turn EXCEPT ![t] = [old EXCEPT !.pc = "open", !.goal = old.goal, !.mine = old.mine]]
        BY <3>2, <4>1 DEF E!Submitted, E!Moves
      <4>4. UNCHANGED <<sess, loading, events>>
        BY <3>2 DEF E!Submitted
      <4>. QED  BY <4>2, <4>3, <4>4
    <3>3. CASE E!Overlaps(t)
      <4>1. PICK g \in Goals : turn' = [turn EXCEPT ![t] = [old EXCEPT !.pc = "open", !.goal = g]]
        BY <3>3 DEF E!Overlaps, E!Moves, E!ActiveGoals
      <4>2. [old EXCEPT !.pc = "open", !.goal = g] = [old EXCEPT !.pc = "open", !.goal = g, !.mine = old.mine]
        BY <1>1 DEF TurnOf
      <4>3. old.mine \in BOOLEAN
        BY <1>1 DEF TurnOf
      <4>4. turn' = [turn EXCEPT ![t] = [old EXCEPT !.pc = "open", !.goal = g, !.mine = old.mine]]
        BY <4>1, <4>2
      <4>5. UNCHANGED <<sess, loading, events>>
        BY <3>3 DEF E!Overlaps
      <4>. QED  BY <4>3, <4>4, <4>5
    <3>. QED  BY <1>5, <3>1, <3>2, <3>3
  <2>. DEFINE new == [old EXCEPT !.pc = w, !.goal = g, !.mine = m]
  <2>2. new \in TurnOf /\ new.pc \notin Tailing
    BY <1>1 DEF TurnOf, Tailing
  <2>3. turn' = [turn EXCEPT ![t] = new]
    BY <2>1
  <2>. HIDE DEF new
  <2>. QED  BY <1>1, <2>1, <2>2, <2>3, TurnMoves
<1>6. CASE E!Open(t)
  <2>. DEFINE new == [old EXCEPT !.pc = "poll", !.since = E!Cursor, !.start = E!Cursor]
  <2>1. turn' = [turn EXCEPT ![t] = new] /\ UNCHANGED <<sess, loading, events>>
    BY <1>6 DEF E!Open, E!Moves
  <2>2. new \in TurnOf /\ new.since = sess.last /\ new.start = sess.last
    BY <1>1 DEF TurnOf, E!Cursor
  <2>. HIDE DEF new
  <2>3. \A e \in (new.start + 1)..new.since : e \in new.seen
    BY <1>1, <2>2
  <2>. QED  BY <1>1, <2>1, <2>2, <2>3, TurnMoves
<1>7. CASE E!Fetch(t)
  <2>. DEFINE upto == E!Upto(E!From(t), E!Now)
              new == [old EXCEPT !.pc = "view", !.since = upto, !.seen = @ \cup E!Own(t, E!From(t))]
  <2>1. /\ turn' = [turn EXCEPT ![t] = new]
        /\ sess' = [sess EXCEPT !.last = E!Upto(@, upto)]
        /\ UNCHANGED <<loading, events>> /\ old.pc \in Tailing
    BY <1>7 DEF E!Fetch, E!Moves, E!In, Tailing
  <2>2. old.since \in 0..Len(events) /\ upto = Len(events) /\ E!Upto(sess.last, upto) = Len(events)
    BY <1>1, <2>1 DEF E!Upto, E!From, E!Now, Behind, TurnOf
  <2>3. E!Own(t, E!From(t)) = {e \in (old.since + 1)..Len(events) : events[e] = old.goal}
    BY DEF E!Own, E!From, E!Now
  <2>4. E!Own(t, E!From(t)) \subseteq Nat
    BY <2>2, <2>3
  <2>5. /\ new \in TurnOf /\ new.since = Len(events) /\ new.start = old.start /\ new.goal = old.goal
        /\ new.seen = old.seen \cup E!Own(t, E!From(t))
    BY <1>1, <2>2, <2>4 DEF TurnOf
  <2>6. \A e \in (old.start + 1)..old.since : events[e] = old.goal => e \in old.seen
    BY <1>1, <2>1 DEF E!NoneSkipped, Tailing
  <2>7. old.start \in Nat /\ old.since \in Nat
    BY <1>1 DEF TurnOf
  <2>8. sess' \in [last : Nat, cancel : BOOLEAN, loads : Nat] /\ sess'.last = Len(events)
    BY <1>1, <2>1, <2>2
  <2>. HIDE DEF new, upto
  <2>9. \A e \in (new.start + 1)..new.since : events[e] = new.goal => e \in new.seen
    BY <1>1, <2>3, <2>5, <2>6, <2>7
  <2>10. Len(events) \in 0..Len(events) /\ new.since \in 0..Len(events)
    BY <1>1, <2>5
  <2>. QED  BY <1>1, <2>1, <2>5, <2>8, <2>9, <2>10, TurnMoves
<1>8. ASSUME NEW w \in {"view", "poll", "ask"}, E!In(t, "poll") \/ E!In(t, "view"),
             turn' = [turn EXCEPT ![t] = [old EXCEPT !.pc = w]], UNCHANGED <<sess, loading, events>>
      PROVE  Tails'
  <2>. DEFINE new == [old EXCEPT !.pc = w]
  <2>1. /\ new \in TurnOf /\ new.since = old.since /\ new.start = old.start
        /\ new.goal = old.goal /\ new.seen = old.seen
    BY <1>1 DEF TurnOf
  <2>2. /\ old.since \in 0..Len(events)
        /\ \A e \in (old.start + 1)..old.since : events[e] = old.goal => e \in old.seen
    BY <1>1, <1>8 DEF E!In, Behind, E!NoneSkipped, TurnOf, Tailing
  <2>3. turn' = [turn EXCEPT ![t] = new]
    BY <1>8
  <2>. HIDE DEF new
  <2>. QED  BY <1>1, <1>8, <2>1, <2>2, <2>3, TurnMoves
<1>9. CASE E!FetchFails(t)
  BY <1>8, <1>9 DEF E!FetchFails, E!Moves
<1>10. CASE E!View(t)
  BY <1>2, <1>8, <1>10 DEF E!View, E!Moves, E!Stops
<1>11. CASE E!Raise(t)
  <2>. DEFINE new == [old EXCEPT !.pc = "wait", !.asks = @ + 1]
  <2>1. turn' = [turn EXCEPT ![t] = new] /\ UNCHANGED <<sess, loading, events>>
    BY <1>11 DEF E!Raise, E!Moves
  <2>2. old.asks + 1 \in Nat
    BY <1>1 DEF TurnOf
  <2>3. new \in TurnOf /\ new.pc = "wait"
    BY <1>1, <2>2 DEF TurnOf
  <2>. HIDE DEF new
  <2>. QED  BY <1>1, <2>1, <2>3, TurnMoves DEF Tailing
<1>. QED  BY <1>3, <1>4, <1>5, <1>6, <1>7, <1>9, <1>10, <1>11 DEF E!Acts

\* The log grows, a goal turns out, the stdin loop takes a cancel or a load.
LEMMA LogGrows ==
    ASSUME Tails, NEW g \in Goals, E!Works(g)
    PROVE  Tails'
<1>1. /\ events \in Seq(Goals) /\ events' = Append(events, g) /\ UNCHANGED <<sess, loading, turn>>
      /\ Behind /\ E!NoneSkipped
  BY DEF Tails, Behind, E!Works, E!Logs
<1>2. /\ events' \in Seq(Goals) /\ Len(events') = Len(events) + 1 /\ Len(events) \in Nat
      /\ \A e \in 1..Len(events) : events'[e] = events[e]
  BY <1>1, AppendProperties
<1>3. Behind'
  <2>1. sess'.last \in 0..Len(events') /\ loading' \in -2..Len(events')
    BY <1>1, <1>2 DEF Behind
  <2>2. ASSUME NEW t \in EditorTurns, turn'[t].pc \in Tailing
        PROVE  turn'[t].since <= Len(events')
    <3>1. turn[t].since <= Len(events) /\ turn[t].since \in Nat
      BY <1>1, <2>2 DEF Behind, Tails, TurnOf
    <3>. QED  BY <1>1, <1>2, <3>1
  <2>. QED  BY <1>2, <2>1, <2>2 DEF Behind
<1>4. ASSUME NEW t \in EditorTurns, turn'[t].pc \in Tailing,
             NEW e \in (turn'[t].start + 1)..turn'[t].since, events'[e] = turn'[t].goal
      PROVE  e \in turn'[t].seen
  <2>1. turn[t].since <= Len(events) /\ turn[t].since \in Nat /\ turn[t].start \in Nat
    BY <1>1, <1>4 DEF Behind, Tails, TurnOf
  <2>2. e \in (turn[t].start + 1)..turn[t].since /\ e \in 1..Len(events)
    BY <1>1, <1>2, <2>1
  <2>3. events[e] = turn[t].goal
    BY <1>1, <1>2, <1>4, <2>2
  <2>. QED  BY <1>1, <1>4, <2>2, <2>3 DEF E!NoneSkipped, Tailing
<1>5. E!NoneSkipped'
  BY <1>4 DEF E!NoneSkipped, Tailing
<1>. QED  BY <1>1, <1>3, <1>5 DEF Tails

LEMMA LoopActs ==
    ASSUME Tails, E!Cancel \/ E!Load \/ E!Loaded \/ E!Dies \/ \E g \in Goals : E!Turnout(g)
    PROVE  Tails'
<1>1. /\ Behind /\ E!NoneSkipped /\ turn \in [EditorTurns -> TurnOf]
      /\ sess \in [last : Nat, cancel : BOOLEAN, loads : Nat]
      /\ events \in Seq(Goals) /\ Len(events) \in Nat
      /\ sess.last \in 0..Len(events) /\ loading \in -2..Len(events)
  BY DEF Tails, Behind
<1>2. ASSUME UNCHANGED <<turn, events>>, sess' \in [last : Nat, cancel : BOOLEAN, loads : Nat],
             sess'.last \in 0..Len(events), loading' \in -2..Len(events)
      PROVE  Tails'
  BY <1>1, <1>2 DEF Tails, Behind, E!NoneSkipped
<1>3. CASE E!Cancel
  <2>1. /\ UNCHANGED <<turn, events, loading>> /\ sess' = [sess EXCEPT !.cancel = TRUE]
    BY <1>3 DEF E!Cancel
  <2>. QED  BY <1>1, <1>2, <2>1
<1>4. CASE E!Load
  <2>1. UNCHANGED <<turn, events>> /\ sess' = [sess EXCEPT !.loads = @ + 1] /\ loading' = Len(events)
    BY <1>4 DEF E!Load, E!Now
  <2>. QED  BY <1>1, <1>2, <2>1
<1>5. CASE \E g \in Goals : E!Turnout(g)
  <2>1. UNCHANGED <<turn, events, sess, loading>>
    BY <1>5 DEF E!Turnout
  <2>. QED  BY <1>1, <1>2, <2>1
<1>6. CASE E!Loaded
  <2>1. /\ sess' = [sess EXCEPT !.last = IF loading > 0 THEN loading ELSE @]
        /\ loading' = -1 /\ UNCHANGED events
    BY <1>6 DEF E!Loaded
  <2>2. /\ sess' \in [last : Nat, cancel : BOOLEAN, loads : Nat]
        /\ sess'.last \in 0..Len(events) /\ loading' \in -2..Len(events)
    BY <1>1, <2>1
  <2>3. CASE UNCHANGED turn
    BY <1>2, <2>1, <2>2, <2>3
  <2>4. ASSUME NEW t \in EditorTurns, NEW g \in Goals,
               turn' = [turn EXCEPT ![t] = [E!NoTurn EXCEPT !.pc = "open", !.goal = g]]
        PROVE  Tails'
    <3>. DEFINE new == [E!NoTurn EXCEPT !.pc = "open", !.goal = g]
    <3>1. new \in TurnOf /\ new.pc = "open"
      BY TurnStarts DEF TurnOf, E!NoTurn
    <3>. HIDE DEF new
    <3>. QED  BY <2>1, <2>2, <2>4, <3>1, TurnMoves DEF Tailing, new
  <2>. QED  BY <1>6, <2>3, <2>4 DEF E!Loaded, E!Moves, E!ActiveGoals
<1>7. CASE E!Dies
  <2>. DEFINE dead == [E!NoTurn EXCEPT !.pc = "dead"]
  <2>1. /\ turn' = [t \in EditorTurns |-> IF turn[t].pc \in {"idle", "done"} THEN turn[t] ELSE dead]
        /\ loading' = -2 /\ UNCHANGED <<sess, events>>
    BY <1>7 DEF E!Dies
  <2>2. dead \in TurnOf /\ dead.pc = "dead"
    BY TurnStarts DEF TurnOf, E!NoTurn
  <2>. HIDE DEF dead
  <2>3. turn' \in [EditorTurns -> TurnOf] /\ \A t \in EditorTurns : turn'[t].pc \notin Tailing
    BY <1>1, <2>1, <2>2 DEF Tailing
  <2>. QED  BY <1>1, <2>1, <2>3 DEF Tails, Behind, E!NoneSkipped, Tailing
<1>. QED  BY <1>3, <1>4, <1>5, <1>6, <1>7

LEMMA EditorSteps == Tails /\ [E!Next]_EditorVars => Tails'
<1>1. CASE Tails /\ E!Next
  BY <1>1, TurnActs, LogGrows, LoopActs DEF E!Next
<1>2. CASE Tails /\ UNCHANGED EditorVars
  BY <1>2 DEF EditorVars, Tails, Behind, E!NoneSkipped
<1>. QED  BY <1>1, <1>2

LEMMA EditorStarts == E!Init => Tails
<1>. SUFFICES ASSUME E!Init PROVE Tails
  OBVIOUS
<1>1. /\ events = <<>> /\ Len(events) = 0 /\ sess = [last |-> 0, cancel |-> FALSE, loads |-> 0]
      /\ loading = -1 /\ turn = [t \in EditorTurns |-> E!NoTurn]
  BY DEF E!Init
<1>2. turn \in [EditorTurns -> TurnOf] /\ \A t \in EditorTurns : turn[t].pc = "idle"
  BY <1>1, TurnStarts
<1>. QED  BY <1>1, <1>2 DEF Tails, Behind, Tailing, E!NoneSkipped

-----------------------------------------------------------------------------
(* The dashboard.                                                            *)

\* Of a set of numbers that has at least k there is the one up to which it has k.
LEMMA KthThere ==
    ASSUME NEW N \in Nat, NEW S \in SUBSET (1..N), NEW k \in 1..Cardinality(S)
    PROVE  \E i \in S : Cardinality(S \cap 1..i) = k
<1>. DEFINE upto(i) == S \cap 1..i
            count(i) == Cardinality(upto(i))
            enough == {i \in 0..N : count(i) >= k}
<1>1. IsFiniteSet(S)
  <2>1. IsFiniteSet(1..N)
    BY FS_Interval
  <2>. QED  BY <2>1, FS_Subset
<1>2. \A i \in Nat : IsFiniteSet(upto(i)) /\ count(i) \in Nat
  <2>. SUFFICES ASSUME NEW i \in Nat PROVE IsFiniteSet(upto(i)) /\ count(i) \in Nat
    OBVIOUS
  <2>1. upto(i) \in SUBSET S
    OBVIOUS
  <2>. HIDE DEF upto
  <2>2. IsFiniteSet(upto(i))
    BY <1>1, <2>1, FS_Subset
  <2>. QED  BY <2>2, FS_CardinalityType
<1>3. Cardinality(S) \in Nat /\ k \in Nat /\ k > 0
  BY <1>1, FS_CardinalityType
<1>4. N \in enough
  <2>1. upto(N) = S
    OBVIOUS
  <2>. QED  BY <1>3, <2>1
<1>. HIDE DEF count
<1>5. PICK i \in enough : \A j \in enough : ~(j < i)
  <2>1. \A x, y \in enough : <<y, x>> \notin OpToRel(<, Nat) => ~(y < x)
    BY DEF OpToRel
  <2>2. enough \subseteq Nat /\ enough # {}
    BY <1>4
  <2>. HIDE DEF enough
  <2>3. \E x \in enough : \A y \in enough : <<y, x>> \notin OpToRel(<, Nat)
    BY <2>2, WFMin, NatLessThanWellFounded
  <2>. QED  BY <2>1, <2>3
<1>6. i \in 0..N /\ count(i) >= k
  OBVIOUS
<1>7. i # 0
  <2>1. upto(0) = {}
    OBVIOUS
  <2>2. count(0) = 0
    BY <2>1, FS_EmptySet DEF count
  <2>. QED  BY <1>3, <1>6, <2>2
<1>. DEFINE h == i - 1
<1>8. h \in Nat /\ h < i /\ h \in 0..N
  BY <1>6, <1>7
<1>9. count(h) < k
  <2>1. ~(count(h) >= k)
    BY <1>5, <1>8
  <2>2. count(h) \in Nat
    BY <1>2, <1>8
  <2>. HIDE DEF h
  <2>. QED  BY <1>3, <2>1, <2>2
<1>10. i \in S
  <2>. SUFFICES ASSUME i \notin S PROVE FALSE
    OBVIOUS
  <2>1. upto(i) = upto(h)
    BY <1>6, <1>8
  <2>2. count(i) = count(h) /\ count(h) \in Nat
    BY <1>2, <1>8, <2>1 DEF count
  <2>. HIDE DEF h
  <2>. QED  BY <1>3, <1>6, <1>9, <2>2
<1>11. upto(i) = upto(h) \cup {i} /\ i \notin upto(h)
  BY <1>6, <1>8, <1>10
<1>12. count(i) = count(h) + 1
  <2>. HIDE DEF upto, h
  <2>. QED  BY <1>2, <1>8, <1>11, FS_AddElement DEF count
<1>13. count(i) = k
  <2>1. count(h) \in Nat
    BY <1>2, <1>8
  <2>. HIDE DEF h
  <2>. QED  BY <1>3, <1>6, <1>9, <1>12, <2>1
<1>. QED  BY <1>10, <1>13 DEF count

\* The module of the dashboard counts as this one does.
LEMMA SameCount == ASSUME NEW S PROVE T!Cardinality(S) = Cardinality(S)
  BY DEF T!Cardinality, Cardinality

\* The list of a tab has the names of rows, or the one of the workspace.
LEMMA ListOfNames ==
    ASSUME NEW t, NEW in, NEW sh
    PROVE  /\ Len(T!Listed(t, in, sh)) \in Nat
           /\ T!Listed(t, in, sh) # <<>> => Len(T!Listed(t, in, sh)) > 0
           /\ \A k \in 1..Len(T!Listed(t, in, sh)) : T!Listed(t, in, sh)[k] # "none"
<1>. DEFINE list == T!Listed(t, in, sh)
            there == T!There(sh)
            n == Cardinality(there)
<1>1. CASE t # about
  BY <1>1 DEF T!Listed
<1>2. CASE t = about /\ t = "Tasks" /\ ~in
  BY <1>2 DEF T!Listed
<1>3. CASE t = about /\ ~(t = "Tasks" /\ ~in)
  <2>1. /\ Len(Rows) \in Nat /\ DOMAIN Rows = 1..Len(Rows) /\ there \in SUBSET (1..Len(Rows))
        /\ "none" \notin T!Names
    BY FrontsAssumption DEF T!There
  <2>2. n \in Nat
    <3>. HIDE DEF there
    <3>1. IsFiniteSet(1..Len(Rows))
      BY <2>1, FS_Interval
    <3>2. IsFiniteSet(there)
      BY <2>1, <3>1, FS_Subset
    <3>. QED  BY <3>2, FS_CardinalityType
  <2>3. list = [k \in 1..n |-> Rows[T!Kth(sh, k)]]
    BY <1>3, SameCount DEF T!Listed
  <2>4. \A k \in 1..n : T!Kth(sh, k) \in 1..Len(Rows)
    <3>. SUFFICES ASSUME NEW k \in 1..n PROVE T!Kth(sh, k) \in 1..Len(Rows)
      OBVIOUS
    <3>. DEFINE kth(i) == Cardinality(there \cap 1..i) = k
    <3>1. \E i \in there : kth(i)
      BY <2>1, KthThere
    <3>2. T!Kth(sh, k) = CHOOSE i \in there : kth(i)
      BY SameCount DEF T!Kth
    <3>. HIDE DEF kth, there
    <3>3. (CHOOSE i \in there : kth(i)) \in there
      BY <3>1
    <3>. QED  BY <2>1, <3>2, <3>3
  <2>5. \A k \in 1..n : list[k] \in T!Names
    BY <2>3, <2>4 DEF T!Names
  <2>6. Len(list) = n /\ list \in Seq(T!Names)
    <3>. HIDE DEF n
    <3>1. list \in [1..n -> T!Names]
      BY <2>3, <2>5
    <3>. HIDE DEF list
    <3>2. list \in Seq(T!Names) /\ DOMAIN list = 1..n
      BY <2>2, <3>1, SeqDef
    <3>. QED  BY <2>2, <3>2, LenProperties
  <2>. HIDE DEF list, n
  <2>7. list # <<>> => Len(list) > 0
    BY <2>6, EmptySeq
  <2>. QED  BY <2>1, <2>2, <2>5, <2>6, <2>7 DEF list
<1>. QED  BY <1>1, <1>2, <1>3

IsFlow(f) == /\ f = [kind |-> f.kind, step |-> f.step, of |-> f.of]
             /\ f.kind \in DOMAIN T!Steps \cup {"none"}

\* From the drawing of the screen to the key, it says what is highlighted and asked.
Fresh == loop \in {"poll", "key"} =>
    request = T!NoRequest /\ drawn.row = T!Highlighted /\ (T!Asking => drawn.flow = flow)

\* A list that has rows has a selected one.
Within(sel, list) == sel \in Nat /\ (list # <<>> => sel < Len(list))

Seen == IsFlow(flow) /\ Fresh /\ Within(selected, T!Current) /\ T!ActsOnShown

\* No window asks while it sends or has its answer.
LEMMA AskedSteps ==
    \A kind \in DOMAIN T!Steps : \A i \in DOMAIN T!Steps[kind] :
        T!Steps[kind][i] \notin {"sending", "fine", "refused"}
  BY DEF T!Steps

\* The row of a clamped selection, and the first row, are in the list.
LEMMA Clamps ==
    ASSUME NEW sel \in Nat, NEW t, NEW in, NEW sh
    PROVE  Within(T!Clamped(sel, T!Listed(t, in, sh)), T!Listed(t, in, sh))
<1>. DEFINE list == T!Listed(t, in, sh)
<1>1. Len(list) \in Nat /\ (list # <<>> => Len(list) > 0)
  BY ListOfNames
<1>2. list = <<>> => Len(list) = 0
  OBVIOUS
<1>. HIDE DEF list
<1>. QED  BY <1>1, <1>2 DEF T!Clamped, Within, list

LEMMA StartsAt ==
    ASSUME NEW t, NEW in, NEW sh PROVE Within(0, T!Listed(t, in, sh))
  BY ListOfNames DEF Within

\* What neither the user nor the loop does leaves the screen alone.
LEMMA BackgroundShows ==
    ASSUME Seen, T!RefreshAnswers \/ T!ExtraAnswers \/ T!FlowAnswers \/ T!Others
    PROVE  Seen'
<1>1. /\ UNCHANGED <<about, loop, tab, inside, selected, shown, drawn, request>>
      /\ \/ UNCHANGED flow
         \/ \E s \in {"fine", "refused"} : flow' = [flow EXCEPT !.step = s]
  BY DEF T!RefreshAnswers, T!ExtraAnswers, T!FlowAnswers, T!Others
<1>2. T!Highlighted' = T!Highlighted /\ T!Current' = T!Current
  BY <1>1 DEF T!Highlighted, T!Current, T!Listed, T!There, T!Kth
<1>3. IsFlow(flow') /\ (T!Asking' => T!Asking /\ flow' = flow)
  <2>1. CASE UNCHANGED flow
    BY <2>1 DEF Seen, T!Asking
  <2>2. ASSUME NEW s \in {"fine", "refused"}, flow' = [flow EXCEPT !.step = s]
        PROVE  IsFlow(flow') /\ flow'.step = s
    BY <2>2 DEF Seen, IsFlow
  <2>3. ASSUME NEW s \in {"fine", "refused"}, flow' = [flow EXCEPT !.step = s]
        PROVE  ~T!Asking'
    <3>1. flow'.step \in {"sending", "fine", "refused"} /\ IsFlow(flow')
      BY <2>2, <2>3
    <3>. QED  BY <3>1, AskedSteps DEF T!Asking, IsFlow
  <2>. QED  BY <1>1, <2>1, <2>2, <2>3
<1>. QED  BY <1>1, <1>2, <1>3 DEF Seen, Fresh, T!ActsOnShown, Within

LEMMA LoopShows ==
    ASSUME Seen, T!Draw \/ T!Poll \/ T!Quit
    PROVE  Seen'
<1>1. CASE T!Draw
  <2>1. /\ UNCHANGED <<about, tab, inside, selected, shown, flow>>
        /\ drawn'.row = T!Highlighted /\ drawn'.flow = flow /\ request' = T!NoRequest
    BY <1>1 DEF T!Draw, T!Dialog
  <2>2. T!Highlighted' = T!Highlighted /\ T!Current' = T!Current
    BY <2>1 DEF T!Highlighted, T!Current, T!Listed, T!There, T!Kth
  <2>. QED  BY <2>1, <2>2 DEF Seen, Fresh, T!ActsOnShown, T!NoRequest
<1>2. CASE T!Poll /\ loop' = "key"
  <2>1. UNCHANGED <<about, tab, inside, selected, shown, flow, drawn, request>> /\ loop = "poll"
    BY <1>2 DEF T!Poll, T!Found
  <2>2. /\ T!Highlighted' = T!Highlighted /\ T!Current' = T!Current /\ T!Asking' = T!Asking
    BY <2>1 DEF T!Highlighted, T!Current, T!Listed, T!There, T!Kth, T!Asking
  <2>. QED  BY <2>1, <2>2 DEF Seen, Fresh, T!ActsOnShown
<1>3. CASE T!Poll /\ loop' = "draw"
  <2>1. UNCHANGED <<about, tab, inside, drawn, request>>
    BY <1>3 DEF T!Poll
  <2>2. IsFlow(flow')
    BY <1>3 DEF T!Poll, T!PollRefresh, T!PollFlow, T!PollDetail, T!PollExtra, Seen, IsFlow
  <2>3. CASE UNCHANGED <<selected, shown>>
    <3>1. T!Current' = T!Current
      BY <2>1, <2>3 DEF T!Current, T!Listed, T!There, T!Kth
    <3>. QED  BY <1>3, <2>1, <2>2, <2>3, <3>1 DEF Seen, Fresh, T!ActsOnShown
  <2>4. CASE T!PollRefresh
    <3>1. /\ selected' = T!Clamped(selected, T!Listed(tab, inside, refresh.rows))
          /\ T!Current' = T!Listed(tab, inside, refresh.rows)
      BY <2>1, <2>4 DEF T!PollRefresh, T!Current, T!Listed, T!There, T!Kth
    <3>2. Within(selected', T!Current')
      BY <3>1, Clamps DEF Seen, Within
    <3>. QED  BY <1>3, <2>1, <2>2, <3>2 DEF Seen, Fresh, T!ActsOnShown
  <2>. QED  BY <1>3, <2>3, <2>4 DEF T!Poll, T!PollFlow, T!PollDetail, T!PollExtra
<1>4. CASE T!Quit
  <2>1. /\ UNCHANGED <<about, tab, inside, selected, shown, flow, drawn, request>> /\ loop' = "quit"
    BY <1>4 DEF T!Quit
  <2>2. T!Current' = T!Current
    BY <2>1 DEF T!Current, T!Listed, T!There, T!Kth
  <2>. QED  BY <2>1, <2>2 DEF Seen, Fresh, T!ActsOnShown
<1>. QED  BY <1>1, <1>2, <1>3, <1>4 DEF T!Poll, T!Found

\* A key acts on what is drawn.
LEMMA KeyShows ==
    ASSUME Seen, T!Key
    PROVE  Seen'
<1>1. /\ loop = "key" /\ loop' = "draw" /\ UNCHANGED <<about, others, shown, drawn>>
      /\ request = T!NoRequest /\ drawn.row = T!Highlighted /\ (T!Asking => drawn.flow = flow)
      /\ IsFlow(flow) /\ Within(selected, T!Current)
  BY DEF T!Key, Seen, Fresh
<1>2. Fresh'
  BY <1>1 DEF Fresh
<1>3. ASSUME UNCHANGED <<tab, inside, selected>>
      PROVE  Within(selected, T!Current)'
  <2>1. T!Current' = T!Current
    BY <1>1, <1>3 DEF T!Current, T!Listed, T!There, T!Kth
  <2>. QED  BY <1>1, <1>3, <2>1
<1>4. ASSUME selected' = 0
      PROVE  Within(selected, T!Current)'
  <2>1. T!Current' = T!Listed(tab', inside', shown')
    BY <1>1 DEF T!Current, T!Listed, T!There, T!Kth
  <2>. QED  BY <1>4, <2>1, StartsAt
<1>5. ASSUME UNCHANGED request
      PROVE  T!ActsOnShown'
  BY <1>1, <1>5 DEF T!ActsOnShown, T!NoRequest
<1>6. CASE T!NoKey \/ T!RefreshKey
  BY <1>1, <1>2, <1>3, <1>5, <1>6 DEF Seen, T!NoKey, T!RefreshKey
<1>7. CASE T!Close
  <2>1. IsFlow(flow')
    BY <1>7 DEF T!Close, T!Closed, IsFlow
  <2>. QED  BY <1>2, <1>3, <1>5, <1>7, <2>1 DEF Seen, T!Close
<1>8. CASE T!Enter
  <2>1. IsFlow(flow')
    BY <1>1, <1>8 DEF T!Enter, IsFlow
  <2>2. /\ drawn.flow = flow
        /\ request' \in {[row |-> T!NoRow, flow |-> flow, done |-> TRUE], request}
    BY <1>1, <1>8 DEF T!Enter, T!NoRequest
  <2>3. T!ActsOnShown'
    BY <1>1, <2>2 DEF T!ActsOnShown, T!NoRequest
  <2>. QED  BY <1>2, <1>3, <1>8, <2>1, <2>3 DEF Seen, T!Enter
<1>9. CASE T!Refuse
  <2>1. IsFlow(flow')
    BY <1>1, <1>9 DEF T!Refuse, IsFlow
  <2>. QED  BY <1>2, <1>3, <1>5, <1>9, <2>1 DEF Seen, T!Refuse
<1>10. CASE T!SwitchTab
  BY <1>1, <1>2, <1>4, <1>5, <1>10 DEF Seen, T!SwitchTab
<1>11. CASE T!Move
  <2>. DEFINE total == Len(T!Current)
  <2>1. T!Current' = T!Current
    BY <1>1, <1>11 DEF T!Move, T!Current, T!Listed, T!There, T!Kth
  <2>2. total \in Nat /\ total > 0 /\ selected \in Nat
    BY <1>1, <1>11, ListOfNames DEF T!Move, T!Current, Within
  <2>3. PICK by \in {1, total - 1} : selected' = (selected + by) % total
    BY <1>11 DEF T!Move
  <2>4. selected' \in Nat /\ selected' < total
    <3>. HIDE DEF total
    <3>. QED  BY <2>2, <2>3
  <2>5. Within(selected, T!Current)'
    BY <2>1, <2>4 DEF Within
  <2>. QED  BY <1>1, <1>2, <1>5, <1>11, <2>5 DEF Seen, T!Move
<1>12. ASSUME NEW to, T!Change(to)
       PROVE  Seen'
  <2>1. /\ UNCHANGED <<tab, inside, selected, flow>>
        /\ request'.row = T!Highlighted /\ request'.flow = T!Closed
    BY <1>12 DEF T!Change
  <2>. QED  BY <1>1, <1>2, <1>3, <2>1 DEF Seen, T!ActsOnShown
<1>13. CASE T!Delete \/ T!Toggle
  BY <1>12, <1>13 DEF T!Delete, T!Toggle
<1>14. CASE T!Open
  <2>1. IsFlow(flow')
    <3>1. \A kind \in DOMAIN T!OpensOn : kind \in DOMAIN T!Steps
      BY DEF T!OpensOn, T!Steps
    <3>. QED  BY <1>1, <1>14, <3>1 DEF T!Open, IsFlow
  <2>. QED  BY <1>2, <1>3, <1>5, <1>14, <2>1 DEF Seen, T!Open
<1>15. CASE T!TasksEnter \/ T!ExitWorkspace
  BY <1>1, <1>2, <1>3, <1>4, <1>5, <1>15 DEF Seen, T!TasksEnter, T!ExitWorkspace
<1>. QED  BY <1>6, <1>7, <1>8, <1>9, <1>10, <1>11, <1>13, <1>14, <1>15 DEF T!Key

LEMMA DashboardSteps == Seen /\ [T!Next]_TuiVars => Seen'
<1>1. CASE Seen /\ T!Next
  BY <1>1, BackgroundShows, LoopShows, KeyShows DEF T!Next, T!Turns
<1>2. CASE Seen /\ UNCHANGED TuiVars
  <2>1. UNCHANGED <<loop, selected, flow, drawn, request>>
    BY <1>2 DEF TuiVars
  <2>2. T!Highlighted' = T!Highlighted /\ T!Current' = T!Current /\ T!Asking' = T!Asking
    BY <1>2 DEF TuiVars, T!Highlighted, T!Current, T!Listed, T!There, T!Kth, T!Asking
  <2>. QED  BY <1>2, <2>1, <2>2 DEF Seen, Fresh, T!ActsOnShown
<1>. QED  BY <1>1, <1>2

LEMMA DashboardStarts == T!Init => Seen
<1>. SUFFICES ASSUME T!Init PROVE Seen
  OBVIOUS
<1>1. loop = "draw" /\ selected = 0 /\ flow = T!Closed /\ request = T!NoRequest
  BY DEF T!Init
<1>2. IsFlow(flow)
  BY <1>1 DEF IsFlow, T!Closed
<1>. QED  BY <1>1, <1>2, StartsAt DEF Seen, Fresh, T!Current, T!ActsOnShown, T!NoRequest

\* The highlighted row of a list is in the window that is drawn.
LEMMA Highlighting == Seen => T!Highlights
<1>. SUFFICES ASSUME Seen, T!Current # <<>> PROVE T!Highlighted # T!NoRow /\ selected \in T!Window(Len(T!Current))
  BY DEF T!Highlights
<1>. DEFINE total == Len(T!Current)
<1>1. /\ selected \in Nat /\ selected < total /\ total \in Nat /\ Height \in Nat
      /\ T!Current[selected + 1] # "none"
  BY ListOfNames, FrontsAssumption DEF Seen, Within, T!Current
<1>2. T!Highlighted # T!NoRow
  <2>1. T!Highlighted.name = T!Current[selected + 1]
    BY <1>1 DEF T!Highlighted
  <2>. QED  BY <1>1, <2>1 DEF T!NoRow
<1>3. selected \in T!Window(total)
  <2>. HIDE DEF total
  <2>. QED  BY <1>1 DEF T!Window
<1>. QED  BY <1>2, <1>3

-----------------------------------------------------------------------------
\* acp.rs, stream_goal, and single-tui: however the turns of the editor and the refreshes of
\* the dashboard interleave, a turn has shown every event of its goal between its first cursor
\* and its present one, a key acts on the row and the window that the screen says, and a list
\* that has rows has a highlighted one that is drawn.
THEOREM PersonSeesIt == Spec => []ShowsIt
<1>1. Init => Tails /\ Seen
  BY EditorStarts, DashboardStarts DEF Init
<1>2. Tails /\ Seen /\ [Next]_<<which, EditorVars, TuiVars>> => Tails' /\ Seen'
  BY EditorSteps, DashboardSteps DEF Next
<1>3. Tails /\ Seen => ShowsIt
  BY Highlighting DEF ShowsIt, Tails, Seen
<1>. QED  BY <1>1, <1>2, <1>3, PTL DEF Spec
=============================================================================
