-------------------------------- MODULE MCPool --------------------------------
(* Instances of the pool for TLC: a key of the same name on two platforms, one *)
(* of which polls; times in ticks of about a minute.                            *)
EXTENDS Pool, TLC

Key(p, k) == [platform |-> p, key |-> k]
TwoKeys == {Key("groq", "default"), Key("horde", "default")}
OwnSessions == [c \in Calls |-> c]
Benches == [kind \in Kinds |->
    CASE kind = "stated" -> {2} [] kind = "limited" -> {1, 2}
      [] kind = "paid" -> {2} [] kind = "auth" -> {1} [] kind = "local" -> {1}]
EitherCall == Permutations(Calls)
=============================================================================
