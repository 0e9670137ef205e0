SPECIFICATION Spec
CONSTANTS
  Requests = {r1, r2}
  Profiles = {n1}
  Logins = {"l1", "l2"}
  RealLogin = "real"
  Nothing = "nothing"
  Healer = "healer"
  Fixers = {"f1", "f2"}
  Connections = {"c1"}
  Categories = {"infra", "agent"}
  MaxStarts = 2
  Sorts = {"lsp"}
  Editors = {e1, e2}
  Entries = {"p1", "u1"}
  Presets = {"p1"}
  Defaults = {"u1"}
  Adders = {a1, a2}
  KeyIds = {1, 2}
  HasProbe = TRUE
  Keepers = {k1, k2}
  Labels = {"x"}
  Runners = {"g1", "g2"}
SYMMETRY LikeRequests
INVARIANTS RunsAsNamed HealHarmless EnabledByChoice KeysSound
CHECK_DEADLOCK FALSE
