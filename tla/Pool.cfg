SPECIFICATION Spec
CONSTANTS
  Calls = {c1, c2}
  Sessions = {c1, c2}
  SessionOf <- OwnSessions
  Platforms = {"groq", "horde"}
  Polling = {"horde"}
  Validating = {"groq"}
  Cands <- TwoKeys
  Lengths <- Benches
  ProbeRest = 0
  ProbeBudget = 1
  MaxAge = 1
  Nobody = Nobody
  NoPlatform = "nowhere"
  NoCand = NoCand
INVARIANTS
  LeasesExact
  RecoveryUseful
  SwitchAnnounced
SYMMETRY EitherCall
CHECK_DEADLOCK FALSE
