SPECIFICATION Spec
CONSTANTS
  Callers = {"cli", "http"}
  Https = {"http"}
  Daemons = {"d1", "d2"}
  Starters = {"tui"}
  NoDaemon = "none"
  Asks = {a1, a2, h1}
  Hooks = {h1}
  Tools = {}
  Listings = {a2}
  Persons = {p1, p2}
  Resources = {"sh", "shell", "run"}
  ServerOf <- OneServer
  ResourceOf <- Commands
  Covers <- Prefixes
  Rules <- AskForRun
  Procs = {g1, g2}
  NoProc = NoProc
  NoOne = NoOne
  MaxSteps = 3
  MaxCalls = 2
  Nodes = {"n1", "n2", "n3"}
  Missing = "n9"
  Order <- InOrder
  Graphs <- ThreeNodes
  Modes = {"relay", "parallel", "fixed", "planned"}
  Langs = {"rust"}
  Unknown = "none"
  Reqs = {"r1", "r2"}
  Gens = {1, 2}
  NoReq = "noreq"
  AgentNames = {"claude", "opencode", "copilot", "kiro", "goose", "codebuff"}
  Backends = {"host", "docker"}
  HasKill = TRUE
INVARIANTS ExecutedOnce DoneWithLeave EachAnsweredOnce Settled NoneLeft
PROPERTY AllAnswered
CHECK_DEADLOCK FALSE
