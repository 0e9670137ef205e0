SPECIFICATION Spec
CONSTANTS
  NumNodes = 2
  Agents = {"grok", "claude"}
  Pieces <- QuietPieces
  NumGoals = 2
  Careful = {2}
  Preplanned = {1,2}
  AutoMerge = {1}
  Handlers = {}
  Plans <- QuietPlans
  Routes = {"claude"}
  AgentCap <- CapTwo
  MaxParallel = 2
  MaxDispatches = 4
  DefaultDispatches = 4
  MaxPatches = 1
  MaxWaits = 1
  MaxReevals = 1
  ReevalAge = 0
  PatchScope = {}
  Asks = {"cancel", "merge"}
  Caps = {}
  Results = {"completed", "said_done", "failed"}
  Clocks = {}
  MaxTasks = 4
  MaxRequests = 1
  MaxCrashes = 0
  MaxOps = 1
  MaxHeals = 0
INVARIANTS
  ParallelCap
  NoWorkTwiceOrLost
  DepsBeforeNode
  OnlyCompletedCounts
  DoneMeansFinished
