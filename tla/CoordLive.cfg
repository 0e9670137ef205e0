SPECIFICATION FairSpec
CONSTANTS
  NumNodes = 2
  Agents = {"grok"}
  Pieces <- LivePieces
  NumGoals = 1
  Careful = {}
  Preplanned = {1}
  AutoMerge = {}
  Handlers = {}
  Plans <- LivePlans
  Routes = {"grok"}
  AgentCap <- CapOne
  MaxParallel = 1
  MaxDispatches = 3
  DefaultDispatches = 3
  MaxPatches = 1
  MaxWaits = 1
  MaxReevals = 1
  ReevalAge = 0
  PatchScope = {}
  Asks = {}
  Caps = {}
  Results = {"completed", "failed", "limited"}
  Clocks = {}
  MaxTasks = 4
  MaxRequests = 0
  MaxCrashes = 1
  MaxOps = 1
  MaxHeals = 0
PROPERTIES
  NothingWaits
