SPECIFICATION Spec
CONSTANTS
  NumNodes = 1
  Agents = {"grok"}
  Pieces = {}
  NumGoals = 1
  Careful = {}
  Preplanned = {1}
  AutoMerge = {}
  Handlers = {}
  Plans <- RacesPlans
  Routes = {"grok"}
  AgentCap <- CapOne
  MaxParallel = 1
  MaxDispatches = 3
  DefaultDispatches = 3
  MaxPatches = 1
  MaxWaits = 1
  MaxReevals = 1
  ReevalAge = 0
  PatchScope = {}
  Asks = {"cancel"}
  Caps = {}
  Results = {"completed", "failed", "limited"}
  Clocks = {}
  MaxTasks = 4
  MaxRequests = 1
  MaxCrashes = 0
  MaxOps = 1
  MaxHeals = 0
PROPERTY
  CancelSticks
