SPECIFICATION Spec
CONSTANTS
  NumNodes = 1
  Agents = {"grok"}
  Pieces = {}
  NumGoals = 1
  Careful = {}
  Preplanned = {1}
  AutoMerge = {}
  Handlers = {"client"}
  Plans <- RacesPlans
  Routes = {"grok"}
  AgentCap <- CapTwo
  MaxParallel = 1
  MaxDispatches = 2
  DefaultDispatches = 2
  MaxPatches = 1
  MaxWaits = 0
  MaxReevals = 1
  ReevalAge = 1
  PatchScope = {}
  Asks = {"note","doctor"}
  Caps = {2}
  Results = {"failed","limited"}
  Clocks = {"human"}
  MaxTasks = 2
  MaxRequests = 1
  MaxCrashes = 1
  MaxOps = 1
  MaxHeals = 1
INVARIANTS
  PausedIsResumed
  ReevalOvershoot
