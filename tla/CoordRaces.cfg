SPECIFICATION Spec
CONSTANTS
  NumNodes = 1
  Agents = {"grok"}
  Pieces <- RacesPieces
  NumGoals = 1
  Careful = {}
  Preplanned = {}
  AutoMerge = {}
  Handlers = {"client"}
  Plans <- RacesPlans
  Routes = {"grok"}
  AgentCap <- CapTwo
  MaxParallel = 1
  MaxDispatches = 3
  DefaultDispatches = 2
  MaxPatches = 1
  MaxWaits = 1
  MaxReevals = 1
  ReevalAge = 0
  PatchScope = {}
  Asks = {"budget","resume","doctor"}
  Caps = {0, 3}
  Results = {"completed", "failed"}
  Clocks = {}
  MaxTasks = 5
  MaxRequests = 1
  MaxCrashes = 0
  MaxOps = 1
  MaxHeals = 0
INVARIANTS
  RunningHasTask
  AttemptsBounded
  SpendingBounded
