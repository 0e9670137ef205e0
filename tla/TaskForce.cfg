SPECIFICATION FairSpec
CONSTANTS
  Entries = {"work", "home", "pool"}
  Agents = {"opencode", "single-pool"}
  AgentOf <- EntryAgent
  Named = {"work"}
  Chains <- TwoWays
  Slotted = {"opencode"}
  Limit <- OneSlot
  PoolAgent = "single-pool"
  Starts = {"work"}
  TreeChoices = {TRUE}
  FailoverChoices = {TRUE}
  Requests = {"cancel", "force", "cleanup", "account"}
  MaxTasks = 2
  MaxRestarts = 1
INVARIANTS
  WorkedOn
  TreeKept
PROPERTY
  KeepsContract
CHECK_DEADLOCK FALSE
