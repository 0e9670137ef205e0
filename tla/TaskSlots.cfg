SPECIFICATION FairSpec
CONSTANTS
  Entries = {"work", "home", "pool"}
  Agents = {"opencode", "single-pool"}
  AgentOf <- EntryAgent
  Named = {"work", "home"}
  Chains <- TwoWays
  Slotted = {"opencode"}
  Limit <- OneSlot
  PoolAgent = "single-pool"
  Starts = {"work"}
  TreeChoices = {FALSE}
  FailoverChoices = {TRUE}
  Requests = {"cancel"}
  MaxTasks = 3
  MaxRestarts = 0
INVARIANTS
  SlotCap
  NoLostWakeup
  NoEntryTwice
PROPERTY
  KeepsContract
CHECK_DEADLOCK FALSE
