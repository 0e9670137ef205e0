SPECIFICATION Spec
CONSTANTS
  EditorTurns = {"t1", "t2"}
  Goals = {"g1", "g2"}
  NoGoal = "none"
  MaxEvents = 1
  MaxAsks = 1
  MaxLoads = 1
  About = {"Tools", "Accounts", "Agents", "Tasks", "Backup", "Usage"}
  Rows <- TwoRows
  Height = 1
  MaxOthers = 1
INVARIANT ShowsIt
PROPERTY AnswersShown
CHECK_DEADLOCK FALSE
