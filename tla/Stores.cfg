SPECIFICATION Spec
CONSTANTS
  Threads = {"t1", "t2", "m1"}
  Commands = {"m1"}
  Scopes = {"no-session"}
  Secrets = {"s1", "s2"}
  MaxAlias = 2
  MaxLives = 2
  Writers = {w1, w2}
  Readers = {q1}
  Agents = {a1, a2}
  Everyone = Everyone
  MaxTexts = 2
  MaxNotes = 1
  EntityNames = {e1, e2}
  Clients = {c1, c2}
  Kinds = {"claude", "settings"}
  Requests = {r1, r2}
  Servers = {"s1"}
  MaxSeconds = 1
  Isolated = {t1, t2}
  Callers = {c1, c2}
  Editors = {h1}
  Rules = {"onfail", "all"}
  MaxHooks = 2
  Programs = {"a", "b"}
  Pool = "pool"
  Tables <- TwoTables
  DefaultTable <- MadeTable
  Efforts = {"quick", "standard"}
  Standard = "standard"
  Loaders = {l1}
  RateWindow = 1
  EndOfTime = 3
  Never = Never
  Absent = Absent
  Malformed = Malformed
  Unreadable = Unreadable
  Calls = {k1, k2}
  Models = {m1, m2}
  Minute = 1
  Day = 3
  Backstop = 2
  MemoryCap = 1
  LastTime = 6
  None = None
  MinProviders = 2
  EntryGrace = 2
  ExitGrace = 3
  Healthy = 50
  MaxEnabled = 3
  Updaters = {u1}
  Binaries = 2
  MaxVersion = 3
  Nightly = Nightly
  BackedUp = {"db", "log"}
  Excluded = {"log"}
  Unsafe = {"up"}
  Texts = {x1, x2}
  Prompts <- ShortPrompts
  NamesOfAliases <- SixNames
  Vendors <- TwoVendors
  Labels <- TwoLabels
  MinSegment = 1
  MinValue = 2
  MinWord = 3
  MaxScans = 2
  Replied <- ShortReplies
  Summaries <- ShortSummary
  MaxNodes = 2
INVARIANTS OwnSecret LookupsAgree OwnKept MergeAttended FilesWhole
  ReadRight OnceOnly
CHECK_DEADLOCK FALSE
