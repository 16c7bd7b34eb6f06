CONSTANTS
  Events = {a, b}
  Recurring = {b}
  New = new
  MaxCalls = 2
  MaxLists = 2
  Slots = 2
  Times = {0, 1, 2}
  SeriesCalls = 3
  Clients = {c1, c2}
  MaxSaves = 3
  Items = {i1, i2}
  Chunk = 1
  MaxWrites = 2
  Parallel = 1
  Cals = {c}
  Kept = {k}
  Passing = {x}
  Batch = 1
  MaxRuns = 2
  MaxRestarts = 1
  Meetings = {m1, m2}
  MaxOthers = 1
  MaxLogins = 2
  MaxGen = 1
  MaxSteps = 2
  MaxSnapshots = 4
  MaxRemovals = 2
  MaxMounts = 3
  Conversations = {"c1", "c2"}
  Accounts = {"a", "b"}
  Push = {"a"}
  MaxTurns = 2
  MaxStarts = 2
SPECIFICATION MCSpec
CHECK_DEADLOCK FALSE
INVARIANTS  EditTouchesOne NothingUnseenReplaced CardIsTrue RemovedStays ListensToContinuous
PROPERTIES OnlySeenReplaced KeptStays RotationKept OpensOnce
