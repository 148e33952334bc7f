SPECIFICATION FairSpec
CHECK_DEADLOCK FALSE
CONSTANTS
  Calls = {"c1", "c2"}
  Keys = {"k"}
  NoKey = "no key"
  MaxCancels = 2
  MaxRequests = 3
  MaxAsks = 2
  MaxChunks = 2
  MaxEvents = 2
  Subscribers = {"s1", "s2"}
  MaxChannels = 2
  MaxFrames = 3
  MaxFaults = 1
  Clients = {"p1", "p2"}
  Traits = {"t1", "t2"}
  MaxSessions = 2
  MaxSwaps = 1
  Effects = {"e1", "e2"}
  Workspaces = {"w"}
  Project = "project"
  NoVersion = "nothing"
  Earlier = "earlier"
  MaxCrashes = 1
  ChildAsks = {"a1", "a2"}
  AskKeys = {"k"}
  InPlace = "in place"
  MaxBytes = 2
  HighWater = 1
  Loads = {"l1", "l2"}
  Imports = {"std", "scoped"}
  OverHttp = {"scoped"}
  MaxEdits = 2
  MaxClears = 1
INVARIANTS
  TypeOK
  InOrder
  CancelSticks
  NothingLeftBehind
PROPERTIES
  NoLateAnswer
  EveryWaitEnds
