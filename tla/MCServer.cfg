\* One behaviour per part; the parts have the sizes given here.
SPECIFICATION Spec
CONSTANTS
  None = None
  Apps = {"a1", "a2"}
  Traits = {"t1", "t2", "t3"}
  Orbitals = {"o1", "o2"}
  Listeners = {"l1", "l2"}
  MaxDepth = 2
  MaxSets = 2
  MaxSubscriptions = 3
  MaxEmits = 2
  Names = {"x", "y", "z", "w"}
  HomeOf <- SmallHomes
  MaxRenames = 2
  MaxSends = 1
  MaxEvents = 2
  MaxConnects = 2
  Viewers = {"v1", "v2", "v3"}
  FirstViewer = "v1"
  Entities = {"e1", "e2", "e3"}
  IdentityEntity = "e1"
  WrittenEntities = {"e2"}
  NoViewer = "nobody"
  Tabs = {"t1", "t2"}
  Elements = {"x"}
  Calls = {"c"}
  NoTab = "no tab"
  MaxLoads = 2
  MaxRestarts = 1
  MaxWatches = 1
  Ticks <- SmallTicks
  BadTicks <- SmallBadTicks
  InboundApps = {"a2"}
  Requests = {r1, r2}
  MaxMutations = 2
  OrbitalNames = {"n", "m"}
  HasOrbitals <- SmallOrbitals
  Readers = {"d1", "d2"}
  MaxSwaps = 2
  Engines = {"first", "fork"}
  FirstEngine = "first"
  Dispatches = {"d1", "d2"}
  MaxKernels = 3
  Asks = {"a", "b", "c"}
  Rows = {"r", "s"}
  Views = {"v1", "v2"}
  MaxPosts = 2
  Pages = {"p", "q"}
  DeclaredPages <- SmallPages
  ShownOrbital <- SmallShown
  Locales = {"en"}
  Versions = 3
INVARIANTS
  TypeOK
  EveryoneIsToldOnce
  ArrivesWhereItBelongs
  RowsAreKept
  TurnsAreWhole
  LazyPagesWork
CHECK_DEADLOCK FALSE
