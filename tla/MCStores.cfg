\* One behaviour per part; the sizes of the parts that compute over data
\* (imports, cron, graph, facts) stand in MCStores.
SPECIFICATION Spec
CONSTANTS
  None = None
  Credentials = {"n1", "n2"}
  Changes = {"o1", "o2"}
  MaxRows = 4
  MaxCrashes = 1
  Works = {"w1", "w2"}
  Tenants = {"t1", "t2"}
  Host = "host"
  Env = "env"
  Seeded = "seeded"
  ColdStores = {"host"}
  FirstScopes <- SmallScopes
  MaxAsks = 2
  MaxBoots = 2
  Instances = {"i1", "i2"}
  Callbacks = {"c1", "c2"}
  Life = 1
  Grace = 1
  MaxTime = 3
  MaxGrantCrashes = 1
  AccessTokens = {"a1", "a2", "a3"}
  RefreshTokens = {"r1", "r2"}
  TokenLife = 1
  MaxMockTime = 2
  SecretOps = {"o1", "o2", "o3"}
  MaxValues = 3
  ChromeOps = {"o1", "o2", "o3"}
  MaxKeys = 2
  MaxRestarts = 1
  TreeNames = {"a", "b"}
  Depth = 2
  MaxLinks = 2
  TreeGrants <- SmallGrants
  FirstEntries <- SmallEntries
  MaxOps = 3
  Fds = {"f1", "f2"}
  Transfers = {"a", "w"}
  Writes = {"w"}
  MaxSize = 3
  MaxMoves = 1
  Connects = {"x"}
  Receivers = {"r1", "r2"}
  Hosts = {"n", "lo", "m"}
  GrantedHosts = {"n", "lo"}
  Addresses = {"lo", "pub"}
  PublicAddresses = {"pub"}
  LiteralHosts = {"lo"}
  MaxDatagrams = 2
  Prompts = {"c1", "c2", "c3"}
  MaxBases = 2
INVARIANTS
  TypeOK
  RotationIsSeen
  EachItsOwn
  NothingLostBetweenAwaits
  FoundAsWritten
PROPERTIES
  OnlyAsGranted
CHECK_DEADLOCK FALSE
