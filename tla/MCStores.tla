------------------------------ MODULE MCStores ------------------------------
(***************************************************************************)
(* What a host keeps, reads and lets through for its programs, on small    *)
(* instances: credentials and grants, rows, files and sockets, imports,    *)
(* cron fields and the facts drawn from traits.  These parts share no      *)
(* state with one another, so a behaviour runs one of them and one run     *)
(* checks them all.                                                        *)
(***************************************************************************)
EXTENDS Integers, Sequences, FiniteSets, TLC

\* The sizes of the parts the theorems of MCStoresProofs are about.
CONSTANTS
  None,                                       \* nothing, nobody
  Credentials, Changes, MaxRows, MaxCrashes,  \* of `store`
  Works, Tenants, Host, Env, Seeded, ColdStores, FirstScopes, MaxAsks, MaxBoots, \* of `scope`
  Instances, Callbacks, Life, Grace, MaxTime, MaxGrantCrashes, \* of `grants`
  AccessTokens, RefreshTokens, TokenLife, MaxMockTime, \* of `mock`
  SecretOps, MaxValues,                       \* of `secrets`
  ChromeOps, MaxKeys, MaxRestarts,            \* of `chrome`
  TreeNames, Depth, MaxLinks, TreeGrants, FirstEntries, MaxOps, \* of `tree`
  Fds, Transfers, Writes, MaxSize, MaxMoves,  \* of `files`
  Connects, Receivers, Hosts, GrantedHosts, Addresses, PublicAddresses, LiteralHosts,
  MaxDatagrams,                               \* of `net`
  Prompts, MaxBases                           \* of `device`

ASSUME StoresAssumption ==
  /\ IsFiniteSet(Credentials) /\ IsFiniteSet(Changes)
  /\ MaxRows \in Nat /\ Cardinality(Credentials) <= MaxRows
  /\ FirstScopes \subseteq [Works -> Tenants \cup {None}]
  /\ Host \notin Tenants /\ {None, Env, Seeded} \cap (Tenants \cup {Host}) = {}
  /\ None \notin {Env, Seeded} /\ Env # Seeded
  /\ IsFiniteSet(Callbacks) /\ Life \in Nat /\ Grace \in Nat /\ MaxTime \in Nat
  /\ MaxValues \in Nat \ {0} /\ MaxKeys \in Nat /\ MaxSize \in Nat /\ MaxBases \in Nat
  /\ Depth \in Nat /\ MaxLinks \in Nat
  /\ \A p \in DOMAIN FirstEntries : FirstEntries[p] \in {"dir", "file"}

VARIABLES
  scene,   \* the part that runs
  credRows, credCache, credWarmed, credOps, credWrites, credCrashes,
  scopeInstalled, scopeStoreOnly, scopeScope, scopeEnv, scopeBoot, scopeOnTurn,
  scopeAsks, scopeValues, scopeWarmed, scopeSeen,
  grantShared, grantConditional, grantNow, grantRow, grantMinted, grantGrantEnd,
  grantFlow, grantBack, grantAnswer, grantCrashes,
  mockTokens, mockRefreshes, mockSubjects, mockUsed, mockRevoked, mockNow,
  secretRows, secretOldKey, secretCached, secretMinted, secretAlive, secretMade,
  secretKind, secretAt, secretCarried, secretFloor, secretAnswer, secretRotated,
  secretOrderly,
  chromeMasterKey, chromeMinted, chromeOpening, chromeKeys, chromeRows, chromeQueue,
  chromeAt, chromeHeld, chromeBefore, chromeRestarts,
  treeTree, treeMoved, treeTemp, treeOps,
  fileSize, fileFds, fileAsks, fileMoves,
  netAt, netLeft, netName, netContacted, netOpened, netSocks, netInbox, netCame,
  netRecv, netWake, netLate, netFailure,
  importImport, importRegistries, importUnreadable, importFsKey, importUrlKey,
  deviceAt, deviceAborted, deviceUsing, deviceBase, deviceBases, deviceSessions,
  factEffect, factGuard, factKind, factLayers, factBrowserStored, factRunning,
  factReached,
  cronWritten, cronExpanded, cronTodo, cronNext, cronClock, cronLooked, cronFired,
  graphImports, graphWanted, graphGraphOp, graphFrontier, graphOrbs, graphBatch,
  graphLoads, graphGraphEnd

\* The tree has a directory a that holds b; of the paths, a/a and b/a may be
\* written and made, and b/b only removed or read.
SmallEntries == <<"a">> :> "dir" @@ <<"a", "b">> :> "file"
SmallGrants ==
  LET below == {<<"a", "a">>, <<"b", "a">>, <<"b">>}
      most == below \cup {<<"a">>, <<"b", "b">>}
  IN [write |-> below, create |-> below, remove |-> most, read |-> most]

\* The works' tenants, up to the names of the tenants.
SmallScopes == {"w1" :> a @@ "w2" :> b : a \in {None, "t1"}, b \in {None, "t2"}}

Part(form, from, to, by) == [form |-> form, from |-> from, to |-> to, by |-> by]
Every == Part("all", 0, 0, 1)
CronParts ==
  {Every, Part("step", -1, 0, 2), Part("step", 1, 0, 3), Part("range", 1, 5, 1),
   Part("range", 1, 2, 1), Part("one", 0, 0, 1), Part("one", 4, 0, 1)}
CronMinutes == {<<p>> : p \in CronParts} \cup {<<p, Part("one", 3, 0, 1)>> : p \in CronParts}
CronHours == {<<Every>>, <<Part("one", 1, 0, 1)>>}

\* Effects two deep, around a call of each site.
CallOf(op) == [op |-> op, on |-> "asked", args |-> <<>>]
Around(op, on, args) == [op |-> op, on |-> on, args |-> args]
Conditions == {"never", "knob", "asked"}
FlatEffects ==
  LET calls == {CallOf("server"), CallOf("fetch")} IN
       calls
  \cup {Around("when", c, <<e>>) : c \in Conditions, e \in calls}
  \cup {Around("if", c, <<CallOf("lit"), e>>) : c \in Conditions, e \in calls}
  \cup {Around("let", "asked", <<e, CallOf("lit")>>) : e \in calls}
TraitEffects ==
       FlatEffects
  \cup {Around("if", "knob", <<e, CallOf("lit")>>) : e \in FlatEffects}
  \cup {Around("if", "knob", <<CallOf("lit"), e>>) : e \in FlatEffects}
  \cup {Around("fn", "asked", <<CallOf("lit"), e>>) : e \in FlatEffects}

credVars == <<credRows, credCache, credWarmed, credOps, credWrites, credCrashes>>
scopeVars == <<scopeInstalled, scopeStoreOnly, scopeScope, scopeEnv, scopeBoot,
               scopeOnTurn, scopeAsks, scopeValues, scopeWarmed, scopeSeen>>
grantVars == <<grantShared, grantConditional, grantNow, grantRow, grantMinted,
               grantGrantEnd, grantFlow, grantBack, grantAnswer, grantCrashes>>
mockVars == <<mockTokens, mockRefreshes, mockSubjects, mockUsed, mockRevoked, mockNow>>
secretVars == <<secretRows, secretOldKey, secretCached, secretMinted, secretAlive,
                secretMade, secretKind, secretAt, secretCarried, secretFloor,
                secretAnswer, secretRotated, secretOrderly>>
chromeVars == <<chromeMasterKey, chromeMinted, chromeOpening, chromeKeys, chromeRows,
                chromeQueue, chromeAt, chromeHeld, chromeBefore, chromeRestarts>>
treeVars == <<treeTree, treeMoved, treeTemp, treeOps>>
fileVars == <<fileSize, fileFds, fileAsks, fileMoves>>
netVars == <<netAt, netLeft, netName, netContacted, netOpened, netSocks, netInbox,
             netCame, netRecv, netWake, netLate, netFailure>>
importVars == <<importImport, importRegistries, importUnreadable, importFsKey,
                importUrlKey>>
deviceVars == <<deviceAt, deviceAborted, deviceUsing, deviceBase, deviceBases,
                deviceSessions>>
factVars == <<factEffect, factGuard, factKind, factLayers, factBrowserStored,
              factRunning, factReached>>
cronVars == <<cronWritten, cronExpanded, cronTodo, cronNext, cronClock, cronLooked,
              cronFired>>
graphVars == <<graphImports, graphWanted, graphGraphOp, graphFrontier, graphOrbs,
               graphBatch, graphLoads, graphGraphEnd>>

Creds == INSTANCE CredentialStore WITH
  Name <- Credentials, Op <- Changes,
  rows <- credRows, cache <- credCache, warmed <- credWarmed, ops <- credOps,
  writes <- credWrites, crashes <- credCrashes
Scope == INSTANCE CredentialScope WITH
  Work <- Works, Tenant <- Tenants, Cold <- ColdStores, ServesMeanwhile <- FALSE,
  installed <- scopeInstalled, storeOnly <- scopeStoreOnly, scope <- scopeScope,
  env <- scopeEnv, boot <- scopeBoot, onTurn <- scopeOnTurn, asks <- scopeAsks,
  values <- scopeValues, warmed <- scopeWarmed, seen <- scopeSeen
Oauth == INSTANCE OAuthPort WITH
  Instance <- Instances, Callback <- Callbacks, MaxCrashes <- MaxGrantCrashes,
  Access <- AccessTokens, Refresh <- RefreshTokens,
  shared <- grantShared, conditional <- grantConditional, now <- grantNow,
  row <- grantRow, minted <- grantMinted, grantEnd <- grantGrantEnd, flow <- grantFlow,
  back <- grantBack, answer <- grantAnswer, crashes <- grantCrashes,
  tokens <- mockTokens, refreshes <- mockRefreshes, subjects <- mockSubjects,
  used <- mockUsed, revoked <- mockRevoked, mockNow <- mockNow
Secret == INSTANCE Secrets WITH
  Op <- SecretOps, MintsMeanwhile <- FALSE,
  Kinds <- {"get", "set", "take", "rotate", "persist", "forget", "warm", "reseal"},
  rows <- secretRows, oldKey <- secretOldKey, cached <- secretCached,
  minted <- secretMinted, alive <- secretAlive, made <- secretMade,
  kind <- secretKind, at <- secretAt, carried <- secretCarried,
  floor <- secretFloor, answer <- secretAnswer, rotated <- secretRotated,
  orderly <- secretOrderly
Chrome == INSTANCE ChromeRows WITH
  Context <- {"worker"}, Op <- ChromeOps,
  masterKey <- chromeMasterKey, minted <- chromeMinted, opening <- chromeOpening,
  keys <- chromeKeys, rows <- chromeRows, queue <- chromeQueue, at <- chromeAt,
  held <- chromeHeld, before <- chromeBefore, restarts <- chromeRestarts
Files == INSTANCE OsNodeFs WITH
  Name <- TreeNames, Grants <- TreeGrants, Given <- FirstEntries,
  Fd <- Fds, Ask <- Transfers, Shared <- FALSE,
  tree <- treeTree, moved <- treeMoved, temp <- treeTemp, ops <- treeOps,
  size <- fileSize, fds <- fileFds, asks <- fileAsks, moves <- fileMoves
Net == INSTANCE OsNet WITH
  Ask <- Connects, Receiver <- Receivers, Name <- Hosts, Granted <- GrantedHosts,
  Address <- Addresses, Public <- PublicAddresses, Literal <- LiteralHosts,
  at <- netAt, left <- netLeft, name <- netName, contacted <- netContacted,
  opened <- netOpened, socks <- netSocks, inbox <- netInbox, came <- netCame,
  recv <- netRecv, wake <- netWake, late <- netLate, failure <- netFailure
Imports == INSTANCE ImportPaths WITH
  Base <- <<"base">>, Alike <- {"base2"}, Dir <- {"a", "base2"}, File <- {"f", "g"}, Package <- {"std", "pkg"},
  MaxSteps <- 3, AbsoluteBase <- TRUE,
  import <- importImport, registries <- importRegistries, unreadable <- importUnreadable,
  fsKey <- importFsKey, urlKey <- importUrlKey
Device == INSTANCE OnDevice WITH
  Call <- Prompts,
  at <- deviceAt, aborted <- deviceAborted, using <- deviceUsing, base <- deviceBase,
  bases <- deviceBases, sessions <- deviceSessions
Facts == INSTANCE TraitFacts WITH
  Effects <- TraitEffects, MaxNesting <- 2,
  effect <- factEffect, guard <- factGuard, kind <- factKind, layers <- factLayers,
  browserStored <- factBrowserStored, running <- factRunning, reached <- factReached
Clock == INSTANCE Cron WITH
  MinuteFields <- CronMinutes, HourFields <- CronHours, Minutes <- 5, Hours <- 1,
  written <- cronWritten, expanded <- cronExpanded, todo <- cronTodo, next <- cronNext,
  clock <- cronClock, looked <- cronLooked, fired <- cronFired
Graph == INSTANCE BehaviorGraph WITH
  Name <- {"a", "b", "c"}, Packages <- <<"std", "io">>,
  Holds <- [std |-> {"a"}, io |-> {"a", "b"}],
  imports <- graphImports, wanted <- graphWanted, graphOp <- graphGraphOp,
  frontier <- graphFrontier, orbs <- graphOrbs, batch <- graphBatch, loads <- graphLoads,
  graphEnd <- graphGraphEnd

\* Where a part rests that has several initial states.
FreshRows ==
  [i \in 1..MaxRows |-> IF i \in DOMAIN Creds!RowOf
                  THEN [name |-> Creds!RowOf[i], value |-> i, key |-> "current", stamp |-> "current"]
                  ELSE Creds!NoRow]
NoLayers == [declared |-> "unset", override |-> "unset", callSite |-> "unset"]
StdImport == [form |-> "std", path |-> <<"f">>, from |-> <<>>]

(* One part runs in a behaviour; the others rest, each in one of its       *)
(* initial states.                                                         *)
Init ==
  /\ scene \in {"store", "scope", "grants", "mock", "secrets", "chrome", "tree",
                "files", "net", "imports", "device", "facts", "cron", "graph"}
  /\ scene # "store" => credRows = FreshRows
  /\ Creds!Init
  /\ scene # "scope" => scopeEnv = {} /\ scopeInstalled = None /\ scopeStoreOnly = TRUE
                        /\ scopeScope = [w \in Works |-> None] /\ scopeWarmed = Tenants \cup {Host}
  /\ scopeScope \in FirstScopes
  /\ Scope!Init
  /\ scene # "grants" => grantShared = TRUE /\ grantConditional = TRUE
  /\ Oauth!GrantInit
  /\ Oauth!MockInit
  /\ scene # "secrets" => secretOldKey = {}
  /\ Secret!Init
  /\ Chrome!Init
  /\ Files!TreeInit
  /\ scene # "files" => fileSize = 0
  /\ Files!FileInit
  /\ Net!Init
  /\ scene # "imports" => importImport = StdImport /\ importUnreadable = {}
                          /\ importRegistries = [r \in 1..2 |-> {}]
  /\ Imports!Init
  /\ Device!Init
  /\ scene # "facts" => factEffect = CallOf("server") /\ factGuard = "none" /\ factKind = "tick"
                        /\ factLayers = NoLayers /\ factBrowserStored = TRUE
  /\ Facts!Init
  /\ scene # "cron" => cronWritten = <<<<Every>>, <<Every>>>>
  /\ Clock!Init
  /\ scene # "graph" => graphGraphOp = "compose" /\ graphWanted = {}
                        /\ graphImports = [s \in Graph!Spot |-> {}]
  /\ Graph!Init

Rest(s) ==
  /\ UNCHANGED scene
  /\ s # "store" => UNCHANGED credVars
  /\ s # "scope" => UNCHANGED scopeVars
  /\ s # "grants" => UNCHANGED grantVars
  /\ s # "mock" => UNCHANGED mockVars
  /\ s # "secrets" => UNCHANGED secretVars
  /\ s # "chrome" => UNCHANGED chromeVars
  /\ s # "tree" => UNCHANGED treeVars
  /\ s # "files" => UNCHANGED fileVars
  /\ s # "net" => UNCHANGED netVars
  /\ s # "imports" => UNCHANGED importVars
  /\ s # "device" => UNCHANGED deviceVars
  /\ s # "facts" => UNCHANGED factVars
  /\ s # "cron" => UNCHANGED cronVars
  /\ s # "graph" => UNCHANGED graphVars

Next ==
  \/ scene = "store" /\ Creds!Next /\ Rest("store")
  \/ scene = "scope" /\ Scope!Next /\ Rest("scope")
  \/ scene = "grants" /\ Oauth!GrantNext /\ Rest("grants")
  \/ scene = "mock" /\ Oauth!MockNext /\ Rest("mock")
  \/ scene = "secrets" /\ Secret!Next /\ Rest("secrets")
  \/ scene = "chrome" /\ Chrome!Next /\ Rest("chrome")
  \/ scene = "tree" /\ Files!TreeNext /\ Rest("tree")
  \/ scene = "files" /\ Files!FileNext /\ Rest("files")
  \/ scene = "net" /\ Net!Next /\ Rest("net")
  \/ scene = "imports" /\ Imports!Next /\ Rest("imports")
  \/ scene = "device" /\ Device!Next /\ Rest("device")
  \/ scene = "facts" /\ Facts!Next /\ Rest("facts")
  \/ scene = "cron" /\ Clock!Next /\ Rest("cron")
  \/ scene = "graph" /\ Graph!Next /\ Rest("graph")

vars == <<scene, credVars, scopeVars, grantVars, mockVars, secretVars, chromeVars, treeVars,
          fileVars, netVars, importVars, deviceVars, factVars, cronVars, graphVars>>

Spec == Init /\ [][Next]_vars
-----------------------------------------------------------------------------
(* The state has its types. *)
TypeOK ==
  /\ scene = "store" => Creds!TypeOK
  /\ scene \in {"grants", "mock"} => Oauth!TypeOK
  /\ scene = "secrets" => Secret!TypeOK
  /\ scene = "chrome" => Chrome!TypeOK
  /\ scene \in {"tree", "files"} => Files!TypeOK
  /\ scene = "net" => Net!TypeOK
  /\ scene = "imports" => Imports!TypeOK
  /\ scene = "device" => Device!TypeOK

(* A rotation is over when it says so: no credential is left sealed with   *)
(* the old master key, whichever entries were written or removed while it  *)
(* ran and however it was retried; and whoever asks for a secret after its *)
(* rotation is not given an older value, from the store or from memory, as *)
(* long as the calls of the store itself do not overlap.                   *)
RotationIsSeen ==
  /\ scene = "store" => Creds!RotationLeavesNoOldKey
  /\ scene = "secrets" => Secret!RotationIsSeen

(* What is given out once is given out once and to its own: the credential *)
(* of one tenant to its own work, across awaits; the grant of one          *)
(* authorization to one callback of one instance, where the delete of a    *)
(* shared row tells whether it landed; one live access token to a refresh  *)
(* token of the mock server; a socket to what its name was granted for.    *)
EachItsOwn ==
  /\ scene = "scope" => Scope!CredentialsAreOnesOwn
  /\ scene = "grants" => Oauth!GrantTakenOnce
  /\ scene = "mock" => Oauth!OneTokenPerGrant
  /\ scene = "net" => Net!OnlyGrantedSockets

(* Nothing is lost between two awaits: a change of the extension's rows    *)
(* that lists rows read before it, a base session of the on-device model   *)
(* that was given up, a byte of a transfer that takes several calls of the *)
(* operating system.                                                       *)
NothingLostBetweenAwaits ==
  /\ scene = "chrome" => Chrome!NoChangeLost
  /\ scene = "device" => Device!NothingStaleOfTheModel
  /\ scene = "files" => Files!TransfersAreConsecutive

(* What is written is what is found: a glob finds every entry its pattern  *)
(* names, an import names the same file on a disk and behind a URL, the    *)
(* graph of behaviors has every import of what it has, the trait index     *)
(* told of every effect that is reached, and a cron tick fires in the      *)
(* minutes its fields name.                                                *)
FoundAsWritten ==
  /\ scene = "tree" => Files!GlobFindsAll
  /\ scene = "imports" => Imports!ImportNamesOneFile
  /\ scene = "graph" => Graph!GraphIsWhole
  /\ scene = "facts" => Facts!ReachedWasTold
  /\ scene = "cron" => Clock!FiresAsWritten

(* No step does what was not granted or keeps silent what must be told:    *)
(* an entry of the tree changes under a grant for it as it is written and  *)
(* as it resolves, a temporary file under one for its directory; a         *)
(* datagram that came is not missed by a read that waits; a row whose key  *)
(* nobody has is not sealed anew; a grant that expired is told so, and     *)
(* nobody is sent to consent to one not kept; and a boot of a warmed store *)
(* writes over no credential the store holds.                              *)
OnlyAsGranted ==
  /\ Files!EntriesChangeAsGranted
  /\ Net!NobodyMissesWhatCame
  /\ Creds!NoRowSealedAway
  /\ Oauth!ExpiryIsTold
  /\ Oauth!KeptBeforeConsent
  /\ Scope!SeedsWhatIsLacking
=============================================================================
