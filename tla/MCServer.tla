------------------------------ MODULE MCServer ------------------------------
(***************************************************************************)
(* The parts of the server runtime around its event queue, on small        *)
(* instances.  They share no state with one another, so a behaviour runs   *)
(* one of them and one run checks them all.                                *)
(***************************************************************************)
EXTENDS Naturals, Sequences, FiniteSets

\* The sizes of the parts the theorems of MCServerProofs are about.
CONSTANTS
  None,                                       \* nothing, nobody
  Apps, Traits, Orbitals,                     \* of more than one part
  Listeners, MaxDepth, MaxSets, MaxSubscriptions, MaxEmits,  \* of `bus`
  Names, HomeOf, MaxRenames,                  \* of `routing`
  MaxSends,                                   \* of `residence`
  MaxEvents, MaxConnects,                     \* of `bridge`
  Viewers, FirstViewer, Entities, IdentityEntity, WrittenEntities, NoViewer, \* of `persona`
  Tabs, Elements, Calls, NoTab, MaxLoads, MaxRestarts, MaxWatches, \* of `page`
  Ticks, BadTicks, InboundApps, Requests, MaxMutations, \* of `router`
  OrbitalNames, HasOrbitals, Readers, MaxSwaps, \* of `reads`
  Engines, FirstEngine, Dispatches, MaxKernels, \* of `kernel`
  Asks, Rows,                                 \* of `rows`
  Views, MaxPosts,                            \* of `http`
  Pages, DeclaredPages, ShownOrbital, Locales, Versions \* of `file`

ASSUME ServerAssumption ==
  /\ MaxSets \in Nat /\ MaxSubscriptions \in Nat /\ MaxEmits \in Nat /\ MaxSends \in Nat
  /\ MaxEvents \in Nat /\ MaxConnects \in Nat
  /\ MaxKernels \in Nat \ {0} /\ FirstEngine \in Engines
  /\ None \notin Apps /\ MaxSwaps \in Nat /\ HasOrbitals \in [Apps -> SUBSET OrbitalNames]
  /\ Viewers \cap {"absent", "declared"} = {} /\ NoViewer \notin {"absent", "declared"}
  /\ FirstViewer \in Viewers
  /\ Versions \in Nat \ {0} /\ DeclaredPages \in [1..Versions -> Seq(Pages)]
  /\ MaxMutations \in Nat /\ Requests \cap Ticks = {}

VARIABLES
  scene,   \* the part that runs
  busTable, busMembers, busMade, busCalls, busHandles, busLive, busStack, busEmits,
  routeTraitName, routeOrbitalName, routeListen, routeEmitted, routeRenames,
  legNeed, legRemote, legRequest, legLegs, legRan, legTwice, legReplies, legVerdict,
  legSends,
  bridgePattern, bridgeTarget, bridgeConnected, bridgeSubscribed, bridgeClass,
  bridgeFlights, bridgeReached, bridgeCounted, bridgeConnects,
  personaUser, personaNamed, personaOwnerId, personaPending, personaResolved,
  personaOrbitals, personaOwner, personaKernelRows, personaPhase, personaTodo,
  pageLive, pageAttached, pageShown, pageReported, pageTold, pageFailed, pageInbox,
  pageOutbox, pageWatching, pageLoop, pageGaveUp, pageWaits, pageLoads, pageRestarts,
  pageWatches,
  routerRegistered, routerResolved, routerKernel, routerPhase, routerHandles,
  routerBindings, routerQueue, routerAt, routerEmits, routerBus, routerFrames,
  routerMutations,
  readOrbitals, readStore, readResolved, readKernel, readSwap, readSwaps, readWhole,
  readAt, readSeen, readTold,
  kernelHandle, kernelMade, kernelKnows, kernelKept, kernelFlights, kernelRuns,
  rowHas, rowDeclared, rowRowAsks, rowPresent, rowFields, rowDue, rowRowAnswers,
  httpBehavior, httpAsked, httpPosts, httpPosted, httpServed, httpTold, httpReached,
  fileDisk, fileWriting, fileNewest, fileReading, fileProgram, fileLazy, fileCatalogs,
  fileRunning

\* Both orbitals of an app listen; the first has two traits.
SmallHomes == [t1 |-> "o1", t2 |-> "o1", t3 |-> "o2"]

\* Both apps declare a tick of the same name, the second one more.
SmallTicks == {<<"a1", "t">>, <<"a2", "t">>, <<"a2", "u">>}
SmallBadTicks == {<<"a2", "u">>}

\* Both apps have an orbital of the same name, the second one more.
SmallOrbitals == [a1 |-> {"n"}, a2 |-> {"n", "m"}]

\* A version adds a lazy page, the next moves one and drops the other.
SmallPages == <<<<"p">>, <<"p", "q">>, <<"q">>>>
SmallShown == <<[p |-> "A", q |-> "B"], [p |-> "A", q |-> "B"], [p |-> "A", q |-> "C"]>>

busVars == <<busTable, busMembers, busMade, busCalls, busHandles, busLive, busStack,
             busEmits>>
routeVars == <<routeTraitName, routeOrbitalName, routeListen, routeEmitted, routeRenames>>
legVars == <<legNeed, legRemote, legRequest, legLegs, legRan, legTwice, legReplies,
             legVerdict, legSends>>
bridgeVars == <<bridgePattern, bridgeTarget, bridgeConnected, bridgeSubscribed,
                bridgeClass, bridgeFlights, bridgeReached, bridgeCounted, bridgeConnects>>
personaVars == <<personaUser, personaNamed, personaOwnerId, personaPending,
                 personaResolved, personaOrbitals, personaOwner, personaKernelRows,
                 personaPhase, personaTodo>>
pageVars == <<pageLive, pageAttached, pageShown, pageReported, pageTold, pageFailed,
              pageInbox, pageOutbox, pageWatching, pageLoop, pageGaveUp, pageWaits,
              pageLoads, pageRestarts, pageWatches>>
routerVars == <<routerRegistered, routerResolved, routerKernel, routerPhase,
                routerHandles, routerBindings, routerQueue, routerAt, routerEmits,
                routerBus, routerFrames, routerMutations>>
readVars == <<readOrbitals, readStore, readResolved, readKernel, readSwap, readSwaps,
              readWhole, readAt, readSeen, readTold>>
kernelVars == <<kernelHandle, kernelMade, kernelKnows, kernelKept, kernelFlights,
                kernelRuns>>
rowVars == <<rowHas, rowDeclared, rowRowAsks, rowPresent, rowFields, rowDue,
             rowRowAnswers>>
httpVars == <<httpBehavior, httpAsked, httpPosts, httpPosted, httpServed, httpTold,
              httpReached>>
fileVars == <<fileDisk, fileWriting, fileNewest, fileReading, fileProgram, fileLazy,
              fileCatalogs, fileRunning>>

Events == INSTANCE EventBus WITH
  Listener <- Listeners, MaxDepth <- MaxDepth, MaxSets <- MaxSets,
  MaxCalls <- MaxSubscriptions, MaxEmits <- MaxEmits, StaleHandles <- FALSE,
  Trait <- Traits, Orbital <- Orbitals, Name <- Names, Home <- HomeOf,
  MaxRenames <- MaxRenames,
  table <- busTable, members <- busMembers, made <- busMade, calls <- busCalls,
  handles <- busHandles, live <- busLive, stack <- busStack, emits <- busEmits,
  traitName <- routeTraitName, orbitalName <- routeOrbitalName, listen <- routeListen,
  emitted <- routeEmitted, renames <- routeRenames
Legs == INSTANCE Residence WITH
  Trait <- Traits, MaxSends <- MaxSends,
  need <- legNeed, remote <- legRemote, request <- legRequest, legs <- legLegs,
  ran <- legRan, twice <- legTwice, replies <- legReplies, verdict <- legVerdict,
  sends <- legSends
Bridge == INSTANCE ServerBridge WITH
  Orbital <- Orbitals, MaxEvents <- MaxEvents, MaxConnects <- MaxConnects,
  pattern <- bridgePattern, target <- bridgeTarget, connected <- bridgeConnected,
  subscribed <- bridgeSubscribed, class <- bridgeClass, flights <- bridgeFlights,
  reached <- bridgeReached, counted <- bridgeCounted, connects <- bridgeConnects
Register == INSTANCE ProgramRegistration WITH
  Viewer <- Viewers, Default <- FirstViewer, Entity <- Entities,
  Identity <- IdentityEntity, Written <- WrittenEntities, Nobody <- NoViewer,
  user <- personaUser, named <- personaNamed, ownerId <- personaOwnerId,
  pending <- personaPending, resolved <- personaResolved, orbitals <- personaOrbitals,
  owner <- personaOwner, kernelRows <- personaKernelRows, phase <- personaPhase,
  todo <- personaTodo,
  Page <- Pages, Declares <- DeclaredPages, Orbital <- ShownOrbital,
  Locale <- Locales, Versions <- Versions,
  disk <- fileDisk, writing <- fileWriting, newest <- fileNewest, reading <- fileReading,
  program <- fileProgram, lazy <- fileLazy, catalogs <- fileCatalogs,
  running <- fileRunning
Watched == INSTANCE PageWatch WITH
  Tab <- Tabs, Element <- Elements, Call <- Calls, NoTab <- NoTab, MaxLoads <- MaxLoads,
  MaxRestarts <- MaxRestarts, MaxWatches <- MaxWatches, Overlap <- FALSE,
  live <- pageLive, attached <- pageAttached, shown <- pageShown,
  reported <- pageReported, told <- pageTold, failed <- pageFailed, inbox <- pageInbox,
  outbox <- pageOutbox, watching <- pageWatching, loop <- pageLoop,
  gaveUp <- pageGaveUp, waits <- pageWaits, loads <- pageLoads,
  restarts <- pageRestarts, watches <- pageWatches
Router == INSTANCE ServerRouter WITH
  App <- Apps, Tick <- Ticks, Unparsable <- BadTicks, Inbound <- InboundApps,
  Request <- Requests, MaxMutations <- MaxMutations,
  registered <- routerRegistered, resolved <- routerResolved, kernel <- routerKernel,
  phase <- routerPhase, handles <- routerHandles, bindings <- routerBindings,
  queue <- routerQueue, at <- routerAt, emits <- routerEmits, bus <- routerBus,
  frames <- routerFrames, mutations <- routerMutations
Reads == INSTANCE ServerReads WITH
  App <- Apps, Name <- OrbitalNames, Has <- HasOrbitals, Read <- Readers,
  MaxSwaps <- MaxSwaps,
  orbitals <- readOrbitals, store <- readStore, resolved <- readResolved,
  kernel <- readKernel, swap <- readSwap, swaps <- readSwaps,
  whole <- readWhole, at <- readAt, seen <- readSeen, told <- readTold
Kernels == INSTANCE KernelHost WITH
  Engine <- Engines, First <- FirstEngine, Dispatch <- Dispatches,
  MaxKernels <- MaxKernels, Ask <- Asks, Row <- Rows, Overlap <- FALSE,
  handle <- kernelHandle, made <- kernelMade, knows <- kernelKnows, kept <- kernelKept,
  flights <- kernelFlights, runs <- kernelRuns,
  has <- rowHas, declared <- rowDeclared, rowAsks <- rowRowAsks, present <- rowPresent,
  fields <- rowFields, due <- rowDue, rowAnswers <- rowRowAnswers
Http == INSTANCE HttpTransport WITH
  View <- Views, App <- Apps, MaxPosts <- MaxPosts,
  behavior <- httpBehavior, asked <- httpAsked, posts <- httpPosts, posted <- httpPosted,
  served <- httpServed, told <- httpTold, reached <- httpReached

\* Names are alike: which one a node has at first makes no difference.
FirstNames(nodes) ==
  CHOOSE f \in [nodes -> Names] : \A m, n \in nodes : m # n => f[m] # f[n]

(* One part runs in a behaviour; the others rest, each in one of its       *)
(* initial states.                                                         *)
Init ==
  /\ scene \in {"bus", "routing", "residence", "bridge", "persona", "page", "router",
                "reads", "kernel", "rows", "http", "file"}
  /\ Events!BusInit
  /\ routeTraitName = FirstNames(Traits) /\ routeOrbitalName = FirstNames(Orbitals)
  /\ Events!RouteInit
  /\ scene # "residence" => legRemote = TRUE /\ legNeed = [t \in Traits |-> {}]
  /\ Legs!Init
  /\ scene # "bridge" => bridgePattern = "*" /\ bridgeTarget = "broadcast"
  /\ Bridge!Init
  /\ scene # "persona" => personaNamed = FALSE
  /\ Register!SeedInit
  /\ Watched!Init
  /\ Router!Init
  /\ Reads!Init
  /\ Kernels!EngineInit
  /\ scene # "rows" => rowHas = {}
  /\ Kernels!RowInit
  /\ Http!Init
  /\ Register!ReadInit

Rest(s) ==
  /\ UNCHANGED scene
  /\ s # "bus" => UNCHANGED busVars
  /\ s # "routing" => UNCHANGED routeVars
  /\ s # "residence" => UNCHANGED legVars
  /\ s # "bridge" => UNCHANGED bridgeVars
  /\ s # "persona" => UNCHANGED personaVars
  /\ s # "page" => UNCHANGED pageVars
  /\ s # "router" => UNCHANGED routerVars
  /\ s # "reads" => UNCHANGED readVars
  /\ s # "kernel" => UNCHANGED kernelVars
  /\ s # "rows" => UNCHANGED rowVars
  /\ s # "http" => UNCHANGED httpVars
  /\ s # "file" => UNCHANGED fileVars

Next ==
  \/ scene = "bus" /\ Events!BusNext /\ Rest("bus")
  \/ scene = "routing" /\ Events!RouteNext /\ Rest("routing")
  \/ scene = "residence" /\ Legs!Next /\ Rest("residence")
  \/ scene = "bridge" /\ Bridge!Next /\ Rest("bridge")
  \/ scene = "persona" /\ Register!SeedNext /\ Rest("persona")
  \/ scene = "page" /\ Watched!Next /\ Rest("page")
  \/ scene = "router" /\ Router!Next /\ Rest("router")
  \/ scene = "reads" /\ Reads!Next /\ Rest("reads")
  \/ scene = "kernel" /\ Kernels!EngineNext /\ Rest("kernel")
  \/ scene = "rows" /\ Kernels!RowNext /\ Rest("rows")
  \/ scene = "http" /\ Http!Next /\ Rest("http")
  \/ scene = "file" /\ Register!ReadNext /\ Rest("file")

vars == <<scene, busVars, routeVars, legVars, bridgeVars, personaVars, pageVars, routerVars,
          readVars, kernelVars, rowVars, httpVars, fileVars>>

Spec == Init /\ [][Next]_vars
-----------------------------------------------------------------------------
(* The state has its types. *)
TypeOK ==
  /\ scene = "bus" => Events!TypeOK
  /\ scene = "residence" => Legs!TypeOK
  /\ scene = "bridge" => Bridge!TypeOK
  /\ scene = "persona" => Register!TypeOK
  /\ scene = "page" => Watched!TypeOK
  /\ scene = "router" => Router!TypeOK
  /\ scene = "reads" => Reads!TypeOK
  /\ scene = "kernel" => Kernels!TypeOK

(* Whoever listens is told, and once: a listener of the event bus under    *)
(* each of its keys although others subscribe, unsubscribe and clear in    *)
(* the middle of an emit; every server orbital of an event the bridge      *)
(* forwards, however often it connects; and a tab's reports of a watched   *)
(* element, across documents, restarts and tabs opened meanwhile, until a  *)
(* page that cannot watch ends the loop over the tabs.                     *)
EveryoneIsToldOnce ==
  /\ scene = "bus" => Events!EverySubscriberHears /\ Events!OnceUnderBothKeys
  /\ scene = "bridge" => Bridge!ForwardedOnceToAll
  /\ scene = "page" => Watched!ReportedOnce /\ Watched!PagesFollowTheWatch

(* An event arrives where it was addressed to, and only there: at the      *)
(* trait a listener named before anything was renamed, at the residence    *)
(* that has the data its seeds touch, and at the app its view registered.  *)
ArrivesWhereItBelongs ==
  /\ scene = "routing" => Events!RenameProof
  /\ scene = "residence" => Legs!EachSeedAtItsData
  /\ scene = "http" => Http!ReachesItsOwnApp

(* Rows keep their owner and their fields: what is seeded belongs to the   *)
(* viewer the host or the app names in the end, and no write of a kernel's *)
(* ask is undone by the way the adapter stores it.                         *)
RowsAreKept ==
  /\ scene = "persona" => Register!ViewerOwnsTheRows
  /\ scene = "rows" => Kernels!NoWriteLost

(* The turns are whole: a tick runs once however often its app is replaced,*)
(* a stream is told its own turn's emits and no other's, a description,    *)
(* the rows of an entity and a page are of one app although it is swapped  *)
(* between the reader's awaits, and so is a roster after a swap that ended *)
(* well, a kernel that is opened again knows what its predecessor was      *)
(* told, and the flights of a kernel end with their dispatches.            *)
TurnsAreWhole ==
  /\ scene = "router" => Router!TicksRunOnce /\ Router!StreamsTellTheirTurn
  /\ scene = "reads" => Reads!AnswersOfOneApp /\ Reads!NotFoundMeansGone
  /\ scene = "kernel" => Kernels!ResetForgetsNothing /\ Kernels!FlightsEnd

(* A program read while its resolver writes it shows no page whose         *)
(* behavior does not have it.                                              *)
LazyPagesWork == scene = "file" => Register!LazyPagesWork
=============================================================================
