------------------------------- MODULE MCCalls -------------------------------
(***************************************************************************)
(* Calls that somebody waits for, on small instances: frames and requests  *)
(* over channels that break, mounts and relays of the server, keyed calls  *)
(* that are cancelled, exchanges that are aborted, the program host, a     *)
(* child process and loads.  These parts share no state with one another,  *)
(* so a behaviour runs one of them and one run checks them all.            *)
(***************************************************************************)
EXTENDS Naturals, Sequences, FiniteSets, TLC

\* The sizes of the parts the theorems of MCCallsProofs are about.
CONSTANTS
  Calls, Keys, NoKey, MaxCancels, \* of `flights`
  MaxRequests,                    \* of `channel`
  MaxAsks, MaxChunks, MaxEvents,  \* of `http`
  Subscribers, MaxChannels, MaxFrames, MaxFaults,                \* of `push`
  Clients, Traits, MaxSessions, MaxSwaps,                        \* of `session`
  Effects, Workspaces, Project, NoVersion, Earlier, MaxCrashes,  \* of `program`
  ChildAsks, AskKeys, InPlace, MaxBytes, HighWater,              \* of `os`
  Loads, Imports, OverHttp, MaxEdits, MaxClears                  \* of `loader`

\* The project's own directory is no workspace.
ASSUME ProjectAssumption == Project \notin Workspaces

VARIABLES
  scene,   \* the part that runs
  pushKey, pushPhase, pushSubs, pushTransit, pushLast, pushBoot, pushSent, pushHeard,
  pushFaults,
  chanNext, chanPending, chanClosed, chanAsked, chanOutcome, chanUp, chanDown, chanHost,
  chanHeld, chanWorking,
  sessionMountedBy, sessionKernel, sessionTold, sessionReceived, sessionQueue,
  sessionGone, sessionWaiting, sessionTimer, sessionRan, sessionRequests, sessionSwaps,
  callCallState, callKeyOf, callTable, callInSet, callAborted, callResult, callOutcome,
  callSets, callCancels,
  httpAt, httpAsk, httpAnswer, httpDriver, httpAborted, httpTimer, httpLeft, httpFrames,
  httpReader, httpAsks, httpSent, httpHeard,
  programValid, programEffects, programTemps, programSaved, programCommits,
  programRequests, programProgram, programHostDir, programRefused, programMounted,
  programCrashes,
  osChild, osTable, osPipe, osShut, osSource, osTurns, osAsks, osOrder, osLive,
  osDelivered, osCancelled, osOpen,
  loadFsLoader, loadLoads, loadUnified, loadInner, loadMirror, loadEdits, loadFloor,
  loadClears

pushVars == <<pushKey, pushPhase, pushSubs, pushTransit, pushLast, pushBoot, pushSent,
              pushHeard, pushFaults>>
chanVars == <<chanNext, chanPending, chanClosed, chanAsked, chanOutcome, chanUp,
              chanDown, chanHost, chanHeld, chanWorking>>
sessionVars == <<sessionMountedBy, sessionKernel, sessionTold, sessionReceived,
                 sessionQueue, sessionGone, sessionWaiting, sessionTimer, sessionRan,
                 sessionRequests, sessionSwaps>>
callVars == <<callCallState, callKeyOf, callTable, callInSet, callAborted, callResult,
              callOutcome, callSets, callCancels>>
httpVars == <<httpAt, httpAsk, httpAnswer, httpDriver, httpAborted, httpTimer, httpLeft,
              httpFrames, httpReader, httpAsks, httpSent, httpHeard>>
programVars == <<programValid, programEffects, programTemps, programSaved,
                 programCommits, programRequests, programProgram, programHostDir,
                 programRefused, programMounted, programCrashes>>
osVars == <<osChild, osTable, osPipe, osShut, osSource, osTurns, osAsks, osOrder,
            osLive, osDelivered, osCancelled, osOpen>>
loadVars == <<loadFsLoader, loadLoads, loadUnified, loadInner, loadMirror, loadEdits,
              loadFloor, loadClears>>

Push == INSTANCE PushChannel WITH
  Subscriber <- Subscribers, MaxChannels <- MaxChannels, MaxFrames <- MaxFrames,
  MaxFaults <- MaxFaults,
  TicketsFail <- TRUE,
  key <- pushKey, phase <- pushPhase, subs <- pushSubs, transit <- pushTransit,
  last <- pushLast, boot <- pushBoot, sent <- pushSent, heard <- pushHeard,
  faults <- pushFaults
Channel == INSTANCE ChannelTransport WITH
  MaxRequests <- MaxRequests,
  next <- chanNext, pending <- chanPending, closed <- chanClosed, asked <- chanAsked,
  outcome <- chanOutcome, up <- chanUp, down <- chanDown, host <- chanHost,
  held <- chanHeld, working <- chanWorking
Session == INSTANCE ServerSession WITH
  Client <- Clients, Trait <- Traits, MaxRequests <- MaxSessions, MaxSwaps <- MaxSwaps,
  LateMounts <- FALSE,
  mountedBy <- sessionMountedBy, kernel <- sessionKernel, told <- sessionTold,
  received <- sessionReceived, queue <- sessionQueue, gone <- sessionGone,
  waiting <- sessionWaiting, timer <- sessionTimer, ran <- sessionRan,
  requests <- sessionRequests, swaps <- sessionSwaps
Flights == INSTANCE InFlightCalls WITH
  Call <- Calls, Key <- Keys, NoKey <- NoKey, MaxCancels <- MaxCancels,
  callState <- callCallState, keyOf <- callKeyOf, table <- callTable, inSet <- callInSet,
  aborted <- callAborted, result <- callResult, outcome <- callOutcome, sets <- callSets,
  cancels <- callCancels
Http == INSTANCE HttpExchange WITH
  MaxAsks <- MaxAsks, MaxChunks <- MaxChunks, MaxEvents <- MaxEvents,
  at <- httpAt, ask <- httpAsk, answer <- httpAnswer, driver <- httpDriver,
  aborted <- httpAborted, timer <- httpTimer, left <- httpLeft, frames <- httpFrames,
  reader <- httpReader, asks <- httpAsks, sent <- httpSent, heard <- httpHeard
Program == INSTANCE ProgramHost WITH
  Effect <- Effects, Workspace <- Workspaces, Project <- Project, Nothing <- NoVersion,
  Earlier <- Earlier, MaxCrashes <- MaxCrashes,
  valid <- programValid, effects <- programEffects, temps <- programTemps,
  saved <- programSaved, commits <- programCommits, requests <- programRequests,
  program <- programProgram, hostDir <- programHostDir, refused <- programRefused,
  mounted <- programMounted, crashes <- programCrashes
Os == INSTANCE OsHost WITH
  Ask <- ChildAsks, Key <- AskKeys, InPlace <- InPlace, MaxBytes <- MaxBytes,
  HighWater <- HighWater, KeyReuse <- FALSE,
  child <- osChild, table <- osTable, pipe <- osPipe, shut <- osShut, source <- osSource,
  turns <- osTurns, asks <- osAsks, order <- osOrder, live <- osLive,
  delivered <- osDelivered, cancelled <- osCancelled, open <- osOpen
Load == INSTANCE Loader WITH
  Load <- Loads, Import <- Imports, OverHttp <- OverHttp, MaxEdits <- MaxEdits,
  MaxClears <- MaxClears,
  fsLoader <- loadFsLoader, loads <- loadLoads, unified <- loadUnified,
  inner <- loadInner, mirror <- loadMirror, edits <- loadEdits, floor <- loadFloor,
  clears <- loadClears

(* One part runs in a behaviour; the others rest, each in one of its       *)
(* initial states.                                                         *)
Init ==
  /\ scene \in {"push", "channel", "session", "flights", "http", "program", "os",
                "loader"}
  /\ Push!Init
  /\ Channel!Init
  /\ Session!Init
  /\ Flights!Init
  /\ Http!Init
  /\ scene # "program" => programValid = {Earlier}
  /\ Program!Init
  /\ Os!Init
  /\ Load!Init

Rest(s) ==
  /\ UNCHANGED scene
  /\ s # "push" => UNCHANGED pushVars
  /\ s # "channel" => UNCHANGED chanVars
  /\ s # "session" => UNCHANGED sessionVars
  /\ s # "flights" => UNCHANGED callVars
  /\ s # "http" => UNCHANGED httpVars
  /\ s # "program" => UNCHANGED programVars
  /\ s # "os" => UNCHANGED osVars
  /\ s # "loader" => UNCHANGED loadVars

Next ==
  \/ scene = "push" /\ Push!Next /\ Rest("push")
  \/ scene = "channel" /\ Channel!Next /\ Rest("channel")
  \/ scene = "session" /\ Session!Next /\ Rest("session")
  \/ scene = "flights" /\ Flights!Next /\ Rest("flights")
  \/ scene = "http" /\ Http!Next /\ Rest("http")
  \/ scene = "program" /\ Program!Next /\ Rest("program")
  \/ scene = "os" /\ Os!Next /\ Rest("os")
  \/ scene = "loader" /\ Load!Next /\ Rest("loader")

vars == <<scene, pushVars, chanVars, sessionVars, callVars, httpVars, programVars, osVars,
          loadVars>>

Spec == Init /\ [][Next]_vars

(* Each part's Fairness, which is asked of the part that runs: an action of *)
(* a part at rest need not happen.                                         *)
Fairness ==
  /\ \A c \in Push!Channel :
       /\ WF_pushVars(scene = "push" /\ Push!Open(c))
       /\ WF_pushVars(scene = "push" /\ Push!Reopen(c))
       /\ WF_pushVars(scene = "push" /\ Push!Deliver(c))
  /\ WF_chanVars(scene = "channel" /\ Channel!Arrive)
  /\ WF_chanVars(scene = "channel" /\ Channel!ServeChannel)
  /\ WF_chanVars(scene = "channel" /\ Channel!Receive)
  /\ \A r \in Channel!Id : WF_chanVars(scene = "channel" /\ Channel!Reply(r))
  /\ WF_sessionVars(scene = "session" /\ Session!FlushTickRelay)
  /\ \A c \in Calls :
       /\ WF_callVars(scene = "flights" /\ Flights!WorkSettles(c))
       /\ WF_callVars(scene = "flights" /\ Flights!Conclude(c))
  /\ WF_httpVars(scene = "http" /\ Http!Progresses)
  /\ WF_httpVars(scene = "http" /\ Http!GivesUp)
  /\ \A f \in Effects : WF_programVars(scene = "program" /\ Program!EffectGoesOn(f))
  /\ WF_programVars(scene = "program" /\ Program!ProgramGoesOn)
  /\ WF_osVars(scene = "os" /\ Os!Chunk) /\ WF_osVars(scene = "os" /\ Os!End)
  /\ \A a \in ChildAsks :
       /\ WF_osVars(scene = "os" /\ Os!Take(a))
       /\ WF_osVars(scene = "os" /\ Os!ExitSeen(a))
       /\ WF_osVars(scene = "os" /\ Os!Finish(a))
  /\ \A l \in Loads :
       /\ WF_loadVars(scene = "loader" /\ Load!Imported(l))
       /\ WF_loadVars(scene = "loader" /\ Load!Resolve(l))
       /\ WF_loadVars(scene = "loader" /\ Load!Parse(l))
       /\ WF_loadVars(scene = "loader" /\ Load!DiskAnswers(l))
       /\ WF_loadVars(scene = "loader" /\ Load!TimeOut(l))

FairSpec == Spec /\ Fairness
-----------------------------------------------------------------------------
(* The state has its types. *)
TypeOK ==
  CASE scene = "push" -> Push!TypeOK
    [] scene = "channel" -> Channel!TypeOK
    [] scene = "session" -> Session!TypeOK
    [] scene = "flights" -> Flights!TypeOK
    [] scene = "http" -> Http!TypeOK
    [] scene = "program" -> Program!TypeOK
    [] scene = "os" -> Os!TypeOK
    [] scene = "loader" -> Load!TypeOK
    [] OTHER -> TRUE

(* What comes in pieces is put together as it was sent: the frames of a    *)
(* boot across breaks, replays and restarts, the bytes of a child among    *)
(* reads that wait in turn; and the exit of the child is told, once.       *)
InOrder ==
  /\ scene = "push" => Push!FramesInSequence
  /\ scene = "os" => Os!BytesInOrder /\ Os!ExitIsTold

(* A cancel reaches what it names and nothing else, in whichever await it  *)
(* falls: a running call is in the set of its key, the app hears           *)
(* "cancelled" of a cancelled call only, and a call that ended holds       *)
(* neither a driver of the kernel nor a body.                              *)
CancelSticks ==
  /\ scene = "flights" => Flights!RunningIsCancellable /\ Flights!CancelledMeansCancelled
  /\ scene = "http" => Http!NothingLeftOpen

(* What one step leaves to a later one is there, and no more: the kernel   *)
(* knows the mounts after every swap, a program that runs was validated    *)
(* and saved, with no temporary file of it left, and a load after a clear  *)
(* of the caches sees the edit before it.                                  *)
NothingLeftBehind ==
  /\ scene = "session" => Session!KernelKnowsMounts
  /\ scene = "program" => /\ Program!MountRunsValidated /\ Program!NothingUnsaved
                          /\ Program!FailsOnItsOwn /\ Program!LeavesNothingBehind
  /\ scene = "loader" => Load!EditSeenAfterClear

(* An answer settles its own request and settles it once, however late or  *)
(* out of order it comes, and after a cancel or a timeout a request sends  *)
(* and hands over nothing more.                                            *)
NoLateAnswer == Channel!AnswersItsOwn /\ Http!QuietAfterCancel

(* Every wait ends: of a broken channel, of a request to a host that comes *)
(* up late, of a tick state for its relay, of a cancelled call whose       *)
(* provider is silent, of an exchange, of an effect behind a crashed or    *)
(* failing program, of a read whose child has closed its end, and of a     *)
(* load whose server is never heard of again.                              *)
EveryWaitEnds ==
  /\ Push!ChannelSettles
  /\ Channel!RequestSettles
  /\ Session!TickStateRelayed
  /\ Flights!CancelIsHeard
  /\ Http!CancelEnds
  /\ Program!EffectSettles
  /\ Os!ReadsEnd
  /\ Load!LoadSettles
=============================================================================
