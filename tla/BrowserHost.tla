---------------------------- MODULE BrowserHost ----------------------------
(***************************************************************************)
(* The whole-program host of a browser context (openBrowserHost in         *)
(* evaluation/browser-store-transport.ts): one running slot, a foreground  *)
(* lane for the requests of views and a background lane for everything     *)
(* else.  A turn gives the slot back while a service runs and takes it     *)
(* again in its own lane.  A dispatch made through ports that were lent by *)
(* the turn that holds the slot runs at once, inside that turn, whether or *)
(* not that turn awaits it; any other one queues up in the background.     *)
(*                                                                         *)
(* Of every batch of asks at most one leaves the host: the asks beside it  *)
(* are answered by the host and change nothing here.                       *)
(***************************************************************************)
EXTENDS Naturals, Sequences, FiniteSets, SequencesExt

CONSTANTS
  Dispatch,      \* the requests of a behaviour; one that queues is a turn
  Tick,          \* the program's ticks
  Kinds,         \* what the kernel may ask for, of Kind
  MaxRounds,     \* bound: how many batches one dispatch may need
  None           \* no turn, no caller, no tick

\* Answered by the host itself / by a service / an agent port / at once, while
\* the provider of a follow-on call works on with the ports it was lent.
Kind == {"row", "call", "agent", "deferred"}

ASSUME BrowserHostAssumption ==
  /\ Kinds \subseteq Kind /\ MaxRounds \in Nat
  /\ None \notin Dispatch \cup Tick

VARIABLES
  pc,          \* where a dispatch is
  lane,        \* the lane of a turn; "direct" for one that runs inside a turn
  own,         \* the turn whose slot a dispatch runs in: itself, or the lender
  caller,      \* the dispatch whose provider awaits it
  rounds,      \* batches it has asked for
  ask,         \* what its current batch asks for
  lent,        \* the turn that lent its provider the ports (lentBy)
  lenders,     \* the turns whose ports some provider was lent, and may have kept
  foreground,  \* who waits in the two lanes, first come first granted
  background,
  running,     \* the turn that holds the slot
  firing,      \* a firing of the tick is queued or running
  tick         \* the tick a dispatch is a firing of

lanes == <<foreground, background, running>>
dispatches == <<pc, lane, own, caller, rounds, ask, lent, lenders, tick>>
vars == <<dispatches, lanes, firing>>

PC == {"idle", "queued", "evaluating", "asking", "outside", "retaking", "done"}

Init ==
  /\ pc = [d \in Dispatch |-> "idle"]
  /\ lane = [d \in Dispatch |-> "none"]
  /\ own = [d \in Dispatch |-> None]
  /\ caller = [d \in Dispatch |-> None]
  /\ rounds = [d \in Dispatch |-> 0]
  /\ ask = [d \in Dispatch |-> "none"]
  /\ lent = [d \in Dispatch |-> None]
  /\ tick = [d \in Dispatch |-> None] /\ lenders = {}
  /\ foreground = <<>> /\ background = <<>> /\ running = None
  /\ firing = [t \in Tick |-> FALSE]

AwaitsChild(d) == \E e \in Dispatch : caller[e] = d /\ pc[e] # "done"
-----------------------------------------------------------------------------
(***************************************************************************)
(* The slot.                                                               *)
(***************************************************************************)
\* take: d waits at the end of the lane of the turn it takes the slot for.
Take(d, l) ==
  IF l = "foreground"
  THEN foreground' = Append(foreground, d) /\ UNCHANGED background
  ELSE background' = Append(background, d) /\ UNCHANGED foreground

\* The turn d waits for: its own, or the one it gave the slot back for.
TurnOf(d) == IF pc[d] = "queued" THEN d ELSE lent[d]

\* Mutant: the lanes are walked the other way round.
BackgroundFirst == IF background # <<>> THEN background ELSE foreground

\* foreground.shift() ?? background.shift()
NextLane == IF foreground # <<>> THEN foreground ELSE background

\* pump: the slot is free, and the first who waits has it for its turn.
Grant ==
  /\ running = None /\ NextLane # <<>>
  /\ LET d == Head(NextLane) IN
       /\ running' = TurnOf(d)
       /\ pc' = [pc EXCEPT ![d] = "evaluating"]
  /\ IF NextLane = foreground
     THEN foreground' = Tail(foreground) /\ UNCHANGED background
     ELSE background' = Tail(background) /\ UNCHANGED foreground
  /\ UNCHANGED <<lane, own, caller, rounds, ask, lent, lenders, tick, firing>>
-----------------------------------------------------------------------------
(***************************************************************************)
(* Dispatches reach the host.                                              *)
(***************************************************************************)
\* enqueue: a turn is made for the lane and waits in it.
Enqueue(d, l) ==
  /\ pc[d] = "idle"
  /\ pc' = [pc EXCEPT ![d] = "queued"]
  /\ lane' = [lane EXCEPT ![d] = l]
  /\ own' = [own EXCEPT ![d] = d]
  /\ Take(d, l)
  /\ UNCHANGED <<rounds, ask, lent, lenders, running>>

\* host.send at once, in the slot of the turn that lent the ports.
RunInside(d, t) ==
  /\ pc[d] = "idle"
  /\ pc' = [pc EXCEPT ![d] = "evaluating"]
  /\ lane' = [lane EXCEPT ![d] = "direct"]
  /\ own' = [own EXCEPT ![d] = t]
  /\ UNCHANGED <<rounds, ask, lent, lenders, lanes>>

\* A view's send, serially.
Send(d) == Enqueue(d, "foreground") /\ UNCHANGED <<caller, tick, firing>>

\* The outcome of a follow-on call, deferred.
Outcome(d) == Enqueue(d, "background") /\ UNCHANGED <<caller, tick, firing>>

\* Mutant: a firing piles up behind the one that is still queued.
FirePilesUp(d, t) ==
  /\ Enqueue(d, "background")
  /\ firing' = [firing EXCEPT ![t] = TRUE]
  /\ tick' = [tick EXCEPT ![d] = t]
  /\ UNCHANGED caller

\* A tick is due; while one firing is queued or running the next is skipped.
Fire(d, t) ==
  /\ ~firing[t]
  /\ Enqueue(d, "background")
  /\ firing' = [firing EXCEPT ![t] = TRUE]
  /\ tick' = [tick EXCEPT ![d] = t]
  /\ UNCHANGED caller

\* Mutant: every dispatch takes its turn, a tool loop's too.
LentAlwaysQueues(d, t) == Enqueue(d, "background")

\* dispatchInput of ports lent by t: inside t while t, not done, holds the slot.
ThroughPorts(d, t) ==
  IF t # None /\ running = t /\ pc[t] # "done" THEN RunInside(d, t) ELSE Enqueue(d, "background")

\* A provider dispatches a declared input and its ask awaits the response.
DispatchBack(d, p) ==
  /\ d # p
  /\ \/ pc[p] = "outside"
     \/ pc[p] = "asking" /\ ask[p] \in {"call", "agent"} /\ ~AwaitsChild(p)
  /\ ThroughPorts(d, lent[p])
  /\ caller' = [caller EXCEPT ![d] = p]
  /\ UNCHANGED <<tick, firing>>

\* The kernel runs a step without interruption; messages come between two.
BetweenSteps == \A e \in Dispatch : pc[e] # "evaluating"

\* A provider nothing awaits uses the ports it was lent: of a follow-on call, of
\* a call that was cancelled or has settled, or beside what it already awaits.
DispatchLate(d) ==
  /\ BetweenSteps
  /\ \E t \in lenders : ThroughPorts(d, t)
  /\ UNCHANGED <<caller, tick, firing>>

\* A watched element reports: its ports are made only now, lent by whatever turn
\* holds the slot.
Report(d) ==
  /\ BetweenSteps
  /\ ThroughPorts(d, running)
  /\ UNCHANGED <<caller, tick, firing>>
-----------------------------------------------------------------------------
(***************************************************************************)
(* A dispatch on the kernel.                                               *)
(***************************************************************************)
\* The asks answered with the slot given back (outsideEventQueue).
Leaves(kind) == kind = "call"

Ask(d, kind) ==
  /\ pc[d] = "evaluating" /\ rounds[d] < MaxRounds
  /\ rounds' = [rounds EXCEPT ![d] = @ + 1]
  /\ ask' = [ask EXCEPT ![d] = kind]
  /\ lent' = [lent EXCEPT ![d] = running]
  /\ lenders' = IF kind = "row" THEN lenders ELSE lenders \cup ({running} \ {None})
  /\ IF Leaves(kind) /\ running # None
     THEN pc' = [pc EXCEPT ![d] = "outside"] /\ running' = None
     ELSE pc' = [pc EXCEPT ![d] = "asking"] /\ UNCHANGED running
  /\ UNCHANGED <<lane, own, caller, foreground, background, firing, tick>>

\* Mutant: the dispatch goes on without taking the slot again.
SettleGoesOn(d) ==
  /\ pc[d] = "outside" /\ ~AwaitsChild(d)
  /\ pc' = [pc EXCEPT ![d] = "evaluating"]
  /\ UNCHANGED <<lane, own, caller, rounds, ask, lent, lenders, tick, lanes, firing>>

\* The provider settles: the turn that gave the slot back queues up again.
Settle(d) ==
  /\ pc[d] = "outside" /\ ~AwaitsChild(d)
  /\ pc' = [pc EXCEPT ![d] = "retaking"]
  /\ Take(d, lane[lent[d]])
  /\ UNCHANGED <<lane, own, caller, rounds, ask, lent, lenders, tick, running, firing>>

\* An ask made in the slot is answered and the kernel resumes.
Answer(d) ==
  /\ pc[d] = "asking" /\ ~AwaitsChild(d)
  /\ pc' = [pc EXCEPT ![d] = "evaluating"]
  /\ UNCHANGED <<lane, own, caller, rounds, ask, lent, lenders, tick, lanes, firing>>

\* Mutant: the firing flag is cleared only when the firing succeeded.
EndKeepsFiring(d, failed) ==
  /\ pc' = [pc EXCEPT ![d] = "done"]
  /\ running' = IF running = d THEN None ELSE running
  /\ firing' = [t \in Tick |-> firing[t] /\ (tick[d] # t \/ failed)]
  /\ UNCHANGED <<lane, own, caller, rounds, ask, lent, lenders, tick, foreground, background>>

\* The finally of enqueue, and of a tick's fire.
End(d, failed) ==
  /\ pc' = [pc EXCEPT ![d] = "done"]
  /\ running' = IF running = d THEN None ELSE running
  /\ firing' = [t \in Tick |-> firing[t] /\ tick[d] # t]
  /\ UNCHANGED <<lane, own, caller, rounds, ask, lent, lenders, tick, foreground, background>>

Finish(d) == pc[d] = "evaluating" /\ End(d, FALSE)

\* The kernel throws, or an answer it was given cannot be decoded.
Throw(d) == pc[d] = "evaluating" /\ End(d, TRUE)

\* Every dispatch of the behaviour was answered.
AllDone == (\A d \in Dispatch : pc[d] = "done") /\ UNCHANGED vars

Next ==
  \/ Grant
  \/ \E d \in Dispatch :
       \/ Send(d) \/ Outcome(d) \/ Report(d) \/ DispatchLate(d)
       \/ \E t \in Tick : Fire(d, t)
       \/ \E p \in Dispatch : DispatchBack(d, p)
       \/ \E kind \in Kinds : Ask(d, kind)
       \/ Settle(d) \/ Answer(d) \/ Finish(d) \/ Throw(d)
  \/ AllDone

Spec == Init /\ [][Next]_vars

(***************************************************************************)
(* Promises run on and providers settle; nobody is obliged to dispatch.    *)
(***************************************************************************)
Fairness ==
  /\ WF_vars(Grant)
  /\ \A d \in Dispatch : WF_vars(Settle(d)) /\ WF_vars(Answer(d)) /\ WF_vars(Finish(d))

FairSpec == Spec /\ Fairness
-----------------------------------------------------------------------------
Maybe(S) == S \cup {None}

TypeOK ==
  /\ pc \in [Dispatch -> PC]
  /\ lane \in [Dispatch -> {"none", "foreground", "background", "direct"}]
  /\ \A d \in Dispatch : pc[d] = "idle" <=> lane[d] = "none"
  /\ own \in [Dispatch -> Maybe(Dispatch)] /\ caller \in [Dispatch -> Maybe(Dispatch)]
  /\ lent \in [Dispatch -> Maybe(Dispatch)] /\ lenders \subseteq Dispatch
  /\ tick \in [Dispatch -> Maybe(Tick)]
  /\ rounds \in [Dispatch -> 0 .. MaxRounds] /\ ask \in [Dispatch -> Kind \cup {"none"}]
  /\ foreground \in Seq(Dispatch) /\ background \in Seq(Dispatch)
  /\ running \in Maybe(Dispatch) /\ firing \in [Tick -> BOOLEAN]

\* On the kernel with nothing outside the host to wait for.
InFlight(d) == pc[d] \in {"evaluating", "asking"} /\ ~AwaitsChild(d)

\* No request runs inside a turn that does not await it.  The first that does
\* (a late dispatch, a report) ends this for good.
Contained == \A d \in Dispatch : lane[d] = "direct" => caller[d] # None

(***************************************************************************)
(* The host holds one circuit, so it runs one request at a time            *)
(* (browser-store-transport.ts:163).  This is what it says, of every       *)
(* request; what the host keeps is OneWhileContained.                      *)
(***************************************************************************)
OneRequestAtATime == \A d, e \in Dispatch : InFlight(d) /\ InFlight(e) => d = e

(***************************************************************************)
(* Nested dispatches, released slots and failures included, no two         *)
(* requests are on the kernel together, as long as every request that runs *)
(* inside a turn is one the turn awaits.                                   *)
(***************************************************************************)
OneWhileContained == Contained => OneRequestAtATime

(***************************************************************************)
(* A dispatch that a provider awaits never queues behind the turn that     *)
(* awaits the provider, where neither would ever go on, as long as every   *)
(* request that runs inside a turn is one the turn awaits.                 *)
(***************************************************************************)
NoDispatchWaitsOnItsCaller ==
  Contained => \A d, p \in Dispatch : caller[d] = p /\ pc[d] = "queued" => running # own[p]

(***************************************************************************)
(* While one firing of a tick is queued or running no other one is: a slow *)
(* tick is skipped, not piled up.                                          *)
(***************************************************************************)
TicksDoNotPileUp ==
  \A t \in Tick : Cardinality({d \in Dispatch : tick[d] = t /\ pc[d] # "done"}) <= 1

(***************************************************************************)
(* A person's requests go before queued background work, a request that    *)
(* comes back from a service included.                                     *)
(***************************************************************************)
PersonFirst ==
  [][running' # None /\ running' # running /\ lane[running'] = "background" =>
       foreground = <<>>]_vars

(***************************************************************************)
(* Every request that queues is answered, and every tick can fire again    *)
(* after a firing, successful or not, as long as every request that runs   *)
(* inside a turn is one the turn awaits.                                   *)
(***************************************************************************)
EveryRequestAnswered ==
  /\ \A d \in Dispatch : pc[d] = "queued" ~> pc[d] = "done" \/ ~Contained
  /\ \A t \in Tick : firing[t] ~> ~firing[t] \/ ~Contained

(***************************************************************************)
(* "A slow service never stalls a view's request" (browser-store-          *)
(* transport.ts:213-214): one that queues is granted the slot.  No run has *)
(* it: a request that ran inside a turn that did not await it may take the *)
(* slot for a turn that is over.                                           *)
(***************************************************************************)
NoViewStalls ==
  \A d \in Dispatch : lane[d] = "foreground" /\ pc[d] = "queued" ~> pc[d] # "queued"
=============================================================================
