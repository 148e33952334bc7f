----------------------------- MODULE EventQueue -----------------------------
(***************************************************************************)
(* The server runtime's event queue (OrbitalServerRuntime.ts): every       *)
(* dispatch evaluates on the kernel holding it, and an ask that leaves the *)
(* host (a service call) runs with the hold given back and takes it again  *)
(* afterwards.  The queue is a chain of promises: acquiring appends a      *)
(* ticket, and a ticket is served once every earlier one was released.     *)
(*                                                                         *)
(* The kernel itself is outside src/: between two steps it may ask for any *)
(* batch of Batches, which the host answers concurrently (Promise.all).    *)
(***************************************************************************)
EXTENDS Naturals, FiniteSets

CONSTANTS
  Dispatch,   \* the processOrbitalEvent calls of a behaviour
  Slot,       \* the positions of one batch of asks
  Batches,    \* the batches the kernel may hand the host
  MaxRounds,  \* bound: how many batches one dispatch may need
  NoCaller    \* a dispatch no provider made

(***************************************************************************)
(* "row": answered by the host itself, errors settled into the answer.     *)
(* "os": answered by the host itself, and the answer may reject.           *)
(* "call": a service call, http, beacon, model or tab ask: it runs outside *)
(*   the queue, and its provider may dispatch a declared input and wait.   *)
(* "agent": an agent port operator; it may dispatch and wait, in the queue.*)
(***************************************************************************)
Kind == {"row", "os", "call", "agent"}
DispatchesBack == {"call", "agent"}

\* Batches of one agent port operator at a time.
AgentBatches ==
  {b \in [Slot -> Kind \cup {"none"}] :
     \E s \in Slot : b[s] = "agent" /\ \A t \in Slot \ {s} : b[t] = "none"}

(***************************************************************************)
(* Batches whose asks cannot get in each other's way: no agent port, and a *)
(* service call never beside another call or an ask that may reject (the   *)
(* README says what the other batches do).  The slots are interchangeable, *)
(* so the others take their places after the main ask.                     *)
(***************************************************************************)
SingleCallBatches ==
  LET First == CHOOSE s \in Slot : TRUE IN
  {b \in [Slot -> Kind \cup {"none"}] :
     b[First] \in {"call", "os"} /\ \A s \in Slot \ {First} : b[s] \in {"row", "none"}}

ASSUME QueueAssumption ==
  /\ Batches \subseteq [Slot -> Kind \cup {"none"}]
  /\ MaxRounds \in Nat
  /\ NoCaller \notin Dispatch \X Slot

VARIABLES
  pc,        \* where a dispatch is
  rounds,    \* batches it has asked for
  caller,    \* the <<dispatch, slot>> whose provider made it, or NoCaller
  held,      \* EventQueueHold.held
  mine,      \* the ticket its hold's release() resolves
  want,      \* the ticket it is waiting for, 0 when none
  ask,       \* the kind of the ask in a slot of its current batch
  phase,     \* how far that ask is
  issued,    \* how many links the promise chain has
  released   \* the links whose release() was called

vars == <<pc, rounds, caller, held, mine, want, ask, phase, issued, released>>

PC == {"idle", "acquiring", "evaluating", "awaiting", "done"}
Phase == {"off", "running", "outside", "reacquiring", "answered"}

\* Mutant: the link just before is not awaited.
ServedOneEarly(t) == \A u \in 1 .. (t - 2) : u \in released

\* Mutant: a ticket is served whenever nobody holds the queue.
ServedWhenFree(t) == \A d \in Dispatch : ~held[d]

\* `previous` of a ticket has resolved: every earlier link was released.
Served(t) == \A u \in 1 .. (t - 1) : u \in released

Running(d, s) == phase[d][s] \in {"running", "outside"}

\* A provider made a dispatch from this ask and still awaits it.
AwaitsChild(d, s) == \E e \in Dispatch : caller[e] = <<d, s>> /\ pc[e] # "done"

Init ==
  /\ pc = [d \in Dispatch |-> "idle"]
  /\ rounds = [d \in Dispatch |-> 0]
  /\ caller = [d \in Dispatch |-> NoCaller]
  /\ held = [d \in Dispatch |-> FALSE]
  /\ mine = [d \in Dispatch |-> 0]
  /\ want = [d \in Dispatch |-> 0]
  /\ ask = [d \in Dispatch |-> [s \in Slot |-> "none"]]
  /\ phase = [d \in Dispatch |-> [s \in Slot |-> "off"]]
  /\ issued = 0
  /\ released = {}
-----------------------------------------------------------------------------
(***************************************************************************)
(* The queue's operations, as the actions below use them.                  *)
(***************************************************************************)
\* acquireEventQueue: one more link at the end of the chain.
Acquire(d) ==
  /\ issued' = issued + 1
  /\ want' = [want EXCEPT ![d] = issued + 1]

\* `await this.acquireEventQueue()` continues: the hold is held again.
TakeHold(d) ==
  /\ want[d] # 0
  /\ Served(want[d])
  /\ held' = [held EXCEPT ![d] = TRUE]
  /\ mine' = [mine EXCEPT ![d] = want[d]]
  /\ want' = [want EXCEPT ![d] = 0]

\* Mutant: release() resolves the next link instead of its own.
ReleaseNext(d) ==
  /\ held' = [held EXCEPT ![d] = FALSE]
  /\ released' = IF held[d] THEN released \cup {mine[d] + 1} ELSE released

\* The finally of enqueueEvent: `if (hold.held) hold.release()`.
ReleaseIfHeld(d) ==
  /\ held' = [held EXCEPT ![d] = FALSE]
  /\ released' = IF held[d] THEN released \cup {mine[d]} ELSE released
-----------------------------------------------------------------------------
\* A request, tick, inbound delivery or deferred outcome reaches the queue.
Arrive(d) ==
  /\ pc[d] = "idle"
  /\ pc' = [pc EXCEPT ![d] = "acquiring"]
  /\ Acquire(d)
  /\ UNCHANGED <<rounds, caller, held, mine, ask, phase, released>>

\* A provider dispatches a declared input through its lent ports and waits.
ArriveFrom(d, p, s) ==
  /\ pc[d] = "idle" /\ d # p
  /\ Running(p, s)
  /\ ask[p][s] \in DispatchesBack
  /\ pc' = [pc EXCEPT ![d] = "acquiring"]
  /\ caller' = [caller EXCEPT ![d] = <<p, s>>]
  /\ Acquire(d)
  /\ UNCHANGED <<rounds, held, mine, ask, phase, released>>

\* The queue reaches the dispatch: the kernel starts it.
Start(d) ==
  /\ pc[d] = "acquiring"
  /\ TakeHold(d)
  /\ pc' = [pc EXCEPT ![d] = "evaluating"]
  /\ UNCHANGED <<rounds, caller, ask, phase, issued, released>>

(***************************************************************************)
(* The kernel stops and asks for a batch.  Every ask is started before any *)
(* is answered: the first call finds the queue held and gives it back, the *)
(* later ones find no hold and just run.                                   *)
(***************************************************************************)
AskBatch(d, batch, first) ==
  /\ pc[d] = "evaluating"
  /\ rounds[d] < MaxRounds
  /\ \E s \in Slot : batch[s] # "none"
  /\ pc' = [pc EXCEPT ![d] = "awaiting"]
  /\ rounds' = [rounds EXCEPT ![d] = @ + 1]
  /\ ask' = [ask EXCEPT ![d] = batch]
  /\ phase' = [phase EXCEPT ![d] =
       [s \in Slot |-> IF batch[s] = "none" THEN "off"
                       ELSE IF s \in first THEN "outside" ELSE "running"]]
  /\ IF first = {} THEN UNCHANGED <<held, released>> ELSE ReleaseIfHeld(d)
  /\ UNCHANGED <<caller, mine, want, issued>>

Calls(batch) == {s \in Slot : batch[s] = "call"}

\* Mutant: a service call is made with the queue held.
ReleasingNever(d, batch) == {{}}

\* The slot that gives the hold back: any one call of the batch, if it has one.
Releasing(d, batch) ==
  IF held[d] /\ Calls(batch) # {} THEN {{s} : s \in Calls(batch)} ELSE {{}}

Ask(d) ==
  \E batch \in Batches : \E first \in Releasing(d, batch) : AskBatch(d, batch, first)

\* An ask that did not give the hold back is answered.
Answer(d, s) ==
  /\ phase[d][s] = "running"
  /\ ~AwaitsChild(d, s)
  /\ phase' = [phase EXCEPT ![d][s] = "answered"]
  /\ UNCHANGED <<pc, rounds, caller, held, mine, want, ask, issued, released>>

\* The call that gave the hold back settles: outsideEventQueue queues up again.
Settle(d, s) ==
  /\ phase[d][s] = "outside"
  /\ ~AwaitsChild(d, s)
  /\ phase' = [phase EXCEPT ![d][s] = "reacquiring"]
  /\ Acquire(d)
  /\ UNCHANGED <<pc, rounds, caller, held, mine, ask, released>>

\* Mutant: `hold.held = true` forgotten after the re-acquisition.
ReacquireUnheld(d, s) ==
  /\ phase[d][s] = "reacquiring"
  /\ want[d] # 0 /\ Served(want[d])
  /\ want' = [want EXCEPT ![d] = 0]
  /\ phase' = [phase EXCEPT ![d][s] = "answered"]
  /\ UNCHANGED <<pc, rounds, caller, held, mine, ask, issued, released>>

\* Its turn comes: the hold is the dispatch's again and the ask is answered.
Reacquire(d, s) ==
  /\ phase[d][s] = "reacquiring"
  /\ TakeHold(d)
  /\ phase' = [phase EXCEPT ![d][s] = "answered"]
  /\ UNCHANGED <<pc, rounds, caller, ask, issued, released>>

\* Mutant: the queue is released on success only, not in a finally.
RejectKeepsHold(d, s) ==
  /\ pc[d] = "awaiting"
  /\ phase[d][s] = "running" /\ ask[d][s] = "os"
  /\ pc' = [pc EXCEPT ![d] = "done"]
  /\ phase' = [phase EXCEPT ![d][s] = "answered"]
  /\ UNCHANGED <<rounds, caller, held, mine, want, ask, issued, released>>

\* An answer rejects: the flight is abandoned and the dispatch fails at once.
Reject(d, s) ==
  /\ pc[d] = "awaiting"
  /\ phase[d][s] = "running" /\ ask[d][s] = "os"
  /\ pc' = [pc EXCEPT ![d] = "done"]
  /\ phase' = [phase EXCEPT ![d][s] = "answered"]
  /\ ReleaseIfHeld(d)
  /\ UNCHANGED <<rounds, caller, mine, want, ask, issued>>

\* Every answer of the batch is in: the kernel resumes.
Resume(d) ==
  /\ pc[d] = "awaiting"
  /\ \A s \in Slot : phase[d][s] \in {"off", "answered"}
  /\ pc' = [pc EXCEPT ![d] = "evaluating"]
  /\ ask' = [ask EXCEPT ![d] = [s \in Slot |-> "none"]]
  /\ phase' = [phase EXCEPT ![d] = [s \in Slot |-> "off"]]
  /\ UNCHANGED <<rounds, caller, held, mine, want, issued, released>>

\* The kernel is done (or throws): enqueueEvent's finally runs.
Finish(d) ==
  /\ pc[d] = "evaluating"
  /\ pc' = [pc EXCEPT ![d] = "done"]
  /\ ReleaseIfHeld(d)
  /\ UNCHANGED <<rounds, caller, mine, want, ask, phase, issued>>

\* Every dispatch of the behaviour was answered: nothing more is queued.
AllDone ==
  /\ \A d \in Dispatch : pc[d] = "done"
  /\ UNCHANGED vars

Next ==
  \/ \E d \in Dispatch :
       \/ Arrive(d) \/ Start(d) \/ Ask(d) \/ Resume(d) \/ Finish(d)
       \/ \E s \in Slot : Answer(d, s) \/ Settle(d, s) \/ Reacquire(d, s) \/ Reject(d, s)
       \/ \E p \in Dispatch : \E s \in Slot : ArriveFrom(d, p, s)
  \/ AllDone

Spec == Init /\ [][Next]_vars

(***************************************************************************)
(* The promise machinery and the kernel keep going, and every provider     *)
(* settles eventually.  Nothing obliges a client to send a dispatch.       *)
(***************************************************************************)
Fairness ==
  \A d \in Dispatch :
    /\ WF_vars(Start(d)) /\ WF_vars(Resume(d)) /\ WF_vars(Finish(d))
    /\ \A s \in Slot :
         WF_vars(Answer(d, s)) /\ WF_vars(Settle(d, s)) /\ WF_vars(Reacquire(d, s))

FairSpec == Spec /\ Fairness
-----------------------------------------------------------------------------
TypeOK ==
  /\ pc \in [Dispatch -> PC]
  /\ rounds \in [Dispatch -> Nat]
  /\ caller \in [Dispatch -> (Dispatch \X Slot) \cup {NoCaller}]
  /\ held \in [Dispatch -> BOOLEAN]
  /\ mine \in [Dispatch -> Nat]
  /\ want \in [Dispatch -> Nat]
  /\ ask \in [Dispatch -> [Slot -> Kind \cup {"none"}]]
  /\ phase \in [Dispatch -> [Slot -> Phase]]
  /\ issued \in Nat
  /\ released \subseteq 1 .. issued

(***************************************************************************)
(* Two dispatches never evaluate on the kernel at once, whatever batches,  *)
(* releases and re-acquisitions came before: both would start from the     *)
(* same held trait state and one transition would be lost.                 *)
(***************************************************************************)
EvaluationExclusive ==
  \A d, e \in Dispatch :
    pc[d] = "evaluating" /\ d # e => held[d] /\ ~held[e] /\ pc[e] # "evaluating"

(***************************************************************************)
(* A dispatch that a provider makes and waits for never queues behind the  *)
(* hold of the dispatch that asked the provider: that wait has no end.     *)
(***************************************************************************)
NoDispatchWaitsOnItsCaller ==
  \A d, p \in Dispatch : \A s \in Slot :
    ~(caller[d] = <<p, s>> /\ pc[d] = "acquiring" /\ held[p])

(***************************************************************************)
(* No hold outlives its dispatch: once a dispatch is answered, failed or   *)
(* not, nothing it started can still keep the queue from the others.       *)
(***************************************************************************)
NoHoldOutlivesItsDispatch ==
  \A d \in Dispatch : pc[d] = "done" => ~held[d] /\ want[d] = 0

(***************************************************************************)
(* The promise chain is a first-in-first-out lock: one holder, tickets     *)
(* granted in the order they were drawn, also by the re-acquisitions.      *)
(***************************************************************************)
Waiting == {want[d] : d \in Dispatch} \ {0}
Holder == {mine[d] : d \in {e \in Dispatch : held[e]}}
Lock == INSTANCE FifoLock WITH waiting <- Waiting, holder <- Holder
QueueIsFifoLock == Lock!Spec

(***************************************************************************)
(* Every dispatch that reaches the queue is answered, the nested ones and  *)
(* the ones whose ask failed included: the queue never wedges.             *)
(***************************************************************************)
EveryDispatchAnswered ==
  \A d \in Dispatch : pc[d] = "acquiring" ~> pc[d] = "done"
=============================================================================
