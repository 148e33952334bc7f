--------------------------- MODULE EventQueueProofs ---------------------------
(***************************************************************************)
(* Proofs about EventQueue for any dispatches, slots, batches and bound.   *)
(*                                                                         *)
(* The argument: a ticket of the promise chain that is not released yet is *)
(* owned by one dispatch, which either waits for it or holds the queue     *)
(* with it (Tickets).  A holder's ticket has only released ones before it, *)
(* so there is one holder.  Between two kernel steps a dispatch has at     *)
(* most one ask that gave the hold away, and is back in possession of it   *)
(* when that ask is answered (Control), hence it evaluates only as holder. *)
(***************************************************************************)
EXTENDS EventQueue, TLAPS

Away(d, s) == phase[d][s] \in {"outside", "reacquiring"}
AllOff(d) == \A s \in Slot : phase[d][s] = "off"

WantOK ==
  \A d \in Dispatch :
    want[d] # 0 => want[d] \in 1 .. issued /\ want[d] \notin released /\ ~held[d]

HeldOK ==
  \A d \in Dispatch :
    held[d] => mine[d] \in 1 .. issued /\ mine[d] \notin released /\ Served(mine[d])

WantDistinct ==
  \A d, e \in Dispatch :
    d # e /\ want[d] # 0 => want[d] # want[e] /\ (held[e] => want[d] # mine[e])

OneHolder == \A d, e \in Dispatch : held[d] /\ held[e] => d = e

Tickets == WantOK /\ HeldOK /\ WantDistinct /\ OneHolder

AtRest ==
  \A d \in Dispatch :
    /\ pc[d] = "idle" => want[d] = 0 /\ ~held[d] /\ AllOff(d)
    /\ pc[d] = "acquiring" => want[d] # 0 /\ AllOff(d)
    /\ pc[d] = "evaluating" => held[d] /\ AllOff(d)
    /\ pc[d] = "awaiting" /\ (\A s \in Slot : ~Away(d, s)) => held[d]

AwayOK ==
  \A d \in Dispatch : \A s \in Slot :
    /\ phase[d][s] = "outside" => ~held[d] /\ want[d] = 0
    /\ phase[d][s] = "reacquiring" => want[d] # 0
    /\ \A t \in Slot : Away(d, s) /\ Away(d, t) => s = t

Control == AtRest /\ AwayOK

IInv == TypeOK /\ Tickets /\ Control
-----------------------------------------------------------------------------
\* Type correctness of every step, by the shape of the assignments.
LEMMA TypeStep == ASSUME QueueAssumption, TypeOK, HeldOK, [Next]_vars PROVE TypeOK'
<1> USE DEF TypeOK, PC, Phase, Kind
<1>1. ASSUME NEW d \in Dispatch, Arrive(d) PROVE TypeOK'
  BY <1>1 DEF Arrive, Acquire
<1>2. ASSUME NEW d \in Dispatch, NEW p \in Dispatch, NEW s \in Slot, ArriveFrom(d, p, s)
      PROVE TypeOK'
  BY <1>2 DEF ArriveFrom, Acquire
<1>3. ASSUME NEW d \in Dispatch, Start(d) PROVE TypeOK'
  BY <1>3 DEF Start, TakeHold
<1>4. ASSUME NEW d \in Dispatch, Ask(d) PROVE TypeOK'
  <2> PICK batch \in Batches : \E first \in Releasing(d, batch) : AskBatch(d, batch, first)
    BY <1>4 DEF Ask
  <2>1. PICK first \in Releasing(d, batch) : AskBatch(d, batch, first)
    OBVIOUS
  <2>2. batch \in [Slot -> Kind \cup {"none"}]
    BY QueueAssumption DEF QueueAssumption
  <2>3. released' \subseteq 1 .. issued' /\ held' \in [Dispatch -> BOOLEAN]
    <3>1. issued' = issued
      BY <2>1 DEF AskBatch
    <3>2. CASE UNCHANGED <<held, released>>
      BY <3>1, <3>2
    <3>3. CASE ReleaseIfHeld(d)
      BY <3>1, <3>3 DEF ReleaseIfHeld, HeldOK
    <3> QED BY <2>1, <3>2, <3>3 DEF AskBatch
  <2>4. phase' \in [Dispatch -> [Slot -> Phase]]
    BY <2>1 DEF AskBatch
  <2> QED BY <2>1, <2>2, <2>3, <2>4 DEF AskBatch
<1>5. ASSUME NEW d \in Dispatch, NEW s \in Slot, Answer(d, s) PROVE TypeOK'
  BY <1>5 DEF Answer
<1>6. ASSUME NEW d \in Dispatch, NEW s \in Slot, Settle(d, s) PROVE TypeOK'
  BY <1>6 DEF Settle, Acquire
<1>7. ASSUME NEW d \in Dispatch, NEW s \in Slot, Reacquire(d, s) PROVE TypeOK'
  BY <1>7 DEF Reacquire, TakeHold
<1>8. ASSUME NEW d \in Dispatch, NEW s \in Slot, Reject(d, s) PROVE TypeOK'
  BY <1>8 DEF Reject, ReleaseIfHeld, HeldOK
<1>9. ASSUME NEW d \in Dispatch, Resume(d) PROVE TypeOK'
  BY <1>9 DEF Resume
<1>10. ASSUME NEW d \in Dispatch, Finish(d) PROVE TypeOK'
  BY <1>10 DEF Finish, ReleaseIfHeld, HeldOK
<1>11. CASE UNCHANGED vars
  BY <1>11 DEF vars
<1> QED
  BY <1>1, <1>2, <1>3, <1>4, <1>5, <1>6, <1>7, <1>8, <1>9, <1>10, <1>11 DEF Next, AllDone
-----------------------------------------------------------------------------
(***************************************************************************)
(* The four things a step does to the queue, each on the tickets alone.    *)
(***************************************************************************)
\* A ticket drawn by a dispatch that neither waits nor holds.
LEMMA AcquireKeepsTickets ==
  ASSUME TypeOK, Tickets, NEW d \in Dispatch, Acquire(d), want[d] = 0, ~held[d],
         UNCHANGED <<held, mine, released>>
  PROVE  Tickets'
<1> USE DEF TypeOK, Acquire, Tickets
<1>1. WantOK' BY DEF WantOK
<1>2. HeldOK' BY DEF HeldOK, Served
<1>3. WantDistinct' BY DEF WantDistinct, WantOK, HeldOK
<1>4. OneHolder' BY DEF OneHolder
<1> QED BY <1>1, <1>2, <1>3, <1>4

\* Two tickets are drawn one before the other.
LEMMA EitherComesFirst == \A m, w \in Nat : m # w => m < w \/ w < m
OBVIOUS

\* A ticket whose turn has come is taken: nobody else can be holding.
LEMMA TakeHoldKeepsTickets ==
  ASSUME TypeOK, Tickets, NEW d \in Dispatch, TakeHold(d), UNCHANGED <<issued, released>>
  PROVE  Tickets' /\ \A e \in Dispatch : ~held[e]
<1> USE DEF TypeOK, TakeHold, Tickets
<1>1. \A e \in Dispatch : ~held[e]
  <2> SUFFICES ASSUME NEW e \in Dispatch, held[e] PROVE FALSE
    OBVIOUS
  <2>1. e # d BY DEF WantOK
  <2>2. mine[e] # want[d] BY <2>1 DEF WantDistinct
  <2>3. mine[e] \in Nat /\ want[d] \in Nat /\ mine[e] \in 1 .. issued /\ want[d] \in 1 .. issued
    BY DEF WantOK, HeldOK
  <2>4. CASE mine[e] < want[d]
    BY <2>3, <2>4 DEF Served, HeldOK
  <2>5. CASE want[d] < mine[e]
    BY <2>3, <2>5 DEF Served, WantOK, HeldOK
  <2>6. mine[e] < want[d] \/ want[d] < mine[e]
    BY <2>2, <2>3, EitherComesFirst
  <2> QED BY <2>4, <2>5, <2>6
<1>2. WantOK'
  <2> SUFFICES ASSUME NEW e \in Dispatch, want'[e] # 0
               PROVE  want'[e] \in 1 .. issued' /\ want'[e] \notin released' /\ ~held'[e]
    BY DEF WantOK
  <2>1. e # d /\ want'[e] = want[e] /\ held'[e] = held[e]
    OBVIOUS
  <2> QED BY <2>1 DEF WantOK
<1>3. HeldOK' BY <1>1 DEF HeldOK, WantOK, Served
<1>4. WantDistinct' BY <1>1 DEF WantDistinct
<1>5. OneHolder' BY <1>1 DEF OneHolder
<1> QED BY <1>1, <1>2, <1>3, <1>4, <1>5

\* The hold is given up, if it is held: only its own ticket is released.
LEMMA ReleaseKeepsTickets ==
  ASSUME TypeOK, Tickets, NEW d \in Dispatch, ReleaseIfHeld(d), UNCHANGED <<want, mine, issued>>
  PROVE  Tickets'
<1> USE DEF TypeOK, ReleaseIfHeld, Tickets
<1>1. WantOK' BY DEF WantOK, WantDistinct
<1>2. HeldOK' BY DEF HeldOK, OneHolder, Served
<1>3. WantDistinct' BY DEF WantDistinct
<1>4. OneHolder' BY DEF OneHolder
<1> QED BY <1>1, <1>2, <1>3, <1>4

\* A step that leaves the queue alone.
LEMMA IdleKeepsTickets ==
  ASSUME Tickets, UNCHANGED <<want, held, mine, issued, released>>
  PROVE  Tickets'
BY DEF Tickets, WantOK, HeldOK, WantDistinct, OneHolder, Served
-----------------------------------------------------------------------------
(***************************************************************************)
(* Control, action by action: which asks are away and who may evaluate.    *)
(***************************************************************************)
\* Every action keeps the invariant on the asks that are away.
LEMMA ControlStep ==
  ASSUME QueueAssumption, TypeOK, Tickets, Control, [Next]_vars
  PROVE  Control'
<1> USE DEF TypeOK, Control, Away, AllOff
<1>1. ASSUME NEW d \in Dispatch, Arrive(d) PROVE Control'
  <2>1. AtRest' BY <1>1 DEF AtRest, Arrive, Acquire
  <2>2. AwayOK' BY <1>1 DEF AwayOK, AtRest, Arrive, Acquire
  <2> QED BY <2>1, <2>2
<1>2. ASSUME NEW d \in Dispatch, NEW p \in Dispatch, NEW s \in Slot, ArriveFrom(d, p, s)
      PROVE Control'
  <2>1. AtRest' BY <1>2 DEF AtRest, ArriveFrom, Acquire
  <2>2. AwayOK' BY <1>2 DEF AwayOK, AtRest, ArriveFrom, Acquire
  <2> QED BY <2>1, <2>2
<1>3. ASSUME NEW d \in Dispatch, Start(d) PROVE Control'
  <2>1. AtRest' BY <1>3 DEF AtRest, Start, TakeHold
  <2>2. AwayOK' BY <1>3 DEF AwayOK, AtRest, Start, TakeHold
  <2> QED BY <2>1, <2>2
<1>4. ASSUME NEW d \in Dispatch, Ask(d) PROVE Control'
  <2> PICK batch \in Batches : \E first \in Releasing(d, batch) : AskBatch(d, batch, first)
    BY <1>4 DEF Ask
  <2>1. PICK first \in Releasing(d, batch) : AskBatch(d, batch, first)
    OBVIOUS
  <2>2. pc[d] = "evaluating" /\ held[d] /\ want[d] = 0
    BY <2>1 DEF AskBatch, AtRest, Tickets, WantOK
  <2>3. CASE first = {}
    <3>1. AtRest' BY <2>1, <2>2, <2>3 DEF AskBatch, AtRest
    <3>2. AwayOK' BY <2>1, <2>2, <2>3 DEF AskBatch, AwayOK
    <3> QED BY <3>1, <3>2
  <2>4. ASSUME NEW f \in Slot, batch[f] = "call", first = {f} PROVE Control'
    <3>1. phase'[d][f] = "outside" /\ \A s \in Slot \ {f} : ~Away(d, s)'
      BY <2>1, <2>4 DEF AskBatch
    <3>2. \A e \in Dispatch \ {d} : phase'[e] = phase[e] /\ held'[e] = held[e] /\ pc'[e] = pc[e]
      BY <2>1, <2>4 DEF AskBatch, ReleaseIfHeld
    <3>3. pc'[d] = "awaiting" /\ ~held'[d] /\ want' = want
      <4>1. ReleaseIfHeld(d)
        BY <2>1, <2>4 DEF AskBatch
      <4> QED BY <2>1, <4>1 DEF AskBatch, ReleaseIfHeld
    <3>4. AtRest' BY <3>1, <3>2, <3>3 DEF AtRest
    <3>5. AwayOK'
      <4> SUFFICES ASSUME NEW e \in Dispatch, NEW s \in Slot
                   PROVE  /\ phase'[e][s] = "outside" => ~held'[e] /\ want'[e] = 0
                          /\ phase'[e][s] = "reacquiring" => want'[e] # 0
                          /\ \A t \in Slot : Away(e, s)' /\ Away(e, t)' => s = t
        BY DEF AwayOK
      <4>1. CASE e = d
        BY <2>2, <3>1, <3>3, <4>1
      <4>2. CASE e # d
        BY <3>2, <3>3, <4>2 DEF AwayOK
      <4> QED BY <4>1, <4>2
    <3> QED BY <3>4, <3>5
  <2>5. first = {} \/ \E f \in Slot : batch[f] = "call" /\ first = {f}
    BY DEF Releasing, Calls
  <2> QED BY <2>3, <2>4, <2>5
<1>5. ASSUME NEW d \in Dispatch, NEW s \in Slot, Answer(d, s) PROVE Control'
  <2>1. AtRest' BY <1>5 DEF AtRest, Answer
  <2>2. AwayOK' BY <1>5 DEF AwayOK, Answer
  <2> QED BY <2>1, <2>2
<1>6. ASSUME NEW d \in Dispatch, NEW s \in Slot, Settle(d, s) PROVE Control'
  <2>1. AtRest' BY <1>6 DEF AtRest, Settle, Acquire
  <2>2. AwayOK' BY <1>6 DEF AwayOK, Settle, Acquire
  <2> QED BY <2>1, <2>2
<1>7. ASSUME NEW d \in Dispatch, NEW s \in Slot, Reacquire(d, s) PROVE Control'
  <2>1. AtRest' BY <1>7 DEF AtRest, Reacquire, TakeHold
  <2>2. AwayOK' BY <1>7 DEF AwayOK, Reacquire, TakeHold
  <2> QED BY <2>1, <2>2
<1>8. ASSUME NEW d \in Dispatch, NEW s \in Slot, Reject(d, s) PROVE Control'
  <2>1. AtRest' BY <1>8 DEF AtRest, Reject, ReleaseIfHeld
  <2>2. AwayOK' BY <1>8 DEF AwayOK, Reject, ReleaseIfHeld
  <2> QED BY <2>1, <2>2
<1>9. ASSUME NEW d \in Dispatch, Resume(d) PROVE Control'
  <2>1. AtRest' BY <1>9 DEF AtRest, Resume
  <2>2. AwayOK' BY <1>9 DEF AwayOK, Resume
  <2> QED BY <2>1, <2>2
<1>10. ASSUME NEW d \in Dispatch, Finish(d) PROVE Control'
  <2>1. AtRest' BY <1>10 DEF AtRest, Finish, ReleaseIfHeld
  <2>2. AwayOK' BY <1>10 DEF AwayOK, Finish, ReleaseIfHeld
  <2> QED BY <2>1, <2>2
<1>11. CASE UNCHANGED vars
  <2>1. AtRest' BY <1>11 DEF AtRest, vars
  <2>2. AwayOK' BY <1>11 DEF AwayOK, vars
  <2> QED BY <2>1, <2>2
<1> QED
  BY <1>1, <1>2, <1>3, <1>4, <1>5, <1>6, <1>7, <1>8, <1>9, <1>10, <1>11 DEF Next, AllDone
-----------------------------------------------------------------------------
(***************************************************************************)
(* What one step does to the queue: it draws a ticket for a dispatch that  *)
(* has none, serves one, releases the holder's, or leaves the queue alone. *)
(***************************************************************************)
Draws(d) ==
  Acquire(d) /\ want[d] = 0 /\ ~held[d] /\ UNCHANGED <<held, mine, released>>
Takes(d) == TakeHold(d) /\ UNCHANGED <<issued, released>>
Releases(d) == ReleaseIfHeld(d) /\ UNCHANGED <<want, mine, issued>>
Rests == UNCHANGED <<want, held, mine, issued, released>>

\* Every action is one of the four.
LEMMA StepOnQueue ==
  ASSUME TypeOK, Control, [Next]_vars
  PROVE  Rests \/ \E d \in Dispatch : Draws(d) \/ Takes(d) \/ Releases(d)
<1>1. ASSUME NEW d \in Dispatch, Arrive(d) PROVE Draws(d)
  BY <1>1 DEF Arrive, Draws, Control, AtRest
<1>2. ASSUME NEW d \in Dispatch, NEW p \in Dispatch, NEW s \in Slot, ArriveFrom(d, p, s)
      PROVE Draws(d)
  BY <1>2 DEF ArriveFrom, Draws, Control, AtRest
<1>3. ASSUME NEW d \in Dispatch, Start(d) PROVE Takes(d)
  BY <1>3 DEF Start, Takes
<1>4. ASSUME NEW d \in Dispatch, Ask(d) PROVE Rests \/ Releases(d)
  <2> PICK batch \in Batches : \E first \in Releasing(d, batch) : AskBatch(d, batch, first)
    BY <1>4 DEF Ask
  <2>1. PICK first \in Releasing(d, batch) : AskBatch(d, batch, first)
    OBVIOUS
  <2> QED BY <2>1 DEF AskBatch, Rests, Releases
<1>5. ASSUME NEW d \in Dispatch, NEW s \in Slot, Answer(d, s) PROVE Rests
  BY <1>5 DEF Answer, Rests
<1>6. ASSUME NEW d \in Dispatch, NEW s \in Slot, Settle(d, s) PROVE Draws(d)
  BY <1>6 DEF Settle, Draws, Control, AwayOK
<1>7. ASSUME NEW d \in Dispatch, NEW s \in Slot, Reacquire(d, s) PROVE Takes(d)
  BY <1>7 DEF Reacquire, Takes
<1>8. ASSUME NEW d \in Dispatch, NEW s \in Slot, Reject(d, s) PROVE Releases(d)
  BY <1>8 DEF Reject, Releases
<1>9. ASSUME NEW d \in Dispatch, Resume(d) PROVE Rests
  BY <1>9 DEF Resume, Rests
<1>10. ASSUME NEW d \in Dispatch, Finish(d) PROVE Releases(d)
  BY <1>10 DEF Finish, Releases
<1>11. CASE UNCHANGED vars
  BY <1>11 DEF vars, Rests
<1> QED
  BY <1>1, <1>2, <1>3, <1>4, <1>5, <1>6, <1>7, <1>8, <1>9, <1>10, <1>11 DEF Next, AllDone

\* Hence every action keeps the invariant on the tickets.
LEMMA TicketsStep ==
  ASSUME TypeOK, Tickets, Control, [Next]_vars
  PROVE  Tickets'
<1>1. ASSUME NEW d \in Dispatch, Draws(d) PROVE Tickets'
  BY <1>1, AcquireKeepsTickets DEF Draws
<1>2. ASSUME NEW d \in Dispatch, Takes(d) PROVE Tickets'
  BY <1>2, TakeHoldKeepsTickets DEF Takes
<1>3. ASSUME NEW d \in Dispatch, Releases(d) PROVE Tickets'
  BY <1>3, ReleaseKeepsTickets DEF Releases
<1>4. CASE Rests
  BY <1>4, IdleKeepsTickets DEF Rests
<1> QED BY <1>1, <1>2, <1>3, <1>4, StepOnQueue

\* The runtime starts with an empty queue.
LEMMA InitInductive == ASSUME QueueAssumption, Init PROVE IInv
<1> USE DEF Init
<1>1. TypeOK BY DEF TypeOK, PC, Phase, Kind
<1>2. Tickets BY DEF Tickets, WantOK, HeldOK, WantDistinct, OneHolder
<1>3. Control BY DEF Control, AtRest, AwayOK, Away, AllOff
<1> QED BY <1>1, <1>2, <1>3 DEF IInv

(***************************************************************************)
(* The invariant the arguments below rest on is inductive, for every set   *)
(* of dispatches and whatever batches the kernel asks for.                 *)
(***************************************************************************)
THEOREM Inductive == Spec => []IInv
<1>1. Init => IInv
  BY InitInductive, QueueAssumption
<1>2. IInv /\ [Next]_vars => IInv'
  BY TypeStep, TicketsStep, ControlStep, QueueAssumption DEF IInv, Tickets
<1> QED BY <1>1, <1>2, PTL DEF Spec

(***************************************************************************)
(* Every variable keeps its type; in particular only links of the promise  *)
(* chain that exist are ever released.                                     *)
(***************************************************************************)
THEOREM TypeCorrect == Spec => []TypeOK
<1>1. IInv => TypeOK
  BY DEF IInv
<1> QED BY <1>1, Inductive, PTL

(***************************************************************************)
(* OrbitalServerRuntime evaluates one dispatch at a time: no interleaving  *)
(* of requests, nested dispatches, service calls and failing asks lets two *)
(* evaluations start from the same held trait state.                       *)
(***************************************************************************)
THEOREM MutualExclusion == Spec => []EvaluationExclusive
<1>1. IInv => EvaluationExclusive
  BY DEF IInv, Tickets, OneHolder, Control, AtRest, EvaluationExclusive
<1> QED BY <1>1, Inductive, PTL
-----------------------------------------------------------------------------
(***************************************************************************)
(* What a dispatch leaves behind when it ends, and whom it keeps waiting.  *)
(* Both depend on what the kernel puts into one batch; the conditions are  *)
(* those of SingleCallBatches that the arguments need.                     *)
(***************************************************************************)
\* A service call is never asked beside an ask whose answer may reject.
NoRejectBesideCall ==
  \A b \in Batches : \A s, t \in Slot : ~(b[s] = "call" /\ b[t] = "os")

\* One service call to a batch, and no agent port.
LoneCalls ==
  \A b \in Batches : \A s, t \in Slot :
    b[s] \in DispatchesBack /\ b[t] \in DispatchesBack => s = t /\ b[s] = "call"

\* The batches of the run are such batches.
LEMMA SingleCallBatchesMeetBoth ==
  ASSUME Batches = SingleCallBatches
  PROVE  NoRejectBesideCall /\ LoneCalls
BY DEF SingleCallBatches, NoRejectBesideCall, LoneCalls, DispatchesBack

\* Only calls go away, and a dispatch that is over has none away.
Leaves ==
  \A d \in Dispatch :
    /\ pc[d] = "awaiting" => ask[d] \in Batches
    /\ \A s \in Slot : Away(d, s) => ask[d][s] = "call"
    /\ pc[d] = "done" => ~held[d] /\ want[d] = 0 /\ \A s \in Slot : ~Away(d, s)

\* Leaves, action by action.
LEMMA LeavesStep ==
  ASSUME NoRejectBesideCall, IInv, Leaves, [Next]_vars
  PROVE  Leaves'
<1> USE DEF IInv, TypeOK, Leaves, Away
<1>1. ASSUME NEW d \in Dispatch, Arrive(d) PROVE Leaves'
  BY <1>1 DEF Arrive, Acquire
<1>2. ASSUME NEW d \in Dispatch, NEW p \in Dispatch, NEW s \in Slot, ArriveFrom(d, p, s)
      PROVE Leaves'
  BY <1>2 DEF ArriveFrom, Acquire
<1>3. ASSUME NEW d \in Dispatch, Start(d) PROVE Leaves'
  BY <1>3 DEF Start, TakeHold
<1>4. ASSUME NEW d \in Dispatch, Ask(d) PROVE Leaves'
  <2> PICK batch \in Batches : \E first \in Releasing(d, batch) : AskBatch(d, batch, first)
    BY <1>4 DEF Ask
  <2>1. PICK first \in Releasing(d, batch) : AskBatch(d, batch, first)
    OBVIOUS
  <2>2. \A s \in first : batch[s] = "call"
    BY DEF Releasing, Calls
  <2>3. \A s \in Slot : Away(d, s)' => s \in first
    BY <2>1 DEF AskBatch
  <2>4. /\ pc'[d] = "awaiting" /\ ask'[d] = batch /\ want' = want
        /\ \A e \in Dispatch \ {d} : /\ pc'[e] = pc[e] /\ ask'[e] = ask[e]
                                     /\ phase'[e] = phase[e] /\ held'[e] = held[e]
    BY <2>1 DEF AskBatch, ReleaseIfHeld
  <2> QED BY <2>2, <2>3, <2>4
<1>5. ASSUME NEW d \in Dispatch, NEW s \in Slot, Answer(d, s) PROVE Leaves'
  BY <1>5 DEF Answer
<1>6. ASSUME NEW d \in Dispatch, NEW s \in Slot, Settle(d, s) PROVE Leaves'
  BY <1>6 DEF Settle, Acquire
<1>7. ASSUME NEW d \in Dispatch, NEW s \in Slot, Reacquire(d, s) PROVE Leaves'
  BY <1>7 DEF Reacquire, TakeHold
<1>8. ASSUME NEW d \in Dispatch, NEW s \in Slot, Reject(d, s) PROVE Leaves'
  <2>1. ask[d] \in Batches /\ ask[d][s] = "os" /\ pc[d] = "awaiting"
    BY <1>8 DEF Reject
  <2>2. \A t \in Slot : ~Away(d, t)
    BY <2>1 DEF NoRejectBesideCall
  <2>3. held[d] /\ want[d] = 0
    BY <2>1, <2>2 DEF Control, AtRest, Tickets, WantOK
  <2> QED BY <1>8, <2>2, <2>3 DEF Reject, ReleaseIfHeld
<1>9. ASSUME NEW d \in Dispatch, Resume(d) PROVE Leaves'
  BY <1>9 DEF Resume
<1>10. ASSUME NEW d \in Dispatch, Finish(d) PROVE Leaves'
  <2>1. held[d] /\ want[d] = 0 /\ AllOff(d)
    BY <1>10 DEF Finish, Control, AtRest, Tickets, WantOK
  <2> QED BY <1>10, <2>1 DEF Finish, ReleaseIfHeld, AllOff
<1>11. CASE UNCHANGED vars
  BY <1>11 DEF vars
<1> QED
  BY <1>1, <1>2, <1>3, <1>4, <1>5, <1>6, <1>7, <1>8, <1>9, <1>10, <1>11 DEF Next, AllDone

(***************************************************************************)
(* A dispatch that was answered, or failed, holds the queue no more and    *)
(* waits for no ticket of it, as long as no ask that may reject stands     *)
(* beside a service call in one batch: the one condition that this needs.  *)
(***************************************************************************)
THEOREM NoHoldOutlives ==
  ASSUME NoRejectBesideCall
  PROVE  Spec => []NoHoldOutlivesItsDispatch
<1>1. Init => Leaves
  BY DEF Init, Leaves, Away
<1>2. IInv /\ Leaves /\ [Next]_vars => Leaves'
  BY LeavesStep
<1>3. Leaves => NoHoldOutlivesItsDispatch
  BY DEF Leaves, NoHoldOutlivesItsDispatch
<1> QED BY <1>1, <1>2, <1>3, Inductive, PTL DEF Spec
-----------------------------------------------------------------------------
\* While a provider awaits a dispatch it made, its ask is the one that is away.
ChildrenOfTheAway ==
  \A d \in Dispatch :
    /\ pc[d] = "idle" => caller[d] = NoCaller
    /\ \A s \in Slot : phase[d][s] = "running" => ask[d][s] \notin DispatchesBack
    /\ \A p \in Dispatch : \A s \in Slot :
         caller[d] = <<p, s>> /\ pc[d] # "done" => phase[p][s] = "outside"

\* A step that changes no ask leaves the children where they are.
LEMMA SameAsks ==
  ASSUME ChildrenOfTheAway, UNCHANGED <<caller, ask, phase>>, TypeOK,
         \A d \in Dispatch : (pc'[d] = "idle" => pc[d] = "idle")
                             /\ (pc'[d] # "done" => pc[d] # "done")
  PROVE  ChildrenOfTheAway'
BY DEF ChildrenOfTheAway

\* ChildrenOfTheAway, action by action.
LEMMA ChildrenStep ==
  ASSUME QueueAssumption, LoneCalls, IInv, ChildrenOfTheAway, [Next]_vars
  PROVE  ChildrenOfTheAway'
<1> USE DEF IInv, TypeOK
<1>1. ASSUME NEW d \in Dispatch, Arrive(d) PROVE ChildrenOfTheAway'
  BY <1>1, SameAsks DEF Arrive
<1>2. ASSUME NEW d \in Dispatch, NEW p \in Dispatch, NEW s \in Slot, ArriveFrom(d, p, s)
      PROVE ChildrenOfTheAway'
  <2>1. phase[p][s] = "outside"
    BY <1>2 DEF ArriveFrom, Running, ChildrenOfTheAway
  <2>2. /\ pc' = [pc EXCEPT ![d] = "acquiring"] /\ caller' = [caller EXCEPT ![d] = <<p, s>>]
        /\ ask' = ask /\ phase' = phase
    BY <1>2 DEF ArriveFrom
  <2>3. ASSUME NEW e \in Dispatch, NEW q \in Dispatch, NEW t \in Slot,
               caller'[e] = <<q, t>>, pc'[e] # "done"
        PROVE  phase'[q][t] = "outside"
    <3>1. CASE e = d BY <2>1, <2>2, <2>3, <3>1
    <3>2. CASE e # d BY <2>2, <2>3, <3>2 DEF ChildrenOfTheAway
    <3> QED BY <3>1, <3>2
  <2>4. \A e \in Dispatch : pc'[e] = "idle" => caller'[e] = NoCaller
    BY <2>2 DEF ChildrenOfTheAway
  <2>5. \A e \in Dispatch : \A t \in Slot :
          phase'[e][t] = "running" => ask'[e][t] \notin DispatchesBack
    BY <2>2 DEF ChildrenOfTheAway
  <2> QED BY <2>3, <2>4, <2>5 DEF ChildrenOfTheAway
<1>3. ASSUME NEW d \in Dispatch, Start(d) PROVE ChildrenOfTheAway'
  BY <1>3, SameAsks DEF Start
<1>4. ASSUME NEW d \in Dispatch, Ask(d) PROVE ChildrenOfTheAway'
  <2> PICK batch \in Batches : \E first \in Releasing(d, batch) : AskBatch(d, batch, first)
    BY <1>4 DEF Ask
  <2>1. PICK first \in Releasing(d, batch) : AskBatch(d, batch, first)
    OBVIOUS
  <2>2. held[d] /\ AllOff(d)
    BY <2>1 DEF AskBatch, Control, AtRest
  <2>3. \A s \in Slot : batch[s] \in DispatchesBack => s \in first
    BY <2>2 DEF LoneCalls, Releasing, Calls, DispatchesBack
  <2>4. \A s \in Slot : phase'[d][s] = "running" => s \notin first
    BY <2>1 DEF AskBatch
  <2>5. /\ ask'[d] = batch /\ caller' = caller
        /\ pc[d] = "evaluating" /\ pc'[d] = "awaiting"
        /\ \A e \in Dispatch \ {d} : /\ pc'[e] = pc[e] /\ ask'[e] = ask[e]
                                     /\ phase'[e] = phase[e]
    BY <2>1 DEF AskBatch
  <2>6. ASSUME NEW e \in Dispatch, NEW s \in Slot, phase'[e][s] = "running"
        PROVE  ask'[e][s] \notin DispatchesBack
    <3>1. CASE e = d BY <2>3, <2>4, <2>5, <2>6, <3>1
    <3>2. CASE e # d BY <2>5, <2>6, <3>2 DEF ChildrenOfTheAway
    <3> QED BY <3>1, <3>2
  <2>7. ASSUME NEW e \in Dispatch, NEW q \in Dispatch, NEW t \in Slot,
               caller'[e] = <<q, t>>, pc'[e] # "done"
        PROVE  phase'[q][t] = "outside"
    <3>1. pc[e] # "done" /\ phase[q][t] = "outside"
      BY <2>5, <2>7 DEF ChildrenOfTheAway
    <3>2. q # d BY <2>2, <3>1 DEF AllOff
    <3> QED BY <2>5, <3>1, <3>2
  <2>8. \A e \in Dispatch : pc'[e] = "idle" => caller'[e] = NoCaller
    BY <2>5 DEF ChildrenOfTheAway
  <2> QED BY <2>6, <2>7, <2>8 DEF ChildrenOfTheAway
<1>5. ASSUME NEW d \in Dispatch, NEW s \in Slot, Answer(d, s) PROVE ChildrenOfTheAway'
  BY <1>5 DEF Answer, ChildrenOfTheAway
<1>6. ASSUME NEW d \in Dispatch, NEW s \in Slot, Settle(d, s) PROVE ChildrenOfTheAway'
  <2>1. /\ phase' = [phase EXCEPT ![d][s] = "reacquiring"]
        /\ UNCHANGED <<pc, caller, ask>> /\ ~AwaitsChild(d, s)
    BY <1>6 DEF Settle
  <2>2. ASSUME NEW e \in Dispatch, NEW q \in Dispatch, NEW t \in Slot,
               caller[e] = <<q, t>>, pc[e] # "done"
        PROVE  phase'[q][t] = "outside"
    <3>1. phase[q][t] = "outside"
      BY <2>2 DEF ChildrenOfTheAway
    <3>2. <<q, t>> # <<d, s>>
      BY <2>1, <2>2 DEF AwaitsChild
    <3> QED BY <2>1, <3>1, <3>2
  <2>3. \A e \in Dispatch : \A t \in Slot :
          phase'[e][t] = "running" => ask[e][t] \notin DispatchesBack
    BY <2>1 DEF ChildrenOfTheAway
  <2> QED BY <2>1, <2>2, <2>3 DEF ChildrenOfTheAway
<1>7. ASSUME NEW d \in Dispatch, NEW s \in Slot, Reacquire(d, s) PROVE ChildrenOfTheAway'
  <2>1. /\ phase[d][s] = "reacquiring" /\ phase' = [phase EXCEPT ![d][s] = "answered"]
        /\ UNCHANGED <<pc, caller, ask>>
    BY <1>7 DEF Reacquire
  <2> QED BY <2>1 DEF ChildrenOfTheAway
<1>8. ASSUME NEW d \in Dispatch, NEW s \in Slot, Reject(d, s) PROVE ChildrenOfTheAway'
  <2>1. /\ phase[d][s] = "running" /\ phase' = [phase EXCEPT ![d][s] = "answered"]
        /\ pc[d] = "awaiting" /\ pc' = [pc EXCEPT ![d] = "done"]
        /\ UNCHANGED <<caller, ask>>
    BY <1>8 DEF Reject
  <2> QED BY <2>1 DEF ChildrenOfTheAway
<1>9. ASSUME NEW d \in Dispatch, Resume(d) PROVE ChildrenOfTheAway'
  <2>1. /\ \A s \in Slot : phase[d][s] \in {"off", "answered"}
        /\ pc' = [pc EXCEPT ![d] = "evaluating"] /\ caller' = caller
        /\ pc[d] = "awaiting"
        /\ \A s \in Slot : phase'[d][s] = "off"
        /\ \A e \in Dispatch \ {d} : ask'[e] = ask[e] /\ phase'[e] = phase[e]
    BY <1>9 DEF Resume
  <2>2. ASSUME NEW e \in Dispatch, NEW s \in Slot, phase'[e][s] = "running"
        PROVE  ask'[e][s] \notin DispatchesBack
    BY <2>1, <2>2 DEF ChildrenOfTheAway
  <2>3. ASSUME NEW e \in Dispatch, NEW q \in Dispatch, NEW t \in Slot,
               caller'[e] = <<q, t>>, pc'[e] # "done"
        PROVE  phase'[q][t] = "outside"
    <3>1. phase[q][t] = "outside" BY <2>1, <2>3 DEF ChildrenOfTheAway
    <3> QED BY <2>1, <3>1
  <2>4. \A e \in Dispatch : pc'[e] = "idle" => caller'[e] = NoCaller
    BY <2>1 DEF ChildrenOfTheAway
  <2> QED BY <2>2, <2>3, <2>4 DEF ChildrenOfTheAway
<1>10. ASSUME NEW d \in Dispatch, Finish(d) PROVE ChildrenOfTheAway'
  BY <1>10, SameAsks DEF Finish
<1>11. CASE UNCHANGED vars
  BY <1>11, SameAsks DEF vars
<1> QED
  BY <1>1, <1>2, <1>3, <1>4, <1>5, <1>6, <1>7, <1>8, <1>9, <1>10, <1>11 DEF Next, AllDone

(***************************************************************************)
(* A dispatch that a provider makes and awaits finds the queue given back  *)
(* by the dispatch that asked the provider, if a batch has one service     *)
(* call at most and no agent port (agent ports do make it wait for ever:   *)
(* the run event_queue_agent).                                             *)
(***************************************************************************)
THEOREM ProvidersDoNotWaitOnCallers ==
  ASSUME LoneCalls
  PROVE  Spec => []NoDispatchWaitsOnItsCaller
<1>1. Init => ChildrenOfTheAway
  BY QueueAssumption DEF Init, ChildrenOfTheAway, QueueAssumption
<1>2. IInv /\ ChildrenOfTheAway /\ [Next]_vars => ChildrenOfTheAway'
  BY ChildrenStep, QueueAssumption
<1>3. IInv /\ ChildrenOfTheAway => NoDispatchWaitsOnItsCaller
  BY DEF IInv, Control, AwayOK, ChildrenOfTheAway, NoDispatchWaitsOnItsCaller
<1> QED BY <1>1, <1>2, <1>3, Inductive, PTL DEF Spec
-----------------------------------------------------------------------------
\* Joining the chain draws a ticket of the abstract lock.
LEMMA DrawIsDraw ==
  ASSUME TypeOK, NEW d \in Dispatch, Draws(d)
  PROVE  Lock!Draw
<1> USE DEF TypeOK, Draws, Acquire
<1>1. Holder' = Holder
  BY DEF Holder
<1>2. Waiting' = Waiting \cup {issued + 1}
  <2>1. \A e \in Dispatch : want'[e] = IF e = d THEN issued + 1 ELSE want[e]
    OBVIOUS
  <2> QED BY <2>1 DEF Waiting
<1> QED BY <1>1, <1>2 DEF Lock!Draw

\* Taking the hold is the grant of the oldest ticket.
LEMMA TakeIsGrant ==
  ASSUME TypeOK, Tickets, NEW d \in Dispatch, Takes(d)
  PROVE  Lock!Grant
<1> USE DEF TypeOK, Takes, TakeHold
<1>1. \A e \in Dispatch : ~held[e]
  BY TakeHoldKeepsTickets
<1>2. Holder = {}
  BY <1>1 DEF Holder
<1>3. want[d] \in Waiting
  BY DEF Waiting
<1>4. \A u \in Waiting : want[d] <= u
  <2> SUFFICES ASSUME NEW e \in Dispatch, want[e] # 0, want[e] < want[d] PROVE FALSE
    BY DEF Waiting
  <2>1. want[e] \in 1 .. (want[d] - 1)
    OBVIOUS
  <2> QED BY <2>1 DEF Served, Tickets, WantOK
<1>5. Holder' = {want[d]}
  <2>1. \A e \in Dispatch : held'[e] <=> e = d
    BY <1>1
  <2>2. mine'[d] = want[d]
    OBVIOUS
  <2> QED BY <2>1, <2>2 DEF Holder
<1>6. Waiting' = Waiting \ {want[d]}
  <2>1. \A e \in Dispatch : want'[e] = IF e = d THEN 0 ELSE want[e]
    OBVIOUS
  <2>2. \A e \in Dispatch : want[e] = want[d] => e = d
    BY DEF Tickets, WantDistinct
  <2> QED BY <2>1, <2>2 DEF Waiting
<1> QED BY <1>2, <1>3, <1>4, <1>5, <1>6 DEF Lock!Grant

\* A release gives the lock up, or does nothing when the hold was away.
LEMMA ReleaseIsRelease ==
  ASSUME TypeOK, Tickets, NEW d \in Dispatch, Releases(d)
  PROVE  Lock!Release \/ UNCHANGED Lock!vars
<1> USE DEF TypeOK, Releases, ReleaseIfHeld
<1>1. Waiting' = Waiting
  BY DEF Waiting
<1>2. CASE held[d]
  <2>1. Holder # {}
    BY <1>2 DEF Holder
  <2>2. \A e \in Dispatch : ~held'[e]
    BY <1>2 DEF Tickets, OneHolder
  <2>3. Holder' = {}
    BY <2>2 DEF Holder
  <2> QED BY <1>1, <2>1, <2>3 DEF Lock!Release
<1>3. CASE ~held[d]
  <2>1. held' = held
    BY <1>3
  <2> QED BY <1>1, <2>1 DEF Holder, Lock!vars
<1> QED BY <1>2, <1>3

(***************************************************************************)
(* The promise chain implements the first-in-first-out lock: a ticket is   *)
(* granted only when it is the oldest one and nobody holds the queue, for  *)
(* the re-acquisitions after a service call as for the first acquisition.  *)
(***************************************************************************)
THEOREM ImplementsFifoLock == Spec => QueueIsFifoLock
<1>1. Init => Lock!Init
  BY DEF Init, Lock!Init, Waiting, Holder
<1>2. IInv /\ [Next]_vars => [Lock!Next]_(Lock!vars)
  <2> SUFFICES ASSUME IInv, [Next]_vars PROVE [Lock!Next]_(Lock!vars)
    OBVIOUS
  <2>1. ASSUME NEW d \in Dispatch, Draws(d) PROVE Lock!Next
    BY <2>1, DrawIsDraw DEF IInv, Lock!Next
  <2>2. ASSUME NEW d \in Dispatch, Takes(d) PROVE Lock!Next
    BY <2>2, TakeIsGrant DEF IInv, Lock!Next
  <2>3. ASSUME NEW d \in Dispatch, Releases(d) PROVE Lock!Next \/ UNCHANGED Lock!vars
    BY <2>3, ReleaseIsRelease DEF IInv, Lock!Next
  <2>4. CASE Rests
    BY <2>4 DEF Rests, Waiting, Holder, Lock!vars
  <2> QED BY <2>1, <2>2, <2>3, <2>4, StepOnQueue DEF IInv
<1> QED BY <1>1, <1>2, Inductive, PTL DEF Spec, Lock!Spec, QueueIsFifoLock
=============================================================================
