--------------------------- MODULE MCCallsProofs ---------------------------
(***************************************************************************)
(* The safety properties of MCCalls, proved for any sizes of its parts.    *)
(*                                                                         *)
(* A behaviour of MCCalls is, to each of its parts, a behaviour of that    *)
(* part or one in which it rests.  Each part has an invariant of its own   *)
(* here, and one lemma for each of the steps it must survive.  That of     *)
(* kernel/http-exchange.ts says during which awaits a body is locked and a *)
(* timeout can be running; the timeout is put away before the driver is    *)
(* resumed, which is why nothing is sent for an ask that is over.          *)
(***************************************************************************)
EXTENDS MCCalls, FiniteSetTheorems, TLAPS

-----------------------------------------------------------------------------
(***************************************************************************)
(* The calls in flight.  cancel-call finds the calls of a key through the  *)
(* set the key holds.  That set is dropped by a cancel and by the last     *)
(* call that leaves it, and the next call of the key begins a new one, so  *)
(* a key sees several sets with calls still running in the older ones.     *)
(* The invariant says that a set never serves two keys, and that only      *)
(* calls that were cancelled stay in a set their key has let go.           *)
(***************************************************************************)

\* The types that need no bound.
FlightTyped ==
  /\ callCallState \in [Calls -> {"new", "running", "settling", "over"}]
  /\ callKeyOf \in [Calls -> Keys \cup {NoKey}]
  /\ callTable \in [Keys -> Nat] /\ callInSet \in [Calls -> Nat]
  /\ callAborted \subseteq Calls
  /\ callResult \in [Calls -> {"none", "value", "error"}]
  /\ callOutcome \in [Calls -> {"none", "success", "failure", "cancelled"}]
  /\ callSets \in Nat /\ callCancels \in Nat

\* A call is in a set of its key from its start to its end.
FlightMembers == \A c \in Calls : callInSet[c] # 0 =>
  /\ callCallState[c] \in {"running", "settling"}
  /\ callKeyOf[c] \in Keys \ {NoKey}
  /\ callInSet[c] <= callSets

\* A set is made for one key.
FlightKeys ==
  /\ \A k \in Keys : callTable[k] <= callSets
  /\ \A k, l \in Keys : callTable[k] = callTable[l] /\ callTable[k] # 0 => k = l
  /\ \A c \in Calls, k \in Keys : callInSet[c] # 0 /\ callInSet[c] = callTable[k] => callKeyOf[c] = k
  /\ \A c, d \in Calls : callInSet[c] # 0 /\ callInSet[c] = callInSet[d] => callKeyOf[c] = callKeyOf[d]

\* Who runs unaborted, or has just settled, is found under its key.
FlightReachable == \A c \in Calls :
  callCallState[c] \in {"running", "settling"} /\ callKeyOf[c] # NoKey /\ c \notin callAborted =>
    callInSet[c] # 0 /\ callInSet[c] = callTable[callKeyOf[c]]

\* What was aborted was in a set and is told so.
FlightCancelled == \A c \in Calls :
  /\ c \in callAborted => callCallState[c] # "new"
  /\ callCallState[c] = "over" => (callOutcome[c] = "cancelled" <=> c \in callAborted)

FlightInv == FlightTyped /\ FlightMembers /\ FlightKeys /\ FlightReachable /\ FlightCancelled

-----------------------------------------------------------------------------
(***************************************************************************)
(* FlightInv is inductive.                                                      *)
(***************************************************************************)
LEMMA FlightInit == Init => FlightInv
BY DEF Init, Flights!Init, FlightInv, FlightTyped, FlightMembers, FlightKeys, FlightReachable, FlightCancelled

\* A new set is one nobody is in; a set that is held belongs to the key.
LEMMA FlightStart ==
  ASSUME FlightInv, NEW c \in Calls, NEW key \in Keys \cup {NoKey}, Flights!Start(c, key)
  PROVE  FlightInv'
<1> USE DEF FlightInv, FlightTyped, Flights!Start
<1>1. FlightTyped'
  OBVIOUS
<1>2. CASE key = NoKey
  <2>1. UNCHANGED <<callTable, callInSet, callSets, callAborted, callOutcome>>
    BY <1>2
  <2>2. callInSet[c] = 0
    BY DEF FlightMembers
  <2>3. FlightMembers'
    BY <2>1, <2>2 DEF FlightMembers
  <2>4. FlightKeys'
    BY <2>1, <2>2 DEF FlightKeys
  <2>5. FlightReachable'
    BY <2>1, <1>2 DEF FlightReachable
  <2>6. FlightCancelled'
    BY <2>1 DEF FlightCancelled
  <2> QED BY <1>1, <2>3, <2>4, <2>5, <2>6
<1>3. CASE key # NoKey
  <2> DEFINE s == IF callTable[key] = 0 THEN callSets + 1 ELSE callTable[key]
  <2>1. /\ key \in Keys /\ s \in Nat \ {0} /\ s <= callSets' /\ callSets <= callSets'
        /\ callTable' = [callTable EXCEPT ![key] = s]
        /\ callInSet' = [callInSet EXCEPT ![c] = s]
        /\ UNCHANGED <<callAborted, callOutcome>>
    BY <1>3 DEF FlightKeys
  <2>2. callInSet[c] = 0
    BY DEF FlightMembers
  <2>3. FlightMembers'
    BY <1>3, <2>1 DEF FlightMembers
  <2>4. /\ \A d \in Calls : callInSet[d] = s => callKeyOf[d] = key
        /\ \A k \in Keys : callTable[k] = s => k = key
    <3>1. CASE callTable[key] = 0
      <4>1. \A d \in Calls : callInSet[d] = 0 \/ callInSet[d] <= callSets
        BY DEF FlightMembers
      <4>2. \A k \in Keys : callTable[k] <= callSets
        BY DEF FlightKeys
      <4>3. /\ \A d \in Calls : callInSet[d] # s
            /\ \A k \in Keys : callTable[k] # s
        BY <3>1, <4>1, <4>2
      <4> QED BY <4>3
    <3>2. CASE callTable[key] # 0
      BY <2>1, <3>2 DEF FlightKeys
    <3> QED BY <3>1, <3>2
  <2>6. FlightKeys'
    BY <2>1, <2>2, <2>4 DEF FlightKeys
  <2>7. FlightReachable'
    BY <1>3, <2>1 DEF FlightReachable
  <2>8. FlightCancelled'
    BY <2>1 DEF FlightCancelled
  <2> QED BY <1>1, <2>3, <2>6, <2>7, <2>8
<1> QED BY <1>2, <1>3

\* A provider's answer touches neither sets nor keys.
LEMMA FlightWork ==
  ASSUME FlightInv, NEW c \in Calls,
         Flights!WorkSettles(c) \/ \E r \in {"value", "error"} : Flights!ProviderAnswers(c, r)
  PROVE  FlightInv'
<1>1. FlightTyped'
  BY DEF FlightInv, FlightTyped, Flights!WorkSettles, Flights!ProviderAnswers
<1>2. /\ UNCHANGED <<callKeyOf, callTable, callInSet, callAborted, callOutcome, callSets>>
      /\ \A d \in Calls : callCallState'[d] # callCallState[d] =>
                           callCallState[d] = "running" /\ callCallState'[d] = "settling"
  BY DEF FlightInv, FlightTyped, Flights!WorkSettles, Flights!ProviderAnswers
<1> QED BY <1>1, <1>2 DEF FlightInv, FlightMembers, FlightKeys, FlightReachable, FlightCancelled

\* A key is let go when nobody else is in its set.
LEMMA FlightConclude ==
  ASSUME FlightInv, NEW c \in Calls, Flights!Conclude(c)
  PROVE  FlightInv'
<1> USE DEF FlightInv, FlightTyped, Flights!Conclude, Flights!Leave
<1>1. FlightTyped'
  BY DEF Flights!Concluded
<1>2. /\ \A d \in Calls \ {c} : callInSet'[d] = callInSet[d]
      /\ callInSet'[c] = 0
      /\ \A k \in Keys : callTable'[k] # callTable[k] =>
           /\ callTable'[k] = 0 /\ k = callKeyOf[c] /\ k # NoKey /\ callTable[k] = callInSet[c]
           /\ \A d \in Calls \ {c} : callInSet[d] # callInSet[c]
      /\ UNCHANGED <<callSets, callAborted, callKeyOf>>
  BY DEF FlightMembers
<1>3. FlightMembers'
  BY <1>2 DEF FlightMembers
<1>4. FlightKeys'
  BY <1>1, <1>2 DEF FlightKeys
<1>5. FlightReachable'
  BY <1>1, <1>2 DEF FlightReachable
<1>6. FlightCancelled'
  BY <1>2 DEF FlightCancelled, Flights!Concluded
<1> QED BY <1>1, <1>3, <1>4, <1>5, <1>6

\* Whoever is in the set that goes is aborted.
LEMMA FlightCancel ==
  ASSUME FlightInv, NEW key \in Keys, Flights!Cancel(key)
  PROVE  FlightInv'
<1> USE DEF FlightInv, FlightTyped, Flights!Cancel
<1>1. FlightTyped'
  OBVIOUS
<1>2. FlightMembers'
  BY DEF FlightMembers
<1>3. FlightKeys'
  BY DEF FlightKeys
<1>4. FlightReachable'
  BY DEF FlightReachable, FlightKeys
<1>5. FlightCancelled'
  BY DEF FlightCancelled, FlightMembers
<1> QED BY <1>1, <1>2, <1>3, <1>4, <1>5

(***************************************************************************)
(* The strengthening: types, who is in which set, and what was aborted.    *)
(***************************************************************************)
THEOREM FlightInvariant == Spec => []FlightInv
<1>1. FlightInv /\ [Flights!Next]_callVars => FlightInv'
  <2> SUFFICES ASSUME FlightInv, [Flights!Next]_callVars
               PROVE  FlightInv'
    OBVIOUS
  <2>1. CASE UNCHANGED callVars
    BY <2>1 DEF FlightInv, FlightTyped, FlightMembers, FlightKeys, FlightReachable, FlightCancelled, callVars
  <2>2. CASE Flights!Next
    BY <2>2, FlightStart, FlightWork, FlightConclude, FlightCancel DEF Flights!Next
  <2> QED BY <2>1, <2>2
<1>2. [Next]_vars => [Flights!Next]_callVars
  BY DEF Next, Rest, vars
<1> QED BY <1>1, <1>2, FlightInit, PTL DEF Spec

(***************************************************************************)
(* Every variable keeps its type: a new set is made by a call that begins, *)
(* so there are no more sets than calls.                                   *)
(***************************************************************************)
THEOREM FlightTypes ==
  ASSUME IsFiniteSet(Calls), MaxCancels \in Nat
  PROVE  Spec => []Flights!TypeOK
<1> DEFINE Begun == {c \in Calls : callCallState[c] # "new"}
           Bounds == callSets <= Cardinality(Begun) /\ callCancels <= MaxCancels
<1>1. IsFiniteSet(Begun) /\ Cardinality(Begun) \in Nat /\ Cardinality(Begun) <= Cardinality(Calls)
      /\ Cardinality(Calls) \in Nat
  BY FS_Subset, FS_CardinalityType
<1>2. Init => Bounds
  BY FS_EmptySet DEF Init, Flights!Init
<1>3. FlightInv /\ Bounds /\ [Flights!Next]_callVars => Bounds'
  <2> SUFFICES ASSUME FlightInv, Bounds, [Flights!Next]_callVars
               PROVE  Bounds'
    OBVIOUS
  <2> USE DEF FlightInv, FlightTyped
  <2>1. ASSUME NEW c \in Calls, NEW key \in Keys \cup {NoKey}, Flights!Start(c, key)
        PROVE  Bounds'
    <3>1. Begun' = Begun \cup {c} /\ c \notin Begun
      BY <2>1 DEF Flights!Start
    <3>2. Cardinality(Begun') = Cardinality(Begun) + 1
      BY <1>1, <3>1, FS_AddElement
    <3>3. callSets' <= callSets + 1 /\ callCancels' = callCancels
      BY <2>1 DEF Flights!Start
    <3>4. callSets' \in Nat
      BY <2>1 DEF Flights!Start
    <3>5. callSets' <= Cardinality(Begun')
      BY <1>1, <3>2, <3>3, <3>4
    <3> QED BY <3>3, <3>5
  <2>2. ASSUME NEW c \in Calls,
               Flights!WorkSettles(c) \/ Flights!Conclude(c) \/ \E r \in {"value", "error"} : Flights!ProviderAnswers(c, r)
        PROVE  Bounds'
    <3>1. Begun' = Begun /\ UNCHANGED <<callSets, callCancels>>
      BY <2>2 DEF Flights!WorkSettles, Flights!Conclude, Flights!ProviderAnswers
    <3> QED BY <3>1
  <2>3. ASSUME NEW key \in Keys, Flights!Cancel(key)
        PROVE  Bounds'
    <3>1. Begun' = Begun /\ callSets' = callSets /\ callCancels' <= MaxCancels
      BY <2>3 DEF Flights!Cancel
    <3> QED BY <3>1
  <2>4. CASE UNCHANGED callVars
    BY <2>4 DEF callVars
  <2> QED BY <2>1, <2>2, <2>3, <2>4 DEF Flights!Next
<1>4. FlightInv /\ Bounds => Flights!TypeOK
  <2> SUFFICES ASSUME FlightInv, Bounds
               PROVE  Flights!TypeOK
    OBVIOUS
  <2>0. Flights!SetId = 0 .. Cardinality(Calls)
    BY DEF Flights!SetId, Flights!Cardinality, Cardinality
  <2>1. callSets \in Flights!SetId /\ callCancels \in 0 .. MaxCancels
    BY <1>1, <2>0 DEF FlightInv, FlightTyped
  <2>2. callTable \in [Keys -> Flights!SetId]
    BY <1>1, <2>0 DEF FlightInv, FlightTyped, FlightKeys
  <2>3. callInSet \in [Calls -> Flights!SetId]
    BY <1>1, <2>0 DEF FlightInv, FlightTyped, FlightMembers
  <2> QED BY <2>1, <2>2, <2>3 DEF FlightInv, FlightTyped, Flights!TypeOK
<1>5. [Next]_vars => [Flights!Next]_callVars
  BY DEF Next, Rest, vars
<1> QED BY <1>2, <1>3, <1>4, <1>5, FlightInvariant, FlightInit, PTL DEF Spec

(***************************************************************************)
(* A call that runs under a key and was not cancelled is in the set the    *)
(* key holds, so a cancel of the key reaches it.                           *)
(***************************************************************************)
THEOREM CancelReaches == Spec => []Flights!RunningIsCancellable
<1>1. FlightInv => Flights!RunningIsCancellable
  BY DEF FlightInv, FlightReachable, Flights!RunningIsCancellable
<1> QED BY <1>1, FlightInvariant, PTL

(***************************************************************************)
(* The app hears "cancelled" of a call exactly when it was cancelled       *)
(* before its work was concluded.                                          *)
(***************************************************************************)
THEOREM CancelledIsTold == Spec => []Flights!CancelledMeansCancelled
<1>1. FlightInv => Flights!CancelledMeansCancelled
  BY DEF FlightInv, FlightCancelled, Flights!CancelledMeansCancelled
<1> QED BY <1>1, FlightInvariant, PTL

-----------------------------------------------------------------------------
(***************************************************************************)
(* The message channel.  Its invariant says no more than what the view's   *)
(* end knows: nothing is assumed of what is on the way, so an answer may   *)
(* come late, twice or for a request that was never made.                  *)
(***************************************************************************)
\* The promises that wait are those of the pending requests; what was not asked
\* has the numbers that come next.
ChannelInv ==
  /\ MaxRequests \in Nat
  /\ chanNext \in Nat \ {0}
  /\ chanOutcome \in [Channel!Id -> {Channel!Unasked, Channel!Waiting, Channel!Lost, Channel!Forgotten}
                                    \cup {Channel!Answer(r) : r \in Channel!Id}]
  /\ chanPending \subseteq {r \in Channel!Id : chanOutcome[r] = Channel!Waiting}
  /\ \A r \in Channel!Id : chanOutcome[r] = Channel!Unasked <=> r >= chanNext

\* The ways a promise can stand differ from one another.
LEMMA ChannelDistinct ==
  /\ Channel!Unasked # Channel!Waiting /\ Channel!Unasked # Channel!Lost /\ Channel!Unasked # Channel!Forgotten
  /\ Channel!Waiting # Channel!Lost /\ Channel!Waiting # Channel!Forgotten /\ Channel!Lost # Channel!Forgotten
  /\ \A r : Channel!Answer(r) \notin {Channel!Unasked, Channel!Waiting, Channel!Lost, Channel!Forgotten}
BY DEF Channel!Unasked, Channel!Waiting, Channel!Lost, Channel!Forgotten, Channel!Answer

\* It is inductive.
LEMMA ChannelBegins ==
  ASSUME MaxRequests \in Nat, Channel!Init
  PROVE  ChannelInv
BY ChannelDistinct DEF Channel!Init, ChannelInv, Channel!Id

LEMMA ChannelSteps ==
  ASSUME ChannelInv, [Channel!Next]_chanVars
  PROVE  ChannelInv'
<1> USE DEF ChannelInv, Channel!Id
<1>1. ASSUME NEW kind, Channel!Request(kind)
      PROVE  ChannelInv'
  BY <1>1, ChannelDistinct DEF Channel!Request
<1>2. CASE Channel!Receive
  BY <1>2, ChannelDistinct DEF Channel!Receive, Channel!Settled
<1>3. CASE Channel!Close
  BY <1>3, ChannelDistinct DEF Channel!Close
<1>4. CASE Channel!Unregister
  BY <1>4, ChannelDistinct DEF Channel!Unregister
<1>5. CASE Channel!Arrive \/ Channel!ServeChannel \/ Channel!StopServing
         \/ (\E r \in Channel!Id : Channel!Reply(r)) \/ UNCHANGED chanVars
  <2>1. UNCHANGED <<chanNext, chanPending, chanOutcome>>
    BY <1>5 DEF Channel!Arrive, Channel!ServeChannel, Channel!StopServing, Channel!Reply, chanVars
  <2> QED BY <2>1
<1> QED BY <1>1, <1>2, <1>3, <1>4, <1>5 DEF Channel!Next

\* What a caller sees of its promises.
ChannelSeen == [r \in Channel!Id |-> IF chanOutcome[r] = Channel!Forgotten THEN Channel!Waiting ELSE chanOutcome[r]]

\* A request waits, or is lost at once on a channel known to be closed.
LEMMA RequestAsks ==
  ASSUME ChannelInv, NEW kind, Channel!Request(kind)
  PROVE  Channel!Promise!Next
<1> USE DEF ChannelInv, Channel!Id
<1>1. PICK n \in Channel!Id : n = chanNext
  BY DEF Channel!Request
<1> chanOutcome[n] = Channel!Unasked
  BY <1>1
<1>2. CASE chanClosed
  <2>1. chanOutcome' = [chanOutcome EXCEPT ![n] = Channel!Lost]
    BY <1>1, <1>2 DEF Channel!Request
  <2>2. Channel!Promise!Settle(n, Channel!Lost)
    BY <2>1, ChannelDistinct DEF Channel!Promise!Settle
  <2> QED BY <2>2 DEF Channel!Promise!Next
<1>3. CASE ~chanClosed
  <2>1. chanOutcome' = [chanOutcome EXCEPT ![n] = Channel!Waiting]
    BY <1>1, <1>3 DEF Channel!Request
  <2>2. Channel!Promise!Ask(n)
    BY <2>1, ChannelDistinct DEF Channel!Promise!Ask
  <2> QED BY <2>2 DEF Channel!Promise!Next
<1> QED BY <1>2, <1>3

\* A message that comes settles the promise of its own number, or nothing.
LEMMA ReceiveSettles ==
  ASSUME ChannelInv, Channel!Receive
  PROVE  Channel!Promise!Next \/ ChannelSeen' = ChannelSeen
<1> USE DEF ChannelInv, Channel!Id
<1>1. CASE Head(chanDown) \in chanPending
  <2>1. PICK r \in Channel!Id : r = Head(chanDown) /\ chanOutcome[r] = Channel!Waiting
    BY <1>1
  <2>2. chanOutcome' = [x \in Channel!Id |-> IF x = r THEN Channel!Answer(r) ELSE chanOutcome[x]]
    BY <1>1, <2>1 DEF Channel!Receive, Channel!Settled
  <2>3. Channel!Promise!Settle(r, Channel!Answer(r))
    BY <2>1, <2>2, ChannelDistinct DEF Channel!Promise!Settle
  <2> QED BY <2>3 DEF Channel!Promise!Next
<1>2. CASE Head(chanDown) \notin chanPending
  <2>1. chanOutcome' = chanOutcome
    BY <1>2 DEF Channel!Receive, Channel!Settled
  <2> QED BY <2>1 DEF ChannelSeen
<1> QED BY <1>1, <1>2

\* The closing loses what is pending, all at once.
LEMMA CloseLoses ==
  ASSUME ChannelInv, Channel!Close
  PROVE  Channel!Promise!Next
<1> USE DEF ChannelInv, Channel!Id
<1>1. PICK rs \in SUBSET Channel!Id : rs = chanPending
  OBVIOUS
<1>2. Channel!Promise!LoseAll(rs)
  BY <1>1, ChannelDistinct DEF Channel!Promise!LoseAll, Channel!Close
<1> QED BY <1>2 DEF Channel!Promise!Next

\* The steps of the host, and unregister, show a caller nothing.
LEMMA ChannelImplements ==
  ASSUME ChannelInv, [Channel!Next]_chanVars
  PROVE  Channel!Promise!Next \/ ChannelSeen' = ChannelSeen
<1>1. CASE Channel!Unregister
  BY <1>1, ChannelDistinct DEF ChannelInv, Channel!Id, Channel!Unregister, ChannelSeen
<1>2. CASE Channel!Arrive \/ Channel!ServeChannel \/ Channel!StopServing
         \/ (\E r \in Channel!Id : Channel!Reply(r)) \/ UNCHANGED chanVars
  <2>1. UNCHANGED chanOutcome
    BY <1>2 DEF Channel!Arrive, Channel!ServeChannel, Channel!StopServing, Channel!Reply, chanVars
  <2> QED BY <2>1 DEF ChannelSeen, Channel!Id
<1> QED BY <1>1, <1>2, RequestAsks, ReceiveSettles, CloseLoses DEF Channel!Next

\* However late the host serves and in whatever order answers come, a request settles once at most and with the
\* answer to itself, or with the news that the channel closed (channel-transport.ts): the channel implements the
\* promise of an event transport.
THEOREM AnswersOnce ==
  ASSUME MaxRequests \in Nat
  PROVE  Spec => Channel!AnswersItsOwn
<1>1. Init => Channel!Promise!Init /\ ChannelInv
  <2>1. Init => Channel!Init
    BY DEF Init
  <2>2. Channel!Init => Channel!Promise!Init
    BY ChannelDistinct DEF Channel!Init, Channel!Promise!Init, Channel!Id
  <2> QED BY <2>1, <2>2, ChannelBegins
<1>2. [Next]_vars => [Channel!Next]_chanVars
  BY DEF Next, Rest, vars
<1>3. ChannelInv /\ [Channel!Next]_chanVars => ChannelInv'
  BY ChannelSteps
<1>4. ChannelInv /\ [Channel!Next]_chanVars => [Channel!Promise!Next]_ChannelSeen
  BY ChannelImplements
<1> QED
  BY <1>1, <1>2, <1>3, <1>4, PTL DEF Spec, Channel!AnswersItsOwn, Channel!Promise!Spec, ChannelSeen

-----------------------------------------------------------------------------
\* Where a body is locked, a timeout runs, and a driver is outstanding.
HttpInv ==
  /\ httpReader = "open" => httpAt \in {"body", "publish"} /\ httpAsk = "httpStream"
  /\ Http!Ended => ~httpDriver
  /\ httpTimer # "none" => httpAt \in {"lookup", "fetch", "body", "publish"}
  /\ httpAt = "publish" => httpTimer # "fired"

\* Every await of the exchange, left by its answer, a cancel or the timeout.
LEMMA HttpStep ==
  ASSUME HttpInv, Http!Next
  PROVE  HttpInv'
<1> USE DEF HttpInv, Http!Ended
<1>1. CASE Http!Start \/ Http!KernelAsks \/ Http!KernelDone
  BY <1>1 DEF Http!Start, Http!KernelAsks, Http!KernelDone
<1>2. CASE Http!LocalAnswers \/ Http!ResumeThrows \/ Http!DelayPasses \/ Http!Dispatch
  BY <1>2 DEF Http!LocalAnswers, Http!ResumeThrows, Http!DelayPasses, Http!Dispatch, Http!Resume, Http!Throws
<1>3. CASE Http!LookupSettles \/ Http!FetchSettles \/ Http!BodySettles
  BY <1>3 DEF Http!LookupSettles, Http!FetchSettles, Http!BodySettles, Http!Send, Http!CatchAs, Http!Gone,
     Http!Resume, Http!Throws
<1>4. CASE Http!ChunkArrives \/ Http!Publish \/ Http!ChunkDone \/ Http!DeliverySettles
  BY <1>4 DEF Http!ChunkArrives, Http!Publish, Http!ChunkDone, Http!DeliverySettles, Http!CatchAs, Http!Gone,
     Http!Resume, Http!Throws
<1>5. CASE Http!Cancel \/ Http!TimeoutFires \/ Http!Finished
  BY <1>5 DEF Http!Cancel, Http!TimeoutFires, Http!Finished, Http!vars
<1> QED BY <1>1, <1>2, <1>3, <1>4, <1>5 DEF Http!Next, Http!Work

\* The exchange runs, or rests.
LEMMA HttpInvariant == Spec => []HttpInv
<1>1. Init => HttpInv
  BY DEF Init, Http!Init, HttpInv, Http!Ended
<1>2. HttpInv /\ [Next]_vars => HttpInv'
  <2> SUFFICES ASSUME HttpInv, [Next]_vars PROVE HttpInv'
    OBVIOUS
  <2>1. CASE Http!Next
    BY <2>1, HttpStep
  <2>2. CASE UNCHANGED httpVars
    BY <2>2 DEF httpVars, HttpInv, Http!Ended
  <2> QED BY <2>1, <2>2 DEF Next, Rest, vars
<1> QED BY <1>1, <1>2, PTL DEF Spec

-----------------------------------------------------------------------------
\* CancelSticks: a running call is in the set of its key, "cancelled" is said of the calls that were cancelled
\* and of no others (in-flight-calls.ts), and an exchange that ended, in whichever await or callback the cancel
\* fell, holds neither a driver of the kernel nor the lock of a body (http-exchange.ts).
THEOREM CancelsStick == Spec => []CancelSticks
<1>1. Flights!RunningIsCancellable /\ Flights!CancelledMeansCancelled /\ HttpInv => CancelSticks
  BY DEF CancelSticks, HttpInv, Http!NothingLeftOpen, Http!Ended
<1> QED BY <1>1, CancelReaches, CancelledIsTold, HttpInvariant, PTL

\* After a cancel or a timeout the exchange sends nothing and hands over nothing, and a cancel is no timeout.
LEMMA HttpQuiet == Spec => Http!QuietAfterCancel
<1> DEFINE Quiet ==
      /\ Http!Gone /\ httpTimer' = httpTimer => httpSent' = httpSent /\ httpHeard' = httpHeard
      /\ httpAborted => httpAnswer' = httpAnswer \/ httpAt = "local"
<1>1. ASSUME HttpInv, Http!Next PROVE Quiet
  <2> USE DEF HttpInv, Http!Gone
  <2>1. CASE Http!Start \/ Http!KernelAsks \/ Http!KernelDone
    BY <1>1, <2>1 DEF Http!Start, Http!KernelAsks, Http!KernelDone
  <2>2. CASE Http!LocalAnswers \/ Http!ResumeThrows \/ Http!DelayPasses \/ Http!Dispatch
    BY <1>1, <2>2 DEF Http!LocalAnswers, Http!ResumeThrows, Http!DelayPasses, Http!Dispatch, Http!Resume,
       Http!Throws
  <2>3. CASE Http!LookupSettles \/ Http!FetchSettles \/ Http!BodySettles
    BY <1>1, <2>3 DEF Http!LookupSettles, Http!FetchSettles, Http!BodySettles, Http!Send, Http!CatchAs,
       Http!Resume, Http!Throws
  <2>4. CASE Http!ChunkArrives \/ Http!Publish \/ Http!ChunkDone \/ Http!DeliverySettles
    BY <1>1, <2>4 DEF Http!ChunkArrives, Http!Publish, Http!ChunkDone, Http!DeliverySettles, Http!CatchAs,
       Http!Resume, Http!Throws
  <2>5. CASE Http!Cancel \/ Http!TimeoutFires \/ Http!Finished
    BY <1>1, <2>5 DEF Http!Cancel, Http!TimeoutFires, Http!Finished, Http!vars
  <2> QED BY <1>1, <2>1, <2>2, <2>3, <2>4, <2>5 DEF Http!Next, Http!Work
<1>2. HttpInv /\ [Next]_vars => [Quiet]_Http!vars
  <2> SUFFICES ASSUME HttpInv, [Next]_vars, ~(UNCHANGED Http!vars) PROVE Quiet
    OBVIOUS
  <2>1. Http!Next
    BY DEF Next, Rest, vars, httpVars, Http!vars
  <2> QED BY <1>1, <2>1
<1> QED BY <1>2, HttpInvariant, PTL DEF Spec, Http!QuietAfterCancel

\* NoLateAnswer: on the message channel an answer settles its own request, once, however late or out of order
\* (channel-transport.ts); a cancelled or timed-out exchange neither leaves the host nor hands its caller one
\* more event (http-exchange.ts).
THEOREM NoneIsLate ==
  ASSUME MaxRequests \in Nat
  PROVE  Spec => NoLateAnswer
BY AnswersOnce, HttpQuiet, PTL DEF NoLateAnswer

-----------------------------------------------------------------------------
(* The push channel. *)

\* What the parts of the channel range over.
PushFrame == [boot : Nat, n : Nat]
PushTyped ==
  /\ pushKey \in Push!Channel \cup {0}
  /\ pushPhase \in [Push!Channel -> {"none", "minting", "open", "broken", "dead", "closed"}]
  /\ pushSubs \in [Push!Channel -> SUBSET Subscribers]
  /\ pushTransit \in [Push!Channel -> Seq(PushFrame)]
  /\ pushLast \in PushFrame /\ pushBoot \in Nat /\ pushSent \in Nat
  /\ pushHeard \in [Subscribers -> Seq(PushFrame)]

\* Only the channel in the registry is in use, and frames are on the way to an open one only.
OneChannel ==
  \A c \in Push!Channel :
    /\ pushPhase[c] \in {"minting", "open", "broken"} \/ pushSubs[c] # {} => c = pushKey
    /\ pushTransit[c] # <<>> => pushPhase[c] = "open"

\* What is on the way are the latest frames of the boot, and none is missing between them and the last applied.
LatestFrames ==
  /\ pushLast.boot <= pushBoot
  /\ pushLast.boot = pushBoot => pushLast.n <= pushSent
  /\ \A c \in Push!Channel :
       /\ pushPhase[c] = "open" =>
            /\ Len(pushTransit[c]) <= pushSent
            /\ pushLast.boot = pushBoot /\ pushLast.n > 0 => pushSent - Len(pushTransit[c]) <= pushLast.n
       /\ \A i \in 1 .. Len(pushTransit[c]) :
            pushTransit[c][i].boot = pushBoot /\ pushTransit[c][i].n = (pushSent - Len(pushTransit[c])) + i

\* Whoever subscribes and has heard anything heard the last frame applied.
AllHearTheLast ==
  \A c \in Push!Channel : \A s \in pushSubs[c] :
    pushHeard[s] # <<>> => pushHeard[s][Len(pushHeard[s])] = pushLast /\ pushLast.n > 0

\* The invariant of the channel: what is on the way goes on where the subscribers are.
PushInv == PushTyped /\ OneChannel /\ LatestFrames /\ AllHearTheLast /\ Push!FramesInSequence

\* A subscriber joins the channel of the registry, or makes it.
LEMMA PushSubscribeStep ==
  ASSUME PushInv, NEW s \in Subscribers, Push!Subscribe(s)
  PROVE  PushInv'
<1> PICK c \in Push!Channel :
       /\ IF pushKey # 0 THEN c = pushKey ELSE pushPhase[c] = "none"
       /\ pushKey' = c
       /\ pushPhase' = [pushPhase EXCEPT ![c] = IF pushKey = 0 THEN "minting" ELSE @]
       /\ pushSubs' = [pushSubs EXCEPT ![c] = @ \cup {s}]
  BY DEF Push!Subscribe
<1>0. /\ \A b \in Push!Channel : s \notin pushSubs[b]
      /\ pushHeard' = [pushHeard EXCEPT ![s] = <<>>]
      /\ UNCHANGED <<pushTransit, pushLast, pushBoot, pushSent, pushFaults>>
  BY DEF Push!Subscribe
<1>1. PushTyped'
  BY <1>0 DEF PushInv, PushTyped
<1>2. OneChannel'
  BY <1>0 DEF PushInv, PushTyped, OneChannel, Push!Channel
<1>3. LatestFrames'
  BY <1>0 DEF PushInv, PushTyped, OneChannel, LatestFrames
<1>4. AllHearTheLast'
  BY <1>0 DEF PushInv, PushTyped, AllHearTheLast
<1>5. Push!FramesInSequence'
  BY <1>0 DEF PushInv, PushTyped, Push!FramesInSequence
<1> QED BY <1>1, <1>2, <1>3, <1>4, <1>5 DEF PushInv

\* The last subscriber to leave takes the channel along.
LEMMA PushUnsubscribeStep ==
  ASSUME PushInv, NEW c \in Push!Channel, NEW s \in Subscribers, Push!Unsubscribe(c, s)
  PROVE  PushInv'
<1>0. /\ s \in pushSubs[c] /\ pushSubs' = [pushSubs EXCEPT ![c] = @ \ {s}]
      /\ UNCHANGED <<pushLast, pushBoot, pushSent, pushHeard>>
  BY DEF Push!Unsubscribe
<1>3. AllHearTheLast' /\ Push!FramesInSequence'
  BY <1>0 DEF PushInv, PushTyped, AllHearTheLast, Push!FramesInSequence
<1>1. CASE pushSubs[c] = {s}
  <2>0. /\ pushPhase' = [pushPhase EXCEPT ![c] = "closed"]
        /\ pushTransit' = [pushTransit EXCEPT ![c] = <<>>]
        /\ pushKey' = 0 /\ pushKey = c
    BY <1>0, <1>1 DEF Push!Unsubscribe, PushInv, OneChannel
  <2>1. PushTyped'
    BY <1>0, <2>0 DEF PushInv, PushTyped
  <2>2. OneChannel'
    BY <1>0, <1>1, <2>0 DEF PushInv, PushTyped, OneChannel
  <2>3. LatestFrames'
    <3>1. pushPhase'[c] = "closed" /\ pushTransit'[c] = <<>>
      BY <2>0 DEF PushInv, PushTyped
    <3>2. \A b \in Push!Channel \ {c} : pushPhase'[b] = pushPhase[b] /\ pushTransit'[b] = pushTransit[b]
      BY <2>0 DEF PushInv, PushTyped
    <3> QED BY <1>0, <3>1, <3>2 DEF PushInv, LatestFrames
  <2> QED BY <1>0, <1>3, <2>1, <2>2, <2>3 DEF PushInv
<1>2. CASE pushSubs[c] # {s}
  <2>0. UNCHANGED <<pushPhase, pushTransit, pushKey>>
    BY <1>2 DEF Push!Unsubscribe
  <2> QED BY <1>0, <1>3, <2>0 DEF PushInv, PushTyped, OneChannel, LatestFrames
<1> QED BY <1>1, <1>2

\* An opened stream is given what the server still holds after the last frame, or what comes from now on.
LEMMA PushOpenStep ==
  ASSUME PushInv, NEW c \in Push!Channel, Push!Open(c)
  PROVE  PushInv'
<1>0. /\ pushPhase[c] = "minting" /\ pushPhase' = [pushPhase EXCEPT ![c] = "open"]
      /\ UNCHANGED <<pushKey, pushSubs, pushLast, pushBoot, pushSent, pushHeard>>
  BY DEF Push!Open
<1>1. \/ /\ pushLast.boot = pushBoot
         /\ \E from \in 0 .. pushLast.n : pushTransit' = [pushTransit EXCEPT ![c] = Push!FramesAfter(from)]
      \/ /\ ~(pushLast.boot = pushBoot /\ pushLast.n > 0)
         /\ pushTransit' = pushTransit
  BY DEF Push!Open, Push!NoFrame
<1>2. ASSUME NEW from \in 0 .. pushLast.n, pushLast.boot = pushBoot
      PROVE  LET t == Push!FramesAfter(from) IN
             /\ t \in Seq(PushFrame) /\ Len(t) = pushSent - from
             /\ \A i \in 1 .. Len(t) : t[i].boot = pushBoot /\ t[i].n = from + i
  <2>1. pushSent - from \in Nat
    BY <1>2 DEF PushInv, PushTyped, LatestFrames, PushFrame
  <2>2. \A i \in 1 .. pushSent - from : [boot |-> pushBoot, n |-> from + i] \in PushFrame
    BY <2>1 DEF PushInv, PushTyped, PushFrame
  <2> QED BY <2>1, <2>2 DEF Push!FramesAfter
<1>3. PushTyped'
  BY <1>0, <1>1, <1>2 DEF PushInv, PushTyped
<1>4. OneChannel'
  BY <1>0, <1>1 DEF PushInv, PushTyped, OneChannel
<1>5. LatestFrames'
  <2>1. CASE pushTransit' = pushTransit /\ ~(pushLast.boot = pushBoot /\ pushLast.n > 0)
    <3>1. pushTransit[c] = <<>> /\ ~(pushLast.boot = pushBoot /\ pushLast.n > 0)
      BY <1>0, <1>1, <2>1 DEF PushInv, OneChannel
    <3> QED BY <1>0, <2>1, <3>1 DEF PushInv, PushTyped, LatestFrames
  <2>2. ASSUME NEW from \in 0 .. pushLast.n, pushLast.boot = pushBoot,
               pushTransit' = [pushTransit EXCEPT ![c] = Push!FramesAfter(from)]
        PROVE  LatestFrames'
    <3> DEFINE t == Push!FramesAfter(from)
    <3>1. /\ Len(t) = pushSent - from
          /\ \A i \in 1 .. Len(t) : t[i].boot = pushBoot /\ t[i].n = from + i
      BY <1>2, <2>2
    <3> HIDE DEF t
    <3>2. pushTransit'[c] = t /\ \A b \in Push!Channel \ {c} : pushTransit'[b] = pushTransit[b]
      BY <2>2 DEF PushInv, PushTyped, t
    <3>3. pushLast.n \in Nat /\ pushSent \in Nat /\ from \in Nat /\ pushLast.n <= pushSent
      BY <2>2 DEF PushInv, PushTyped, LatestFrames, PushFrame
    <3>4. /\ Len(t) <= pushSent /\ pushSent - Len(t) <= pushLast.n
          /\ \A i \in 1 .. Len(t) : t[i].boot = pushBoot /\ t[i].n = (pushSent - Len(t)) + i
      BY <3>1, <3>3
    <3>5. pushLast.boot <= pushBoot /\ (pushLast.boot = pushBoot => pushLast.n <= pushSent)
      BY DEF PushInv, LatestFrames
    <3>6. ASSUME NEW b \in Push!Channel
          PROVE  /\ pushPhase'[b] = "open" =>
                      /\ Len(pushTransit'[b]) <= pushSent
                      /\ pushLast.boot = pushBoot /\ pushLast.n > 0 => pushSent - Len(pushTransit'[b]) <= pushLast.n
                 /\ \A i \in 1 .. Len(pushTransit'[b]) :
                      /\ pushTransit'[b][i].boot = pushBoot
                      /\ pushTransit'[b][i].n = (pushSent - Len(pushTransit'[b])) + i
      <4>1. CASE b = c
        BY <3>2, <3>4, <4>1
      <4>2. CASE b # c
        <5>1. pushTransit'[b] = pushTransit[b] /\ (pushPhase'[b] = "open" => pushPhase[b] = "open")
          BY <1>0, <3>2, <4>2 DEF PushInv, PushTyped
        <5> QED BY <5>1 DEF PushInv, LatestFrames
      <4> QED BY <4>1, <4>2
    <3> QED BY <1>0, <3>5, <3>6 DEF LatestFrames
  <2> QED BY <1>1, <2>1, <2>2
<1>6. AllHearTheLast' /\ Push!FramesInSequence'
  BY <1>0 DEF PushInv, AllHearTheLast, Push!FramesInSequence
<1> QED BY <1>3, <1>4, <1>5, <1>6 DEF PushInv

\* A ticket that fails, a break, a reopening and a restart lose what is on the way; a restart begins a boot.
LEMMA PushBreakStep ==
  ASSUME PushInv, (\E c \in Push!Channel : Push!TicketFails(c) \/ Push!Break(c) \/ Push!Reopen(c)) \/ Push!Restart
  PROVE  PushInv'
<1>0. UNCHANGED <<pushKey, pushSubs, pushLast, pushHeard>>
  BY DEF Push!TicketFails, Push!Break, Push!Reopen, Push!Restart
<1>1. /\ \A c \in Push!Channel :
           /\ pushPhase'[c] \in {pushPhase[c], "minting", "broken", "dead"}
           /\ pushPhase'[c] \in {"minting", "broken"} => pushPhase[c] \in {"minting", "open", "broken"}
           /\ pushTransit'[c] = <<>> \/ (pushTransit'[c] = pushTransit[c] /\ UNCHANGED <<pushBoot, pushSent>>)
           /\ pushPhase[c] = "open" => pushPhase'[c] = "open" \/ pushTransit'[c] = <<>>
           /\ pushPhase'[c] = "open" => pushPhase[c] = "open" /\ pushTransit'[c] = pushTransit[c]
                                       /\ UNCHANGED <<pushBoot, pushSent>>
      /\ pushPhase' \in [Push!Channel -> {"none", "minting", "open", "broken", "dead", "closed"}]
      /\ DOMAIN pushTransit' = Push!Channel /\ pushTransit' = [c \in Push!Channel |-> pushTransit'[c]]
      /\ UNCHANGED <<pushBoot, pushSent>> \/ (pushBoot' = pushBoot + 1 /\ pushSent' = 0)
  <2> USE DEF PushInv, PushTyped
  <2> QED BY DEF Push!TicketFails, Push!Break, Push!Reopen, Push!Restart
<1>2. PushTyped'
  <2>1. \A c \in Push!Channel : pushTransit'[c] \in Seq(PushFrame)
    <3> SUFFICES ASSUME NEW c \in Push!Channel PROVE pushTransit'[c] \in Seq(PushFrame)
      OBVIOUS
    <3>1. pushTransit'[c] = <<>> \/ pushTransit'[c] = pushTransit[c]
      BY <1>1
    <3>2. pushTransit[c] \in Seq(PushFrame)
      BY DEF PushInv, PushTyped
    <3>3. <<>> \in Seq(PushFrame)
      OBVIOUS
    <3> QED BY <3>1, <3>2, <3>3, Zenon
  <2>2. pushTransit' \in [Push!Channel -> Seq(PushFrame)]
    BY <1>1, <2>1
  <2> QED BY <1>0, <1>1, <2>2 DEF PushInv, PushTyped
<1>3. OneChannel'
  BY <1>0, <1>1 DEF PushInv, PushTyped, OneChannel
<1>4. LatestFrames'
  <2>1. pushLast'.boot <= pushBoot' /\ (pushLast'.boot = pushBoot' => pushLast'.n <= pushSent')
    BY <1>0, <1>1 DEF PushInv, PushTyped, LatestFrames, PushFrame
  <2>2. ASSUME NEW c \in Push!Channel
        PROVE  /\ pushPhase'[c] = "open" =>
                    /\ Len(pushTransit'[c]) <= pushSent'
                    /\ pushLast'.boot = pushBoot' /\ pushLast'.n > 0 =>
                         pushSent' - Len(pushTransit'[c]) <= pushLast'.n
               /\ \A i \in 1 .. Len(pushTransit'[c]) :
                    /\ pushTransit'[c][i].boot = pushBoot'
                    /\ pushTransit'[c][i].n = (pushSent' - Len(pushTransit'[c])) + i
    BY <1>0, <1>1 DEF PushInv, PushTyped, LatestFrames, PushFrame
  <2> QED BY <2>1, <2>2 DEF LatestFrames
<1>5. AllHearTheLast' /\ Push!FramesInSequence'
  BY <1>0 DEF PushInv, AllHearTheLast, Push!FramesInSequence
<1> QED BY <1>2, <1>3, <1>4, <1>5 DEF PushInv

\* The server numbers a frame and writes it to the streams that are open.
LEMMA PushPushStep ==
  ASSUME PushInv, Push!Push
  PROVE  PushInv'
<1> DEFINE f == [boot |-> pushBoot, n |-> pushSent + 1]
<1>0. /\ pushSent' = pushSent + 1
      /\ pushTransit' = [c \in Push!Channel |-> IF pushPhase[c] = "open" THEN Append(pushTransit[c], f)
                                               ELSE pushTransit[c]]
      /\ UNCHANGED <<pushKey, pushPhase, pushSubs, pushLast, pushBoot, pushHeard>>
  BY DEF Push!Push
<1>1. f \in PushFrame /\ f.boot = pushBoot /\ f.n = pushSent + 1
  BY DEF PushInv, PushTyped, PushFrame
<1> HIDE DEF f
<1>2. PushTyped'
  BY <1>0, <1>1 DEF PushInv, PushTyped
<1>3. OneChannel'
  BY <1>0 DEF PushInv, PushTyped, OneChannel
<1>4. LatestFrames'
  <2>1. ASSUME NEW c \in Push!Channel, pushPhase[c] = "open"
        PROVE  /\ pushTransit'[c] = Append(pushTransit[c], f) /\ Len(pushTransit'[c]) = Len(pushTransit[c]) + 1
               /\ \A i \in 1 .. Len(pushTransit'[c]) :
                    pushTransit'[c][i] = IF i <= Len(pushTransit[c]) THEN pushTransit[c][i] ELSE f
    BY <1>0, <1>1, <2>1 DEF PushInv, PushTyped
  <2>2. ASSUME NEW c \in Push!Channel, pushPhase[c] # "open"
        PROVE  pushTransit'[c] = <<>>
    BY <1>0, <2>2 DEF PushInv, PushTyped, OneChannel
  <2>3. pushLast.n \in Nat /\ pushSent \in Nat /\ pushLast.boot <= pushBoot
           /\ (pushLast.boot = pushBoot => pushLast.n <= pushSent)
    BY DEF PushInv, PushTyped, LatestFrames, PushFrame
  <2>4. ASSUME NEW c \in Push!Channel, pushPhase[c] = "open"
        PROVE  /\ Len(pushTransit'[c]) <= pushSent'
               /\ pushLast.boot = pushBoot /\ pushLast.n > 0 => pushSent' - Len(pushTransit'[c]) <= pushLast.n
               /\ \A i \in 1 .. Len(pushTransit'[c]) :
                    /\ pushTransit'[c][i].boot = pushBoot
                    /\ pushTransit'[c][i].n = (pushSent' - Len(pushTransit'[c])) + i
    <3> DEFINE old == Len(pushTransit[c])
    <3>1. old \in Nat /\ Len(pushTransit'[c]) = old + 1 /\ pushSent' = pushSent + 1
      BY <1>0, <2>1, <2>4 DEF PushInv, PushTyped
    <3>2. /\ old <= pushSent
          /\ pushLast.boot = pushBoot /\ pushLast.n > 0 => pushSent - old <= pushLast.n
          /\ \A i \in 1 .. old : pushTransit[c][i].boot = pushBoot /\ pushTransit[c][i].n = (pushSent - old) + i
      BY <2>4 DEF PushInv, LatestFrames
    <3>3. \A i \in 1 .. old : pushTransit'[c][i] = pushTransit[c][i]
      BY <2>1, <2>4, <3>1
    <3>4. pushTransit'[c][old + 1] = f
      BY <2>1, <2>4, <3>1
    <3> HIDE DEF old
    <3>5. ASSUME NEW i \in 1 .. old + 1
          PROVE  pushTransit'[c][i].boot = pushBoot /\ pushTransit'[c][i].n = (pushSent - old) + i
      <4>1. CASE i = old + 1
        BY <1>1, <2>3, <3>1, <3>4, <4>1
      <4>2. CASE i \in 1 .. old
        BY <3>2, <3>3, <4>2
      <4> QED BY <3>1, <4>1, <4>2
    <3>6. /\ old + 1 <= pushSent' /\ pushSent' - (old + 1) = pushSent - old
          /\ pushLast.boot = pushBoot /\ pushLast.n > 0 => pushSent' - (old + 1) <= pushLast.n
      BY <2>3, <3>1, <3>2
    <3>7. \A i \in 1 .. old + 1 : /\ pushTransit'[c][i].boot = pushBoot
                                /\ pushTransit'[c][i].n = (pushSent' - (old + 1)) + i
      BY <3>5, <3>6
    <3>8. Len(pushTransit'[c]) = old + 1
      BY <3>1
    <3> QED BY <3>6, <3>7, <3>8
  <2>5. \A c \in Push!Channel : pushPhase[c] # "open" => \A i \in 1 .. Len(pushTransit'[c]) : FALSE
    BY <2>2
  <2>6. ASSUME NEW c \in Push!Channel
        PROVE  /\ pushPhase'[c] = "open" =>
                    /\ Len(pushTransit'[c]) <= pushSent'
                    /\ pushLast'.boot = pushBoot' /\ pushLast'.n > 0 =>
                         pushSent' - Len(pushTransit'[c]) <= pushLast'.n
               /\ \A i \in 1 .. Len(pushTransit'[c]) :
                    /\ pushTransit'[c][i].boot = pushBoot'
                    /\ pushTransit'[c][i].n = (pushSent' - Len(pushTransit'[c])) + i
    <3>1. CASE pushPhase[c] = "open"
      BY <1>0, <2>4, <3>1
    <3>2. CASE pushPhase[c] # "open"
      BY <1>0, <2>5, <3>2
    <3> QED BY <3>1, <3>2
  <2>7. pushLast'.boot <= pushBoot' /\ (pushLast'.boot = pushBoot' => pushLast'.n <= pushSent')
    BY <1>0, <2>3
  <2> QED BY <2>6, <2>7 DEF LatestFrames
<1>5. AllHearTheLast' /\ Push!FramesInSequence'
  BY <1>0 DEF PushInv, AllHearTheLast, Push!FramesInSequence
<1> QED BY <1>2, <1>3, <1>4, <1>5 DEF PushInv

\* A frame that arrives is the next one, or one that was applied before.
LEMMA PushDeliverStep ==
  ASSUME PushInv, NEW c \in Push!Channel, Push!Deliver(c)
  PROVE  PushInv'
<1> DEFINE t == pushTransit[c]
           f == Head(t)
<1>0. /\ pushPhase[c] = "open" /\ t # <<>>
      /\ pushTransit' = [pushTransit EXCEPT ![c] = Tail(t)]
      /\ Push!Applied(f) => UNCHANGED <<pushLast, pushHeard>>
      /\ ~Push!Applied(f) => /\ pushLast' = f
                             /\ pushHeard' = [s \in Subscribers |-> IF s \in pushSubs[c]
                                                                   THEN Append(pushHeard[s], f) ELSE pushHeard[s]]
      /\ UNCHANGED <<pushKey, pushPhase, pushSubs, pushBoot, pushSent>>
  BY DEF Push!Deliver
<1>1. t \in Seq(PushFrame) /\ c = pushKey
  BY <1>0 DEF PushInv, PushTyped, OneChannel
<1>2. /\ f \in PushFrame /\ f = t[1] /\ Len(t) > 0
      /\ Tail(t) \in Seq(PushFrame) /\ Len(Tail(t)) = Len(t) - 1
      /\ \A i \in 1 .. Len(Tail(t)) : Tail(t)[i] = t[i + 1]
  BY <1>0, <1>1
<1>3. /\ f.boot = pushBoot /\ f.n = pushSent - Len(t) + 1 /\ f.n > 0 /\ f.n <= pushSent
      /\ pushLast.boot = pushBoot /\ pushLast.n > 0 => f.n <= pushLast.n + 1
  <2>1. Len(t) <= pushSent /\ (pushLast.boot = pushBoot /\ pushLast.n > 0 => pushSent - Len(t) <= pushLast.n)
    BY <1>0 DEF PushInv, LatestFrames
  <2>2. t[1].boot = pushBoot /\ t[1].n = (pushSent - Len(t)) + 1
    BY <1>1, <1>2 DEF PushInv, LatestFrames
  <2> QED BY <1>1, <1>2, <2>1, <2>2 DEF PushInv, PushTyped, PushFrame
<1>4. Push!Applied(f) <=> pushLast.boot = pushBoot /\ f.n <= pushLast.n
  BY <1>3 DEF Push!Applied
<1> HIDE DEF f, t
<1>5. PushTyped'
  <2>1. pushTransit' \in [Push!Channel -> Seq(PushFrame)]
    BY <1>0, <1>2 DEF PushInv, PushTyped
  <2>2. \A s \in Subscribers : Append(pushHeard[s], f) \in Seq(PushFrame)
    BY <1>2 DEF PushInv, PushTyped
  <2>3. pushHeard' \in [Subscribers -> Seq(PushFrame)] /\ pushLast' \in PushFrame
    BY <1>0, <1>2, <2>2 DEF PushInv, PushTyped
  <2> QED BY <1>0, <2>1, <2>3 DEF PushInv, PushTyped
<1>6. OneChannel'
  BY <1>0 DEF PushInv, PushTyped, OneChannel
<1>7. LatestFrames'
  <2>1. /\ pushTransit'[c] = Tail(t) /\ \A b \in Push!Channel \ {c} : pushTransit'[b] = pushTransit[b]
        /\ \A b \in Push!Channel \ {c} : pushPhase[b] # "open"
    BY <1>0, <1>1 DEF PushInv, PushTyped, OneChannel
  <2>2. pushLast'.boot <= pushBoot /\ (pushLast'.boot = pushBoot => pushLast'.n <= pushSent)
    BY <1>0, <1>2, <1>3 DEF PushInv, LatestFrames, PushTyped, PushFrame
  <2>3. Len(Tail(t)) <= pushSent /\ (pushLast'.boot = pushBoot => pushSent - Len(Tail(t)) <= pushLast'.n)
    BY <1>0, <1>1, <1>2, <1>3, <1>4 DEF PushInv, PushTyped, PushFrame
  <2>4. \A i \in 1 .. Len(Tail(t)) : Tail(t)[i].boot = pushBoot /\ Tail(t)[i].n = (pushSent - Len(Tail(t))) + i
    <3>1. \A i \in 1 .. Len(t) : t[i].boot = pushBoot /\ t[i].n = (pushSent - Len(t)) + i
      BY DEF PushInv, LatestFrames, t
    <3>2. pushSent \in Nat /\ Len(t) \in Nat
      BY <1>1 DEF PushInv, PushTyped
    <3> TAKE i \in 1 .. Len(Tail(t))
    <3>3. i + 1 \in 1 .. Len(t) /\ (pushSent - Len(t)) + (i + 1) = (pushSent - Len(Tail(t))) + i
      BY <1>2, <3>2
    <3>4. Tail(t)[i] = t[i + 1]
      BY <1>2
    <3> QED BY <3>1, <3>3, <3>4
  <2> QED BY <1>0, <2>1, <2>2, <2>3, <2>4 DEF PushInv, LatestFrames
<1>8. CASE Push!Applied(f)
  BY <1>0, <1>5, <1>6, <1>7, <1>8 DEF PushInv, AllHearTheLast, Push!FramesInSequence
<1>9. CASE ~Push!Applied(f)
  <2>1. ASSUME NEW s \in pushSubs[c]
        PROVE  /\ s \in Subscribers /\ pushHeard[s] \in Seq(PushFrame)
               /\ Len(pushHeard'[s]) = Len(pushHeard[s]) + 1
               /\ \A i \in 1 .. Len(pushHeard[s]) : pushHeard'[s][i] = pushHeard[s][i]
               /\ pushHeard'[s][Len(pushHeard[s]) + 1] = f
    <3>1. s \in Subscribers /\ pushHeard[s] \in Seq(PushFrame)
      BY <2>1 DEF PushInv, PushTyped
    <3>2. pushHeard'[s] = Append(pushHeard[s], f)
      BY <1>0, <1>9, <2>1, <3>1
    <3> QED BY <1>2, <3>1, <3>2
  <2>2. AllHearTheLast'
    <3>1. \A b \in Push!Channel : b = c \/ pushSubs[b] = {}
      BY <1>1 DEF PushInv, OneChannel
    <3> QED BY <1>0, <1>3, <1>9, <2>1, <3>1 DEF AllHearTheLast
  <2>3. Push!FramesInSequence'
    <3> SUFFICES ASSUME NEW s \in Subscribers, NEW i \in 1 .. Len(pushHeard'[s]) - 1,
                        pushHeard'[s][i + 1].boot = pushHeard'[s][i].boot
                 PROVE  pushHeard'[s][i + 1].n = pushHeard'[s][i].n + 1
      BY DEF Push!FramesInSequence
    <3>1. CASE s \notin pushSubs[c]
      BY <1>0, <1>9, <3>1 DEF PushInv, Push!FramesInSequence
    <3>2. CASE s \in pushSubs[c] /\ i < Len(pushHeard[s])
      <4>1. pushHeard'[s][i + 1] = pushHeard[s][i + 1] /\ pushHeard'[s][i] = pushHeard[s][i]
            /\ i \in 1 .. Len(pushHeard[s]) - 1
        BY <2>1, <3>2
      <4> QED BY <4>1 DEF PushInv, Push!FramesInSequence
    <3>3. CASE s \in pushSubs[c] /\ i = Len(pushHeard[s])
      <4>1. pushHeard'[s][i + 1] = f /\ pushHeard'[s][i] = pushHeard[s][i] /\ pushHeard[s] # <<>>
        BY <2>1, <3>3
      <4>2. pushHeard[s][i] = pushLast /\ pushLast.n > 0
        BY <3>3, <4>1 DEF PushInv, AllHearTheLast
      <4>3. pushLast.boot = pushBoot /\ ~(f.n <= pushLast.n)
        BY <1>3, <1>4, <1>9, <4>1, <4>2
      <4> QED BY <1>2, <1>3, <4>1, <4>2, <4>3 DEF PushInv, PushTyped, PushFrame
    <3> QED BY <2>1, <3>1, <3>2, <3>3
  <2> QED BY <1>5, <1>6, <1>7, <2>2, <2>3 DEF PushInv
<1> QED BY <1>8, <1>9

\* Every step of the push channel, and every step of another part, keeps its invariant.
LEMMA PushInvariant == Spec => []PushInv
<1>1. Init => PushInv
  BY DEF Init, Push!Init, Push!NoFrame, PushInv, PushTyped, OneChannel, LatestFrames, AllHearTheLast,
     Push!FramesInSequence, PushFrame
<1>2. PushInv /\ [Next]_vars => PushInv'
  <2> SUFFICES ASSUME PushInv, [Next]_vars PROVE PushInv'
    OBVIOUS
  <2>1. CASE Push!Next
    BY <2>1, PushSubscribeStep, PushUnsubscribeStep, PushOpenStep, PushBreakStep, PushPushStep, PushDeliverStep
       DEF Push!Next
  <2>2. CASE UNCHANGED pushVars
    BY <2>2 DEF pushVars, PushInv, PushTyped, OneChannel, LatestFrames, AllHearTheLast, Push!FramesInSequence
  <2> QED BY <2>1, <2>2 DEF Next, Rest, vars
<1> QED BY <1>1, <1>2, PTL DEF Spec

-----------------------------------------------------------------------------
(* The operating-system port. *)

\* What the parts of the port range over.
OsAsk == [at : {"idle", "waiting", "reading", "ready", "done"}, op : {"none", "wait", "read"},
          key : AskKeys \cup {InPlace}, got : Seq(Nat), answer : {"none", "closed", "ok"}]
OsSource == [held : Seq(Nat), paused : BOOLEAN, ended : BOOLEAN, wrote : Nat]
OsTyped ==
  /\ osPipe \in Seq(Nat) /\ osSource \in OsSource
  /\ osTurns \in Seq(ChildAsks) /\ osOrder \in Seq(ChildAsks)
  /\ osAsks \in [ChildAsks -> OsAsk]
  /\ osChild \in {"none", "running", "exited"} /\ osTable \in BOOLEAN

\* The reads that wait are the last that were asked, in that order; those before them have ended.
ReadsInTurn ==
  LET n == Len(osOrder) m == Len(osTurns) IN
  /\ m <= n
  /\ \A i \in 1 .. m : osTurns[i] = osOrder[n - m + i]
  /\ \A i, j \in 1 .. n : osOrder[i] = osOrder[j] => i = j
  /\ \A i \in 1 .. n : /\ osAsks[osOrder[i]].op = "read"
                       /\ osAsks[osOrder[i]].at \in IF i > n - m THEN {"reading"} ELSE {"ready", "done"}
                       /\ osAsks[osOrder[i]].at = "reading" => osAsks[osOrder[i]].got = <<>>

\* The bytes after the i-th read are those after cut[i]; what is held and what is in the pipe follows the last.
Cuts(cut) ==
  LET n == Len(osOrder) m == Len(osTurns) IN
  /\ cut \in [0 .. n -> 0 .. osSource.wrote]
  /\ cut[0] = 0
  /\ \A i \in 0 .. n : i >= n - m => cut[i] = cut[n]
  /\ \A i \in 1 .. n : LET got == osAsks[osOrder[i]].got IN
       /\ cut[i - 1] + Len(got) = cut[i]
       /\ \A k \in 1 .. Len(got) : got[k] = cut[i - 1] + k
  /\ \A k \in 1 .. Len(osSource.held) : osSource.held[k] = cut[n] + k
  /\ \A k \in 1 .. Len(osPipe) : osPipe[k] = cut[n] + Len(osSource.held) + k
  /\ cut[n] + Len(osSource.held) + Len(osPipe) = osSource.wrote

\* The ask that was answered with the exit.
Told(a) == osAsks[a].at = "done" /\ osAsks[a].op = "wait" /\ osAsks[a].answer = "ok"
\* Whoever reaped the process took it out of the table, which nobody puts back.
OneReaper ==
  /\ osTable => osChild # "none"
  /\ \A a \in ChildAsks : Told(a) => ~osTable /\ osChild # "none"
  /\ \A a, b \in ChildAsks : Told(a) /\ Told(b) => a = b
  /\ osOpen /\ osChild # "none" /\ ~osTable => \E a \in ChildAsks : Told(a)

\* The invariant of the port; a closed one owes no byte to anyone.
OsInv == OsTyped /\ ReadsInTurn /\ (osOpen => \E cut : Cuts(cut)) /\ OneReaper

\* A sequence cut in two.
LEMMA CutInTwo ==
  ASSUME NEW s \in Seq(Nat), NEW k \in 0 .. Len(s)
  PROVE  /\ SubSeq(s, 1, k) \in Seq(Nat) /\ Len(SubSeq(s, 1, k)) = k
         /\ \A i \in 1 .. k : SubSeq(s, 1, k)[i] = s[i]
         /\ SubSeq(s, k + 1, Len(s)) \in Seq(Nat) /\ Len(SubSeq(s, k + 1, Len(s))) = Len(s) - k
         /\ \A i \in 1 .. Len(s) - k : SubSeq(s, k + 1, Len(s))[i] = s[k + i]
<1>1. Len(s) \in Nat /\ k \in Nat /\ k <= Len(s)
  OBVIOUS
<1>2. SubSeq(s, 1, k) \in Seq(Nat) /\ Len(SubSeq(s, 1, k)) = k
  BY <1>1
<1>3. \A i \in 1 .. k : SubSeq(s, 1, k)[i] = s[i]
  BY <1>1
<1>4. SubSeq(s, k + 1, Len(s)) \in Seq(Nat) /\ Len(SubSeq(s, k + 1, Len(s))) = Len(s) - k
  BY <1>1
<1>5. \A i \in 1 .. Len(s) - k : SubSeq(s, k + 1, Len(s))[i] = s[k + i]
  BY <1>1
<1> QED BY <1>2, <1>3, <1>4, <1>5

\* The process, its pipe and the stream: no ask changes.
LEMMA OsStreamStep ==
  ASSUME OsInv, Os!Spawn \/ Os!ChildWrites \/ Os!ChildExits \/ Os!Chunk \/ Os!End
  PROVE  OsInv'
<1>0. UNCHANGED <<osTurns, osAsks, osOrder, osOpen>>
  BY DEF Os!Spawn, Os!ChildWrites, Os!ChildExits, Os!Chunk, Os!End
<1>1. ReadsInTurn'
  BY <1>0 DEF OsInv, ReadsInTurn
<1>2. OneReaper'
  <2>1. \A a \in ChildAsks : Told(a)' <=> Told(a)
    BY <1>0 DEF Told
  <2>2. CASE Os!Spawn
    BY <1>0, <2>1, <2>2 DEF OsInv, OneReaper, Os!Spawn
  <2>3. CASE ~Os!Spawn
    <3>1. UNCHANGED osTable /\ (osChild' = "none" <=> osChild = "none")
      BY <2>3 DEF Os!ChildWrites, Os!ChildExits, Os!Chunk, Os!End
    <3> QED BY <1>0, <2>1, <3>1 DEF OsInv, OneReaper
  <2> QED BY <2>2, <2>3
<1>3. CASE UNCHANGED osPipe /\ (UNCHANGED osSource \/ osSource' = [osSource EXCEPT !.ended = TRUE])
  <2>1. /\ osSource' \in OsSource /\ osSource'.held = osSource.held /\ osSource'.wrote = osSource.wrote
    BY <1>3 DEF OsInv, OsTyped, OsSource
  <2>2. OsTyped'
    BY <1>0, <1>3, <2>1 DEF OsInv, OsTyped, Os!Spawn, Os!ChildWrites, Os!ChildExits, Os!Chunk, Os!End
  <2>3. ASSUME NEW cut, Cuts(cut) PROVE Cuts(cut)'
    BY <1>0, <1>3, <2>1, <2>3 DEF Cuts
  <2> QED BY <1>0, <1>1, <1>2, <2>2, <2>3 DEF OsInv
<1>4. CASE Os!ChildWrites
  <2>0. osPipe' = Append(osPipe, osSource.wrote + 1) /\ osSource' = [osSource EXCEPT !.wrote = @ + 1]
           /\ UNCHANGED <<osChild, osTable>>
    BY <1>4 DEF Os!ChildWrites
  <2>1. /\ osSource' \in OsSource /\ osSource'.held = osSource.held /\ osSource'.wrote = osSource.wrote + 1
        /\ osSource.wrote \in Nat /\ osSource.held \in Seq(Nat)
    <3>1. osSource \in OsSource
      BY DEF OsInv, OsTyped
    <3>2. osSource.wrote \in Nat /\ osSource.held \in Seq(Nat)
      BY <3>1 DEF OsSource
    <3>3. osSource' = [osSource EXCEPT !.wrote = osSource.wrote + 1]
      BY <2>0
    <3>4. osSource.wrote + 1 \in Nat
      BY <3>2
    <3> QED BY <3>1, <3>2, <3>3, <3>4 DEF OsSource
  <2>2. /\ osPipe' \in Seq(Nat) /\ Len(osPipe') = Len(osPipe) + 1 /\ osPipe \in Seq(Nat)
        /\ \A k \in 1 .. Len(osPipe) : osPipe'[k] = osPipe[k]
        /\ osPipe'[Len(osPipe) + 1] = osSource.wrote + 1
    BY <2>0, <2>1 DEF OsInv, OsTyped
  <2>3. OsTyped'
    BY <1>0, <2>0, <2>1, <2>2 DEF OsInv, OsTyped
  <2>4. ASSUME NEW cut, Cuts(cut) PROVE Cuts(cut)'
    <3>1. Len(osOrder) \in Nat
      BY DEF OsInv, OsTyped
    <3>2. cut[Len(osOrder)] \in Nat /\ Len(osSource.held) \in Nat /\ Len(osPipe) \in Nat
      <4>1. cut \in [0 .. Len(osOrder) -> 0 .. osSource.wrote]
        BY <2>4 DEF Cuts
      <4>2. cut[Len(osOrder)] \in 0 .. osSource.wrote
        BY <3>1, <4>1
      <4> QED BY <2>1, <2>2, <4>2
    <3>3. cut \in [0 .. Len(osOrder) -> 0 .. osSource'.wrote]
      BY <2>1, <2>4 DEF Cuts
    <3>a. /\ \A k \in 1 .. Len(osPipe) : osPipe[k] = cut[Len(osOrder)] + Len(osSource.held) + k
          /\ cut[Len(osOrder)] + Len(osSource.held) + Len(osPipe) = osSource.wrote
      BY <2>4 DEF Cuts
    <3>4. ASSUME NEW k \in 1 .. Len(osPipe')
          PROVE  osPipe'[k] = cut[Len(osOrder)] + Len(osSource.held) + k
      <4>1. CASE k = Len(osPipe) + 1
        <5>1. osPipe'[k] = osSource.wrote + 1
          BY <2>2, <4>1
        <5>2. cut[Len(osOrder)] + Len(osSource.held) + k = osSource.wrote + 1
          <6> DEFINE c == cut[Len(osOrder)]
                     h == Len(osSource.held)
                     l == Len(osPipe)
          <6>1. c \in Nat /\ h \in Nat /\ l \in Nat /\ c + h + l = osSource.wrote /\ k = l + 1
            BY <3>2, <3>a, <4>1
          <6> HIDE DEF c, h, l
          <6>2. c + h + k = osSource.wrote + 1
            BY <6>1
          <6> QED BY <6>2 DEF c, h, l
        <5> QED BY <5>1, <5>2
      <4>2. CASE k \in 1 .. Len(osPipe)
        BY <2>2, <3>a, <4>2
      <4> QED BY <2>2, <3>2, <4>1, <4>2
    <3>5. cut[Len(osOrder)] + Len(osSource.held) + Len(osPipe') = osSource'.wrote
      BY <2>1, <2>2, <2>4, <3>2 DEF Cuts
    <3> QED BY <1>0, <2>1, <2>4, <3>3, <3>4, <3>5 DEF Cuts
  <2> QED BY <1>0, <1>1, <1>2, <2>3, <2>4 DEF OsInv
<1>5. CASE Os!Chunk
  <2>0. PICK j \in 1 .. Len(osPipe) :
           /\ osSource' = [osSource EXCEPT !.held = osSource.held \o SubSeq(osPipe, 1, j),
                                           !.paused = Len(osSource.held \o SubSeq(osPipe, 1, j)) > HighWater]
           /\ osPipe' = SubSeq(osPipe, j + 1, Len(osPipe))
    BY <1>5 DEF Os!Chunk
  <2> DEFINE held == osSource.held
             h == Len(held)
             held2 == held \o SubSeq(osPipe, 1, j)
  <2>1. held \in Seq(Nat) /\ osPipe \in Seq(Nat) /\ osSource.wrote \in Nat
    BY DEF OsInv, OsTyped, OsSource
  <2>j. j \in Nat /\ j >= 1 /\ j <= Len(osPipe) /\ Len(osPipe) \in Nat /\ h \in Nat
    BY <2>1
  <2>2. /\ held2 \in Seq(Nat) /\ Len(held2) = h + j
        /\ \A k \in 1 .. h + j : held2[k] = IF k <= h THEN held[k] ELSE osPipe[k - h]
    BY <2>1
  <2>3. /\ osPipe' \in Seq(Nat) /\ Len(osPipe') = Len(osPipe) - j
        /\ \A k \in 1 .. Len(osPipe') : osPipe'[k] = osPipe[j + k]
    <3>1. j \in 0 .. Len(osPipe)
      BY <2>j
    <3> QED BY <2>0, <2>1, <3>1, CutInTwo
  <2> HIDE DEF held2
  <2>4. osSource'.held = held2 /\ osSource'.wrote = osSource.wrote /\ osSource' \in OsSource
    <3>1. osSource \in OsSource /\ osSource' = [osSource EXCEPT !.held = held2, !.paused = Len(held2) > HighWater]
      BY <2>0 DEF OsInv, OsTyped, held2
    <3>2. (Len(held2) > HighWater) \in BOOLEAN
      OBVIOUS
    <3> QED BY <2>2, <3>1, <3>2 DEF OsSource
  <2>5. OsTyped'
    BY <1>0, <1>5, <2>3, <2>4 DEF OsInv, OsTyped, Os!Chunk
  <2>6. ASSUME NEW cut, Cuts(cut) PROVE Cuts(cut)'
    <3> DEFINE c == cut[Len(osOrder)]
    <3>1. c \in Nat /\ h \in Nat /\ Len(osPipe) \in Nat
      <4>1. cut \in [0 .. Len(osOrder) -> 0 .. osSource.wrote] /\ Len(osOrder) \in Nat
        BY <2>6 DEF Cuts, OsInv, OsTyped
      <4>2. cut[Len(osOrder)] \in 0 .. osSource.wrote
        BY <4>1
      <4> QED BY <2>1, <2>j, <4>2
    <3>2. \A k \in 1 .. h : held[k] = c + k
      BY <2>6 DEF Cuts
    <3>3. \A k \in 1 .. Len(osPipe) : osPipe[k] = c + h + k
      BY <2>6 DEF Cuts
    <3>4. c + h + Len(osPipe) = osSource.wrote
      BY <2>6 DEF Cuts
    <3> HIDE DEF c, h
    <3>5. ASSUME NEW k \in 1 .. h + j PROVE held2[k] = c + k
      <4>1. CASE k <= h
        <5>1. k \in 1 .. h /\ held2[k] = held[k]
          BY <2>2, <2>j, <3>1, <4>1
        <5> QED BY <3>2, <5>1
      <4>2. CASE k > h
        <5>1. k - h \in 1 .. Len(osPipe) /\ held2[k] = osPipe[k - h]
          BY <2>2, <2>j, <3>1, <4>2
        <5> QED BY <3>1, <3>3, <5>1
      <4> QED BY <2>j, <3>1, <4>1, <4>2
    <3>6. \A k \in 1 .. Len(osPipe') : osPipe'[k] = c + (h + j) + k
      BY <2>3, <3>1, <3>3
    <3>7. c + (h + j) + Len(osPipe') = osSource.wrote
      BY <2>3, <3>1, <3>4
    <3> USE DEF c, h
    <3> QED BY <1>0, <2>2, <2>4, <2>6, <3>5, <3>6, <3>7 DEF Cuts
  <2> QED BY <1>0, <1>1, <1>2, <2>5, <2>6 DEF OsInv
<1> QED BY <1>3, <1>4, <1>5 DEF Os!Spawn, Os!ChildExits, Os!End

\* The head of the turns is the first read that waits; the others come after it.
LEMMA OsFirstTurn ==
  ASSUME OsInv, NEW a \in ChildAsks, a \in Os!MayTake
  PROVE  LET n == Len(osOrder) m == Len(osTurns) IN
         /\ m > 0 /\ m \in Nat /\ n \in Nat /\ m <= n
         /\ a = osOrder[(n - m) + 1] /\ osAsks[a].at = "reading" /\ osAsks[a].op = "read"
         /\ Tail(osTurns) \in Seq(ChildAsks) /\ Len(Tail(osTurns)) = m - 1
         /\ \A i \in 1 .. m - 1 : Tail(osTurns)[i] = osOrder[(n - (m - 1)) + i]
         /\ \A i \in 1 .. n : osOrder[i] = a <=> i = (n - m) + 1
<1> DEFINE n == Len(osOrder)
           m == Len(osTurns)
<1>1. osTurns \in Seq(ChildAsks) /\ osOrder \in Seq(ChildAsks) /\ n \in Nat /\ m \in Nat
  BY DEF OsInv, OsTyped
<1>2. m > 0 /\ a = osTurns[1]
  BY <1>1 DEF Os!MayTake
<1>3. /\ m <= n
      /\ \A i \in 1 .. m : osTurns[i] = osOrder[n - m + i]
      /\ \A i, j \in 1 .. n : osOrder[i] = osOrder[j] => i = j
      /\ \A i \in 1 .. n : /\ osAsks[osOrder[i]].op = "read"
                           /\ osAsks[osOrder[i]].at \in IF i > n - m THEN {"reading"} ELSE {"ready", "done"}
  BY DEF OsInv, ReadsInTurn
<1>4. /\ Tail(osTurns) \in Seq(ChildAsks) /\ Len(Tail(osTurns)) = m - 1
      /\ \A i \in 1 .. m - 1 : Tail(osTurns)[i] = osTurns[i + 1]
  BY <1>1, <1>2
<1> HIDE DEF n, m
<1>5. (n - m) + 1 \in 1 .. n /\ a = osOrder[(n - m) + 1]
  BY <1>1, <1>2, <1>3
<1>6. osAsks[a].at = "reading" /\ osAsks[a].op = "read"
  BY <1>1, <1>3, <1>5
<1>7. \A i \in 1 .. n : osOrder[i] = a <=> i = (n - m) + 1
  BY <1>3, <1>5
<1>8. ASSUME NEW i \in 1 .. m - 1 PROVE Tail(osTurns)[i] = osOrder[(n - (m - 1)) + i]
  <2>1. i + 1 \in 1 .. m /\ n - m + (i + 1) = (n - (m - 1)) + i
    BY <1>1
  <2> QED BY <1>3, <1>4, <2>1
<1> QED BY <1>1, <1>2, <1>3, <1>4, <1>5, <1>6, <1>7, <1>8 DEF n, m

\* A read that ends takes the first of the bytes that are held, or the end.
LEMMA OsTakeStep ==
  ASSUME OsInv, NEW a \in ChildAsks, Os!Take(a)
  PROVE  OsInv'
<1> DEFINE n == Len(osOrder)
           m == Len(osTurns)
           p == (n - m) + 1
           held == osSource.held
           h == Len(held)
<1>0. /\ a \in Os!MayTake /\ osTurns' = Tail(osTurns)
      /\ UNCHANGED <<osChild, osTable, osPipe, osOrder, osOpen>>
  BY DEF Os!Take
<1>1. /\ m > 0 /\ m \in Nat /\ n \in Nat /\ m <= n
      /\ a = osOrder[p] /\ osAsks[a].at = "reading" /\ osAsks[a].op = "read"
      /\ osTurns' \in Seq(ChildAsks) /\ Len(osTurns') = m - 1
      /\ \A i \in 1 .. m - 1 : osTurns'[i] = osOrder[(n - (m - 1)) + i]
      /\ \A i \in 1 .. n : osOrder[i] = a <=> i = p
  BY <1>0, OsFirstTurn
<1>2. /\ osSource \in OsSource /\ held \in Seq(Nat) /\ h \in Nat /\ osSource.wrote \in Nat
      /\ osAsks[a] \in OsAsk /\ osPipe \in Seq(Nat) /\ Len(osPipe) \in Nat
  BY DEF OsInv, OsTyped, OsSource
<1> DEFINE Gets(k) ==
        /\ osSource' \in OsSource /\ osSource'.wrote = osSource.wrote
        /\ osSource'.held = SubSeq(held, k + 1, h)
        /\ osAsks' = [osAsks EXCEPT ![a].at = "ready", ![a].got = SubSeq(held, 1, k)]
<1>3. PICK k \in 0 .. h : Gets(k)
  <2>1. CASE \E k \in 1 .. h : /\ osSource' = Os!Sliced(k)
                              /\ osAsks' = [osAsks EXCEPT ![a].at = "ready", ![a].got = SubSeq(held, 1, k)]
    <3>1. PICK k \in 1 .. h : /\ osSource' = Os!Sliced(k)
                              /\ osAsks' = [osAsks EXCEPT ![a].at = "ready", ![a].got = SubSeq(held, 1, k)]
      BY <2>1
    <3>2. SubSeq(held, k + 1, h) \in Seq(Nat)
      BY <1>2
    <3>3. osSource' \in OsSource /\ osSource'.wrote = osSource.wrote /\ osSource'.held = SubSeq(held, k + 1, h)
      BY <1>2, <3>1, <3>2 DEF Os!Sliced, OsSource
    <3>4. Gets(k) /\ k \in 0 .. h
      BY <1>2, <3>1, <3>3
    <3> HIDE DEF Gets
    <3> QED BY <3>4
  <2>2. CASE held = <<>> /\ osAsks' = [osAsks EXCEPT ![a].at = "ready"] /\ UNCHANGED osSource
    <3>1. osAsks[a].got = <<>>
      BY <1>1 DEF OsInv, ReadsInTurn
    <3>2. SubSeq(held, 1, 0) = <<>> /\ SubSeq(held, 1, h) = held /\ h = 0
      BY <2>2
    <3>3. [osAsks EXCEPT ![a].at = "ready"] = [osAsks EXCEPT ![a].at = "ready", ![a].got = <<>>]
      BY <1>2, <3>1 DEF OsInv, OsTyped, OsAsk
    <3>4. SubSeq(held, 0 + 1, h) = held /\ 0 \in 0 .. h
      BY <2>2
    <3>5. Gets(0)
      BY <1>2, <2>2, <3>2, <3>3, <3>4
    <3> HIDE DEF Gets
    <3> QED BY <3>4, <3>5
  <2> QED BY <2>1, <2>2 DEF Os!Take
<1> DEFINE got == SubSeq(held, 1, k)
<1>4. /\ got \in Seq(Nat) /\ Len(got) = k /\ k \in Nat /\ k <= h /\ \A i \in 1 .. k : got[i] = held[i]
      /\ Len(osSource'.held) = h - k
      /\ \A i \in 1 .. h - k : osSource'.held[i] = held[k + i]
  <2>1. osSource'.held = SubSeq(held, k + 1, h) /\ k \in 0 .. h /\ h \in Nat
    BY <1>2, <1>3
  <2> HIDE DEF Gets
  <2>2. k \in Nat /\ k <= h
    BY <2>1
  <2>3. /\ Len(SubSeq(held, k + 1, h)) = h - k
        /\ \A i \in 1 .. h - k : SubSeq(held, k + 1, h)[i] = held[k + i]
        /\ got \in Seq(Nat) /\ Len(got) = k /\ \A i \in 1 .. k : got[i] = held[i]
    BY <1>2, <2>1, CutInTwo
  <2> QED BY <2>1, <2>2, <2>3
<1>5. /\ osAsks' \in [ChildAsks -> OsAsk]
      /\ osAsks'[a].at = "ready" /\ osAsks'[a].got = got /\ osAsks'[a].op = "read"
      /\ \A b \in ChildAsks \ {a} : osAsks'[b] = osAsks[b]
  <2>1. osAsks' = [osAsks EXCEPT ![a] = [osAsks[a] EXCEPT !.at = "ready", !.got = got]]
    BY <1>3 DEF OsInv, OsTyped
  <2> HIDE DEF got, Gets
  <2>2. [osAsks[a] EXCEPT !.at = "ready", !.got = got] \in OsAsk
    BY <1>2, <1>4 DEF OsAsk
  <2> QED BY <1>1, <1>2, <2>1, <2>2 DEF OsInv, OsTyped, OsAsk
<1>6. OsTyped'
  BY <1>0, <1>1, <1>3, <1>5 DEF OsInv, OsTyped
<1>b. \A i \in 1 .. n :
         /\ osOrder[i] \in ChildAsks /\ osAsks[osOrder[i]].op = "read"
         /\ osAsks[osOrder[i]].at \in IF i > n - m THEN {"reading"} ELSE {"ready", "done"}
         /\ osAsks[osOrder[i]].at = "reading" => osAsks[osOrder[i]].got = <<>>
  BY <1>1 DEF OsInv, OsTyped, ReadsInTurn
<1> HIDE DEF got, Gets, n, m, held, h
<1>r. p \in 1 .. n /\ p \in Nat /\ n - (m - 1) = p /\ n - m = p - 1
  BY <1>1
<1>7. ReadsInTurn'
  <2> SUFFICES ASSUME NEW i \in 1 .. n
               PROVE  /\ osAsks'[osOrder[i]].op = "read"
                      /\ osAsks'[osOrder[i]].at \in IF i > n - (m - 1) THEN {"reading"} ELSE {"ready", "done"}
                      /\ osAsks'[osOrder[i]].at = "reading" => osAsks'[osOrder[i]].got = <<>>
    BY <1>0, <1>1 DEF OsInv, ReadsInTurn, n, m
  <2>2. CASE i = p
    <3>1. ~(i > n - (m - 1))
      BY <1>1, <2>2
    <3> QED BY <1>1, <1>5, <2>2, <3>1
  <2>3. CASE i # p
    <3>1. i > n - (m - 1) <=> i > n - m
      BY <1>1, <2>3
    <3>2. osAsks'[osOrder[i]] = osAsks[osOrder[i]]
      BY <1>1, <1>5, <1>b, <2>3
    <3> QED BY <1>b, <3>1, <3>2
  <2> QED BY <2>2, <2>3
<1>8. ASSUME NEW cut, Cuts(cut) PROVE \E new : Cuts(new)'
  <2> DEFINE c == cut[n]
             new == [i \in 0 .. n |-> IF i < p THEN cut[i] ELSE c + k]
  <2>1. /\ cut \in [0 .. n -> 0 .. osSource.wrote] /\ cut[0] = 0
        /\ \A i \in 0 .. n : i >= n - m => cut[i] = c
        /\ \A i \in 1 .. n : /\ cut[i - 1] + Len(osAsks[osOrder[i]].got) = cut[i]
                             /\ \A j \in 1 .. Len(osAsks[osOrder[i]].got) : osAsks[osOrder[i]].got[j] = cut[i - 1] + j
        /\ \A j \in 1 .. h : held[j] = c + j
        /\ \A j \in 1 .. Len(osPipe) : osPipe[j] = c + h + j
        /\ c + h + Len(osPipe) = osSource.wrote
    BY <1>8 DEF Cuts, n, m, held, h
  <2>c. c \in 0 .. osSource.wrote
    BY <1>1, <2>1
  <2> HIDE DEF c, p
  <2>2. c \in Nat /\ c + k <= osSource.wrote
    BY <1>2, <1>4, <2>1, <2>c
  <2>n. /\ new = [i \in 0 .. n |-> IF i < p THEN cut[i] ELSE c + k]
        /\ \A i \in 0 .. n : new[i] = IF i < p THEN cut[i] ELSE c + k
    OBVIOUS
  <2> HIDE DEF new
  <2>3. /\ new[0] = 0 /\ new[n] = c + k
        /\ \A i \in 0 .. n : i >= n - (m - 1) => new[i] = new[n]
    <3>1. new[0] = 0
      BY <1>1, <1>r, <2>1, <2>n
    <3>2. new[n] = c + k
      BY <1>1, <1>r, <2>n
    <3>3. \A i \in 0 .. n : i >= n - (m - 1) => new[i] = new[n]
      BY <1>1, <1>r, <2>n, <3>2
    <3> QED BY <3>1, <3>2, <3>3
  <2>t. new \in [0 .. n -> 0 .. osSource.wrote]
    <3>1. c + k \in 0 .. osSource.wrote
      BY <1>2, <1>4, <2>2
    <3>2. \A i \in 0 .. n : cut[i] \in 0 .. osSource.wrote
      BY <2>1
    <3> QED BY <2>n, <3>1, <3>2
  <2>4. ASSUME NEW i \in 1 .. n
        PROVE  /\ new[i - 1] + Len(osAsks'[osOrder[i]].got) = new[i]
               /\ \A j \in 1 .. Len(osAsks'[osOrder[i]].got) : osAsks'[osOrder[i]].got[j] = new[i - 1] + j
    <3>0. osOrder[i] \in ChildAsks /\ i \in 0 .. n /\ i - 1 \in 0 .. n /\ i \in Nat
      BY <1>1, <1>b
    <3>1. CASE i < p
      <4>1. osAsks'[osOrder[i]] = osAsks[osOrder[i]]
        BY <1>1, <1>5, <1>b, <1>r, <3>1
      <4>2. new[i] = cut[i] /\ new[i - 1] = cut[i - 1]
        BY <1>r, <2>n, <3>0, <3>1
      <4> QED BY <2>1, <4>1, <4>2
    <3>2. CASE i = p
      <4>1. osAsks'[osOrder[i]].got = got
        BY <1>1, <1>5, <3>2 DEF p
      <4>2. new[i] = c + k
        BY <1>r, <2>n, <3>0, <3>2
      <4>3. new[i - 1] = c
        <5>1. i - 1 < p /\ i - 1 >= n - m
          BY <1>1, <1>r, <3>0, <3>2
        <5>2. new[i - 1] = cut[i - 1]
          BY <2>n, <3>0, <5>1
        <5>3. cut[i - 1] = c
          BY <2>1, <3>0, <5>1
        <5> QED BY <5>2, <5>3
      <4>4. \A j \in 1 .. k : got[j] = c + j
        BY <1>2, <1>4, <2>1
      <4> QED BY <1>4, <2>2, <4>1, <4>2, <4>3, <4>4
    <3>3. CASE i > p
      <4>1. osAsks'[osOrder[i]] = osAsks[osOrder[i]]
        BY <1>1, <1>5, <1>b, <1>r, <3>3
      <4>2. osAsks[osOrder[i]].got = <<>>
        <5>1. i > n - m
          BY <1>1, <1>r, <3>0, <3>3
        <5> QED BY <1>b, <5>1
      <4>3. new[i - 1] = c + k /\ new[i] = c + k
        BY <1>r, <2>n, <3>0, <3>3
      <4> QED BY <1>4, <2>2, <4>1, <4>2, <4>3
    <3> QED BY <1>r, <3>0, <3>1, <3>2, <3>3
  <2>5. \A j \in 1 .. h - k : osSource'.held[j] = (c + k) + j
    BY <1>2, <1>4, <2>1, <2>2
  <2>6. \A j \in 1 .. Len(osPipe) : osPipe[j] = (c + k) + (h - k) + j
    BY <1>2, <1>4, <2>1, <2>2
  <2>7. (c + k) + (h - k) + Len(osPipe) = osSource.wrote
    BY <1>2, <1>4, <2>1, <2>2
  <2>8. \E x : Cuts(x)'
    <3>0. PICK x : x = new
      OBVIOUS
    <3>1. /\ Len(osOrder') = n /\ Len(osTurns') = m - 1 /\ Len(osSource'.held) = h - k
          /\ osSource'.wrote = osSource.wrote
      BY <1>0, <1>1, <1>3, <1>4 DEF n, Gets
    <3>2. /\ x \in [0 .. Len(osOrder') -> 0 .. osSource'.wrote] /\ x[0] = 0
          /\ \A i \in 0 .. Len(osOrder') : i >= Len(osOrder') - Len(osTurns') => x[i] = x[Len(osOrder')]
      BY <3>0, <2>3, <2>t, <3>1
    <3>3. \A i \in 1 .. Len(osOrder') :
             /\ x[i - 1] + Len(osAsks'[osOrder'[i]].got) = x[i]
             /\ \A j \in 1 .. Len(osAsks'[osOrder'[i]].got) : osAsks'[osOrder'[i]].got[j] = x[i - 1] + j
      BY <3>0, <1>0, <2>4, <3>1
    <3>4. \A j \in 1 .. Len(osSource'.held) : osSource'.held[j] = x[Len(osOrder')] + j
      BY <3>0, <2>3, <2>5, <3>1
    <3>5. \A j \in 1 .. Len(osPipe') : osPipe'[j] = x[Len(osOrder')] + Len(osSource'.held) + j
      BY <3>0, <1>0, <2>3, <2>6, <3>1
    <3>6. x[Len(osOrder')] + Len(osSource'.held) + Len(osPipe') = osSource'.wrote
      BY <3>0, <1>0, <2>3, <2>7, <3>1
    <3>7. Cuts(x)'
      BY <3>2, <3>3, <3>4, <3>5, <3>6 DEF Cuts
    <3> QED BY <3>7
  <2> QED BY <2>8
<1>9. OneReaper'
  <2>1. \A b \in ChildAsks : Told(b)' <=> Told(b)
    BY <1>1, <1>5 DEF Told
  <2> QED BY <1>0, <2>1 DEF OsInv, OneReaper
<1> QED BY <1>0, <1>6, <1>7, <1>8, <1>9 DEF OsInv

\* Asking: a wait changes no read; a read comes last, and what it gets begins where all reads before it stop.
LEMMA OsAskStep ==
  ASSUME OsInv, NEW a \in ChildAsks, NEW k \in AskKeys \cup {InPlace}, Os!AskWait(a, k) \/ Os!AskRead(a, k)
  PROVE  OsInv'
<1> DEFINE n == Len(osOrder)
           m == Len(osTurns)
<1>0. /\ osAsks[a].at = "idle" /\ osOpen
      /\ UNCHANGED <<osChild, osTable, osPipe, osSource, osOpen>>
  BY DEF Os!AskWait, Os!AskRead, Os!At
<1>1. /\ osOrder \in Seq(ChildAsks) /\ osTurns \in Seq(ChildAsks) /\ osAsks \in [ChildAsks -> OsAsk]
      /\ n \in Nat /\ m \in Nat /\ m <= n
  BY DEF OsInv, OsTyped, ReadsInTurn
<1>2. \A i \in 1 .. n : osOrder[i] \in ChildAsks /\ osOrder[i] # a
  <2> TAKE i \in 1 .. n
  <2>1. osOrder[i] \in ChildAsks
    BY <1>1
  <2>2. osAsks[osOrder[i]].at \in IF i > n - m THEN {"reading"} ELSE {"ready", "done"}
    BY DEF OsInv, ReadsInTurn
  <2> QED BY <1>0, <2>1, <2>2
<1>3. PICK new \in OsAsk : /\ osAsks' = [osAsks EXCEPT ![a] = new]
                           /\ new.at \in {"waiting", "reading"} /\ new.got = <<>>
                           /\ Os!AskRead(a, k) => new.at = "reading" /\ new.op = "read"
  <2> DEFINE wait == [Os!Idle EXCEPT !.at = "waiting", !.op = "wait", !.key = k]
             read == [Os!Idle EXCEPT !.at = "reading", !.op = "read", !.key = k]
  <2>0. <<>> \in Seq(Nat)
    OBVIOUS
  <2>1. wait \in OsAsk /\ wait.at = "waiting" /\ wait.got = <<>>
    BY <2>0 DEF OsAsk, Os!Idle
  <2>2. read \in OsAsk /\ read.at = "reading" /\ read.op = "read" /\ read.got = <<>>
    BY <2>0 DEF OsAsk, Os!Idle
  <2>3. Os!AskRead(a, k) => osAsks' = [osAsks EXCEPT ![a] = read]
    BY DEF Os!AskRead
  <2>4. ~Os!AskRead(a, k) => osAsks' = [osAsks EXCEPT ![a] = wait]
    BY DEF Os!AskWait
  <2> HIDE DEF wait, read
  <2>5. CASE Os!AskRead(a, k)
    BY <2>2, <2>3, <2>5
  <2>6. CASE ~Os!AskRead(a, k)
    BY <2>1, <2>4, <2>6
  <2> QED BY <2>5, <2>6
<1>4. /\ osAsks' \in [ChildAsks -> OsAsk] /\ osAsks'[a] = new
      /\ \A b \in ChildAsks \ {a} : osAsks'[b] = osAsks[b]
  BY <1>1, <1>3
<1>5. OneReaper'
  <2>1. \A b \in ChildAsks : Told(b)' <=> Told(b)
    BY <1>0, <1>3, <1>4 DEF Told
  <2> QED BY <1>0, <2>1 DEF OsInv, OneReaper
<1>6. CASE UNCHANGED <<osTurns, osOrder>>
  <2>1. OsTyped'
    BY <1>0, <1>4, <1>6 DEF OsInv, OsTyped
  <2>2. \A i \in 1 .. n : osAsks'[osOrder[i]] = osAsks[osOrder[i]]
    BY <1>2, <1>4
  <2>3. ReadsInTurn'
    BY <1>6, <2>2 DEF OsInv, ReadsInTurn
  <2>4. ASSUME NEW cut, Cuts(cut) PROVE Cuts(cut)'
    <3>1. \A i \in 1 .. n : LET got == osAsks'[osOrder[i]].got IN
             /\ cut[i - 1] + Len(got) = cut[i]
             /\ \A j \in 1 .. Len(got) : got[j] = cut[i - 1] + j
      <4> TAKE i \in 1 .. n
      <4>1. LET got == osAsks[osOrder[i]].got IN
             /\ cut[i - 1] + Len(got) = cut[i]
             /\ \A j \in 1 .. Len(got) : got[j] = cut[i - 1] + j
        BY <2>4 DEF Cuts
      <4>2. osAsks'[osOrder[i]] = osAsks[osOrder[i]]
        BY <2>2
      <4> QED BY <4>1, <4>2
    <3> QED BY <1>0, <1>6, <2>4, <3>1 DEF Cuts
  <2> QED BY <1>0, <1>5, <2>1, <2>3, <2>4 DEF OsInv
<1>7. CASE Os!AskRead(a, k)
  <2>1. osTurns' = Append(osTurns, a) /\ osOrder' = Append(osOrder, a)
    BY <1>7 DEF Os!AskRead, Os!TakeTurn
  <2>2. /\ osOrder' \in Seq(ChildAsks) /\ Len(osOrder') = n + 1 /\ osOrder'[n + 1] = a
        /\ \A i \in 1 .. n : osOrder'[i] = osOrder[i]
        /\ osTurns' \in Seq(ChildAsks) /\ Len(osTurns') = m + 1 /\ osTurns'[m + 1] = a
        /\ \A i \in 1 .. m : osTurns'[i] = osTurns[i]
    BY <1>1, <2>1
  <2>3. OsTyped'
    BY <1>0, <1>4, <2>2 DEF OsInv, OsTyped
  <2>4. \A i \in 1 .. n : osAsks'[osOrder'[i]] = osAsks[osOrder[i]]
    BY <1>2, <1>4, <2>2
  <2>5. /\ \A i \in 1 .. m : osTurns[i] = osOrder[n - m + i]
        /\ \A i, j \in 1 .. n : osOrder[i] = osOrder[j] => i = j
        /\ \A i \in 1 .. n : /\ osAsks[osOrder[i]].op = "read"
                             /\ osAsks[osOrder[i]].at \in IF i > n - m THEN {"reading"} ELSE {"ready", "done"}
                             /\ osAsks[osOrder[i]].at = "reading" => osAsks[osOrder[i]].got = <<>>
    BY DEF OsInv, ReadsInTurn
  <2>6. ASSUME NEW cut, Cuts(cut) PROVE \E longer : Cuts(longer)'
    <3> DEFINE c == cut[n]
               longer == [i \in 0 .. n + 1 |-> IF i <= n THEN cut[i] ELSE c]
    <3>1. /\ cut \in [0 .. n -> 0 .. osSource.wrote] /\ cut[0] = 0
          /\ \A i \in 0 .. n : i >= n - m => cut[i] = c
          /\ \A i \in 1 .. n :
               /\ cut[i - 1] + Len(osAsks[osOrder[i]].got) = cut[i]
               /\ \A j \in 1 .. Len(osAsks[osOrder[i]].got) : osAsks[osOrder[i]].got[j] = cut[i - 1] + j
          /\ \A j \in 1 .. Len(osSource.held) : osSource.held[j] = c + j
          /\ \A j \in 1 .. Len(osPipe) : osPipe[j] = c + Len(osSource.held) + j
          /\ c + Len(osSource.held) + Len(osPipe) = osSource.wrote
      BY <2>6 DEF Cuts
    <3>c. c \in 0 .. osSource.wrote /\ osSource.wrote \in Nat
      <4>1. n \in 0 .. n
        BY <1>1
      <4>2. osSource.wrote \in Nat
        BY DEF OsInv, OsTyped, OsSource
      <4> HIDE DEF n
      <4> QED BY <3>1, <4>1, <4>2
    <3> HIDE DEF c, n, m
    <3>2. \A i \in 0 .. n + 1 : longer[i] = IF i <= n THEN cut[i] ELSE c
      OBVIOUS
    <3>3. longer \in [0 .. n + 1 -> 0 .. osSource.wrote]
      <4>1. \A i \in 0 .. n : cut[i] \in 0 .. osSource.wrote
        BY <3>1
      <4>2. \A i \in 0 .. n + 1 : longer[i] \in 0 .. osSource.wrote
        BY <1>1, <3>2, <3>c, <4>1
      <4> QED BY <4>2
    <3> HIDE DEF longer
    <3>4. longer[0] = 0 /\ longer[n + 1] = c /\ longer[n] = c
      <4>0. 0 \in 0 .. n + 1 /\ n \in 0 .. n + 1 /\ n + 1 \in 0 .. n + 1 /\ 0 <= n /\ ~(n + 1 <= n)
        BY <1>1
      <4>1. longer[0] = cut[0] /\ longer[n + 1] = c /\ longer[n] = cut[n]
        BY <3>2, <4>0
      <4> QED BY <3>1, <4>1 DEF c
    <3>5. \A i \in 0 .. n + 1 : i >= (n + 1) - (m + 1) => longer[i] = longer[n + 1]
      BY <1>1, <3>1, <3>2, <3>4
    <3>6. ASSUME NEW i \in 1 .. n + 1
          PROVE  /\ longer[i - 1] + Len(osAsks'[osOrder'[i]].got) = longer[i]
                 /\ \A j \in 1 .. Len(osAsks'[osOrder'[i]].got) : osAsks'[osOrder'[i]].got[j] = longer[i - 1] + j
      <4>1. CASE i = n + 1
        <5>1. osAsks'[osOrder'[i]].got = <<>> /\ i - 1 = n
          BY <1>1, <1>3, <1>4, <2>2, <4>1 DEF n
        <5> QED BY <3>4, <3>c, <4>1, <5>1
      <4>2. CASE i \in 1 .. n
        <5>1. longer[i] = cut[i] /\ longer[i - 1] = cut[i - 1]
          BY <1>1, <3>2, <4>2
        <5>2. osAsks'[osOrder'[i]] = osAsks[osOrder[i]]
          BY <2>4, <4>2 DEF n
        <5> QED BY <3>1, <4>2, <5>1, <5>2
      <4>3. i = n + 1 \/ i \in 1 .. n
        BY <1>1
      <4> QED BY <4>1, <4>2, <4>3
    <3>7. \E x : Cuts(x)'
      <4>0. PICK x : x = longer
        OBVIOUS
      <4>1. Len(osOrder') = n + 1 /\ Len(osTurns') = m + 1
        BY <2>2 DEF n, m
      <4>2. /\ \A j \in 1 .. Len(osSource'.held) : osSource'.held[j] = x[n + 1] + j
            /\ \A j \in 1 .. Len(osPipe') : osPipe'[j] = x[n + 1] + Len(osSource'.held) + j
            /\ x[n + 1] + Len(osSource'.held) + Len(osPipe') = osSource'.wrote
        BY <1>0, <3>1, <3>4, <4>0
      <4>3. /\ x \in [0 .. Len(osOrder') -> 0 .. osSource'.wrote] /\ x[0] = 0
            /\ \A i \in 0 .. Len(osOrder') : i >= Len(osOrder') - Len(osTurns') => x[i] = x[Len(osOrder')]
        BY <1>0, <3>3, <3>4, <3>5, <4>0, <4>1
      <4>4. \A i \in 1 .. Len(osOrder') :
               /\ x[i - 1] + Len(osAsks'[osOrder'[i]].got) = x[i]
               /\ \A j \in 1 .. Len(osAsks'[osOrder'[i]].got) : osAsks'[osOrder'[i]].got[j] = x[i - 1] + j
        BY <3>6, <4>0, <4>1
      <4>5. Cuts(x)'
        BY <4>1, <4>2, <4>3, <4>4 DEF Cuts
      <4> QED BY <4>5
    <3> QED BY <3>7
  <2> HIDE DEF n, m
  <2>7. ReadsInTurn'
    <3>0. Len(osOrder') = n + 1 /\ Len(osTurns') = m + 1
      BY <2>2 DEF n, m
    <3>1. ASSUME NEW i \in 1 .. m + 1 PROVE osTurns'[i] = osOrder'[(n + 1) - (m + 1) + i]
      <4>1. CASE i = m + 1
        BY <1>1, <2>2, <4>1 DEF n, m
      <4>2. CASE i \in 1 .. m
        <5>1. (n + 1) - (m + 1) + i = n - m + i /\ n - m + i \in 1 .. n
          BY <1>1, <4>2
        <5>2. osTurns'[i] = osTurns[i] /\ osOrder'[n - m + i] = osOrder[n - m + i]
          BY <2>2, <4>2, <5>1 DEF n, m
        <5> QED BY <2>5, <4>2, <5>1, <5>2
      <4> QED BY <1>1, <4>1, <4>2
    <3>2. ASSUME NEW i \in 1 .. n + 1, NEW j \in 1 .. n + 1, osOrder'[i] = osOrder'[j] PROVE i = j
      <4>1. \A l \in 1 .. n + 1 : l = n + 1 \/ l \in 1 .. n
        BY <1>1
      <4>2. /\ \A l \in 1 .. n : osOrder'[l] = osOrder[l] /\ osOrder[l] # a
            /\ osOrder'[n + 1] = a
        BY <1>2, <2>2 DEF n
      <4> QED BY <2>5, <3>2, <4>1, <4>2
    <3>3. ASSUME NEW i \in 1 .. n + 1
          PROVE  /\ osAsks'[osOrder'[i]].op = "read"
                 /\ osAsks'[osOrder'[i]].at \in IF i > (n + 1) - (m + 1) THEN {"reading"} ELSE {"ready", "done"}
                 /\ osAsks'[osOrder'[i]].at = "reading" => osAsks'[osOrder'[i]].got = <<>>
      <4>0. i > (n + 1) - (m + 1) <=> i > n - m
        BY <1>1
      <4>1. CASE i = n + 1
        <5>1. osAsks'[osOrder'[i]] = new /\ i > n - m
          BY <1>1, <1>4, <2>2, <4>1 DEF n
        <5> QED BY <1>3, <1>7, <4>0, <5>1
      <4>2. CASE i \in 1 .. n
        <5>1. osAsks'[osOrder'[i]] = osAsks[osOrder[i]]
          BY <2>4, <4>2 DEF n
        <5> QED BY <2>5, <4>0, <4>2, <5>1
      <4> QED BY <1>1, <4>1, <4>2
    <3>4. m + 1 <= n + 1
      BY <1>1
    <3> QED BY <3>0, <3>1, <3>2, <3>3, <3>4 DEF ReadsInTurn
  <2> QED BY <1>0, <1>5, <2>3, <2>6, <2>7 DEF OsInv
<1> QED BY <1>6, <1>7 DEF Os!AskWait, Os!AskRead

\* Marking an ask that is not a waiting read as ended disturbs neither the turns nor the cuts.
LEMMA OsEnded ==
  ASSUME OsInv, NEW a \in ChildAsks, NEW new \in OsAsk, osAsks[a].at \in {"waiting", "ready"},
         osAsks' = [osAsks EXCEPT ![a] = new], new.at \in {"ready", "done"},
         osAsks[a].at = "waiting" => new.at = "ready",
         new.op = osAsks[a].op, new.got = osAsks[a].got, osTable' \in BOOLEAN, OneReaper',
         UNCHANGED <<osChild, osPipe, osSource, osTurns, osOrder, osOpen>>
  PROVE  OsInv'
<1>1. /\ osAsks' \in [ChildAsks -> OsAsk] /\ osAsks'[a] = new
      /\ \A b \in ChildAsks \ {a} : osAsks'[b] = osAsks[b]
  BY DEF OsInv, OsTyped
<1>2. OsTyped'
  BY <1>1 DEF OsInv, OsTyped
<1>3. \A b \in ChildAsks : osAsks'[b].op = osAsks[b].op /\ osAsks'[b].got = osAsks[b].got
  BY <1>1
<1>4. ASSUME NEW i \in 1 .. Len(osOrder)
      PROVE  /\ osOrder[i] \in ChildAsks
             /\ osAsks'[osOrder[i]].op = "read"
             /\ osAsks'[osOrder[i]].at \in IF i > Len(osOrder) - Len(osTurns) THEN {"reading"} ELSE {"ready", "done"}
             /\ osAsks'[osOrder[i]].at = "reading" => osAsks'[osOrder[i]].got = <<>>
  <2>1. osOrder[i] \in ChildAsks
    BY DEF OsInv, OsTyped
  <2>2. /\ osAsks[osOrder[i]].op = "read"
        /\ osAsks[osOrder[i]].at \in IF i > Len(osOrder) - Len(osTurns) THEN {"reading"} ELSE {"ready", "done"}
        /\ osAsks[osOrder[i]].at = "reading" => osAsks[osOrder[i]].got = <<>>
    BY DEF OsInv, ReadsInTurn
  <2>3. CASE osOrder[i] = a
    <3>1. ~(i > Len(osOrder) - Len(osTurns))
      BY <2>2, <2>3
    <3> QED BY <1>1, <1>3, <2>1, <2>2, <2>3, <3>1
  <2>4. CASE osOrder[i] # a
    BY <1>1, <2>1, <2>2, <2>4
  <2> QED BY <2>3, <2>4
<1>5. ReadsInTurn'
  BY <1>4 DEF OsInv, ReadsInTurn
<1>6. ASSUME NEW cut, Cuts(cut) PROVE Cuts(cut)'
  <2>1. \A i \in 1 .. Len(osOrder) : osAsks'[osOrder[i]].got = osAsks[osOrder[i]].got
    BY <1>3, <1>4
  <2> QED BY <1>6, <2>1 DEF Cuts
<1> QED BY <1>2, <1>5, <1>6 DEF OsInv

\* An ask that ends keeps its place among the reads and what it got.
LEMMA OsEndStep ==
  ASSUME OsInv, NEW a \in ChildAsks, Os!ExitSeen(a) \/ Os!Finish(a)
  PROVE  OsInv'
<1>0. /\ osAsks[a].at \in {"waiting", "ready"} /\ osAsks[a] \in OsAsk /\ osAsks \in [ChildAsks -> OsAsk]
      /\ UNCHANGED <<osChild, osPipe, osSource, osTurns, osOrder, osOpen>>
  BY DEF Os!ExitSeen, Os!Finish, Os!At, OsInv, OsTyped
<1>1. CASE Os!ExitSeen(a)
  <2>0. osAsks[a].at = "waiting" /\ osAsks' = [osAsks EXCEPT ![a].at = "ready"] /\ UNCHANGED osTable
    BY <1>1 DEF Os!ExitSeen, Os!At
  <2>1. PICK new \in OsAsk : /\ osAsks' = [osAsks EXCEPT ![a] = new]
                             /\ new.at = "ready" /\ new.op = osAsks[a].op /\ new.got = osAsks[a].got
    <3> DEFINE x == [osAsks[a] EXCEPT !.at = "ready"]
    <3>1. x \in OsAsk /\ x.at = "ready" /\ x.op = osAsks[a].op /\ x.got = osAsks[a].got
      BY <1>0 DEF OsAsk
    <3>2. osAsks' = [osAsks EXCEPT ![a] = x]
      BY <1>0, <2>0
    <3> HIDE DEF x
    <3> QED BY <3>1, <3>2
  <2>2. OneReaper'
    <3>1. \A b \in ChildAsks : Told(b)' <=> Told(b)
      BY <1>0, <2>0, <2>1 DEF Told
    <3> QED BY <1>0, <2>0, <3>1 DEF OsInv, OneReaper
  <2>3. osTable' \in BOOLEAN
    BY <2>0 DEF OsInv, OsTyped
  <2>4. new.at \in {"ready", "done"} /\ (osAsks[a].at = "waiting" => new.at = "ready")
    BY <2>1
  <2> QED BY <1>0, <2>1, <2>2, <2>3, <2>4, OsEnded
<1>2. CASE Os!Finish(a)
  <2> DEFINE answer == IF ~Os!Claims(a) THEN "none"
                       ELSE IF osAsks[a].op = "wait" /\ ~osTable THEN "closed" ELSE "ok"
             x == [osAsks[a] EXCEPT !.at = "done", !.answer = answer]
  <2>0. /\ osAsks[a].at = "ready" /\ osAsks' = [osAsks EXCEPT ![a] = x]
        /\ osTable' = (osTable /\ ~Os!Reaps(a))
    BY <1>0, <1>2 DEF Os!Finish, Os!At
  <2>1. /\ x \in OsAsk /\ x.at = "done" /\ x.op = osAsks[a].op /\ x.got = osAsks[a].got
        /\ x.answer = answer /\ answer \in {"none", "closed", "ok"}
    BY <1>0 DEF OsAsk
  <2> HIDE DEF x
  <2>2. OneReaper'
    <3>0. /\ osTable \in BOOLEAN /\ osTable' \in BOOLEAN /\ (osTable' => osTable)
          /\ osAsks'[a] = x /\ \A b \in ChildAsks \ {a} : osAsks'[b] = osAsks[b]
      BY <1>0, <2>0 DEF OsInv, OsTyped
    <3>1. \A b \in ChildAsks \ {a} : Told(b)' <=> Told(b)
      BY <3>0 DEF Told
    <3>2. ~Told(a)
      BY <2>0 DEF Told
    <3>3. Told(a)' <=> osAsks[a].op = "wait" /\ Os!Claims(a) /\ osTable
      BY <2>1, <3>0 DEF Told
    <3>4. osTable' = (osTable /\ ~(osAsks[a].op = "wait" /\ Os!Claims(a)))
      BY <2>0 DEF Os!Reaps
    <3>5. /\ osTable => osChild # "none"
          /\ \A b \in ChildAsks : Told(b) => ~osTable /\ osChild # "none"
          /\ \A b, c \in ChildAsks : Told(b) /\ Told(c) => b = c
          /\ osOpen /\ osChild # "none" /\ ~osTable => \E b \in ChildAsks : Told(b)
      BY DEF OsInv, OneReaper
    <3>6. osTable' => osChild' # "none"
      BY <1>0, <3>0, <3>5
    <3>7. \A b \in ChildAsks : Told(b)' => ~osTable' /\ osChild' # "none"
      BY <1>0, <3>0, <3>1, <3>3, <3>4, <3>5
    <3>8. \A b, c \in ChildAsks : Told(b)' /\ Told(c)' => b = c
      BY <3>1, <3>3, <3>5
    <3>9. osOpen' /\ osChild' # "none" /\ ~osTable' => \E b \in ChildAsks : Told(b)'
      <4> SUFFICES ASSUME osOpen', osChild' # "none", ~osTable' PROVE \E b \in ChildAsks : Told(b)'
        OBVIOUS
      <4>1. CASE osTable
        BY <3>0, <3>3, <3>4, <4>1
      <4>2. CASE ~osTable
        <5>1. PICK b \in ChildAsks : Told(b)
          BY <1>0, <3>5, <4>2
        <5> QED BY <3>1, <3>2, <5>1
      <4> QED BY <4>1, <4>2
    <3> QED BY <3>6, <3>7, <3>8, <3>9 DEF OneReaper
  <2>3. osTable' \in BOOLEAN
    BY <2>0
  <2>4. PICK new \in OsAsk : /\ osAsks' = [osAsks EXCEPT ![a] = new]
                           /\ new.at = "done" /\ new.op = osAsks[a].op /\ new.got = osAsks[a].got
    BY <2>0, <2>1
  <2>5. new.at \in {"ready", "done"} /\ osAsks[a].at # "waiting"
    BY <2>0, <2>4
  <2> QED BY <1>0, <2>2, <2>3, <2>4, <2>5, OsEnded
<1> QED BY <1>1, <1>2

\* Cancelling a key, and closing the port, after which no byte is owed to anyone.
LEMMA OsCloseStep ==
  ASSUME OsInv, Os!Close \/ \E k \in AskKeys : Os!Cancel(k)
  PROVE  OsInv'
<1>0. UNCHANGED <<osTurns, osAsks, osOrder>>
  BY DEF Os!Close, Os!Cancel
<1>1. ReadsInTurn' /\ \A b \in ChildAsks : Told(b)' <=> Told(b)
  BY <1>0 DEF OsInv, ReadsInTurn, Told
<1>2. CASE \E k \in AskKeys : Os!Cancel(k)
  <2>0. UNCHANGED <<osPipe, osSource, osChild, osTable, osOpen>>
    BY <1>2 DEF Os!Cancel
  <2>1. OsTyped'
    BY <1>0, <2>0 DEF OsInv, OsTyped
  <2>2. OneReaper'
    BY <1>1, <2>0 DEF OsInv, OneReaper
  <2>3. ASSUME NEW cut, Cuts(cut) PROVE Cuts(cut)'
    BY <1>0, <2>0, <2>3 DEF Cuts
  <2> QED BY <1>1, <2>0, <2>1, <2>2, <2>3 DEF OsInv
<1>3. CASE Os!Close
  <2>0. /\ osOpen' = FALSE /\ osTable' = FALSE /\ osPipe' = <<>>
        /\ osSource' = [osSource EXCEPT !.ended = TRUE]
        /\ osChild' = IF osChild = "running" THEN "exited" ELSE osChild
    BY <1>3 DEF Os!Close
  <2>1. OsTyped'
    <3>1. osSource' \in OsSource
      BY <2>0 DEF OsInv, OsTyped, OsSource
    <3>2. osPipe' \in Seq(Nat)
      BY <2>0
    <3>3. osChild' \in {"none", "running", "exited"}
      BY <2>0 DEF OsInv, OsTyped
    <3> QED BY <1>0, <2>0, <3>1, <3>2, <3>3 DEF OsInv, OsTyped
  <2>2. OneReaper'
    <3>1. \A b \in ChildAsks : Told(b) => osChild # "none"
      BY DEF OsInv, OneReaper
    <3>2. osChild' = "none" <=> osChild = "none"
      BY <2>0
    <3>3. \A b, c \in ChildAsks : Told(b) /\ Told(c) => b = c
      BY DEF OsInv, OneReaper
    <3> QED BY <1>1, <2>0, <3>1, <3>2, <3>3 DEF OneReaper
  <2> QED BY <1>1, <2>0, <2>1, <2>2 DEF OsInv
<1> QED BY <1>2, <1>3

\* In every state of the port, every read's bytes are where the child wrote them, and the exit is told once.
LEMMA OsInvariant == Spec => []OsInv
<1>1. Init => OsInv
  <2> SUFFICES ASSUME Init PROVE OsInv
    OBVIOUS
  <2>0. Os!Init
    BY DEF Init
  <2>a. /\ osPipe = <<>> /\ osTurns = <<>> /\ osOrder = <<>> /\ osChild = "none" /\ osTable = FALSE
        /\ osSource = [held |-> <<>>, paused |-> FALSE, ended |-> FALSE, wrote |-> 0]
        /\ osAsks = [a \in ChildAsks |-> Os!Idle]
    BY <2>0 DEF Os!Init
  <2>1. /\ <<>> \in Seq(Nat) /\ <<>> \in Seq(ChildAsks) /\ Os!Idle.at = "idle"
        /\ Os!Idle \in OsAsk /\ osSource \in OsSource
    BY <2>a DEF OsSource, OsAsk, Os!Idle
  <2>2. OsTyped
    BY <2>a, <2>1 DEF OsTyped
  <2>3. ReadsInTurn
    BY <2>a DEF ReadsInTurn
  <2>4. \E cut : Cuts(cut)
    <3> DEFINE zero == [i \in 0 .. 0 |-> 0]
    <3>0. zero \in [0 .. 0 -> 0 .. 0] /\ zero[0] = 0 /\ \A i \in 0 .. 0 : zero[i] = 0
      OBVIOUS
    <3> HIDE DEF zero
    <3>1. Len(osOrder) = 0 /\ Len(osTurns) = 0 /\ Len(osSource.held) = 0 /\ Len(osPipe) = 0 /\ osSource.wrote = 0
      BY <2>a
    <3>2. Cuts(zero)
      BY <3>0, <3>1 DEF Cuts
    <3> QED BY <3>2
  <2>5. OneReaper
    BY <2>a, <2>1 DEF OneReaper, Told
  <2> QED BY <2>2, <2>3, <2>4, <2>5 DEF OsInv
<1>2. OsInv /\ [Next]_vars => OsInv'
  <2> SUFFICES ASSUME OsInv, [Next]_vars PROVE OsInv'
    OBVIOUS
  <2>1. CASE Os!Next
    BY <2>1, OsStreamStep, OsAskStep, OsTakeStep, OsEndStep, OsCloseStep DEF Os!Next
  <2>2. CASE UNCHANGED osVars
    <3>1. OsTyped' /\ ReadsInTurn' /\ OneReaper'
      BY <2>2 DEF osVars, OsInv, OsTyped, ReadsInTurn, OneReaper, Told
    <3>2. ASSUME NEW cut, Cuts(cut) PROVE Cuts(cut)'
      BY <2>2, <3>2 DEF osVars, Cuts
    <3> QED BY <2>2, <3>1, <3>2 DEF osVars, OsInv
  <2> QED BY <2>1, <2>2 DEF Next, Rest, vars
<1> QED BY <1>1, <1>2, PTL DEF Spec

\* A sequence of consecutive bytes, place by place.
LEMMA BytesByPlace ==
  ASSUME NEW s \in Seq(Nat), NEW from \in Nat, NEW to \in Nat, from + Len(s) = to,
         \A k \in 1 .. Len(s) : s[k] = from + k
  PROVE  s = Os!Bytes(from, to)
<1>1. s = [i \in 1 .. Len(s) |-> s[i]]
  OBVIOUS
<1>2. Len(s) = to - from
  OBVIOUS
<1> QED BY <1>1, <1>2 DEF Os!Bytes

\* What the invariant means for the port: its output in order, its exit told.
LEMMA OsPromises ==
  ASSUME OsInv
  PROVE  Os!BytesInOrder /\ Os!ExitIsTold
<1>1. Os!BytesInOrder
  <2> SUFFICES ASSUME osOpen PROVE Os!BytesInOrder
    BY DEF Os!BytesInOrder
  <2>1. PICK cut : Cuts(cut)
    BY DEF OsInv
  <2> DEFINE n == Len(osOrder)
  <2>2. /\ cut \in [0 .. n -> 0 .. osSource.wrote] /\ cut[0] = 0
        /\ \A i \in 1 .. n :
             /\ cut[i - 1] + Len(osAsks[osOrder[i]].got) = cut[i]
             /\ \A j \in 1 .. Len(osAsks[osOrder[i]].got) : osAsks[osOrder[i]].got[j] = cut[i - 1] + j
        /\ \A j \in 1 .. Len(osSource.held) : osSource.held[j] = cut[n] + j
        /\ \A j \in 1 .. Len(osPipe) : osPipe[j] = cut[n] + Len(osSource.held) + j
        /\ cut[n] + Len(osSource.held) + Len(osPipe) = osSource.wrote
    BY <2>1 DEF Cuts
  <2>3. /\ n \in Nat /\ osOrder \in Seq(ChildAsks) /\ osAsks \in [ChildAsks -> OsAsk] /\ osPipe \in Seq(Nat)
        /\ osSource.held \in Seq(Nat) /\ osSource.wrote \in Nat
    BY DEF OsInv, OsTyped, OsSource
  <2>o. \A i \in 1 .. n : osAsks[osOrder[i]].got \in Seq(Nat)
    BY <2>3 DEF OsAsk
  <2> HIDE DEF n
  <2>4. \A i \in 0 .. n : cut[i] \in Nat
    <3>1. \A i \in 0 .. n : cut[i] \in 0 .. osSource.wrote
      BY <2>2
    <3> QED BY <2>3, <3>1
  <2>5. ASSUME NEW i \in 1 .. n
        PROVE  cut[i - 1] <= cut[i] /\ osAsks[osOrder[i]].got = Os!Bytes(cut[i - 1], cut[i])
    <3> DEFINE got == osAsks[osOrder[i]].got
    <3>1. /\ got \in Seq(Nat) /\ Len(got) \in Nat /\ cut[i - 1] + Len(got) = cut[i]
          /\ \A j \in 1 .. Len(got) : got[j] = cut[i - 1] + j
      BY <2>2, <2>o
    <3>2. cut[i - 1] \in Nat /\ cut[i] \in Nat
      BY <2>3, <2>4
    <3> HIDE DEF got
    <3>3. cut[i - 1] <= cut[i]
      BY <3>1, <3>2
    <3>4. got = Os!Bytes(cut[i - 1], cut[i])
      BY <3>1, <3>2, BytesByPlace
    <3> QED BY <3>3, <3>4 DEF got
  <2>6. osSource.held \o osPipe = Os!Bytes(cut[n], osSource.wrote)
    <3> DEFINE c == cut[n]
               held == osSource.held
               s == held \o osPipe
               h == Len(held)
               l == Len(osPipe)
    <3>1. /\ s \in Seq(Nat) /\ Len(s) = h + l /\ h \in Nat /\ l \in Nat
          /\ \A k \in 1 .. h + l : s[k] = IF k <= h THEN held[k] ELSE osPipe[k - h]
      BY <2>3
    <3>2. /\ c \in Nat /\ c + h + l = osSource.wrote
          /\ \A k \in 1 .. h : held[k] = c + k
          /\ \A k \in 1 .. l : osPipe[k] = c + h + k
      BY <2>2, <2>3, <2>4
    <3> HIDE DEF c, s, h, l, held
    <3>3. ASSUME NEW k \in 1 .. h + l PROVE s[k] = c + k
      <4>1. CASE k <= h
        <5>1. k \in 1 .. h /\ s[k] = held[k]
          BY <3>1, <4>1
        <5> QED BY <3>2, <5>1
      <4>2. CASE k > h
        <5>1. k - h \in 1 .. l /\ s[k] = osPipe[k - h]
          BY <3>1, <4>2
        <5> QED BY <3>1, <3>2, <5>1
      <4> QED BY <3>1, <4>1, <4>2
    <3>4. c + Len(s) = osSource.wrote /\ \A k \in 1 .. Len(s) : s[k] = c + k
      BY <3>1, <3>2, <3>3
    <3>5. s = Os!Bytes(c, osSource.wrote)
      BY <2>3, <3>1, <3>2, <3>4, BytesByPlace
    <3> QED BY <3>5 DEF c, s, held
  <2> QED BY <2>2, <2>5, <2>6 DEF Os!BytesInOrder, n
<1>2. Os!ExitIsTold
  <2> DEFINE told == {a \in ChildAsks : Os!At(a, "done") /\ osAsks[a].op = "wait" /\ osAsks[a].answer = "ok"}
  <2>1. \A a \in ChildAsks : a \in told <=> Told(a)
    BY DEF Told, Os!At
  <2>2. told \subseteq ChildAsks
    OBVIOUS
  <2> HIDE DEF told
  <2>3. osOpen /\ osChild # "none" /\ ~osTable => told # {}
    BY <2>1 DEF OsInv, OneReaper
  <2>4. \A a, b \in told : a = b
    BY <2>1, <2>2 DEF OsInv, OneReaper
  <2> QED BY <2>3, <2>4 DEF Os!ExitIsTold, told
<1> QED BY <1>1, <1>2

-----------------------------------------------------------------------------
\* InOrder: a subscriber hears the frames of a boot one after the other, across breaks, replays and restarts
\* (http-event-transport.ts); the reads of a child's output cut what it wrote in the order they were asked, and
\* the exit of the child is told, once (os-node.ts, os-process.ts).
THEOREM PiecesInOrder == Spec => []InOrder
<1>1. PushInv /\ OsInv => InOrder
  BY OsPromises DEF InOrder, PushInv
<1> QED BY <1>1, PushInvariant, OsInvariant, PTL

-----------------------------------------------------------------------------
(* The mounts of the server. *)

\* An open kernel was told of the mounts at the last step that changed either.
LEMMA SessionKnows == Spec => [](Session!KernelKnowsMounts)
<1>1. Init => Session!KernelKnowsMounts
  BY DEF Init, Session!Init, Session!KernelKnowsMounts, Session!Mounted
<1>2. Session!KernelKnowsMounts /\ [Next]_vars => Session!KernelKnowsMounts'
  <2> SUFFICES ASSUME Session!KernelKnowsMounts, [Next]_vars PROVE Session!KernelKnowsMounts'
    OBVIOUS
  <2> USE DEF Session!KernelKnowsMounts
  <2>1. CASE \E c \in Clients, kind \in Session!Kind, s \in SUBSET Traits : Session!Request(c, kind, s)
    BY <2>1 DEF Session!Request, Session!Mounted
  <2>2. ASSUME NEW r \in sessionReceived, Session!Proceed(r) PROVE Session!KernelKnowsMounts'
    <3>1. CASE ~sessionKernel
      BY <2>2, <3>1 DEF Session!Proceed
    <3>2. CASE sessionKernel /\ UNCHANGED <<sessionMountedBy, sessionTold>>
      BY <2>2, <3>2 DEF Session!Proceed, Session!Mounted
    <3>3. CASE sessionKernel /\ sessionTold' = Session!Mounted(sessionMountedBy')
      BY <2>2, <3>3 DEF Session!Proceed
    <3> QED BY <2>2, <3>1, <3>2, <3>3 DEF Session!Proceed, Session!RecordMount
  <2>3. CASE (\E fails \in BOOLEAN : Session!Evaluate(fails)) \/ Session!FlushTickRelay
    BY <2>3 DEF Session!Evaluate, Session!FlushTickRelay, Session!Mounted
  <2>4. CASE \E c \in Clients : Session!ReleaseClient(c)
    BY <2>4 DEF Session!ReleaseClient
  <2>5. CASE Session!UnregisterAll \/ Session!OpenKernel
    BY <2>5 DEF Session!UnregisterAll, Session!OpenKernel, Session!Mounted
  <2>6. CASE UNCHANGED sessionVars
    BY <2>6 DEF sessionVars, Session!Mounted
  <2> QED BY <2>1, <2>2, <2>3, <2>4, <2>5, <2>6 DEF Next, Rest, vars, Session!Next, Session!Kind
<1> QED BY <1>1, <1>2, PTL DEF Spec

\* What a cache holds of an import: nothing, or a version no clear was meant to remove.
-----------------------------------------------------------------------------
(* The program host. *)

\* What the parts of the program host range over.
Versions == Effects \cup {Earlier, NoVersion}
ProgramAt == {"idle", "stamp", "check", "read", "describe", "play", "writing", "snapshotting", "file",
              "source", "admit", "resolve", "done"}
ProgramStep == [at : ProgramAt, place : Program!Place \cup {NoVersion}]
ProgramRequest == [of : Effects, op : {"write", "snapshot"}, place : Workspaces]
ProgramTyped ==
  /\ programEffects \in [Effects -> ProgramStep]
  /\ programRequests \in Seq(ProgramRequest)
  /\ programSaved \in [Program!Place -> Versions]
  /\ programCommits \in [Workspaces -> Seq(Versions)]
  /\ programCrashes \in Nat

\* What is written or run passed the check.
ProgramChecked ==
  /\ programMounted \subseteq programValid
  /\ \A i \in 1 .. Len(programRequests) : programRequests[i].of \in programValid
  /\ \A f \in Effects :
       /\ programEffects[f].at \in {"file", "source", "admit", "resolve"} =>
            programEffects[f].place \in Program!Place
       /\ programEffects[f].at = "resolve" =>
            programSaved[programEffects[f].place] \in programValid

\* A version that is not in the last snapshot has a snapshot of its own to come.
ProgramSnapshots ==
  \A w \in Workspaces :
    \/ Program!LastCommit(w) = programSaved[w]
    \/ \E i \in 1 .. Len(programRequests) :
         programRequests[i].place = w /\ programRequests[i].op = "snapshot"
    \/ \E r \in programRefused : r.op = "snapshot"
    \/ programCrashes > 0

\* A request that was refused had reached the program, unless that failed to open or a process crashed.
ProgramRefusals ==
  \A r \in programRefused : r.ran \/ programProgram = "failed" \/ programCrashes > 0

\* A temporary file has an effect under way that will remove it; the host directory, a program that opens.
ProgramTidy ==
  \/ programCrashes > 0
  \/ /\ \A f \in programTemps : f \in Effects /\ programEffects[f].at \notin {"idle", "done"}
     /\ programHostDir => programProgram \in {"resolving", "opening"}

\* The invariant of the program host.
ProgramInv == ProgramTyped /\ ProgramChecked /\ ProgramSnapshots /\ ProgramRefusals /\ ProgramTidy

\* An effect before its check, the ones that are played, read or described, and the way to a mount.
LEMMA ProgramEffectStep ==
  ASSUME ProgramInv, NEW f \in Effects,
         Program!Asked(f) \/ Program!Stamp(f) \/ Program!Play(f) \/ Program!ReadText(f)
           \/ Program!Describe(f) \/ Program!FindFile(f) \/ Program!ReadSource(f)
           \/ Program!Admit(f) \/ Program!Resolve(f)
  PROVE  ProgramInv'
<1> USE DEF ProgramInv, Program!At, Program!To, Program!Answered, Program!Done, Program!Idle
<1>0. UNCHANGED <<programValid, programSaved, programCommits, programRequests, programProgram, programHostDir,
                  programRefused, programCrashes>>
  BY DEF Program!Asked, Program!Stamp, Program!Play, Program!ReadText, Program!Describe,
     Program!FindFile, Program!ReadSource, Program!Admit, Program!Resolve
<1> DEFINE Moves(e) ==
      /\ programEffects' = [programEffects EXCEPT ![f] = e]
      /\ e.at \in {"file", "source", "admit", "resolve"} => e.place \in Program!Place
      /\ e.at = "resolve" => programSaved[e.place] \in programValid
      /\ e = Program!Done \/ e.at \notin {"idle", "done"}
<1>1. \E e \in ProgramStep : Moves(e)
  <2> USE DEF ProgramTyped, ProgramChecked
  <2> DEFINE On(step) == [programEffects[f] EXCEPT !.at = step]
  <2>1. /\ Program!Done \in ProgramStep /\ Program!Done.at = "done"
        /\ \A step \in ProgramAt : /\ On(step) \in ProgramStep /\ On(step).at = step
                                /\ On(step).place = programEffects[f].place
    BY DEF ProgramStep, ProgramAt
  <2>2. CASE Program!Asked(f)
    <3>1. CASE programEffects' = [programEffects EXCEPT ![f] = Program!Done]
      BY <2>1, <3>1
    <3>2. CASE \E step \in {"stamp", "check", "read", "play"}, p \in {NoVersion} \cup Program!Place :
                 programEffects' = [programEffects EXCEPT ![f] = [at |-> step, place |-> p]]
      <4>1. PICK step \in {"stamp", "check", "read", "play"}, p \in {NoVersion} \cup Program!Place :
                 programEffects' = [programEffects EXCEPT ![f] = [at |-> step, place |-> p]]
        BY <3>2
      <4>2. [at |-> step, place |-> p] \in ProgramStep
        BY DEF ProgramStep, ProgramAt
      <4>3. Moves([at |-> step, place |-> p])
        BY <4>1
      <4> HIDE DEF Moves
      <4> QED BY <4>2, <4>3
    <3>3. CASE \E step \in {"file", "source", "describe"}, p \in Program!Place :
                 programEffects' = [programEffects EXCEPT ![f] = [at |-> step, place |-> p]]
      BY <3>3 DEF ProgramStep, ProgramAt
    <3> QED BY <2>2, <3>1, <3>2, <3>3 DEF Program!Asked
  <2> HIDE DEF On
  <2>3. CASE programEffects' = [programEffects EXCEPT ![f] = Program!Done]
    BY <2>1, <2>3
  <2>4. CASE Program!Stamp(f) \/ Program!Play(f) \/ Program!ReadText(f) \/ Program!Describe(f)
    <3>1. \E step \in {"check", "play"} : programEffects' \in {[programEffects EXCEPT ![f] = On(step)],
                                                             [programEffects EXCEPT ![f] = Program!Done]}
      BY <2>4 DEF Program!Stamp, Program!Play, Program!ReadText, Program!Describe, On
    <3> QED BY <2>1, <2>3, <3>1 DEF ProgramAt
  <2>5. CASE Program!FindFile(f) \/ Program!ReadSource(f) \/ Program!Resolve(f)
    <3>1. \/ programEffects' = [programEffects EXCEPT ![f] = Program!Done]
          \/ programEffects' = [programEffects EXCEPT ![f] = On("admit")] /\ programEffects[f].place \in Program!Place
      BY <2>5 DEF Program!FindFile, Program!ReadSource, Program!Resolve, On
    <3> QED BY <2>1, <2>3, <3>1 DEF ProgramAt
  <2>6. CASE Program!Admit(f)
    <3>1. \/ programEffects' = [programEffects EXCEPT ![f] = Program!Done]
          \/ /\ programEffects' = [programEffects EXCEPT ![f] = On("resolve")]
             /\ programEffects[f].place \in Program!Place
             /\ programSaved[programEffects[f].place] \in programValid
      BY <2>6 DEF Program!Admit, On
    <3> QED BY <2>1, <2>3, <3>1 DEF ProgramAt
  <2> QED BY <2>2, <2>4, <2>5, <2>6
<1>2. programMounted' \subseteq programValid
  BY DEF ProgramTyped, ProgramChecked, Program!Asked, Program!Stamp, Program!Play, Program!ReadText, Program!Describe,
     Program!FindFile,
     Program!ReadSource, Program!Admit, Program!Resolve
<1>3. programCrashes > 0 \/ \A g \in programTemps' : g \in Effects /\ programEffects'[g].at \notin {"idle", "done"}
  <2>1. /\ programTemps' \subseteq programTemps \cup {f}
        /\ \A g \in Effects \ {f} : programEffects'[g] = programEffects[g]
    BY DEF Program!Asked, Program!Stamp, Program!Play, Program!ReadText, Program!Describe,
     Program!FindFile,
       Program!ReadSource, Program!Admit, Program!Resolve, ProgramTyped
  <2>2. CASE programEffects' = [programEffects EXCEPT ![f] = Program!Done]
    <3>0. programEffects'[f].at = "done" /\ programEffects[f] \in ProgramStep
      BY <2>2 DEF ProgramTyped
    <3>1. CASE Program!Asked(f)
      <4>1. programEffects[f].at = "idle" /\ programTemps' = programTemps
        BY <3>0, <3>1 DEF Program!Asked, ProgramTyped
      <4> QED BY <2>1, <4>1 DEF ProgramTidy
    <3>2. CASE ~Program!Asked(f)
      <4>1. f \notin programTemps'
        BY <3>0, <3>2 DEF Program!Stamp, Program!Play, Program!ReadText, Program!Describe,
     Program!FindFile,
           Program!ReadSource, Program!Admit, Program!Resolve, ProgramTyped, ProgramStep
      <4> QED BY <2>1, <4>1 DEF ProgramTidy
    <3> QED BY <3>1, <3>2
  <2>3. CASE programEffects'[f].at \notin {"idle", "done"}
    BY <2>1, <2>3 DEF ProgramTidy
  <2> QED BY <1>1, <2>2, <2>3 DEF ProgramTyped
<1>4. ProgramTyped' /\ ProgramChecked'
  BY <1>0, <1>1, <1>2 DEF ProgramTyped, ProgramChecked
<1>5. ProgramSnapshots' /\ ProgramRefusals'
  BY <1>0 DEF ProgramSnapshots, ProgramRefusals, Program!LastCommit
<1>6. ProgramTidy'
  BY <1>0, <1>3 DEF ProgramTidy
<1> QED BY <1>4, <1>5, <1>6

\* What passed its check is saved in the project at once, or asked of the program that keeps its workspace.
LEMMA ProgramCheckStep ==
  ASSUME ProgramInv, ProjectAssumption, NEW f \in Effects, Program!Check(f)
  PROVE  ProgramInv'
<1> USE DEF ProgramInv, Program!Check, Program!At, Program!To, Program!Answered, Program!Done, Program!Idle,
      Program!Passes, Program!Request
<1>0. \E e \in ProgramStep : /\ programEffects' = [programEffects EXCEPT ![f] = e]
                             /\ \/ e.at = "done" /\ programTemps' = programTemps \ {f}
                                \/ e.at = "writing" /\ programTemps' = programTemps
  <2>1. Program!Done \in ProgramStep /\ Program!Done.at = "done"
    BY DEF ProgramStep, ProgramAt
  <2>2. /\ [programEffects[f] EXCEPT !.at = "writing"] \in ProgramStep
        /\ [programEffects[f] EXCEPT !.at = "writing"].at = "writing"
    BY DEF ProgramTyped, ProgramStep, ProgramAt
  <2> QED BY <2>1, <2>2
<1>1. ProgramTyped'
  <2>1. programEffects' \in [Effects -> ProgramStep]
    BY <1>0 DEF ProgramTyped
  <2>2. programRequests' \in Seq(ProgramRequest)
    <3>1. programEffects[f].place \in Workspaces =>
            [of |-> f, op |-> "write", place |-> programEffects[f].place] \in ProgramRequest
      BY DEF ProgramRequest
    <3> QED BY <3>1 DEF ProgramTyped
  <2> QED BY <2>1, <2>2 DEF ProgramTyped, Versions, Program!Place
<1>2. ProgramChecked'
  <2>1. \A i \in 1 .. Len(programRequests') : programRequests'[i].of \in programValid'
    BY DEF ProgramTyped, ProgramChecked
  <2>2. \A p \in Program!Place : programSaved[p] \in programValid => programSaved'[p] \in programValid'
    BY DEF ProgramTyped, Program!Place
  <2>3. \A g \in Effects : programEffects'[g] = programEffects[g] \/ programEffects'[g].at \in {"done", "writing"}
    BY <1>0 DEF ProgramTyped
  <2> QED BY <2>1, <2>2, <2>3 DEF ProgramTyped, ProgramChecked
<1>3. ProgramSnapshots'
  <2> SUFFICES ASSUME NEW w \in Workspaces PROVE
        \/ Program!LastCommit(w)' = programSaved'[w]
        \/ \E i \in 1 .. Len(programRequests') :
             programRequests'[i].place = w /\ programRequests'[i].op = "snapshot"
        \/ \E r \in programRefused' : r.op = "snapshot"
        \/ programCrashes' > 0
    BY DEF ProgramSnapshots
  <2>1. programSaved'[w] = programSaved[w] /\ Program!LastCommit(w)' = Program!LastCommit(w)
    BY DEF ProgramTyped, Program!Place, Program!LastCommit, ProjectAssumption
  <2>2. \A i \in 1 .. Len(programRequests) :
          i \in 1 .. Len(programRequests') /\ programRequests'[i] = programRequests[i]
    BY DEF ProgramTyped
  <2> QED BY <2>1, <2>2 DEF ProgramSnapshots
<1>4. ProgramRefusals'
  BY DEF ProgramRefusals
<1>5. ProgramTidy'
  <2>1. \A g \in programTemps' : g \in programTemps
             /\ (programEffects'[g] = programEffects[g] \/ programEffects'[g].at = "writing" \/ g \notin Effects)
    BY <1>0 DEF ProgramTyped
  <2> QED BY <2>1 DEF ProgramTidy
<1> QED BY <1>1, <1>2, <1>3, <1>4, <1>5

\* Opening the program, its directory and its kernel touches no effect.
LEMMA ProgramOpenStep ==
  ASSUME ProgramInv, Program!OpenProgram \/ Program!ResolveProgram \/ Program!OpenKernelProgram
  PROVE  ProgramInv'
<1>1. UNCHANGED <<programValid, programEffects, programTemps, programSaved, programCommits, programRequests,
                  programRefused, programMounted, programCrashes>>
  BY DEF Program!OpenProgram, Program!ResolveProgram, Program!OpenKernelProgram
<1>2. /\ programHostDir' => programProgram' \in {"resolving", "opening"} \/ programHostDir
      /\ programHostDir /\ programHostDir' => programProgram' \in {"resolving", "opening"} \/ programProgram = "none"
      /\ programProgram # "failed"
  BY DEF Program!OpenProgram, Program!ResolveProgram, Program!OpenKernelProgram, Program!OpeningEnds
<1>3. ProgramTyped' /\ ProgramChecked' /\ ProgramSnapshots'
  BY <1>1 DEF ProgramInv, ProgramTyped, ProgramChecked, ProgramSnapshots, Program!LastCommit
<1>4. ProgramRefusals' /\ ProgramTidy'
  BY <1>1, <1>2 DEF ProgramInv, ProgramRefusals, ProgramTidy
<1> QED BY <1>3, <1>4 DEF ProgramInv

\* What the first request leaves of the others when it goes.
LEMMA ProgramHead ==
  ASSUME ProgramInv, programRequests # <<>>
  PROVE  /\ Head(programRequests) \in ProgramRequest
         /\ Head(programRequests) = programRequests[1] /\ Head(programRequests).of \in programValid
         /\ Tail(programRequests) \in Seq(ProgramRequest)
         /\ \A i \in 1 .. Len(Tail(programRequests)) :
              /\ Tail(programRequests)[i] = programRequests[i + 1]
              /\ Tail(programRequests)[i].of \in programValid
         /\ \A i \in 1 .. Len(programRequests) :
              \/ i = 1
              \/ i - 1 \in 1 .. Len(Tail(programRequests)) /\ Tail(programRequests)[i - 1] = programRequests[i]
<1> DEFINE rest == Tail(programRequests)
<1>1. programRequests \in Seq(ProgramRequest) /\ Len(programRequests) > 0
  BY DEF ProgramInv, ProgramTyped
<1>2. /\ rest \in Seq(ProgramRequest) /\ Len(rest) = Len(programRequests) - 1
      /\ \A i \in 1 .. Len(rest) : rest[i] = programRequests[i + 1]
      /\ Head(programRequests) = programRequests[1] /\ programRequests[1] \in ProgramRequest
  BY <1>1
<1>3. \A i \in 1 .. Len(programRequests) : programRequests[i].of \in programValid
  BY DEF ProgramInv, ProgramChecked
<1> HIDE DEF rest
<1> QED BY <1>1, <1>2, <1>3 DEF rest

\* The program carries out a request: a write is followed by a snapshot of its own.
LEMMA ProgramWrittenStep ==
  ASSUME ProgramInv, ProjectAssumption, Program!Written
  PROVE  ProgramInv'
<1> DEFINE r == Head(programRequests)
           rest == Tail(programRequests)
           asked == [r EXCEPT !.op = "snapshot"]
<1>0. /\ programRequests # <<>> /\ r.op = "write"
      /\ programSaved' = [programSaved EXCEPT ![r.place] = r.of]
      /\ programRequests' = Append(rest, asked)
      /\ programEffects' = [programEffects EXCEPT ![r.of] = [programEffects[r.of] EXCEPT !.at = "snapshotting"]]
      /\ UNCHANGED <<programValid, programTemps, programCommits, programProgram, programHostDir, programRefused,
                     programMounted, programCrashes>>
  BY DEF Program!Written, Program!To
<1>1. /\ r \in ProgramRequest /\ r.of \in programValid
      /\ rest \in Seq(ProgramRequest)
      /\ \A i \in 1 .. Len(rest) : rest[i] = programRequests[i + 1] /\ rest[i].of \in programValid
      /\ \A i \in 1 .. Len(programRequests) :
           i = 1 \/ (i - 1 \in 1 .. Len(rest) /\ rest[i - 1] = programRequests[i])
      /\ r = programRequests[1]
  BY <1>0, ProgramHead
<1>2. asked \in ProgramRequest /\ asked.of = r.of /\ asked.place = r.place /\ asked.op = "snapshot"
  BY <1>1 DEF ProgramRequest
<1> HIDE DEF r, rest, asked
<1>3. /\ programRequests' \in Seq(ProgramRequest) /\ Len(programRequests') = Len(rest) + 1
      /\ \A i \in 1 .. Len(rest) : programRequests'[i] = rest[i]
      /\ programRequests'[Len(rest) + 1] = asked
  BY <1>0, <1>1, <1>2
<1>4. ProgramTyped'
  <2>1. r.of \in Effects /\ r.place \in Program!Place /\ r.of \in Versions
    BY <1>1 DEF ProgramRequest, Program!Place, Versions
  <2>2. programEffects' \in [Effects -> ProgramStep]
    BY <1>0, <2>1 DEF ProgramInv, ProgramTyped, ProgramStep, ProgramAt
  <2>3. programSaved' \in [Program!Place -> Versions]
    BY <1>0, <2>1 DEF ProgramInv, ProgramTyped
  <2> QED BY <1>0, <1>3, <2>2, <2>3 DEF ProgramInv, ProgramTyped
<1>5. ProgramChecked'
  <2>1. \A i \in 1 .. Len(programRequests') : programRequests'[i].of \in programValid'
    BY <1>0, <1>1, <1>2, <1>3
  <2>2. \A p \in Program!Place : programSaved[p] \in programValid => programSaved'[p] \in programValid'
    BY <1>0, <1>1 DEF ProgramInv, ProgramTyped, Program!Place
  <2>3. \A g \in Effects : programEffects'[g] = programEffects[g] \/ programEffects'[g].at = "snapshotting"
    BY <1>0, <1>1 DEF ProgramInv, ProgramTyped, ProgramRequest, ProgramStep, ProgramAt
  <2> QED BY <1>0, <2>1, <2>2, <2>3 DEF ProgramInv, ProgramChecked
<1>6. ProgramSnapshots'
  <2> SUFFICES ASSUME NEW w \in Workspaces PROVE
        \/ Program!LastCommit(w)' = programSaved'[w]
        \/ \E i \in 1 .. Len(programRequests') :
             programRequests'[i].place = w /\ programRequests'[i].op = "snapshot"
        \/ \E x \in programRefused' : x.op = "snapshot"
        \/ programCrashes' > 0
    BY DEF ProgramSnapshots
  <2>1. CASE w = r.place
    <3>1. Len(rest) + 1 \in 1 .. Len(programRequests')
      BY <1>1, <1>3
    <3> QED BY <1>2, <1>3, <2>1, <3>1
  <2>2. CASE w # r.place
    <3>1. programSaved'[w] = programSaved[w] /\ Program!LastCommit(w)' = Program!LastCommit(w)
      BY <1>0, <2>2 DEF ProgramInv, ProgramTyped, Program!Place, Program!LastCommit
    <3>2. ASSUME NEW i \in 1 .. Len(programRequests), programRequests[i].place = w,
                 programRequests[i].op = "snapshot"
          PROVE  \E j \in 1 .. Len(programRequests') :
                   programRequests'[j].place = w /\ programRequests'[j].op = "snapshot"
      <4>1. i - 1 \in 1 .. Len(rest) /\ rest[i - 1] = programRequests[i]
        BY <1>1, <2>2, <3>2
      <4>2. i - 1 \in 1 .. Len(programRequests') /\ programRequests'[i - 1] = programRequests[i]
        BY <1>1, <1>3, <4>1
      <4> QED BY <3>2, <4>2
    <3> QED BY <1>0, <3>1, <3>2 DEF ProgramInv, ProgramSnapshots
  <2> QED BY <2>1, <2>2
<1>7. ProgramRefusals'
  BY <1>0 DEF ProgramInv, ProgramRefusals
<1>8. ProgramTidy'
  <2>1. \A g \in Effects : programEffects'[g].at \in {programEffects[g].at, "snapshotting"}
    BY <1>0, <1>1 DEF ProgramInv, ProgramTyped, ProgramRequest, ProgramStep, ProgramAt
  <2> QED BY <1>0, <2>1 DEF ProgramInv, ProgramTidy
<1> QED BY <1>4, <1>5, <1>6, <1>7, <1>8 DEF ProgramInv

\* The first request goes, taken or failed.
LEMMA ProgramAnsweredStep ==
  ASSUME ProgramInv, Program!Taken \/ Program!Failed
  PROVE  ProgramInv'
<1> DEFINE r == Head(programRequests)
           rest == Tail(programRequests)
<1>0. /\ programRequests # <<>>
      /\ programRequests' = rest
      /\ programEffects' = [programEffects EXCEPT ![r.of] = Program!Done]
      /\ programTemps' = programTemps \ {r.of}
      /\ UNCHANGED <<programValid, programSaved, programProgram, programHostDir, programMounted, programCrashes>>
  BY DEF Program!Taken, Program!Failed, Program!To, Program!Answered
<1>1. /\ r \in ProgramRequest /\ r.of \in programValid
      /\ rest \in Seq(ProgramRequest)
      /\ \A i \in 1 .. Len(rest) : rest[i] = programRequests[i + 1] /\ rest[i].of \in programValid
      /\ \A i \in 1 .. Len(programRequests) :
           i = 1 \/ (i - 1 \in 1 .. Len(rest) /\ rest[i - 1] = programRequests[i])
      /\ r = programRequests[1]
  BY <1>0, ProgramHead
<1>2. /\ Program!Taken => /\ r.op = "snapshot" /\ UNCHANGED programRefused
                          /\ programCommits' = IF programSaved[r.place] = Program!LastCommit(r.place)
                                               THEN programCommits
                                               ELSE [programCommits EXCEPT ![r.place] =
                                                       Append(@, programSaved[r.place])]
      /\ Program!Failed => /\ programProgram \in {"open", "failed"} /\ UNCHANGED programCommits
                           /\ programRefused' = programRefused \cup
                                {[of |-> r.of, op |-> r.op, ran |-> programProgram = "open"]}
  BY DEF Program!Taken, Program!Failed
<1> HIDE DEF r, rest
<1>3. /\ \A w \in Workspaces : w # r.place \/ r.op # "snapshot" => programCommits'[w] = programCommits[w]
      /\ programCommits' \in [Workspaces -> Seq(Versions)]
  <2>1. programSaved[r.place] \in Versions /\ r.place \in Workspaces
    BY <1>1 DEF ProgramInv, ProgramTyped, Program!Place, ProgramRequest
  <2>2. CASE Program!Taken
    <3>1. Append(programCommits[r.place], programSaved[r.place]) \in Seq(Versions)
      BY <2>1 DEF ProgramInv, ProgramTyped
    <3> QED BY <1>2, <2>1, <2>2, <3>1 DEF ProgramInv, ProgramTyped
  <2>3. CASE Program!Failed
    BY <1>2, <2>3 DEF ProgramInv, ProgramTyped
  <2> QED BY <2>2, <2>3
<1>4. ProgramTyped'
  <2>1. programEffects' \in [Effects -> ProgramStep]
    BY <1>0, <1>1 DEF ProgramInv, ProgramTyped, Program!Done, ProgramRequest, ProgramStep, ProgramAt
  <2> QED BY <1>0, <1>1, <1>3, <2>1 DEF ProgramInv, ProgramTyped
<1>5. ProgramChecked'
  <2>3. \A g \in Effects : programEffects'[g] = programEffects[g] \/ programEffects'[g].at = "done"
    BY <1>0, <1>1 DEF ProgramInv, ProgramTyped, Program!Done, ProgramRequest
  <2> QED BY <1>0, <1>1, <2>3 DEF ProgramInv, ProgramChecked
<1>6. ProgramSnapshots'
  <2> SUFFICES ASSUME NEW w \in Workspaces PROVE
        \/ Program!LastCommit(w)' = programSaved'[w]
        \/ \E i \in 1 .. Len(programRequests') :
             programRequests'[i].place = w /\ programRequests'[i].op = "snapshot"
        \/ \E x \in programRefused' : x.op = "snapshot"
        \/ programCrashes' > 0
    BY DEF ProgramSnapshots
  <2>1. CASE r.op = "snapshot" /\ w = r.place
    <3>1. CASE Program!Taken
      <4>1. programSaved[w] = Program!LastCommit(w) => programCommits' = programCommits
        BY <1>2, <2>1, <3>1
      <4>2. programSaved[w] # Program!LastCommit(w) => programCommits'[w] = Append(programCommits[w], programSaved[w])
        BY <1>2, <2>1, <3>1 DEF ProgramInv, ProgramTyped
      <4>3. programCommits[w] \in Seq(Versions)
        BY DEF ProgramInv, ProgramTyped
      <4> QED BY <1>0, <4>1, <4>2, <4>3 DEF Program!LastCommit
    <3>2. CASE Program!Failed
      <4> DEFINE told == [of |-> r.of, op |-> r.op, ran |-> programProgram = "open"]
      <4>1. told \in programRefused' /\ told.op = "snapshot"
        BY <1>2, <2>1, <3>2
      <4> QED BY <4>1
    <3> QED BY <3>1, <3>2
  <2>2. CASE ~(r.op = "snapshot" /\ w = r.place)
    <3>1. Program!LastCommit(w)' = Program!LastCommit(w)
      BY <1>3, <2>2 DEF Program!LastCommit
    <3>2. ASSUME NEW i \in 1 .. Len(programRequests), programRequests[i].place = w,
                 programRequests[i].op = "snapshot"
          PROVE  \E j \in 1 .. Len(programRequests') :
                   programRequests'[j].place = w /\ programRequests'[j].op = "snapshot"
      <4>1. i - 1 \in 1 .. Len(rest) /\ rest[i - 1] = programRequests[i]
        BY <1>1, <2>2, <3>2
      <4> QED BY <1>0, <3>2, <4>1
    <3>3. programRefused \subseteq programRefused'
      BY <1>2
    <3> QED BY <1>0, <3>1, <3>2, <3>3 DEF ProgramInv, ProgramSnapshots
  <2> QED BY <2>1, <2>2
<1>7. ProgramRefusals'
  <2>1. CASE Program!Taken
    BY <1>0, <1>2, <2>1 DEF ProgramInv, ProgramRefusals
  <2>2. CASE Program!Failed
    <3> DEFINE told == [of |-> r.of, op |-> r.op, ran |-> programProgram = "open"]
    <3>1. programRefused' = programRefused \cup {told} /\ programProgram \in {"open", "failed"}
      BY <1>2, <2>2
    <3>2. told.ran = (programProgram = "open")
      OBVIOUS
    <3> HIDE DEF told
    <3> QED BY <1>0, <3>1, <3>2 DEF ProgramInv, ProgramRefusals
  <2> QED BY <2>1, <2>2
<1>8. ProgramTidy'
  <2>1. \A g \in Effects : g = r.of \/ programEffects'[g].at = programEffects[g].at
    BY <1>0, <1>1 DEF ProgramInv, ProgramTyped, ProgramRequest, ProgramStep, ProgramAt
  <2> QED BY <1>0, <2>1 DEF ProgramInv, ProgramTidy
<1> QED BY <1>4, <1>5, <1>6, <1>7, <1>8 DEF ProgramInv

\* A crash excuses what it left.
LEMMA ProgramCrashStep ==
  ASSUME ProgramInv, Program!Crash
  PROVE  ProgramInv'
<1>1. programCrashes' \in Nat /\ programCrashes' > 0
  BY DEF ProgramInv, ProgramTyped, Program!Crash
<1>2. ProgramTyped'
  <2>1. Program!Idle \in ProgramStep /\ Program!Done \in ProgramStep
    BY DEF Program!Idle, Program!Done, ProgramStep, ProgramAt
  <2>2. programEffects' \in [Effects -> ProgramStep]
    BY <2>1 DEF Program!Crash
  <2> QED BY <1>1, <2>2 DEF ProgramInv, ProgramTyped, Program!Crash
<1>3. ProgramChecked'
  BY DEF ProgramInv, ProgramTyped, ProgramChecked, Program!Crash, Program!Idle, Program!Done
<1> QED BY <1>1, <1>2, <1>3 DEF ProgramInv, ProgramSnapshots, ProgramRefusals, ProgramTidy

\* Every step of the program host, and every step of another part, keeps its invariant.
LEMMA ProgramInvariant == Spec => []ProgramInv
<1> USE ProjectAssumption
<1>1. Init => ProgramInv
  <2> SUFFICES ASSUME Init PROVE ProgramInv
    OBVIOUS
  <2> USE DEF Init, Program!Init
  <2>1. ProgramTyped
    <3>1. Program!Idle \in ProgramStep
      BY DEF Program!Idle, ProgramStep, ProgramAt
    <3> QED BY <3>1 DEF ProgramTyped, Versions, Program!Place
  <2>2. ProgramChecked
    BY DEF ProgramChecked, Program!Idle
  <2>3. ProgramSnapshots
    BY DEF ProgramSnapshots, Program!Place, Program!LastCommit, ProjectAssumption
  <2>4. ProgramRefusals /\ ProgramTidy
    BY DEF ProgramRefusals, ProgramTidy
  <2> QED BY <2>1, <2>2, <2>3, <2>4 DEF ProgramInv
<1>2. ProgramInv /\ [Next]_vars => ProgramInv'
  <2> SUFFICES ASSUME ProgramInv, [Next]_vars PROVE ProgramInv'
    OBVIOUS
  <2>1. CASE Program!Next
    BY <2>1, ProgramEffectStep, ProgramCheckStep, ProgramOpenStep, ProgramWrittenStep, ProgramAnsweredStep,
       ProgramCrashStep DEF Program!Next
  <2>2. CASE UNCHANGED programVars
    BY <2>2 DEF programVars, ProgramInv, ProgramTyped, ProgramChecked, ProgramSnapshots, ProgramRefusals, ProgramTidy,
       Program!LastCommit
  <2> QED BY <2>1, <2>2 DEF Next, Rest, vars
<1> QED BY <1>1, <1>2, PTL DEF Spec

\* What the invariant means for the program host.
LEMMA ProgramPromises == ProgramInv => /\ Program!MountRunsValidated /\ Program!NothingUnsaved
                                       /\ Program!FailsOnItsOwn /\ Program!LeavesNothingBehind
<1>1. ProgramInv => Program!MountRunsValidated
  BY DEF ProgramInv, ProgramChecked, Program!MountRunsValidated
<1>2. ProgramInv => Program!NothingUnsaved
  <2> SUFFICES ASSUME ProgramInv, NEW w \in Workspaces
               PROVE  \/ Program!LastCommit(w) = programSaved[w]
                      \/ \E i \in DOMAIN programRequests : programRequests[i].place = w
                      \/ \E r \in programRefused : r.op = "snapshot"
                      \/ programCrashes > 0
    BY DEF Program!NothingUnsaved
  <2> QED BY DEF ProgramInv, ProgramTyped, ProgramSnapshots
<1>3. ProgramInv => Program!FailsOnItsOwn
  BY DEF ProgramInv, ProgramRefusals, Program!FailsOnItsOwn
<1>4. ProgramInv => Program!LeavesNothingBehind
  BY DEF ProgramInv, ProgramTidy, Program!LeavesNothingBehind, Program!At
<1> QED BY <1>1, <1>2, <1>3, <1>4

-----------------------------------------------------------------------------
(* The loaders. *)

Fresh(v, i) == v = 0 \/ v >= loadFloor[i]
\* What the parts of a load range over.
LoadStep == {"idle", "importing", "resolving", "reading", "read", "done"}
LoadRecord == [at : LoadStep, of : Imports \cup {"none"}, via : {"none", "http", "filesystem"},
               floor : Nat, tree : Nat, got : Nat]
\* What a load knows: its floor is that of its import, and what it read is no older.
LoadSound(e) ==
  /\ e.at \notin {"idle", "done"} => e.of \in Imports /\ e.floor = loadFloor[e.of]
  /\ e.at \in {"reading", "read"} => e.via \in Load!Via
  /\ e.at = "reading" /\ e.of = "std" /\ e.via = "filesystem" => e.tree >= e.floor
  /\ e.at \in {"read", "done"} /\ e.got # 0 => e.got >= e.floor
\* Each part of the state in its type.
LoadTyped ==
  /\ loadEdits \in [Imports -> Nat] /\ loadFloor \in [Imports -> Nat]
  /\ loadMirror \in Nat
  /\ loadUnified \in [Load!Path -> Nat] /\ loadInner \in [Load!Path -> Nat]
  /\ loadLoads \in [Loads -> LoadRecord]
\* No cache keeps what was cleared.
CachesFresh ==
  /\ \A i \in Imports : loadFloor[i] <= loadEdits[i]
  /\ \A v \in Load!Via, i \in Imports : Fresh(loadUnified[<<v, i>>], i) /\ Fresh(loadInner[<<v, i>>], i)
  /\ "std" \in Imports => Fresh(loadMirror, "std")
\* The invariant of the loaders.
LoadInv == LoadTyped /\ CachesFresh /\ \A l \in Loads : LoadSound(loadLoads[l])

\* A step of one load: what it works on stays sound, and what it puts into the caches is fresh.
LEMMA LoadOne ==
  ASSUME LoadInv, NEW l \in Loads,
         UNCHANGED <<loadEdits, loadFloor>>, loadMirror' \in Nat, loadUnified' \in [Load!Path -> Nat],
         loadInner' \in [Load!Path -> Nat],
         \A v \in Load!Via, i \in Imports : Fresh(loadUnified'[<<v, i>>], i) /\ Fresh(loadInner'[<<v, i>>], i),
         "std" \in Imports => Fresh(loadMirror', "std"),
         NEW e \in LoadRecord, LoadSound(e), loadLoads' = [loadLoads EXCEPT ![l] = e]
  PROVE  LoadInv'
<1>1. LoadTyped'
  BY DEF LoadInv, LoadTyped
<1>2. CachesFresh'
  BY DEF LoadInv, CachesFresh, Fresh
<1>3. \A m \in Loads : LoadSound(loadLoads'[m])
  BY DEF LoadInv, LoadTyped
<1>4. \A m \in Loads : LoadSound(loadLoads[m])'
  BY <1>3 DEF LoadSound
<1> QED BY <1>1, <1>2, <1>4 DEF LoadInv

\* Every step of a load, from its begin to its answer, its failure or its timeout.
LEMMA LoadStepSound ==
  ASSUME LoadInv, NEW l \in Loads,
         \/ \E i \in Imports : Load!Begin(l, i)
         \/ Load!Imported(l) \/ Load!Resolve(l) \/ Load!Read(l) \/ Load!Parse(l) \/ Load!Fail(l) \/ Load!TimeOut(l)
  PROVE  LoadInv'
<1> DEFINE old == loadLoads[l]
<1>0. old \in LoadRecord /\ LoadSound(old)
  BY DEF LoadInv, LoadTyped
<1>1. ASSUME NEW i \in Imports, Load!Begin(l, i) PROVE LoadInv'
  <2> DEFINE at == IF loadFsLoader = "absent" THEN "importing" ELSE "resolving"
             e == [Load!Idle EXCEPT !.at = at, !.of = i, !.floor = loadFloor[i]]
  <2>1. /\ UNCHANGED <<loadUnified, loadInner, loadMirror, loadEdits, loadFloor>>
        /\ loadLoads' = [loadLoads EXCEPT ![l] = e]
    BY <1>1 DEF Load!Begin
  <2>2. e \in LoadRecord /\ LoadSound(e)
    BY DEF LoadInv, LoadTyped, LoadRecord, LoadStep, LoadSound, Load!Idle, Load!Nothing
  <2> HIDE DEF e
  <2> QED BY <2>1, <2>2, LoadOne DEF LoadInv, LoadTyped, CachesFresh
<1>2. CASE Load!Imported(l)
  <2> DEFINE e == [old EXCEPT !.at = "resolving"]
  <2>1. /\ UNCHANGED <<loadUnified, loadInner, loadMirror, loadEdits, loadFloor>>
        /\ loadLoads' = [loadLoads EXCEPT ![l] = e]
    BY <1>2 DEF Load!Imported, Load!To
  <2>2. e \in LoadRecord /\ LoadSound(e)
    BY <1>0, <1>2 DEF Load!Imported, Load!At, LoadRecord, LoadStep, LoadSound
  <2> HIDE DEF e
  <2> QED BY <2>1, <2>2, LoadOne DEF LoadInv, LoadTyped, CachesFresh
<1>r. /\ [Load!Idle EXCEPT !.at = "done"] \in LoadRecord
      /\ LoadSound([Load!Idle EXCEPT !.at = "done"])
  BY DEF LoadRecord, LoadStep, LoadSound, Load!Idle, Load!Nothing
<1>a. ASSUME NEW c \in Nat, c = 0 \/ c >= old.floor
      PROVE  /\ [Load!Idle EXCEPT !.at = "done", !.got = c, !.floor = old.floor] \in LoadRecord
             /\ LoadSound([Load!Idle EXCEPT !.at = "done", !.got = c, !.floor = old.floor])
  BY <1>0, <1>a DEF LoadRecord, LoadStep, LoadSound, Load!Idle, Load!Nothing
<1>3. CASE Load!Resolve(l)
  <2> DEFINE i == old.of
             via == Load!LoaderFor(i)
             p == <<via, i>>
  <2>0. old.at = "resolving" /\ i \in Imports /\ old.floor = loadFloor[i] /\ via \in Load!Via /\ p \in Load!Path
    BY <1>0, <1>3 DEF Load!Resolve, Load!At, LoadSound, Load!LoaderFor, Load!Via, Load!Path
  <2>1. UNCHANGED <<loadInner, loadEdits, loadFloor>>
    BY <1>3 DEF Load!Resolve
  <2>2. CASE Load!Refused(l) /\ UNCHANGED <<loadUnified, loadMirror>>
    BY <1>r, <2>1, <2>2, LoadOne DEF Load!Refused, LoadInv, LoadTyped, CachesFresh
  <2>3. CASE /\ loadMirror' = IF Load!Mirrors(l, via) /\ loadMirror = 0 THEN loadEdits[i] ELSE loadMirror
             /\ IF loadUnified[p] # 0 THEN Load!Answered(l, loadUnified[p]) /\ UNCHANGED loadUnified
                ELSE IF via = "http" THEN Load!HttpLoad(l) ELSE Load!FsLoad(l)
    <3>1. /\ loadMirror' \in Nat
          /\ "std" \in Imports => Fresh(loadMirror', "std")
          /\ Load!Mirrors(l, via) => loadMirror' >= loadFloor[i]
      BY <2>0, <2>3 DEF LoadInv, LoadTyped, CachesFresh, Fresh, Load!Mirrors
    <3>2. ASSUME NEW q \in Load!Path, q[2] = i, q[1] \in Load!Via, q = <<q[1], i>>
          PROVE  /\ loadUnified[q] \in Nat /\ loadInner[q] \in Nat
                 /\ Fresh(loadUnified[q], i) /\ Fresh(loadInner[q], i)
      BY <2>0, <3>2 DEF LoadInv, LoadTyped, CachesFresh
    <3>3. CASE loadUnified[p] # 0
      <4>1. loadUnified[p] \in Nat /\ loadUnified[p] >= old.floor
        BY <2>0, <3>2, <3>3 DEF Fresh
      <4> QED BY <1>a, <2>1, <2>3, <3>1, <3>3, <4>1, LoadOne DEF Load!Answered, LoadInv, LoadTyped, CachesFresh
    <3>4. ASSUME NEW q \in Load!Path, q = <<q[1], i>>, q[1] \in Load!Via, loadInner[q] # 0,
                 Load!Answered(l, loadInner[q]), loadUnified' = [loadUnified EXCEPT ![q] = loadInner[q]]
          PROVE  LoadInv'
      <4>1. loadInner[q] \in Nat /\ loadInner[q] >= old.floor /\ Fresh(loadInner[q], i)
        BY <2>0, <3>2, <3>4 DEF Fresh
      <4>2. loadUnified' \in [Load!Path -> Nat]
        BY <3>4, <4>1 DEF LoadInv, LoadTyped
      <4>3. \A v \in Load!Via, j \in Imports : Fresh(loadUnified'[<<v, j>>], j)
        BY <3>4, <4>1 DEF LoadInv, LoadTyped, CachesFresh, Load!Path
      <4> QED BY <1>a, <2>1, <3>1, <3>4, <4>1, <4>2, <4>3, LoadOne DEF Load!Answered, LoadInv, LoadTyped, CachesFresh
    <3>5. CASE loadUnified[p] = 0 /\ via = "http"
      <4>1. <<"http", i>> \in Load!Path
        BY <2>0 DEF Load!Path, Load!Via
      <4>2. CASE loadInner[<<"http", i>>] # 0
        BY <2>3, <3>4, <3>5, <4>1, <4>2 DEF Load!HttpLoad, Load!Nothing, Load!Via
      <4>3. CASE loadInner[<<"http", i>>] = 0
        <5> DEFINE e == [old EXCEPT !.at = "reading", !.via = "http"]
        <5>1. loadLoads' = [loadLoads EXCEPT ![l] = e] /\ UNCHANGED loadUnified
          BY <2>3, <3>5, <4>3 DEF Load!HttpLoad, Load!Nothing
        <5>2. e \in LoadRecord /\ LoadSound(e)
          BY <1>0, <2>0 DEF LoadRecord, LoadStep, LoadSound, Load!Via
        <5> HIDE DEF e
        <5> QED BY <2>1, <3>1, <5>1, <5>2, LoadOne DEF LoadInv, LoadTyped, CachesFresh
      <4> QED BY <4>2, <4>3
    <3>6. CASE loadUnified[p] = 0 /\ via # "http"
      <4>0. via = "filesystem"
        BY <2>0, <3>6 DEF Load!Via
      <4>1. <<"filesystem", i>> \in Load!Path
        BY <2>0 DEF Load!Path, Load!Via
      <4>2. CASE loadInner[<<"filesystem", i>>] # 0
        BY <2>3, <3>4, <3>6, <4>1, <4>2 DEF Load!FsLoad, Load!Nothing, Load!Via
      <4>3. CASE loadInner[<<"filesystem", i>>] = 0
        <5> DEFINE e == [old EXCEPT !.at = "reading", !.via = "filesystem", !.tree = loadMirror']
        <5>1. loadLoads' = [loadLoads EXCEPT ![l] = e] /\ UNCHANGED loadUnified
          BY <2>3, <3>6, <4>3 DEF Load!FsLoad, Load!Nothing
        <5>2. e \in LoadRecord /\ LoadSound(e)
          BY <1>0, <2>0, <3>1, <4>0 DEF LoadRecord, LoadStep, LoadSound, Load!Via, Load!Mirrors
        <5> HIDE DEF e
        <5> QED BY <2>1, <3>1, <5>1, <5>2, LoadOne DEF LoadInv, LoadTyped, CachesFresh
      <4> QED BY <4>2, <4>3
    <3> QED BY <3>3, <3>5, <3>6
  <2> QED BY <1>3, <2>2, <2>3 DEF Load!Resolve, Load!Nothing
<1>4. CASE Load!Read(l)
  <2> DEFINE got == IF Load!Mirrors(l, old.via) THEN old.tree ELSE loadEdits[old.of]
             e == [old EXCEPT !.at = "read", !.got = got]
  <2>1. /\ UNCHANGED <<loadUnified, loadInner, loadMirror, loadEdits, loadFloor>>
        /\ loadLoads' = [loadLoads EXCEPT ![l] = e]
    BY <1>4 DEF Load!Read
  <2>2. got \in Nat /\ got >= old.floor /\ old.at = "reading"
    BY <1>0, <1>4 DEF Load!Read, Load!At, LoadSound, LoadRecord, Load!Mirrors, LoadInv, LoadTyped, CachesFresh
  <2>3. e \in LoadRecord /\ LoadSound(e)
    BY <1>0, <2>2 DEF LoadRecord, LoadStep, LoadSound
  <2> HIDE DEF e
  <2> QED BY <2>1, <2>3, LoadOne DEF LoadInv, LoadTyped, CachesFresh
<1>5. CASE Load!Parse(l)
  <2> DEFINE p == <<old.via, old.of>>
  <2>1. /\ UNCHANGED <<loadMirror, loadEdits, loadFloor>>
        /\ \/ UNCHANGED <<loadUnified, loadInner>>
           \/ /\ loadUnified' = [loadUnified EXCEPT ![p] = old.got]
              /\ loadInner' = [loadInner EXCEPT ![p] = old.got]
        /\ Load!Answered(l, old.got) \/ Load!Refused(l)
    BY <1>5 DEF Load!Parse
  <2>2. old.got \in Nat /\ (old.got = 0 \/ old.got >= old.floor) /\ old.floor = loadFloor[old.of]
           /\ p \in Load!Path /\ Fresh(old.got, old.of)
    BY <1>0, <1>5 DEF Load!Parse, Load!At, LoadSound, LoadRecord, Load!Path, Fresh
  <2>3. loadUnified' \in [Load!Path -> Nat] /\ loadInner' \in [Load!Path -> Nat]
    BY <2>1, <2>2 DEF LoadInv, LoadTyped
  <2>4. \A v \in Load!Via, j \in Imports : Fresh(loadUnified'[<<v, j>>], j) /\ Fresh(loadInner'[<<v, j>>], j)
    BY <2>1, <2>2 DEF LoadInv, LoadTyped, CachesFresh, Load!Path
  <2>5. \E e \in LoadRecord : LoadSound(e) /\ loadLoads' = [loadLoads EXCEPT ![l] = e]
    BY <1>a, <1>r, <2>1, <2>2 DEF Load!Answered, Load!Refused
  <2> QED BY <2>1, <2>3, <2>4, <2>5, LoadOne DEF LoadInv, LoadTyped, CachesFresh
<1>6. CASE Load!Fail(l) \/ Load!TimeOut(l)
  <2>1. UNCHANGED <<loadUnified, loadInner, loadMirror, loadEdits, loadFloor>> /\ Load!Refused(l)
    BY <1>6 DEF Load!Fail, Load!TimeOut
  <2> QED BY <1>r, <2>1, LoadOne DEF Load!Refused, LoadInv, LoadTyped, CachesFresh
<1> QED BY <1>1, <1>2, <1>3, <1>4, <1>5, <1>6

\* Every step of the loaders, an edit and a clear of the caches among them, keeps the invariant.
LEMMA LoadInvariant == Spec => []LoadInv
<1>1. Init => LoadInv
  <2> SUFFICES ASSUME Init PROVE LoadInv
    OBVIOUS
  <2> USE DEF Init, Load!Init, Load!Nothing
  <2>1. Load!Idle \in LoadRecord /\ LoadSound(Load!Idle)
    BY DEF Load!Idle, LoadRecord, LoadStep, LoadSound
  <2>2. LoadTyped /\ CachesFresh
    BY <2>1 DEF LoadTyped, CachesFresh, Fresh, Load!Path
  <2> QED BY <2>1, <2>2 DEF LoadInv
<1>2. LoadInv /\ [Next]_vars => LoadInv'
  <2> SUFFICES ASSUME LoadInv, [Next]_vars PROVE LoadInv'
    OBVIOUS
  <2>1. ASSUME NEW i \in Imports, Load!Edit(i) PROVE LoadInv'
    <3>1. LoadTyped'
      BY <2>1 DEF Load!Edit, LoadInv, LoadTyped
    <3>2. CachesFresh'
      BY <2>1 DEF Load!Edit, LoadInv, LoadTyped, CachesFresh, Fresh
    <3>3. \A l \in Loads : LoadSound(loadLoads[l])'
      BY <2>1 DEF Load!Edit, LoadInv, LoadSound
    <3> QED BY <3>1, <3>2, <3>3 DEF LoadInv
  <2>2. CASE Load!ClearCache
    <3>1. LoadTyped'
      BY <2>2 DEF Load!ClearCache, Load!InnerCleared, Load!MirrorCleared, Load!Nothing, LoadInv, LoadTyped
    <3>2. CachesFresh'
      BY <2>2 DEF Load!ClearCache, Load!InnerCleared, Load!MirrorCleared, Load!Nothing, LoadInv, LoadTyped,
         CachesFresh, Fresh, Load!Path
    <3>3. \A l \in Loads : LoadSound(loadLoads[l])'
      BY <2>2 DEF Load!ClearCache, Load!Settled, Load!At, LoadInv, LoadSound
    <3> QED BY <3>1, <3>2, <3>3 DEF LoadInv
  <2>3. CASE UNCHANGED loadVars
    BY <2>3 DEF loadVars, LoadInv, LoadTyped, CachesFresh, Fresh, LoadSound
  <2> QED BY <2>1, <2>2, <2>3, LoadStepSound DEF Next, Rest, vars, Load!Next
<1> QED BY <1>1, <1>2, PTL DEF Spec

-----------------------------------------------------------------------------
\* NothingLeftBehind: an open kernel knows the mounts (OrbitalServerRuntime.ts), a program that runs was checked
\* and saved and its host has no temporary file of it (host/program), and a load after a clear of the caches
\* sees the edit before it (entities/loader).
THEOREM NothingIsLeft == Spec => []NothingLeftBehind
<1>1. LoadInv => Load!EditSeenAfterClear
  BY DEF LoadInv, LoadTyped, LoadRecord, LoadSound, Load!EditSeenAfterClear, Load!At, Load!Nothing
<1>2. Session!KernelKnowsMounts /\ ProgramInv /\ LoadInv => NothingLeftBehind
  BY <1>1, ProgramPromises DEF NothingLeftBehind
<1> QED BY <1>2, SessionKnows, ProgramInvariant, LoadInvariant, PTL
=============================================================================
