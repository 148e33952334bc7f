--------------------------- MODULE InFlightCalls ---------------------------
(***************************************************************************)
(* The calls that leave a running app (effects/in-flight-calls.ts and the  *)
(* call paths of kernel/host.ts: services, HTTP, beacons, the on-device    *)
(* model, tabs).  A call with a key is registered while it runs and        *)
(* cancel-call aborts what runs under the key; a provider need not heed    *)
(* the signal, and may answer late.  The outcome of a follow-on call is a  *)
(* dispatch of its own.  A set of controllers is an object, as the code's. *)
(***************************************************************************)
EXTENDS Naturals, FiniteSets

CONSTANTS Call,     \* the calls ever made
          Key, NoKey,
          MaxCancels

SetId == 0 .. Cardinality(Call)

VARIABLES callState,  \* call -> where it is
          keyOf,      \* call -> its key
          table,      \* key -> the set of controllers it holds, 0 for none
          inSet,      \* call -> the set its controller is in, 0 for none
          aborted,    \* the calls whose signal was aborted
          result,     \* call -> what the provider came to, "none" before
          outcome,    \* call -> what the app was told
          sets, cancels

callVars == <<callState, keyOf, table, inSet, aborted, result, outcome, sets, cancels>>

TypeOK ==
  /\ callState \in [Call -> {"new", "running", "settling", "over"}]
  /\ keyOf \in [Call -> Key \cup {NoKey}]
  /\ table \in [Key -> SetId] /\ inSet \in [Call -> SetId]
  /\ aborted \subseteq Call
  /\ result \in [Call -> {"none", "value", "error"}]
  /\ outcome \in [Call -> {"none", "success", "failure", "cancelled"}]
  /\ sets \in SetId /\ cancels \in 0 .. MaxCancels

Init ==
  /\ callState = [c \in Call |-> "new"]
  /\ keyOf = [c \in Call |-> NoKey]
  /\ table = [k \in Key |-> 0] /\ inSet = [c \in Call |-> 0]
  /\ aborted = {}
  /\ result = [c \in Call |-> "none"] /\ outcome = [c \in Call |-> "none"]
  /\ sets = 0 /\ cancels = 0

-----------------------------------------------------------------------------
\* run(), or the call itself when it has no key: a controller joins the set the
\* key holds, or a new set.
Start(c, key) ==
  /\ callState[c] = "new"
  /\ callState' = [callState EXCEPT ![c] = "running"]
  /\ keyOf' = [keyOf EXCEPT ![c] = key]
  /\ IF key = NoKey THEN UNCHANGED <<table, inSet, sets>>
     ELSE LET s == IF table[key] = 0 THEN sets + 1 ELSE table[key]
          IN /\ sets' = IF table[key] = 0 THEN s ELSE sets
             /\ table' = [table EXCEPT ![key] = s]
             /\ inSet' = [inSet EXCEPT ![c] = s]
  /\ UNCHANGED <<aborted, result, outcome, cancels>>

\* The provider resolves or rejects; after an abort nobody listens to it.
ProviderAnswers(c, r) ==
  /\ callState[c] = "running" /\ result[c] = "none"
  /\ result' = [result EXCEPT ![c] = r]
  /\ UNCHANGED <<callState, keyOf, table, inSet, aborted, outcome, sets, cancels>>

\* Mutant: the provider is waited for although the signal was aborted.
WorkSettlesUnheeding(c) ==
  /\ callState[c] = "running" /\ result[c] # "none"
  /\ callState' = [callState EXCEPT ![c] = "settling"]
  /\ UNCHANGED <<keyOf, table, inSet, aborted, result, outcome, sets, cancels>>

\* untilAborted() settles: with the provider, or as soon as the signal aborts.
WorkSettles(c) ==
  /\ callState[c] = "running"
  /\ result[c] # "none" \/ c \in aborted
  /\ callState' = [callState EXCEPT ![c] = "settling"]
  /\ UNCHANGED <<keyOf, table, inSet, aborted, result, outcome, sets, cancels>>

\* Mutant: the last of a set deletes whatever set the key holds.
LeaveAny(c) ==
  /\ inSet' = [inSet EXCEPT ![c] = 0]
  /\ table' = [k \in Key |-> IF k = keyOf[c] /\ (\A d \in Call \ {c} : inSet[d] # inSet[c])
                             THEN 0 ELSE table[k]]

\* run()'s finally: the key is deleted when its own set is empty and is still held.
Leave(c) ==
  /\ inSet' = [inSet EXCEPT ![c] = 0]
  /\ table' = [k \in Key |-> IF /\ k = keyOf[c] /\ table[k] = inSet[c]
                                /\ \A d \in Call \ {c} : inSet[d] # inSet[c]
                             THEN 0 ELSE table[k]]

\* Mutant: a call that was aborted once its provider had answered is answered.
ConcludedByValue(c) == IF result[c] = "value" THEN "success" ELSE IF result[c] = "error" THEN "failure" ELSE "cancelled"

\* run() is cancelled when the signal was aborted by the time the work settled.
Concluded(c) == IF c \in aborted THEN "cancelled" ELSE IF result[c] = "value" THEN "success" ELSE "failure"

\* run() returns: the kernel's ask is answered, or, for a follow-on call, a
\* dispatch carries the outcome.
Conclude(c) ==
  /\ callState[c] = "settling"
  /\ callState' = [callState EXCEPT ![c] = "over"]
  /\ outcome' = [outcome EXCEPT ![c] = Concluded(c)]
  /\ IF keyOf[c] = NoKey THEN UNCHANGED <<table, inSet>> ELSE Leave(c)
  /\ UNCHANGED <<keyOf, aborted, result, sets, cancels>>

\* cancel(): every controller of the key's set is aborted, the key is free.
Cancel(key) ==
  /\ cancels < MaxCancels /\ cancels' = cancels + 1
  /\ table' = [table EXCEPT ![key] = 0]
  /\ aborted' = IF table[key] = 0 THEN aborted ELSE aborted \cup {c \in Call : inSet[c] = table[key]}
  /\ UNCHANGED <<callState, keyOf, inSet, result, outcome, sets>>

Next ==
  \/ \E c \in Call, key \in Key \cup {NoKey} : Start(c, key)
  \/ \E c \in Call, r \in {"value", "error"} : ProviderAnswers(c, r)
  \/ \E c \in Call : WorkSettles(c) \/ Conclude(c)
  \/ \E key \in Key : Cancel(key)

Spec == Init /\ [][Next]_callVars

\* The event loop goes on; a provider may never answer.
Fairness == \A c \in Call : WF_callVars(WorkSettles(c)) /\ WF_callVars(Conclude(c))
-----------------------------------------------------------------------------
(***************************************************************************)
(* cancel-call reaches every call that runs under its key, whatever was    *)
(* started or cancelled under it before: a call that nobody has aborted is *)
(* in the set its key holds.                                               *)
(***************************************************************************)
RunningIsCancellable ==
  \A c \in Call : (callState[c] = "running" /\ keyOf[c] # NoKey /\ c \notin aborted) =>
    inSet[c] # 0 /\ inSet[c] = table[keyOf[c]]

\* The app hears "cancelled" of a call that was cancelled and of no other, also
\* when its provider had answered in the meantime.
CancelledMeansCancelled ==
  \A c \in Call : callState[c] = "over" => (outcome[c] = "cancelled" <=> c \in aborted)

\* The app hears of a cancelled call although its provider never answers.
CancelIsHeard == \A c \in Call : c \in aborted ~> outcome[c] = "cancelled"
=============================================================================
