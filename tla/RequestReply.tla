---------------------------- MODULE RequestReply ----------------------------
(***************************************************************************)
(* What an event transport promises its caller: a request is asked once    *)
(* and settles at most once, with the answer to that very request or with  *)
(* the news that no answer will come.                                      *)
(***************************************************************************)
CONSTANTS Requests, Unasked, Waiting, Lost, Answer(_)

VARIABLE outcome   \* request -> Unasked, Waiting, Lost, or the Answer of a request

Init == outcome = [r \in Requests |-> Unasked]

Ask(r) == outcome[r] = Unasked /\ outcome' = [outcome EXCEPT ![r] = Waiting]

\* A caller may be told of the loss at once, without having to wait.
Settle(r, v) ==
  /\ outcome[r] = Waiting \/ (outcome[r] = Unasked /\ v = Lost)
  /\ outcome' = [outcome EXCEPT ![r] = v]

\* Several may be lost in one step, when the other end goes away.
LoseAll(rs) ==
  /\ \A r \in rs : outcome[r] = Waiting
  /\ outcome' = [r \in Requests |-> IF r \in rs THEN Lost ELSE outcome[r]]

Next ==
  \/ \E r \in Requests : Ask(r) \/ Settle(r, Answer(r)) \/ Settle(r, Lost)
  \/ \E rs \in SUBSET Requests : LoseAll(rs)

Spec == Init /\ [][Next]_outcome
=============================================================================
