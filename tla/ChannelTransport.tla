-------------------------- MODULE ChannelTransport --------------------------
(***************************************************************************)
(* The event transport over a message channel (server/channel-transport.ts)*)
(* between a view and a host in another browser context: requests by       *)
(* number, a host that may serve late behind holdUntilServed(), answers in *)
(* any order, and a channel that closes for good.                          *)
(***************************************************************************)
EXTENDS Naturals, Sequences, SequencesExt

CONSTANTS MaxRequests  \* bound on the requests of the view

Id == 1 .. MaxRequests

\* How a promise stands: a word, and the request whose answer it got.
Unasked == <<"unasked", 0>>
Waiting == <<"waiting", 0>>
Lost == <<"lost", 0>>
Forgotten == <<"forgotten", 0>>
Answer(r) == <<"answered", r>>

VARIABLES next,     \* the number of the next request
          pending,  \* the requests whose promise waits
          closed,   \* the view knows that the channel closed
          asked,    \* request -> "register", "send" or "none"
          outcome,  \* request -> how its promise stands
          up, down, \* the messages on the way to the host and back
          host,     \* "starting", "serving" or "stopped"
          held,     \* what holdUntilServed() keeps
          working   \* the sends the host's own transport is busy with

channelVars == <<next, pending, closed, asked, outcome, up, down, host, held, working>>

TypeOK ==
  /\ next \in 1 .. MaxRequests + 1
  /\ pending \subseteq Id /\ working \subseteq Id
  /\ closed \in BOOLEAN
  /\ asked \in [Id -> {"none", "register", "send"}]
  /\ outcome \in [Id -> {Unasked, Waiting, Lost, Forgotten} \cup {Answer(r) : r \in Id}]
  /\ up \in Seq(Id) /\ held \in Seq(Id) /\ down \in Seq(Id)
  /\ host \in {"starting", "serving", "stopped"}

Init ==
  /\ next = 1 /\ pending = {} /\ closed = FALSE
  /\ asked = [r \in Id |-> "none"]
  /\ outcome = [r \in Id |-> Unasked]
  /\ up = <<>> /\ down = <<>> /\ held = <<>>
  /\ host = "starting" /\ working = {}

-----------------------------------------------------------------------------
\* request(): a number, and a message unless the channel is known to be closed.
Request(kind) ==
  /\ next <= MaxRequests /\ next' = next + 1
  /\ asked' = [asked EXCEPT ![next] = kind]
  /\ IF closed
     THEN /\ outcome' = [outcome EXCEPT ![next] = Lost]
          /\ UNCHANGED <<pending, up>>
     ELSE /\ outcome' = [outcome EXCEPT ![next] = Waiting]
          /\ pending' = pending \cup {next}
          /\ up' = Append(up, next)
  /\ UNCHANGED <<closed, down, host, held, working>>

\* The host half answers a register at once and hands a send to its transport.
Serve(msgs) ==
  /\ working' = working \cup {r \in ToSet(msgs) : asked[r] = "send"}
  /\ down' = down \o SelectSeq(msgs, LAMBDA r : asked[r] = "register")

\* A message reaches the host's end: kept while nothing serves, dropped after stop().
Arrive ==
  /\ ~closed /\ up # <<>>
  /\ up' = Tail(up)
  /\ CASE host = "starting" -> held' = Append(held, Head(up)) /\ UNCHANGED <<down, working>>
       [] host = "serving" -> Serve(<<Head(up)>>) /\ UNCHANGED held
       [] host = "stopped" -> UNCHANGED <<held, down, working>>
  /\ UNCHANGED <<next, pending, closed, asked, outcome, host>>

\* Mutant: what arrived before is not handed over.
ServeChannelLate ==
  /\ ~closed /\ host = "starting"
  /\ host' = "serving" /\ held' = <<>>
  /\ UNCHANGED <<next, pending, closed, asked, outcome, up, down, working>>

\* serveChannel() on the held channel: what was kept is handed over in order.
ServeChannel ==
  /\ ~closed /\ host = "starting"
  /\ host' = "serving" /\ held' = <<>>
  /\ Serve(held)
  /\ UNCHANGED <<next, pending, closed, asked, outcome, up>>

\* stop(): the host half stops listening; sends under way still post a reply.
StopServing ==
  /\ host = "serving"
  /\ host' = "stopped"
  /\ UNCHANGED <<next, pending, closed, asked, outcome, up, down, held, working>>

\* The host's transport resolves or rejects a send, in any order.
Reply(r) ==
  /\ ~closed /\ r \in working
  /\ working' = working \ {r}
  /\ down' = Append(down, r)
  /\ UNCHANGED <<next, pending, closed, asked, outcome, up, host, held>>

\* Mutant: an answer settles the oldest request that waits.
SettledOldest(r) == IF pending = {} THEN {} ELSE {CHOOSE x \in pending : \A y \in pending : x <= y}

\* The request an answer settles: its own, when that is still pending.
Settled(r) == pending \cap {r}

\* The view's listener: an answer with no pending request is dropped.
Receive ==
  /\ ~closed /\ down # <<>>
  /\ down' = Tail(down)
  /\ pending' = pending \ Settled(Head(down))
  /\ outcome' = [x \in Id |-> IF x \in Settled(Head(down)) THEN Answer(Head(down)) ELSE outcome[x]]
  /\ UNCHANGED <<next, closed, asked, up, host, held, working>>

\* onClose: every pending request is answered with the closing; nothing that is
\* on the way arrives any more.
Close ==
  /\ ~closed /\ closed' = TRUE
  /\ outcome' = [r \in Id |-> IF r \in pending THEN Lost ELSE outcome[r]]
  /\ pending' = {}
  /\ up' = <<>> /\ down' = <<>> /\ held' = <<>> /\ working' = {}
  /\ UNCHANGED <<next, asked, host>>

\* unregister(): the pending requests are forgotten, their promises stay open.
Unregister ==
  /\ pending # {}
  /\ outcome' = [r \in Id |-> IF r \in pending THEN Forgotten ELSE outcome[r]]
  /\ pending' = {}
  /\ UNCHANGED <<next, closed, asked, up, down, host, held, working>>

Next ==
  \/ \E kind \in {"register", "send"} : Request(kind)
  \/ Arrive \/ ServeChannel \/ StopServing
  \/ \E r \in Id : Reply(r)
  \/ Receive \/ Close \/ Unregister

Spec == Init /\ [][Next]_channelVars

\* The host comes up, its transport answers, and messages arrive.
Fairness ==
  /\ WF_channelVars(Arrive) /\ WF_channelVars(ServeChannel) /\ WF_channelVars(Receive)
  /\ \A r \in Id : WF_channelVars(Reply(r))
-----------------------------------------------------------------------------
\* A forgotten request is one whose caller still waits.
Promise == INSTANCE RequestReply WITH
  Requests <- Id,
  outcome <- [r \in Id |-> IF outcome[r] = Forgotten THEN Waiting ELSE outcome[r]]

\* Answers in any order, late or after an unregister never settle a request
\* other than their own, nor one that has settled.
AnswersItsOwn == Promise!Spec

(***************************************************************************)
(* A request settles, however late the host begins to serve, unless the    *)
(* view unregistered meanwhile or the host stopped serving: the two cases  *)
(* in which nothing will ever answer its caller.                           *)
(***************************************************************************)
RequestSettles ==
  \A r \in Id : outcome[r] = Waiting ~> outcome[r] # Waiting \/ host = "stopped"
=============================================================================
