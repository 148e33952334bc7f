----------------------------- MODULE Residence -----------------------------
(***************************************************************************)
(* Where a dispatch leg runs (evaluation/residence-transport.ts with the   *)
(* leg facts of traits/trait-index.ts): in the browser against the browser *)
(* store, or at the server.  A mount batch goes to each with its own seeds,*)
(* one leg after the other; a leg that needs both is refused.              *)
(***************************************************************************)
EXTENDS Naturals, Sequences, SequencesExt

CONSTANTS Trait,    \* the traits of one orbital
          MaxSends  \* bound on the requests

\* What the live transitions of a trait on the event do: touchesServer() and
\* browserLegEvents() after statically false guards and branches are dropped.
Need == SUBSET {"browser", "server"}

VARIABLES need,     \* trait -> what its transitions reach
          remote,   \* whether the host has a server
          request,  \* the request under way: its seeds in order, the traits it names
          legs,     \* the legs still to run
          ran,      \* history: <<trait, place>> for every seed that was run
          twice,    \* history: a seed was run again
          replies,  \* whether each finished leg succeeded
          verdict,  \* what the caller was told of the last request
          sends

resVars == <<need, remote, request, legs, ran, twice, replies, verdict, sends>>

Idle == [seeds |-> <<>>, named |-> {}]

TypeOK ==
  /\ need \in [Trait -> Need] /\ remote \in BOOLEAN
  /\ request.seeds \in Seq(Trait) /\ request.named \subseteq Trait
  /\ \A i \in 1 .. Len(legs) : legs[i].at \in {"local", "remote"} /\ legs[i].traits \subseteq Trait
  /\ ran \subseteq Trait \X {"local", "remote"} /\ twice \in BOOLEAN
  /\ replies \in Seq(BOOLEAN)
  /\ verdict \in {"none", "running", "success", "failure", "refused", "thrown"}
  /\ sends \in 0 .. MaxSends

Init ==
  /\ need \in [Trait -> Need] /\ remote \in BOOLEAN
  /\ request = Idle /\ legs = <<>>
  /\ ran = {} /\ twice = FALSE /\ replies = <<>>
  /\ verdict = "none" /\ sends = 0

-----------------------------------------------------------------------------
\* legTraits(): the traits a request names, all of the orbital's when none.
LegTraits(named) == IF named = {} THEN Trait ELSE named

\* Mutant: a leg that needs both runs at the server.
RouteNeverRefuses(named) ==
  LET reached == UNION {need[t] : t \in LegTraits(named)} IN
    IF "browser" \in reached /\ "server" \notin reached THEN "local"
    ELSE IF remote THEN "remote" ELSE "local"

\* route(): the one place all that the leg reaches lives at.
Route(named) ==
  LET reached == UNION {need[t] : t \in LegTraits(named)} IN
    IF reached = {"browser", "server"} \/ (~remote /\ reached = {"server"}) THEN "refused"
    ELSE IF "browser" \in reached \/ ~remote THEN "local" ELSE "remote"

\* Mutant: the batch goes whole to the place of each of its seeds.
LegSeedsAll(seeds, at) == ToSet(seeds)

\* The seeds of a mount batch that live at a place.
LegSeeds(seeds, at) == {t \in ToSet(seeds) : Route({t}) = at}

\* mountLegs(): every seed is routed before any leg runs, the places come in
\* the order of their first seed.
MountLegs(seeds) ==
  LET leg(at) == [at |-> at, traits |-> LegSeeds(seeds, at)]
      first == Route({Head(seeds)})
      second == IF first = "local" THEN "remote" ELSE "local"
  IN IF LegSeeds(seeds, second) = {} THEN <<leg(first)>> ELSE <<leg(first), leg(second)>>

\* send(): a batch over two places becomes two legs, all else is one leg. The
\* traits a request lists beside its seeds are judged with them when it is one
\* leg, and are left out when it is split.
Send(seeds, others) ==
  /\ verdict # "running"
  /\ sends < MaxSends /\ sends' = sends + 1
  /\ LET named == ToSet(seeds) \cup others
         split == Len(seeds) > 1
         bad == split /\ \E t \in ToSet(seeds) : Route({t}) = "refused"
         parts == IF split /\ ~bad THEN MountLegs(seeds) ELSE <<>>
         whole == [at |-> Route(named), traits |-> LegTraits(named)]
         plan == IF Len(parts) > 1 THEN parts ELSE <<whole>>
         refused == bad \/ (Len(parts) <= 1 /\ Route(named) = "refused")
     IN /\ legs' = IF refused THEN <<>> ELSE plan
        /\ verdict' = IF refused THEN "refused" ELSE "running"
        /\ request' = IF refused THEN Idle ELSE [seeds |-> seeds, named |-> named]
  /\ ran' = {} /\ twice' = FALSE /\ replies' = <<>>
  /\ UNCHANGED <<need, remote>>

\* A leg is sent and answered; a place that cannot be reached throws, and the
\* answers of the legs before it are lost to the caller.
RunLeg(outcome) ==
  /\ verdict = "running" /\ legs # <<>>
  /\ LET leg == Head(legs)
         runs == leg.traits \X {leg.at}
     IN /\ ran' = IF outcome = "thrown" THEN ran ELSE ran \cup runs
        /\ twice' = (twice \/ (outcome # "thrown" /\ \E t \in leg.traits : \E p \in ran : p[1] = t))
  /\ IF outcome = "thrown"
     THEN /\ verdict' = "thrown" /\ legs' = <<>> /\ request' = Idle
          /\ UNCHANGED replies
     ELSE /\ legs' = Tail(legs)
          /\ replies' = Append(replies, outcome = "success")
          /\ UNCHANGED <<verdict, request>>
  /\ UNCHANGED <<need, remote, sends>>

\* Mutant: the merged batch succeeded when one of its legs did.
MergedSuccessAny == \E i \in 1 .. Len(replies) : replies[i]

\* mergeMountResponses(): the batch succeeded when every leg did.
MergedSuccess == \A i \in 1 .. Len(replies) : replies[i]

\* The caller gets one response for all legs.
Respond ==
  /\ verdict = "running" /\ legs = <<>>
  /\ verdict' = IF MergedSuccess THEN "success" ELSE "failure"
  /\ UNCHANGED <<need, remote, request, legs, ran, twice, replies, sends>>

Next ==
  \/ \E seeds \in SeqOf(Trait, 3), others \in SUBSET Trait :
       IsInjective(seeds) /\ Send(seeds, others)
  \/ \E outcome \in {"success", "failure", "thrown"} : RunLeg(outcome)
  \/ Respond
-----------------------------------------------------------------------------
(***************************************************************************)
(* Whatever batch a page mounts, a trait is run once and only where the    *)
(* data its transitions reach is kept; a request that is refused has run   *)
(* nothing at all ("refused, never split silently"); and a success means   *)
(* that every leg of the batch succeeded and every seed was run.           *)
(***************************************************************************)
EachSeedAtItsData ==
  /\ ~twice
  /\ \A p \in ran : need[p[1]] \subseteq (IF p[2] = "local" THEN {"browser"} ELSE {"server"})
  /\ verdict = "refused" => ran = {}
  /\ verdict = "success" => /\ \A i \in 1 .. Len(replies) : replies[i]
                            /\ \A t \in ToSet(request.seeds) : \E p \in ran : p[1] = t
=============================================================================
