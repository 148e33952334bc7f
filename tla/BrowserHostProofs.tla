------------------------- MODULE BrowserHostProofs -------------------------
(***************************************************************************)
(* Theorems about the whole-program host of a browser context, for any     *)
(* requests, ticks and rounds.                                             *)
(*                                                                         *)
(* Always holds whatever the host serves: it has what a firing's flag and  *)
(* the foreground lane stand for, and that only those who wait stand in a  *)
(* lane, once.                                                             *)
(*                                                                         *)
(* Slot is about the slot itself, as long as every request that runs       *)
(* inside a turn is one the turn awaits (Contained).  A turn is then a     *)
(* stack of dispatches, each awaited by the provider of the one below it,  *)
(* and only the top one can move.  The slot is a turn's when its top one   *)
(* evaluates or asks, and nobody's while that one is outside or takes the  *)
(* slot again, so it is taken again for a turn that is not over.           *)
(*                                                                         *)
(* A report or a late dispatch that runs inside a turn ends this: two      *)
(* dispatches of one turn can then move.  BrowserHostReport.cfg shows what  *)
(* comes of it.                                                            *)
(***************************************************************************)
EXTENDS BrowserHost, FiniteSetTheorems, TLAPS

\* t stands in the lane q; nobody stands in it twice.
In(t, q) == \E i \in DOMAIN q : q[i] = t
Once(q) == \A i, j \in DOMAIN q : q[i] = q[j] => i = j

\* What was not dispatched belongs to nothing.
Fresh == \A d \in Dispatch :
  pc[d] = "idle" => own[d] = None /\ caller[d] = None /\ tick[d] = None

\* Who waits in the foreground lane waits for the turn of a view.
PersonsInFront == \A d \in Dispatch : In(d, foreground) => lane[TurnOf(d)] = "foreground"

\* Only a turn that had the slot gave it back.
LentOutside == \A d \in Dispatch : pc[d] \in {"outside", "retaking"} => lent[d] # None

\* Nobody stands in a lane twice, and only those do who wait.
Lanes ==
  /\ Once(foreground) /\ Once(background)
  /\ \A d \in Dispatch : In(d, foreground) => ~In(d, background)
  /\ \A d \in Dispatch : In(d, foreground) \/ In(d, background) => pc[d] \in {"queued", "retaking"}

\* A tick's flag is up while one firing of it is not done.
Firings == \A d \in Dispatch : tick[d] # None /\ pc[d] # "done" =>
  /\ firing[tick[d]]
  /\ \A e \in Dispatch : tick[e] = tick[d] /\ pc[e] # "done" => e = d

Always == TypeOK /\ Fresh /\ PersonsInFront /\ LentOutside /\ Lanes /\ Firings

\* Where a dispatch is of a turn that has begun.
Active == {"evaluating", "asking", "outside", "retaking"}
\* The dispatch of a turn that can move: it awaits no dispatch made inside it.
Top(d) == pc[d] \in Active /\ (pc[d] = "asking" => ~AwaitsChild(d))

\* A dispatch that queues is its own turn, one that runs at once its caller's;
\* a turn that has not been granted yet has nothing inside it.
Owners ==
  /\ \A d \in Dispatch : pc[d] # "idle" =>
        /\ own[d] \in Dispatch
        /\ own[own[d]] = own[d]
        /\ lane[d] = "direct" <=> own[d] # d
        /\ lane[d] = "direct" => caller[d] # None
  /\ \A d \in Dispatch : pc[d] = "queued" => own[d] = d
  /\ \A d \in Dispatch : pc[d] \in {"idle", "queued"} =>
       /\ running # d
       /\ \A e \in Dispatch : own[e] = d => e = d

\* Whoever has a caller is awaited by it: the caller asks from inside the same
\* turn, or is outside while its callee has a turn of its own.
Callers == \A d \in Dispatch : caller[d] # None /\ pc[d] # "done" =>
  IF lane[d] = "direct"
  THEN pc[caller[d]] = "asking" /\ own[caller[d]] = own[d]
  ELSE pc[caller[d]] = "outside"

\* The ports a provider was lent are those of its dispatch's turn.
Lent == \A d \in Dispatch : pc[d] \in {"asking", "outside", "retaking"} => lent[d] = own[d]

\* One dispatch of a turn can move, and it says whether the turn has the slot.
Holder == \A d \in Dispatch : Top(d) =>
  /\ running = own[d] <=> pc[d] \in {"evaluating", "asking"}
  /\ \A e \in Dispatch : Top(e) /\ own[e] = own[d] => e = d

\* A turn that has the slot, or will have it again, is not over.
NotOver ==
  /\ running # None => pc[running] # "done"
  /\ \A d \in Dispatch : pc[d] \in {"outside", "retaking"} => pc[own[d]] # "done"

Slot == Owners /\ Callers /\ Lent /\ Holder /\ NotOver
-----------------------------------------------------------------------------
(***************************************************************************)
(* The lanes as sets.                                                      *)
(***************************************************************************)
LEMMA AppendIn ==
  ASSUME NEW S, NEW q \in Seq(S), NEW t \in S
  PROVE  /\ Append(q, t) \in Seq(S)
         /\ \A u : In(u, Append(q, t)) <=> In(u, q) \/ u = t
         /\ Once(q) /\ ~In(t, q) => Once(Append(q, t))
<1>1. /\ Append(q, t) \in Seq(S) /\ DOMAIN Append(q, t) = 1 .. Len(q) + 1
      /\ DOMAIN q = 1 .. Len(q) /\ Len(q) \in Nat
      /\ \A i \in 1 .. Len(q) : Append(q, t)[i] = q[i]
      /\ Append(q, t)[Len(q) + 1] = t
  OBVIOUS
<1>2. \A i \in 1 .. Len(q) + 1 : i \in 1 .. Len(q) \/ i = Len(q) + 1
  BY <1>1
<1>3. \A i \in 1 .. Len(q) : i \in 1 .. Len(q) + 1
  BY <1>1
<1>4. Len(q) + 1 \in 1 .. Len(q) + 1
  BY <1>1
<1>5. \A u : In(u, Append(q, t)) <=> In(u, q) \/ u = t
  BY <1>1, <1>2, <1>3, <1>4 DEF In
<1>6. Once(q) /\ ~In(t, q) => Once(Append(q, t))
  BY <1>1, <1>2 DEF Once, In
<1> QED BY <1>1, <1>5, <1>6

LEMMA TailIn ==
  ASSUME NEW S, NEW q \in Seq(S), q # <<>>
  PROVE  /\ Head(q) \in S /\ Tail(q) \in Seq(S) /\ In(Head(q), q)
         /\ \A u : In(u, Tail(q)) => In(u, q)
         /\ Once(q) => Once(Tail(q)) /\ ~In(Head(q), Tail(q))
<1>1. /\ Tail(q) \in Seq(S) /\ DOMAIN Tail(q) = 1 .. Len(q) - 1
      /\ DOMAIN q = 1 .. Len(q) /\ Len(q) \in Nat \ {0}
      /\ \A i \in 1 .. Len(q) - 1 : Tail(q)[i] = q[i + 1]
      /\ Head(q) = q[1] /\ Head(q) \in S
  OBVIOUS
<1>2. \A i \in 1 .. Len(q) - 1 : i + 1 \in 1 .. Len(q) /\ i + 1 # 1
  BY <1>1
<1>3. 1 \in 1 .. Len(q)
  BY <1>1
<1>4. \A i, j \in 1 .. Len(q) - 1 : i + 1 = j + 1 => i = j
  BY <1>1
<1>5. \A u : In(u, Tail(q)) => In(u, q)
  BY <1>1, <1>2 DEF In
<1>6. Once(q) => Once(Tail(q)) /\ ~In(Head(q), Tail(q))
  BY <1>1, <1>2, <1>3, <1>4 DEF Once, In
<1>7. In(Head(q), q)
  BY <1>1, <1>3 DEF In
<1> QED BY <1>1, <1>5, <1>6, <1>7

\* take adds who waits to the lane, and to no other.
LEMMA TakeIn ==
  ASSUME TypeOK, NEW t \in Dispatch, NEW l, Take(t, l)
  PROVE  /\ foreground' \in Seq(Dispatch) /\ background' \in Seq(Dispatch)
         /\ \A u : In(u, foreground)' <=> In(u, foreground) \/ (u = t /\ l = "foreground")
         /\ \A u : In(u, background)' <=> In(u, background) \/ (u = t /\ l # "foreground")
         /\ ~In(t, foreground) /\ ~In(t, background) =>
              /\ Once(foreground) => Once(foreground)'
              /\ Once(background) => Once(background)'
<1>1. foreground \in Seq(Dispatch) /\ background \in Seq(Dispatch)
  BY DEF TypeOK
<1>2. CASE l = "foreground"
  <2>1. foreground' = Append(foreground, t) /\ background' = background
    BY <1>2 DEF Take
  <2> QED BY <1>1, <1>2, <2>1, AppendIn DEF In, Once
<1>3. CASE l # "foreground"
  <2>1. background' = Append(background, t) /\ foreground' = foreground
    BY <1>3 DEF Take
  <2> QED BY <1>1, <1>3, <2>1, AppendIn DEF In, Once
<1> QED BY <1>2, <1>3

\* Who is granted the slot leaves its lane; the foreground comes first.
LEMMA GrantOut ==
  ASSUME TypeOK, Grant
  PROVE  \E x \in Dispatch :
         /\ foreground' \in Seq(Dispatch) /\ background' \in Seq(Dispatch)
         /\ running = None /\ running' = TurnOf(x) /\ pc' = [pc EXCEPT ![x] = "evaluating"]
         /\ \A u : In(u, foreground)' => In(u, foreground)
         /\ \A u : In(u, background)' => In(u, background)
         /\ Once(foreground) => Once(foreground)'
         /\ Once(background) => Once(background)'
         /\ \/ In(x, foreground) /\ (Once(foreground) => ~In(x, foreground)')
            \/ /\ foreground = <<>> /\ foreground' = <<>>
               /\ In(x, background) /\ (Once(background) => ~In(x, background)')
<1>1. foreground \in Seq(Dispatch) /\ background \in Seq(Dispatch) /\ running = None
  BY DEF TypeOK, Grant
<1>2. CASE foreground # <<>>
  <2>0. PICK x : x = Head(foreground)
    OBVIOUS
  <2>1. /\ running' = TurnOf(x) /\ pc' = [pc EXCEPT ![x] = "evaluating"]
        /\ foreground' = Tail(foreground) /\ background' = background
    BY <1>2, <2>0 DEF Grant, NextLane
  <2>2. x \in Dispatch /\ foreground' \in Seq(Dispatch) /\ In(x, foreground)
        /\ (\A u : In(u, foreground') => In(u, foreground))
        /\ (Once(foreground) => Once(foreground') /\ ~In(x, foreground'))
    BY <1>1, <1>2, <2>0, <2>1, TailIn
  <2> QED BY <1>1, <2>1, <2>2 DEF In, Once
<1>3. CASE foreground = <<>>
  <2>0. PICK x : x = Head(background)
    OBVIOUS
  <2>1. /\ background # <<>> /\ running' = TurnOf(x) /\ pc' = [pc EXCEPT ![x] = "evaluating"]
        /\ background' = Tail(background) /\ foreground' = foreground
    BY <1>3, <2>0 DEF Grant, NextLane
  <2>2. x \in Dispatch /\ background' \in Seq(Dispatch) /\ In(x, background)
        /\ (\A u : In(u, background') => In(u, background))
        /\ (Once(background) => Once(background') /\ ~In(x, background'))
    BY <1>1, <2>0, <2>1, TailIn
  <2> QED BY <1>1, <1>3, <2>1, <2>2 DEF In, Once
<1> QED BY <1>2, <1>3
-----------------------------------------------------------------------------
(***************************************************************************)
(* The steps of the host, by what they do.                                 *)
(***************************************************************************)
\* A provider that may dispatch: its call is outside, or nothing it awaits runs.
MayDispatch(p) == pc[p] = "outside" \/ (pc[p] = "asking" /\ ~AwaitsChild(p))

\* d queues up as a turn: of a view, an outcome, a report, tick t, or provider p.
Arrives(d, l, p, t) ==
  /\ Enqueue(d, l)
  /\ caller' = [caller EXCEPT ![d] = p]
  /\ p # None => MayDispatch(p) /\ ~(lent[p] # None /\ running = lent[p] /\ pc[lent[p]] # "done")
  /\ tick' = [tick EXCEPT ![d] = t]
  /\ \A u \in Tick : firing'[u] = (firing[u] \/ u = t)
  /\ firing' \in [Tick -> BOOLEAN]
  /\ t # None => ~firing[t]

\* d runs inside turn t, dispatched by p through ports that t lent.
RunsInside(d, t, p) ==
  /\ RunInside(d, t) /\ running = t
  /\ caller' = [caller EXCEPT ![d] = p]
  /\ p # None => MayDispatch(p) /\ lent[p] = t
  /\ UNCHANGED <<tick, firing>>

LEMMA Steps ==
  ASSUME BrowserHostAssumption, TypeOK, Fresh, [Next]_vars
  PROVE  \/ Grant
         \/ \E d \in Dispatch, l \in {"foreground", "background"},
               p \in Maybe(Dispatch), t \in Maybe(Tick) : Arrives(d, l, p, t)
         \/ \E d, t \in Dispatch, p \in Maybe(Dispatch) : RunsInside(d, t, p)
         \/ \E d \in Dispatch, kind \in Kinds : Ask(d, kind)
         \/ \E d \in Dispatch : Settle(d)
         \/ \E d \in Dispatch : Answer(d)
         \/ \E d \in Dispatch : pc[d] = "evaluating" /\ End(d, FALSE)
         \/ UNCHANGED vars
<1>1. ASSUME NEW d \in Dispatch, pc[d] = "idle"
      PROVE  /\ caller = [caller EXCEPT ![d] = None] /\ tick = [tick EXCEPT ![d] = None]
             /\ None \in Maybe(Dispatch) /\ None \in Maybe(Tick) /\ None \notin Dispatch \cup Tick
  BY <1>1 DEF TypeOK, Fresh, Maybe, BrowserHostAssumption
<1>2. \A u \in Tick : firing[u] = (firing[u] \/ u = None)
  BY DEF BrowserHostAssumption, TypeOK
<1>3. firing \in [Tick -> BOOLEAN]
  BY DEF TypeOK
<1>4. ASSUME NEW d \in Dispatch, NEW l \in {"foreground", "background"},
             Enqueue(d, l), UNCHANGED <<caller, tick, firing>>
      PROVE  Arrives(d, l, None, None) /\ None \in Maybe(Dispatch) /\ None \in Maybe(Tick)
  <2>1. pc[d] = "idle"
    BY <1>4 DEF Enqueue
  <2> QED BY <1>1, <1>2, <1>3, <1>4, <2>1 DEF Arrives
<1>5. ASSUME NEW d \in Dispatch, NEW t \in Tick, Fire(d, t)
      PROVE  Arrives(d, "background", None, t) /\ None \in Maybe(Dispatch) /\ t \in Maybe(Tick)
  <2>1. pc[d] = "idle"
    BY <1>5 DEF Fire, Enqueue
  <2>2. /\ \A u \in Tick : firing'[u] = (firing[u] \/ u = t)
        /\ firing' \in [Tick -> BOOLEAN]
    BY <1>3, <1>5 DEF Fire
  <2> QED BY <1>1, <1>5, <2>1, <2>2 DEF Arrives, Fire, Maybe
<1>6. ASSUME NEW d \in Dispatch, NEW p \in Dispatch, DispatchBack(d, p)
      PROVE  \/ Arrives(d, "background", p, None) /\ p \in Maybe(Dispatch) /\ None \in Maybe(Tick)
             \/ RunsInside(d, lent[p], p) /\ lent[p] \in Dispatch /\ p \in Maybe(Dispatch)
  <2>1. pc[d] = "idle" /\ MayDispatch(p) /\ caller' = [caller EXCEPT ![d] = p]
    <3>1. pc[d] = "idle"
      BY <1>6 DEF DispatchBack, ThroughPorts, RunInside, Enqueue
    <3>2. MayDispatch(p)
      BY <1>6 DEF DispatchBack, MayDispatch
    <3>3. caller' = [caller EXCEPT ![d] = p]
      BY <1>6 DEF DispatchBack
    <3> QED BY <3>1, <3>2, <3>3
  <2>2. p # None /\ p \in Maybe(Dispatch)
    BY DEF BrowserHostAssumption, Maybe
  <2>3. CASE lent[p] # None /\ running = lent[p] /\ pc[lent[p]] # "done"
    <3>1. lent[p] \in Dispatch
      BY <2>3 DEF TypeOK, Maybe
    <3> QED BY <1>6, <2>1, <2>2, <2>3, <3>1 DEF DispatchBack, ThroughPorts, RunsInside
  <2>4. CASE ~(lent[p] # None /\ running = lent[p] /\ pc[lent[p]] # "done")
    BY <1>1, <1>2, <1>3, <1>6, <2>1, <2>2, <2>4 DEF DispatchBack, ThroughPorts, Arrives
  <2> QED BY <2>3, <2>4
<1>7. ASSUME NEW d \in Dispatch, Report(d) \/ DispatchLate(d)
      PROVE  \/ Arrives(d, "background", None, None) /\ None \in Maybe(Dispatch) /\ None \in Maybe(Tick)
             \/ RunsInside(d, running, None) /\ running \in Dispatch /\ None \in Maybe(Dispatch)
  <2>1. PICK t : ThroughPorts(d, t) /\ UNCHANGED <<caller, tick, firing>>
    BY <1>7 DEF Report, DispatchLate
  <2>2. CASE t # None /\ running = t /\ pc[t] # "done"
    <3>1. running \in Dispatch
      BY <2>2 DEF TypeOK, Maybe
    <3>2. RunInside(d, running) /\ pc[d] = "idle"
      BY <2>1, <2>2 DEF ThroughPorts, RunInside
    <3> QED BY <1>1, <2>1, <3>1, <3>2 DEF RunsInside
  <2>3. CASE ~(t # None /\ running = t /\ pc[t] # "done")
    BY <1>4, <2>1, <2>3 DEF ThroughPorts
  <2> QED BY <2>2, <2>3
<1>8. ASSUME NEW d \in Dispatch, Finish(d) \/ Throw(d)
      PROVE  pc[d] = "evaluating" /\ End(d, FALSE)
  BY <1>8 DEF Finish, Throw, End
<1>9. CASE Next
  <2>1. ASSUME NEW d \in Dispatch, Send(d) \/ Outcome(d)
        PROVE  \E l \in {"foreground", "background"} : Arrives(d, l, None, None)
               /\ None \in Maybe(Dispatch) /\ None \in Maybe(Tick)
    BY <1>4, <2>1 DEF Send, Outcome
  <2>2. CASE AllDone
    BY <2>2 DEF AllDone
  <2>3. CASE \E d \in Dispatch : Send(d) \/ Outcome(d)
    BY <2>1, <2>3
  <2>4. CASE \E d \in Dispatch : \E t \in Tick : Fire(d, t)
    BY <1>5, <2>4
  <2>5. CASE \E d \in Dispatch : \E p \in Dispatch : DispatchBack(d, p)
    BY <1>6, <2>5
  <2>6. CASE \E d \in Dispatch : Report(d) \/ DispatchLate(d)
    BY <1>7, <2>6
  <2>7. CASE \E d \in Dispatch : Finish(d) \/ Throw(d)
    BY <1>8, <2>7
  <2> QED BY <1>9, <2>2, <2>3, <2>4, <2>5, <2>6, <2>7 DEF Next
<1>10. CASE UNCHANGED vars
  BY <1>10
<1> QED BY <1>9, <1>10
-----------------------------------------------------------------------------
(***************************************************************************)
(* What holds whoever dispatches, and when.                                *)
(***************************************************************************)
LEMMA TypeStep ==
  ASSUME BrowserHostAssumption, Always, [Next]_vars
  PROVE  TypeOK' /\ LentOutside'
<1> USE DEF Always
<1>1. ASSUME Grant PROVE TypeOK' /\ LentOutside'
  <2>1. PICK x \in Dispatch :
          /\ foreground' \in Seq(Dispatch) /\ background' \in Seq(Dispatch)
          /\ running' = TurnOf(x) /\ pc' = [pc EXCEPT ![x] = "evaluating"]
          /\ In(x, foreground) \/ In(x, background)
    BY <1>1, GrantOut
  <2>2. pc[x] # "idle"
    BY <2>1 DEF Lanes
  <2>3. pc' \in [Dispatch -> PC] /\ \A e \in Dispatch : pc'[e] = "idle" <=> lane[e] = "none"
    BY <2>1, <2>2 DEF TypeOK, PC
  <2>4. running' \in Maybe(Dispatch)
    BY <2>1 DEF TurnOf, TypeOK, Maybe
  <2>5. LentOutside'
    BY <1>1, <2>1 DEF Grant, TypeOK, LentOutside
  <2> QED BY <1>1, <2>1, <2>3, <2>4, <2>5 DEF Grant, TypeOK
<1>2. ASSUME NEW d \in Dispatch, NEW l \in {"foreground", "background"},
             NEW p \in Maybe(Dispatch), NEW t \in Maybe(Tick), Arrives(d, l, p, t)
      PROVE  TypeOK' /\ LentOutside'
  <2>1. foreground' \in Seq(Dispatch) /\ background' \in Seq(Dispatch)
    BY <1>2, TakeIn DEF Arrives, Enqueue
  <2>2. pc' \in [Dispatch -> PC] /\ lane' \in [Dispatch -> {"none", "foreground", "background", "direct"}]
    BY <1>2 DEF Arrives, Enqueue, TypeOK, PC
  <2>3. \A e \in Dispatch : pc'[e] = "idle" <=> lane'[e] = "none"
    BY <1>2 DEF Arrives, Enqueue, TypeOK
  <2>4. /\ own' \in [Dispatch -> Maybe(Dispatch)] /\ caller' \in [Dispatch -> Maybe(Dispatch)]
        /\ tick' \in [Dispatch -> Maybe(Tick)]
    BY <1>2 DEF Arrives, Enqueue, TypeOK, Maybe
  <2>5. LentOutside'
    BY <1>2 DEF Arrives, Enqueue, TypeOK, LentOutside
  <2> QED BY <1>2, <2>1, <2>2, <2>3, <2>4, <2>5 DEF Arrives, Enqueue, TypeOK
<1>3. ASSUME NEW d \in Dispatch, NEW t \in Dispatch, NEW p \in Maybe(Dispatch), RunsInside(d, t, p)
      PROVE  TypeOK' /\ LentOutside'
  <2>1. pc' \in [Dispatch -> PC] /\ lane' \in [Dispatch -> {"none", "foreground", "background", "direct"}]
    BY <1>3 DEF RunsInside, RunInside, TypeOK, PC
  <2>2. \A e \in Dispatch : pc'[e] = "idle" <=> lane'[e] = "none"
    BY <1>3 DEF RunsInside, RunInside, TypeOK
  <2>3. own' \in [Dispatch -> Maybe(Dispatch)] /\ caller' \in [Dispatch -> Maybe(Dispatch)]
    BY <1>3 DEF RunsInside, RunInside, TypeOK, Maybe
  <2>4. LentOutside'
    BY <1>3 DEF RunsInside, RunInside, TypeOK, LentOutside
  <2> QED BY <1>3, <2>1, <2>2, <2>3, <2>4 DEF RunsInside, RunInside, TypeOK, lanes
<1>4. ASSUME NEW d \in Dispatch, NEW kind \in Kinds, Ask(d, kind)
      PROVE  TypeOK' /\ LentOutside'
  <2>1. rounds' \in [Dispatch -> 0 .. MaxRounds]
    <3>1. rounds[d] + 1 \in 0 .. MaxRounds
      BY <1>4 DEF Ask, TypeOK, BrowserHostAssumption
    <3> QED BY <1>4, <3>1 DEF Ask, TypeOK
  <2>2. ask' \in [Dispatch -> Kind \cup {"none"}] /\ lent' \in [Dispatch -> Maybe(Dispatch)]
    BY <1>4 DEF Ask, TypeOK, BrowserHostAssumption
  <2>5. lenders' \subseteq Dispatch
    BY <1>4 DEF Ask, TypeOK, Maybe
  <2>3. CASE Leaves(kind) /\ running # None
    <3>1. pc' = [pc EXCEPT ![d] = "outside"] /\ running' = None
      BY <1>4, <2>3 DEF Ask
    <3>2. pc' \in [Dispatch -> PC] /\ \A e \in Dispatch : pc'[e] = "idle" <=> lane[e] = "none"
      BY <1>4, <3>1 DEF Ask, TypeOK, PC
    <3>3. LentOutside'
      BY <1>4, <2>3, <3>1 DEF Ask, TypeOK, LentOutside
    <3> QED BY <1>4, <2>1, <2>2, <2>5, <3>1, <3>2, <3>3 DEF Ask, TypeOK, Maybe
  <2>4. CASE ~(Leaves(kind) /\ running # None)
    <3>1. pc' = [pc EXCEPT ![d] = "asking"] /\ running' = running
      BY <1>4, <2>4 DEF Ask
    <3>2. pc' \in [Dispatch -> PC] /\ \A e \in Dispatch : pc'[e] = "idle" <=> lane[e] = "none"
      BY <1>4, <3>1 DEF Ask, TypeOK, PC
    <3>3. LentOutside'
      BY <1>4, <3>1 DEF Ask, TypeOK, LentOutside
    <3> QED BY <1>4, <2>1, <2>2, <2>5, <3>1, <3>2, <3>3 DEF Ask, TypeOK, Maybe
  <2> QED BY <2>3, <2>4
<1>5. ASSUME NEW d \in Dispatch, Settle(d) PROVE TypeOK' /\ LentOutside'
  <2>1. lent[d] \in Dispatch
    BY <1>5 DEF Settle, TypeOK, LentOutside, Maybe
  <2>2. foreground' \in Seq(Dispatch) /\ background' \in Seq(Dispatch)
    BY <1>5, <2>1, TakeIn DEF Settle
  <2>3. pc' \in [Dispatch -> PC] /\ \A e \in Dispatch : pc'[e] = "idle" <=> lane[e] = "none"
    BY <1>5 DEF Settle, TypeOK, PC
  <2> QED BY <1>5, <2>2, <2>3 DEF Settle, TypeOK, LentOutside
<1>6. ASSUME NEW d \in Dispatch, Answer(d) PROVE TypeOK' /\ LentOutside'
  <2>1. pc' \in [Dispatch -> PC] /\ \A e \in Dispatch : pc'[e] = "idle" <=> lane[e] = "none"
    BY <1>6 DEF Answer, TypeOK, PC
  <2> QED BY <1>6, <2>1 DEF Answer, TypeOK, LentOutside, lanes
<1>7. ASSUME NEW d \in Dispatch, pc[d] = "evaluating", End(d, FALSE) PROVE TypeOK' /\ LentOutside'
  <2>1. pc' \in [Dispatch -> PC] /\ \A e \in Dispatch : pc'[e] = "idle" <=> lane[e] = "none"
    BY <1>7 DEF End, TypeOK, PC
  <2>2. running' \in Maybe(Dispatch)
    BY <1>7 DEF End, TypeOK, Maybe
  <2>3. firing' \in [Tick -> BOOLEAN]
    BY <1>7 DEF End, TypeOK
  <2> QED BY <1>7, <2>1, <2>2, <2>3 DEF End, TypeOK, LentOutside
<1>8. CASE UNCHANGED vars
  BY <1>8 DEF vars, dispatches, lanes, TypeOK, LentOutside
<1> QED BY <1>1, <1>2, <1>3, <1>4, <1>5, <1>6, <1>7, <1>8, Steps

LEMMA FreshStep ==
  ASSUME BrowserHostAssumption, Always, [Next]_vars
  PROVE  Fresh'
<1> USE DEF Always
<1> SUFFICES ASSUME NEW e \in Dispatch, pc'[e] = "idle"
             PROVE  own'[e] = None /\ caller'[e] = None /\ tick'[e] = None
  BY DEF Fresh
<1>0. pc[e] = "idle" => own[e] = None /\ caller[e] = None /\ tick[e] = None
  BY DEF Fresh
<1>1. CASE Grant
  <2>1. PICK x \in Dispatch : pc' = [pc EXCEPT ![x] = "evaluating"]
    BY <1>1, GrantOut
  <2>2. pc[e] = "idle"
    BY <2>1 DEF TypeOK
  <2> QED BY <1>0, <1>1, <2>2 DEF Grant
<1>2. ASSUME NEW d \in Dispatch, NEW l \in {"foreground", "background"},
             NEW p \in Maybe(Dispatch), NEW t \in Maybe(Tick), Arrives(d, l, p, t)
      PROVE  own'[e] = None /\ caller'[e] = None /\ tick'[e] = None
  BY <1>0, <1>2 DEF Arrives, Enqueue, TypeOK
<1>3. ASSUME NEW d \in Dispatch, NEW t \in Dispatch, NEW p \in Maybe(Dispatch), RunsInside(d, t, p)
      PROVE  own'[e] = None /\ caller'[e] = None /\ tick'[e] = None
  BY <1>0, <1>3 DEF RunsInside, RunInside, TypeOK
<1>4. ASSUME NEW d \in Dispatch, NEW kind \in Kinds, Ask(d, kind)
      PROVE  own'[e] = None /\ caller'[e] = None /\ tick'[e] = None
  BY <1>0, <1>4 DEF Ask, TypeOK
<1>5. ASSUME NEW d \in Dispatch, Settle(d) \/ Answer(d) \/ End(d, FALSE)
      PROVE  own'[e] = None /\ caller'[e] = None /\ tick'[e] = None
  BY <1>0, <1>5 DEF Settle, Answer, End, TypeOK
<1>6. CASE UNCHANGED vars
  BY <1>0, <1>6 DEF vars, dispatches
<1> QED BY <1>1, <1>2, <1>3, <1>4, <1>5, <1>6, Steps

\* Only who begins to wait joins a lane, and who is granted the slot leaves it.
LEMMA LanesStep ==
  ASSUME BrowserHostAssumption, Always, [Next]_vars
  PROVE  Lanes'
<1> USE DEF Always
<1>1. CASE Grant
  <2>1. PICK x \in Dispatch :
          /\ pc' = [pc EXCEPT ![x] = "evaluating"]
          /\ \A u : In(u, foreground)' => In(u, foreground)
          /\ \A u : In(u, background)' => In(u, background)
          /\ Once(foreground) => Once(foreground)'
          /\ Once(background) => Once(background)'
          /\ \/ In(x, foreground) /\ (Once(foreground) => ~In(x, foreground)')
             \/ /\ foreground = <<>> /\ foreground' = <<>>
                /\ In(x, background) /\ (Once(background) => ~In(x, background)')
    BY <1>1, GrantOut
  <2>2. ~In(x, foreground)' /\ ~In(x, background)'
    <3>1. CASE In(x, foreground) /\ (Once(foreground) => ~In(x, foreground)')
      BY <2>1, <3>1 DEF Lanes
    <3>2. CASE /\ foreground = <<>> /\ foreground' = <<>>
               /\ In(x, background) /\ (Once(background) => ~In(x, background)')
      <4>1. ~In(x, foreground')
        BY <3>2 DEF In
      <4> QED BY <3>2, <4>1 DEF Lanes, In
    <3> QED BY <2>1, <3>1, <3>2
  <2>3. \A e \in Dispatch : e # x => pc'[e] = pc[e]
    BY <2>1 DEF TypeOK
  <2> QED BY <2>1, <2>2, <2>3 DEF Lanes
<1>2. ASSUME NEW d \in Dispatch, NEW l, Take(d, l), pc[d] \notin {"queued", "retaking"},
             pc'[d] \in {"queued", "retaking"}, \A e \in Dispatch \ {d} : pc'[e] = pc[e]
      PROVE  Lanes'
  <2>1. ~In(d, foreground) /\ ~In(d, background)
    BY <1>2 DEF Lanes
  <2> QED BY <1>2, <2>1, TakeIn DEF Lanes
<1>3. ASSUME NEW d \in Dispatch, pc[d] \notin {"queued", "retaking"},
             foreground' = foreground, background' = background,
             \A e \in Dispatch \ {d} : pc'[e] = pc[e]
      PROVE  Lanes'
  <2>1. ~In(d, foreground) /\ ~In(d, background)
    BY <1>3 DEF Lanes
  <2> QED BY <1>3, <2>1 DEF Lanes, In, Once
<1>4. ASSUME NEW d \in Dispatch, NEW l \in {"foreground", "background"},
             NEW p \in Maybe(Dispatch), NEW t \in Maybe(Tick), Arrives(d, l, p, t)
      PROVE  Lanes'
  BY <1>2, <1>4 DEF Arrives, Enqueue, TypeOK
<1>5. ASSUME NEW d \in Dispatch, NEW t \in Dispatch, NEW p \in Maybe(Dispatch), RunsInside(d, t, p)
      PROVE  Lanes'
  BY <1>3, <1>5 DEF RunsInside, RunInside, TypeOK, lanes
<1>6. ASSUME NEW d \in Dispatch, Settle(d) PROVE Lanes'
  BY <1>2, <1>6 DEF Settle, TypeOK
<1>7. ASSUME NEW d \in Dispatch, NEW kind \in Kinds, Ask(d, kind) PROVE Lanes'
  BY <1>3, <1>7 DEF Ask, TypeOK
<1>8. ASSUME NEW d \in Dispatch, Answer(d) PROVE Lanes'
  BY <1>3, <1>8 DEF Answer, TypeOK, lanes
<1>9. ASSUME NEW d \in Dispatch, pc[d] = "evaluating", End(d, FALSE) PROVE Lanes'
  BY <1>3, <1>9 DEF End, TypeOK
<1>10. CASE UNCHANGED vars
  BY <1>10 DEF vars, dispatches, lanes, Lanes, In, Once
<1> QED BY <1>1, <1>4, <1>5, <1>6, <1>7, <1>8, <1>9, <1>10, Steps

\* Who waits for a turn again waits in the lane the turn was made for.
LEMMA PersonsStep ==
  ASSUME BrowserHostAssumption, Always, [Next]_vars
  PROVE  PersonsInFront'
<1> USE DEF Always
<1>0. ASSUME NEW e \in Dispatch, In(e, foreground)
      PROVE  /\ TurnOf(e) \in Dispatch /\ lane[TurnOf(e)] = "foreground"
             /\ pc[e] \in {"queued", "retaking"} /\ pc[TurnOf(e)] # "idle"
  <2>1. pc[e] \in {"queued", "retaking"} /\ lane[TurnOf(e)] = "foreground"
    BY <1>0 DEF Lanes, PersonsInFront
  <2>2. TurnOf(e) \in Dispatch
    BY <2>1 DEF TurnOf, TypeOK, LentOutside, Maybe
  <2> QED BY <2>1, <2>2 DEF TypeOK
<1>1. ASSUME NEW e \in Dispatch, In(e, foreground), pc'[e] = pc[e], lent'[e] = lent[e],
             lane'[TurnOf(e)] = lane[TurnOf(e)]
      PROVE  lane'[TurnOf(e)'] = "foreground"
  BY <1>0, <1>1 DEF TurnOf
<1>2. CASE Grant
  <2>1. PICK x \in Dispatch :
          /\ pc' = [pc EXCEPT ![x] = "evaluating"]
          /\ \A u : In(u, foreground)' => In(u, foreground)
    BY <1>2, GrantOut
  <2>2. ASSUME NEW e \in Dispatch, In(e, foreground)' PROVE In(e, foreground) /\ pc'[e] = pc[e]
    <3>1. pc'[e] \in {"queued", "retaking"}
      BY <2>2, LanesStep DEF Lanes
    <3> QED BY <2>1, <2>2, <3>1 DEF TypeOK
  <2> QED BY <1>1, <1>2, <2>2 DEF Grant, PersonsInFront
<1>3. ASSUME NEW d \in Dispatch, NEW l \in {"foreground", "background"},
             NEW p \in Maybe(Dispatch), NEW t \in Maybe(Tick), Arrives(d, l, p, t)
      PROVE  PersonsInFront'
  <2> SUFFICES ASSUME NEW e \in Dispatch, In(e, foreground)'
               PROVE  lane'[TurnOf(e)'] = "foreground"
    BY DEF PersonsInFront
  <2>1. In(e, foreground) \/ (e = d /\ l = "foreground")
    BY <1>3, TakeIn DEF Arrives, Enqueue
  <2>2. CASE In(e, foreground)
    BY <1>0, <1>1, <1>3, <2>2 DEF Arrives, Enqueue, TypeOK
  <2>3. CASE e = d /\ l = "foreground"
    BY <1>3, <2>3 DEF Arrives, Enqueue, TypeOK, TurnOf
  <2> QED BY <2>1, <2>2, <2>3
<1>4. ASSUME NEW d \in Dispatch, NEW t \in Dispatch, NEW p \in Maybe(Dispatch), RunsInside(d, t, p)
      PROVE  PersonsInFront'
  <2> SUFFICES ASSUME NEW e \in Dispatch, In(e, foreground)
               PROVE  lane'[TurnOf(e)'] = "foreground"
    BY <1>4 DEF PersonsInFront, RunsInside, RunInside, lanes, In
  <2> QED BY <1>0, <1>1, <1>4 DEF RunsInside, RunInside, TypeOK
<1>5. ASSUME NEW d \in Dispatch, Settle(d) PROVE PersonsInFront'
  <2> SUFFICES ASSUME NEW e \in Dispatch, In(e, foreground)'
               PROVE  lane'[TurnOf(e)'] = "foreground"
    BY DEF PersonsInFront
  <2>1. In(e, foreground) \/ (e = d /\ lane[lent[d]] = "foreground")
    BY <1>5, TakeIn DEF Settle
  <2>2. CASE In(e, foreground)
    BY <1>0, <1>1, <1>5, <2>2 DEF Settle, TypeOK
  <2>3. CASE e = d /\ lane[lent[d]] = "foreground"
    BY <1>5, <2>3 DEF Settle, TypeOK, TurnOf
  <2> QED BY <2>1, <2>2, <2>3
<1>6. ASSUME NEW d \in Dispatch, pc[d] \in {"evaluating", "asking"},
             foreground' = foreground, lane' = lane,
             \A e \in Dispatch \ {d} : pc'[e] = pc[e] /\ lent'[e] = lent[e]
      PROVE  PersonsInFront'
  BY <1>0, <1>1, <1>6 DEF PersonsInFront, In
<1>7. ASSUME NEW d \in Dispatch, NEW kind \in Kinds, Ask(d, kind) PROVE PersonsInFront'
  BY <1>6, <1>7 DEF Ask, TypeOK
<1>8. ASSUME NEW d \in Dispatch, Answer(d) PROVE PersonsInFront'
  BY <1>6, <1>8 DEF Answer, TypeOK, lanes
<1>9. ASSUME NEW d \in Dispatch, pc[d] = "evaluating", End(d, FALSE) PROVE PersonsInFront'
  BY <1>6, <1>9 DEF End, TypeOK
<1>10. CASE UNCHANGED vars
  BY <1>10 DEF vars, dispatches, lanes, PersonsInFront, TurnOf, In
<1> QED BY <1>2, <1>3, <1>4, <1>5, <1>7, <1>8, <1>9, <1>10, Steps

\* The flag is put up by the firing it stands for, and taken down by it alone.
LEMMA FiringsStep ==
  ASSUME BrowserHostAssumption, Always, [Next]_vars
  PROVE  Firings'
<1> USE DEF Always
<1>0. ASSUME NEW e \in Dispatch, NEW f \in Dispatch, tick[e] # None,
             pc[e] # "done", tick[f] = tick[e], pc[f] # "done"
      PROVE  e = f /\ firing[tick[e]] /\ tick[e] \in Tick
  BY <1>0 DEF Firings, TypeOK, Maybe
<1>1. ASSUME tick' = tick, firing' = firing,
             \A e \in Dispatch : pc'[e] # "done" => pc[e] # "done"
      PROVE  Firings'
  BY <1>0, <1>1 DEF Firings
<1>2. ASSUME NEW d \in Dispatch, NEW l \in {"foreground", "background"},
             NEW p \in Maybe(Dispatch), NEW t \in Maybe(Tick), Arrives(d, l, p, t)
      PROVE  Firings'
  <2>1. /\ \A e \in Dispatch \ {d} : pc'[e] = pc[e] /\ tick'[e] = tick[e]
        /\ tick'[d] = t /\ pc[d] = "idle"
    BY <1>2 DEF Arrives, Enqueue, TypeOK
  <2>2. \A u \in Tick : firing'[u] = (firing[u] \/ u = t)
    BY <1>2 DEF Arrives
  <2>3. t # None => t \in Tick /\ ~firing[t]
    BY <1>2 DEF Arrives, Maybe
  <2>4. ASSUME NEW e \in Dispatch, tick'[e] # None, pc'[e] # "done" PROVE firing'[tick'[e]]
    BY <1>0, <2>1, <2>2, <2>3, <2>4
  <2>5. ASSUME NEW e \in Dispatch, tick'[e] # None, pc'[e] # "done",
               NEW f \in Dispatch, tick'[f] = tick'[e], pc'[f] # "done"
        PROVE  f = e
    <3>1. CASE e # d /\ f # d
      BY <1>0, <2>1, <2>5, <3>1
    <3>2. CASE e = d /\ f # d
      BY <1>0, <2>1, <2>3, <2>5, <3>2
    <3>3. CASE e # d /\ f = d
      BY <1>0, <2>1, <2>3, <2>5, <3>3
    <3> QED BY <3>1, <3>2, <3>3
  <2> QED BY <2>4, <2>5 DEF Firings
<1>3. ASSUME NEW d \in Dispatch, NEW t \in Dispatch, NEW p \in Maybe(Dispatch), RunsInside(d, t, p)
      PROVE  Firings'
  BY <1>1, <1>3 DEF RunsInside, RunInside, TypeOK
<1>4. ASSUME Grant PROVE Firings'
  <2>1. PICK x \in Dispatch :
          pc' = [pc EXCEPT ![x] = "evaluating"] /\ (In(x, foreground) \/ In(x, background))
    BY <1>4, GrantOut
  <2>2. \A e \in Dispatch : pc'[e] # "done" => pc[e] # "done"
    BY <2>1 DEF TypeOK, Lanes
  <2> QED BY <1>1, <1>4, <2>2 DEF Grant
<1>5. ASSUME NEW d \in Dispatch, NEW kind \in Kinds, Ask(d, kind) PROVE Firings'
  <2>1. \A e \in Dispatch : pc'[e] # "done" => pc[e] # "done"
    BY <1>5 DEF Ask, TypeOK
  <2> QED BY <1>1, <1>5, <2>1 DEF Ask
<1>6. ASSUME NEW d \in Dispatch, Settle(d) \/ Answer(d) PROVE Firings'
  <2>1. \A e \in Dispatch : pc'[e] # "done" => pc[e] # "done"
    BY <1>6 DEF Settle, Answer, TypeOK
  <2> QED BY <1>1, <1>6, <2>1 DEF Settle, Answer
<1>7. ASSUME NEW d \in Dispatch, pc[d] = "evaluating", End(d, FALSE) PROVE Firings'
  <2>1. /\ \A e \in Dispatch : pc'[e] # "done" => pc[e] # "done" /\ e # d
        /\ tick' = tick
        /\ \A u \in Tick : firing'[u] = (firing[u] /\ tick[d] # u)
    BY <1>7 DEF End, TypeOK
  <2>2. ASSUME NEW e \in Dispatch, tick'[e] # None, pc'[e] # "done" PROVE firing'[tick'[e]]
    <3>1. tick[e] = tick'[e] /\ pc[e] # "done" /\ e # d /\ pc[d] # "done"
      BY <1>7, <2>1, <2>2
    <3>2. tick[d] # tick[e]
      BY <1>0, <2>2, <3>1
    <3> QED BY <1>0, <2>1, <2>2, <3>1, <3>2
  <2> QED BY <1>0, <2>1, <2>2 DEF Firings
<1>8. CASE UNCHANGED vars
  BY <1>1, <1>8 DEF vars, dispatches
<1> QED BY <1>2, <1>3, <1>4, <1>5, <1>6, <1>7, <1>8, Steps
-----------------------------------------------------------------------------
(***************************************************************************)
(* The slot, as long as what runs inside a turn is awaited by it.          *)
(***************************************************************************)
LEMMA ArrivesSlot ==
  ASSUME BrowserHostAssumption, Always, Slot, NEW d \in Dispatch,
         NEW l \in {"foreground", "background"}, NEW p \in Maybe(Dispatch),
         NEW t \in Maybe(Tick), Arrives(d, l, p, t)
  PROVE  Slot'
<1> USE DEF Slot, Always
<1>1. /\ pc[d] = "idle" /\ pc'[d] = "queued" /\ own'[d] = d /\ lane'[d] = l /\ caller'[d] = p
      /\ \A e \in Dispatch \ {d} : /\ pc'[e] = pc[e] /\ own'[e] = own[e]
                                   /\ lane'[e] = lane[e] /\ caller'[e] = caller[e]
      /\ lent' = lent /\ running' = running /\ Take(d, l)
  BY DEF Arrives, Enqueue, TypeOK
<1>2. caller[d] = None /\ own[d] = None /\ None \notin Dispatch
  BY <1>1 DEF Fresh, BrowserHostAssumption
<1>3. p # None => p \in Dispatch /\ pc[p] = "outside"
  <2> SUFFICES ASSUME p # None, pc[p] # "outside" PROVE FALSE
    BY DEF Maybe
  <2>1. p \in Dispatch /\ pc[p] = "asking" /\ ~AwaitsChild(p)
    BY DEF Arrives, MayDispatch, Maybe
  <2>2. Top(p) /\ lent[p] = own[p] /\ own[p] \in Dispatch
    BY <2>1 DEF Top, Active, Lent, Owners
  <2>3. running = own[p] /\ pc[running] # "done"
    BY <1>2, <2>1, <2>2 DEF Holder, NotOver
  <2> QED BY <1>2, <2>2, <2>3 DEF Arrives
<1>4. ASSUME NEW e \in Dispatch, pc[e] = "asking" PROVE AwaitsChild(e)' <=> AwaitsChild(e)
  <2>1. e # p
    BY <1>3, <1>4
  <2> QED BY <1>1, <1>2, <2>1 DEF AwaitsChild
<1>5. \A e \in Dispatch : Top(e)' <=> Top(e)
  BY <1>1, <1>4 DEF Top, Active
<1>6. Owners'
  BY <1>1 DEF Owners
<1>7. Callers'
  <2> SUFFICES ASSUME NEW e \in Dispatch, caller'[e] # None, pc'[e] # "done"
               PROVE  IF lane'[e] = "direct"
                      THEN pc'[caller'[e]] = "asking" /\ own'[caller'[e]] = own'[e]
                      ELSE pc'[caller'[e]] = "outside"
    BY DEF Callers
  <2>1. CASE e = d
    BY <1>1, <1>3, <2>1
  <2>2. CASE e # d
    <3>1. caller[e] \in Dispatch /\ caller[e] # d
      <4>1. caller[e] # None /\ pc[e] # "done"
        BY <1>1, <2>2
      <4>2. caller[e] \in Dispatch
        BY <4>1 DEF TypeOK, Maybe
      <4>3. pc[caller[e]] # "idle"
        BY <4>1 DEF Callers
      <4> QED BY <1>1, <4>2, <4>3
    <3> QED BY <1>1, <2>2, <3>1 DEF Callers
  <2> QED BY <2>1, <2>2
<1>8. Lent'
  BY <1>1 DEF Lent
<1>9. Holder'
  <2>1. \A e \in Dispatch : Top(e) => e # d /\ pc'[e] = pc[e] /\ own'[e] = own[e]
    BY <1>1 DEF Top, Active
  <2> QED BY <1>1, <1>5, <2>1 DEF Holder
<1>10. NotOver'
  <2>1. \A e \in Dispatch : pc[e] \in {"outside", "retaking"} => own[e] \in Dispatch
    BY DEF Owners
  <2>2. running # None => running \in Dispatch
    BY DEF TypeOK, Maybe
  <2> QED BY <1>1, <2>1, <2>2 DEF NotOver
<1> QED BY <1>6, <1>7, <1>8, <1>9, <1>10

LEMMA RunsInsideSlot ==
  ASSUME BrowserHostAssumption, Always, Slot, NEW d \in Dispatch,
         NEW t \in Dispatch, NEW p \in Dispatch, RunsInside(d, t, p)
  PROVE  Slot'
<1> USE DEF Slot, Always
<1>1. /\ pc[d] = "idle" /\ pc'[d] = "evaluating" /\ own'[d] = t /\ lane'[d] = "direct" /\ caller'[d] = p
      /\ \A e \in Dispatch \ {d} : /\ pc'[e] = pc[e] /\ own'[e] = own[e]
                                   /\ lane'[e] = lane[e] /\ caller'[e] = caller[e]
      /\ lent' = lent /\ running' = running /\ foreground' = foreground /\ background' = background
  BY DEF RunsInside, RunInside, TypeOK, lanes
<1>2. caller[d] = None /\ own[d] = None /\ None \notin Dispatch
  BY <1>1 DEF Fresh, BrowserHostAssumption
<1>3. /\ p \in Dispatch /\ pc[p] = "asking" /\ ~AwaitsChild(p) /\ Top(p)
      /\ own[p] = t /\ running = t
  <2>1. p \in Dispatch /\ MayDispatch(p) /\ lent[p] = t /\ running = t
    BY <1>2 DEF RunsInside
  <2>2. Top(p) /\ lent[p] = own[p]
    BY <2>1 DEF Top, Active, Lent, MayDispatch
  <2>3. pc[p] \in {"evaluating", "asking"}
    BY <2>1, <2>2 DEF Holder
  <2> QED BY <2>1, <2>2, <2>3 DEF MayDispatch
<1>4. ASSUME NEW e \in Dispatch PROVE AwaitsChild(e)' <=> AwaitsChild(e) \/ e = p
  BY <1>1, <1>2 DEF AwaitsChild
<1>5. /\ \A e \in Dispatch \ {d} : Top(e)' <=> Top(e) /\ e # p
      /\ Top(d)' /\ ~Top(d) /\ d # p /\ d # t
  BY <1>1, <1>3, <1>4 DEF Top, Active, Owners
<1>6. Owners'
  <2>1. pc[t] \notin {"idle", "queued"} /\ own[t] = t
    BY <1>3 DEF Owners
  <2>2. p # None
    BY <1>2
  <2> QED BY <1>1, <1>2, <1>3, <1>5, <2>1, <2>2 DEF Owners
<1>7. Callers'
  <2> SUFFICES ASSUME NEW e \in Dispatch, caller'[e] # None, pc'[e] # "done"
               PROVE  IF lane'[e] = "direct"
                      THEN pc'[caller'[e]] = "asking" /\ own'[caller'[e]] = own'[e]
                      ELSE pc'[caller'[e]] = "outside"
    BY DEF Callers
  <2>1. CASE e = d
    BY <1>1, <1>3, <1>5, <2>1
  <2>2. CASE e # d
    <3>1. caller[e] \in Dispatch /\ caller[e] # d
      <4>1. caller[e] # None /\ pc[e] # "done"
        BY <1>1, <2>2
      <4>2. caller[e] \in Dispatch
        BY <4>1 DEF TypeOK, Maybe
      <4>3. pc[caller[e]] # "idle"
        BY <4>1 DEF Callers
      <4> QED BY <1>1, <4>2, <4>3
    <3> QED BY <1>1, <2>2, <3>1 DEF Callers
  <2> QED BY <2>1, <2>2
<1>8. Lent'
  BY <1>1 DEF Lent
<1>9. Holder'
  <2> SUFFICES ASSUME NEW e \in Dispatch, Top(e)'
               PROVE  /\ running' = own'[e] <=> pc'[e] \in {"evaluating", "asking"}
                      /\ \A f \in Dispatch : Top(f)' /\ own'[f] = own'[e] => f = e
    BY DEF Holder
  <2>1. \A f \in Dispatch \ {d} : Top(f)' => own'[f] # t
    BY <1>1, <1>3, <1>5 DEF Holder
  <2>2. CASE e = d
    BY <1>1, <1>3, <2>1, <2>2
  <2>3. CASE e # d
    BY <1>1, <1>5, <2>1, <2>3 DEF Holder
  <2> QED BY <2>2, <2>3
<1>10. NotOver'
  <2>1. \A e \in Dispatch : pc[e] \in {"outside", "retaking"} => own[e] \in Dispatch
    BY DEF Owners
  <2> QED BY <1>1, <1>3, <1>5, <2>1 DEF NotOver
<1> QED BY <1>6, <1>7, <1>8, <1>9, <1>10

\* The turn that is granted the slot has one dispatch to begin or to go on with.
LEMMA GrantSlot ==
  ASSUME BrowserHostAssumption, Always, Slot, Grant
  PROVE  Slot'
<1> USE DEF Slot, Always
<1>0. PICK c \in Dispatch : /\ running = None /\ running' = TurnOf(c)
                            /\ pc' = [pc EXCEPT ![c] = "evaluating"]
                            /\ In(c, foreground) \/ In(c, background)
  BY GrantOut
<1>1. /\ pc[c] \in {"queued", "retaking"} /\ pc'[c] = "evaluating"
      /\ \A e \in Dispatch \ {c} : pc'[e] = pc[e]
      /\ own' = own /\ lane' = lane /\ caller' = caller /\ lent' = lent
      /\ running = None /\ running' = own[c] /\ None \notin Dispatch
  <2>1. pc[c] \in {"queued", "retaking"}
    BY <1>0 DEF Lanes
  <2>2. running' = own[c]
    BY <1>0, <2>1 DEF TurnOf, Owners, Lent
  <2> QED BY <1>0, <2>1, <2>2 DEF Grant, TypeOK, BrowserHostAssumption
<1>2. own[c] \in Dispatch /\ own[own[c]] = own[c] /\ pc'[own[c]] \notin {"idle", "queued", "done"}
  <2>1. own[c] \in Dispatch /\ own[own[c]] = own[c]
    BY <1>1 DEF Owners
  <2>2. CASE own[c] = c
    BY <1>1, <2>1, <2>2
  <2>3. CASE own[c] # c
    <3>1. pc[c] = "retaking"
      BY <1>1, <2>3 DEF Owners
    <3>2. pc[own[c]] # "done"
      BY <3>1 DEF NotOver
    <3>3. pc[own[c]] \notin {"idle", "queued"}
      BY <2>1, <2>3 DEF Owners
    <3> QED BY <1>1, <2>1, <2>3, <3>2, <3>3
  <2> QED BY <2>2, <2>3
<1>3. \A e \in Dispatch \ {c} : ~(Top(e) /\ own[e] = own[c])
  <2>1. CASE pc[c] = "queued"
    BY <1>1, <2>1 DEF Owners
  <2>2. CASE pc[c] = "retaking"
    BY <1>1, <2>2 DEF Holder, Top, Active
  <2> QED BY <1>1, <2>1, <2>2
<1>4. \A e \in Dispatch : AwaitsChild(e)' <=> AwaitsChild(e)
  BY <1>1, <1>3 DEF AwaitsChild
<1>5. Top(c)' /\ \A e \in Dispatch \ {c} : Top(e)' <=> Top(e)
  BY <1>1, <1>4 DEF Top, Active
<1>6. Owners'
  BY <1>1, <1>2 DEF Owners
<1>7. Callers'
  <2>1. \A e \in Dispatch : caller[e] # None => caller[e] \in Dispatch
    BY DEF TypeOK, Maybe
  <2>2. \A e \in Dispatch : pc[e] \in {"asking", "outside"} => pc'[e] = pc[e]
    BY <1>1
  <2>3. \A e \in Dispatch : pc'[e] # "done" => pc[e] # "done"
    BY <1>1
  <2> QED BY <1>1, <2>1, <2>2, <2>3 DEF Callers
<1>8. Lent'
  BY <1>1 DEF Lent
<1>9. Holder'
  <2>1. \A e \in Dispatch : Top(e) => own[e] # None
    BY <1>1 DEF Owners, Top, Active
  <2> QED BY <1>1, <1>3, <1>5, <2>1 DEF Holder
<1>10. NotOver'
  <2>1. \A e \in Dispatch : pc[e] \in {"outside", "retaking"} => own[e] \in Dispatch
    BY DEF Owners
  <2>2. ASSUME NEW e \in Dispatch, pc'[e] \in {"outside", "retaking"} PROVE pc'[own[e]] # "done"
    <3>1. e # c /\ pc[e] = pc'[e]
      BY <1>1, <2>2
    <3>2. pc[own[e]] # "done" /\ own[e] \in Dispatch
      BY <2>2, <3>1 DEF NotOver, Owners
    <3> QED BY <1>1, <3>2
  <2> QED BY <1>1, <1>2, <2>2 DEF NotOver
<1> QED BY <1>6, <1>7, <1>8, <1>9, <1>10

LEMMA AskSlot ==
  ASSUME BrowserHostAssumption, Always, Slot, NEW d \in Dispatch, NEW kind \in Kinds, Ask(d, kind)
  PROVE  Slot'
<1> USE DEF Slot, Always
<1>1. /\ pc[d] = "evaluating" /\ pc'[d] \in {"asking", "outside"} /\ lent'[d] = running
      /\ \A e \in Dispatch \ {d} : pc'[e] = pc[e] /\ lent'[e] = lent[e]
      /\ own' = own /\ lane' = lane /\ caller' = caller
      /\ foreground' = foreground /\ background' = background
      /\ running' = IF pc'[d] = "outside" THEN None ELSE running
  BY DEF Ask, TypeOK
<1>2. Top(d) /\ own[d] = running /\ own[d] \in Dispatch /\ None \notin Dispatch
  BY <1>1 DEF Top, Active, Holder, Owners, BrowserHostAssumption
<1>3. \A e \in Dispatch : caller[e] # None /\ pc[e] # "done" =>
        caller[e] \in Dispatch /\ caller[e] # d
  <2>1. \A e \in Dispatch : caller[e] # None => caller[e] \in Dispatch
    BY DEF TypeOK, Maybe
  <2>2. \A e \in Dispatch : caller[e] # None /\ pc[e] # "done" => pc[caller[e]] # "evaluating"
    BY DEF Callers
  <2> QED BY <1>1, <2>1, <2>2
<1>4. \A e \in Dispatch : AwaitsChild(e)' <=> AwaitsChild(e)
  BY <1>1 DEF AwaitsChild
<1>5. ~AwaitsChild(d)
  BY <1>2, <1>3 DEF AwaitsChild
<1>6. \A e \in Dispatch : Top(e)' <=> Top(e)
  BY <1>1, <1>4, <1>5 DEF Top, Active
<1>7. Owners'
  BY <1>1, <1>2 DEF Owners
<1>8. Callers'
  <2>1. \A e \in Dispatch : pc'[e] # "done" => pc[e] # "done"
    BY <1>1
  <2> QED BY <1>1, <1>3, <2>1 DEF Callers
<1>9. Lent'
  BY <1>1, <1>2 DEF Lent
<1>10. Holder'
  <2> SUFFICES ASSUME NEW e \in Dispatch, Top(e)
               PROVE  /\ running' = own[e] <=> pc'[e] \in {"evaluating", "asking"}
                      /\ \A f \in Dispatch : Top(f) /\ own[f] = own[e] => f = e
    BY <1>1, <1>6 DEF Holder
  <2>1. own[e] # None
    BY <1>2 DEF Owners, Top, Active
  <2>2. e # d => own[e] # running
    BY <1>2 DEF Holder
  <2> QED BY <1>1, <1>2, <2>1, <2>2 DEF Holder
<1>11. NotOver'
  <2>1. \A e \in Dispatch : pc[e] \in {"outside", "retaking"} => own[e] \in Dispatch
    BY DEF Owners
  <2>2. running # None /\ pc[running] # "done"
    BY <1>2 DEF NotOver
  <2>3. \A e \in Dispatch : pc'[e] = "done" => pc[e] = "done"
    BY <1>1
  <2>4. ASSUME NEW e \in Dispatch, pc'[e] \in {"outside", "retaking"} PROVE pc[own[e]] # "done"
    BY <1>1, <1>2, <2>2, <2>4 DEF NotOver
  <2>5. running \in Dispatch /\ \A e \in Dispatch : pc'[e] \in {"outside", "retaking"} => own[e] \in Dispatch
    BY <1>1, <1>2, <2>1
  <2> QED BY <1>1, <2>2, <2>3, <2>4, <2>5 DEF NotOver
<1> QED BY <1>7, <1>8, <1>9, <1>10, <1>11

\* A call that settles has the turn it left wait in its lane again.
LEMMA SettleSlot ==
  ASSUME BrowserHostAssumption, Always, Slot, NEW d \in Dispatch, Settle(d)
  PROVE  Slot'
<1> USE DEF Slot, Always
<1>1. /\ pc[d] = "outside" /\ pc'[d] = "retaking" /\ ~AwaitsChild(d)
      /\ \A e \in Dispatch \ {d} : pc'[e] = pc[e]
      /\ own' = own /\ lane' = lane /\ caller' = caller /\ lent' = lent /\ running' = running
  BY DEF Settle, TypeOK
<1>2. lent[d] = own[d] /\ own[d] \in Dispatch /\ Top(d) /\ own[d] # running
  BY <1>1 DEF Lent, Owners, Top, Active, Holder
<1>3. \A e \in Dispatch : AwaitsChild(e)' <=> AwaitsChild(e)
  BY <1>1 DEF AwaitsChild
<1>4. \A e \in Dispatch : Top(e)' <=> Top(e)
  BY <1>1, <1>3 DEF Top, Active
<1>5. Owners'
  BY <1>1 DEF Owners
<1>6. Callers'
  <2>1. \A e \in Dispatch : caller[e] # None /\ pc[e] # "done" =>
          caller[e] \in Dispatch /\ caller[e] # d
    BY <1>1 DEF AwaitsChild, TypeOK, Maybe
  <2>2. \A e \in Dispatch : pc'[e] # "done" => pc[e] # "done"
    BY <1>1
  <2> QED BY <1>1, <2>1, <2>2 DEF Callers
<1>7. Lent'
  BY <1>1, <1>2 DEF Lent
<1>8. Holder'
  BY <1>1, <1>4 DEF Holder
<1>9. NotOver'
  <2>1. \A e \in Dispatch : pc[e] \in {"outside", "retaking"} => own[e] \in Dispatch
    BY DEF Owners
  <2>2. \A e \in Dispatch : pc'[e] = "done" => pc[e] = "done"
    BY <1>1
  <2>3. \A e \in Dispatch : pc'[e] \in {"outside", "retaking"} => pc[e] \in {"outside", "retaking"}
    BY <1>1
  <2>4. running # None => running \in Dispatch
    BY DEF TypeOK, Maybe
  <2> QED BY <1>1, <2>1, <2>2, <2>3, <2>4 DEF NotOver
<1> QED BY <1>5, <1>6, <1>7, <1>8, <1>9

LEMMA AnswerSlot ==
  ASSUME Always, Slot, NEW d \in Dispatch, Answer(d)
  PROVE  Slot'
<1> USE DEF Slot, Always
<1>1. /\ pc[d] = "asking" /\ pc'[d] = "evaluating" /\ ~AwaitsChild(d)
      /\ \A e \in Dispatch \ {d} : pc'[e] = pc[e]
      /\ own' = own /\ lane' = lane /\ caller' = caller /\ lent' = lent /\ running' = running
      /\ foreground' = foreground /\ background' = background
  BY DEF Answer, TypeOK, lanes
<1>2. \A e \in Dispatch : AwaitsChild(e)' <=> AwaitsChild(e)
  BY <1>1 DEF AwaitsChild
<1>3. \A e \in Dispatch : Top(e)' <=> Top(e)
  BY <1>1, <1>2 DEF Top, Active
<1>4. Owners'
  BY <1>1 DEF Owners
<1>5. Callers'
  <2>1. \A e \in Dispatch : caller[e] # None /\ pc[e] # "done" =>
          caller[e] \in Dispatch /\ caller[e] # d
    BY <1>1 DEF AwaitsChild, TypeOK, Maybe
  <2>2. \A e \in Dispatch : pc'[e] # "done" => pc[e] # "done"
    BY <1>1
  <2> QED BY <1>1, <2>1, <2>2 DEF Callers
<1>6. Lent'
  BY <1>1 DEF Lent
<1>7. Holder'
  BY <1>1, <1>3 DEF Holder
<1>8. NotOver'
  <2>1. \A e \in Dispatch : pc[e] \in {"outside", "retaking"} => own[e] \in Dispatch
    BY DEF Owners
  <2>2. \A e \in Dispatch : pc'[e] = "done" => pc[e] = "done"
    BY <1>1
  <2>3. \A e \in Dispatch : pc'[e] \in {"outside", "retaking"} => pc[e] \in {"outside", "retaking"}
    BY <1>1
  <2>4. running # None => running \in Dispatch
    BY DEF TypeOK, Maybe
  <2> QED BY <1>1, <2>1, <2>2, <2>3, <2>4 DEF NotOver
<1> QED BY <1>4, <1>5, <1>6, <1>7, <1>8

\* What ends gives the slot back, or goes back to the dispatch it was made in.
LEMMA EndSlot ==
  ASSUME BrowserHostAssumption, Always, Slot, NEW d \in Dispatch, pc[d] = "evaluating", End(d, FALSE)
  PROVE  Slot'
<1> USE DEF Slot, Always
<1>1. /\ pc'[d] = "done" /\ \A e \in Dispatch \ {d} : pc'[e] = pc[e]
      /\ own' = own /\ lane' = lane /\ caller' = caller /\ lent' = lent
      /\ running' = IF running = d THEN None ELSE running
      /\ foreground' = foreground /\ background' = background
  BY DEF End, TypeOK
<1>2. Top(d) /\ own[d] = running /\ own[d] \in Dispatch /\ None \notin Dispatch
  BY DEF Top, Active, Holder, Owners, BrowserHostAssumption
<1>3. \A e \in Dispatch : /\ AwaitsChild(e)' => AwaitsChild(e)
                          /\ AwaitsChild(e) => AwaitsChild(e)' \/ e = caller[d]
  BY <1>1 DEF AwaitsChild
<1>4. \A e \in Dispatch : Top(e) /\ e # d => Top(e)'
  BY <1>1, <1>3 DEF Top, Active
<1>5. ASSUME NEW e \in Dispatch, Top(e)'
      PROVE  \/ Top(e) /\ e # d /\ own[e] # running
             \/ running # d /\ pc[e] = "asking" /\ e = caller[d] /\ own[e] = own[d]
  <2>1. e # d /\ pc[e] \in Active
    BY <1>1, <1>5 DEF Top, Active
  <2>2. CASE Top(e)
    BY <1>2, <2>1, <2>2 DEF Holder
  <2>3. CASE ~Top(e)
    <3>1. pc[e] = "asking" /\ e = caller[d]
      BY <1>1, <1>3, <1>5, <2>1, <2>3 DEF Top
    <3>2. lane[d] = "direct" /\ own[e] = own[d]
      BY <1>2, <3>1 DEF Callers
    <3>3. own[d] # d
      BY <3>2 DEF Owners
    <3> QED BY <1>2, <3>1, <3>2, <3>3
  <2> QED BY <2>2, <2>3
<1>6. Owners'
  BY <1>1, <1>2 DEF Owners
<1>7. Callers'
  <2>1. \A e \in Dispatch : caller[e] # None /\ pc[e] # "done" =>
          caller[e] \in Dispatch /\ caller[e] # d
    <3>1. \A e \in Dispatch : caller[e] # None => caller[e] \in Dispatch
      BY DEF TypeOK, Maybe
    <3>2. \A e \in Dispatch : caller[e] # None /\ pc[e] # "done" => pc[caller[e]] # "evaluating"
      BY DEF Callers
    <3> QED BY <3>1, <3>2
  <2>2. \A e \in Dispatch : pc'[e] # "done" => pc[e] # "done" /\ e # d
    BY <1>1
  <2> QED BY <1>1, <2>1, <2>2 DEF Callers
<1>8. Lent'
  BY <1>1 DEF Lent
<1>9. Holder'
  <2> SUFFICES ASSUME NEW e \in Dispatch, Top(e)'
               PROVE  /\ running' = own[e] <=> pc'[e] \in {"evaluating", "asking"}
                      /\ \A f \in Dispatch : Top(f)' /\ own[f] = own[e] => f = e
    BY <1>1 DEF Holder
  <2>1. CASE Top(e) /\ e # d /\ own[e] # running
    <3>1. own[e] # None /\ pc[e] \notin {"evaluating", "asking"}
      BY <1>2, <2>1 DEF Owners, Holder, Top, Active
    <3>2. \A f \in Dispatch : Top(f)' /\ own[f] = own[e] => f = e
      BY <1>2, <1>5, <2>1 DEF Holder
    <3> QED BY <1>1, <2>1, <3>1, <3>2
  <2>2. CASE running # d /\ pc[e] = "asking" /\ e = caller[d] /\ own[e] = own[d]
    <3>1. \A f \in Dispatch : Top(f)' /\ own[f] = own[e] => f = e
      BY <1>2, <1>5, <2>2
    <3> QED BY <1>1, <1>2, <2>2, <3>1
  <2> QED BY <1>5, <2>1, <2>2
<1>10. NotOver'
  <2>1. ASSUME running' # None PROVE pc'[running'] # "done"
    <3>1. running' = running /\ running # d /\ pc[running] # "done" /\ running \in Dispatch
      BY <1>1, <1>2, <2>1 DEF NotOver
    <3> QED BY <1>1, <3>1
  <2>2. ASSUME NEW e \in Dispatch, pc'[e] \in {"outside", "retaking"} PROVE pc'[own[e]] # "done"
    <3>1. e # d /\ pc[e] \in {"outside", "retaking"} /\ Top(e) /\ own[e] \in Dispatch
      BY <1>1, <2>2 DEF Top, Active, Owners
    <3>2. own[e] # d
      <4>1. own[e] # own[d]
        BY <1>2, <3>1 DEF Holder
      <4> QED BY <3>1, <4>1 DEF Owners
    <3>3. pc[own[e]] # "done"
      BY <3>1 DEF NotOver
    <3> QED BY <1>1, <3>1, <3>2, <3>3
  <2> QED BY <1>1, <2>1, <2>2 DEF NotOver
<1> QED BY <1>6, <1>7, <1>8, <1>9, <1>10
-----------------------------------------------------------------------------
(***************************************************************************)
(* The theorems.                                                           *)
(***************************************************************************)
\* What holds of the lanes, the tick flags and the types, whatever runs inside
\* a turn.
THEOREM AlwaysInvariant == Spec => []Always
<1>1. Init => Always
  <2> SUFFICES ASSUME Init PROVE Always
    OBVIOUS
  <2>1. TypeOK
    <3>1. rounds \in [Dispatch -> 0 .. MaxRounds]
      BY BrowserHostAssumption DEF Init, BrowserHostAssumption
    <3> QED BY <3>1 DEF Init, TypeOK, Maybe, PC
  <2>2. Fresh /\ LentOutside /\ Firings
    BY DEF Init, Fresh, LentOutside, Firings
  <2>3. PersonsInFront
    BY DEF Init, PersonsInFront, In
  <2>4. Lanes
    BY DEF Init, Lanes, In, Once
  <2> QED BY <2>1, <2>2, <2>3, <2>4 DEF Always
<1>2. Always /\ [Next]_vars => Always'
  BY BrowserHostAssumption, TypeStep, FreshStep, LanesStep, PersonsStep, FiringsStep DEF Always
<1> QED BY <1>1, <1>2, PTL DEF Spec

\* Every variable of the host keeps its type; what queues is a dispatch.
THEOREM TypeCorrect == Spec => []TypeOK
<1>1. Always => TypeOK
  BY DEF Always
<1> QED BY <1>1, AlwaysInvariant, PTL

\* At most one firing of a tick is queued or running, however slow the host is.
THEOREM OneFiringAtATime == Spec => []TicksDoNotPileUp
<1>1. Always => TicksDoNotPileUp
  <2> SUFFICES ASSUME Always, NEW t \in Tick
               PROVE  Cardinality({d \in Dispatch : tick[d] = t /\ pc[d] # "done"}) <= 1
    BY DEF TicksDoNotPileUp
  <2> DEFINE F == {d \in Dispatch : tick[d] = t /\ pc[d] # "done"}
  <2>1. CASE F = {}
    <3>1. Cardinality(F) = 0
      BY <2>1, FS_EmptySet
    <3> QED BY <3>1
  <2>2. CASE F # {}
    <3>1. PICK d \in F : TRUE
      BY <2>2
    <3>2. t # None
      BY BrowserHostAssumption DEF BrowserHostAssumption
    <3>3. F = {d}
      BY <3>1, <3>2 DEF Always, Firings
    <3>4. Cardinality(F) = 1
      BY <3>3, FS_Singleton
    <3> QED BY <3>4
  <2> QED BY <2>1, <2>2
<1> QED BY <1>1, AlwaysInvariant, PTL

\* The slot goes to a turn of the background lane only when no view waits, and
\* a turn is in the lane of its origin although it may have been there before.
THEOREM ViewsGoFirst == Spec => PersonFirst
<1>1. ASSUME Always, [Next]_vars
      PROVE  [running' # None /\ running' # running /\ lane[running'] = "background" =>
                foreground = <<>>]_vars
  <2> SUFFICES ASSUME running' # None, running' # running, lane[running'] = "background"
               PROVE  foreground = <<>>
    OBVIOUS
  <2>1. CASE Grant
    <3>1. PICK x \in Dispatch : /\ running' = TurnOf(x)
                                /\ In(x, foreground) \/ foreground = <<>>
      BY <1>1, <2>1, GrantOut DEF Always
    <3>2. ~In(x, foreground)
      <4>1. lane' = lane
        BY <2>1 DEF Grant
      <4> QED BY <1>1, <3>1, <4>1 DEF Always, PersonsInFront
    <3> QED BY <3>1, <3>2
  <2>2. ASSUME NEW d \in Dispatch,
               \/ \E l \in {"foreground", "background"}, p \in Maybe(Dispatch),
                    t \in Maybe(Tick) : Arrives(d, l, p, t)
               \/ \E t \in Dispatch, p \in Maybe(Dispatch) : RunsInside(d, t, p)
               \/ \E kind \in Kinds : Ask(d, kind)
               \/ Settle(d) \/ Answer(d) \/ End(d, FALSE)
        PROVE  running' = running \/ running' = None
    BY <2>2 DEF Arrives, Enqueue, RunsInside, RunInside, Ask, Settle, Answer, End, lanes
  <2>3. CASE UNCHANGED vars
    BY <2>3 DEF vars, lanes
  <2>4. \/ Grant \/ UNCHANGED vars \/ running' = running \/ running' = None
    BY <1>1, <2>2, Steps, BrowserHostAssumption DEF Always
  <2> QED BY <2>1, <2>3, <2>4
<1> QED BY <1>1, AlwaysInvariant, PTL DEF Spec, PersonFirst

\* A request inside a turn that does not await it stays one: nothing is
\* contained again.
LEMMA ContainedBefore ==
  ASSUME BrowserHostAssumption, Always, [Next]_vars, Contained'
  PROVE  Contained
<1> USE DEF Always
<1> SUFFICES ASSUME NEW e \in Dispatch, lane[e] = "direct" PROVE caller[e] # None
  BY DEF Contained
<1>1. pc[e] # "idle"
  BY DEF TypeOK
<1>2. lane'[e] = lane[e] /\ caller'[e] = caller[e]
  <2>1. CASE Grant
    BY <2>1 DEF Grant
  <2>2. ASSUME NEW d \in Dispatch, NEW l \in {"foreground", "background"},
               NEW p \in Maybe(Dispatch), NEW t \in Maybe(Tick), Arrives(d, l, p, t)
        PROVE  lane'[e] = lane[e] /\ caller'[e] = caller[e]
    BY <1>1, <2>2 DEF Arrives, Enqueue, TypeOK
  <2>3. ASSUME NEW d \in Dispatch, NEW t \in Dispatch, NEW p \in Maybe(Dispatch), RunsInside(d, t, p)
        PROVE  lane'[e] = lane[e] /\ caller'[e] = caller[e]
    BY <1>1, <2>3 DEF RunsInside, RunInside, TypeOK
  <2>4. ASSUME NEW d \in Dispatch,
               (\E kind \in Kinds : Ask(d, kind)) \/ Settle(d) \/ Answer(d) \/ End(d, FALSE)
        PROVE  lane'[e] = lane[e] /\ caller'[e] = caller[e]
    BY <2>4 DEF Ask, Settle, Answer, End
  <2>5. CASE UNCHANGED vars
    BY <2>5 DEF vars, dispatches
  <2> QED BY <2>1, <2>2, <2>3, <2>4, <2>5, Steps
<1> QED BY <1>2 DEF Contained

\* Who holds the slot, who waits for it and who awaits whom, as long as every
\* request that runs inside a turn is one the turn awaits.
THEOREM SlotInvariant == Spec => [](Contained => Slot)
<1>1. Init => Slot
  <2> SUFFICES ASSUME Init PROVE Slot
    OBVIOUS
  <2>1. \A d \in Dispatch : own[d] = None /\ caller[d] = None /\ pc[d] = "idle" /\ running = None
                            /\ None \notin Dispatch
    BY BrowserHostAssumption DEF Init, BrowserHostAssumption
  <2>2. Owners /\ Callers /\ Lent
    BY <2>1 DEF Owners, Callers, Lent
  <2>3. Holder
    BY <2>1 DEF Holder, Top, Active
  <2>4. NotOver
    BY DEF Init, NotOver
  <2> QED BY <2>2, <2>3, <2>4 DEF Slot
<1>2. Always /\ (Contained => Slot) /\ [Next]_vars => (Contained => Slot)'
  <2> SUFFICES ASSUME Always, Contained => Slot, [Next]_vars, Contained' PROVE Slot'
    OBVIOUS
  <2> USE BrowserHostAssumption
  <2>1. Slot
    BY ContainedBefore
  <2>2. CASE UNCHANGED vars
    BY <2>1, <2>2 DEF vars, dispatches, lanes, Slot, Owners, Callers, Lent, Holder, NotOver, Top,
       Active, AwaitsChild
  <2>3. ASSUME NEW d \in Dispatch, NEW t \in Dispatch, NEW p \in Maybe(Dispatch), RunsInside(d, t, p)
        PROVE  Slot'
    <3>1. lane'[d] = "direct" /\ caller'[d] = p
      BY <2>3 DEF RunsInside, RunInside, Always, TypeOK
    <3>2. p \in Dispatch
      BY <3>1 DEF Contained, Maybe
    <3> QED BY <2>1, <2>3, <3>2, RunsInsideSlot
  <2> QED
    BY <2>1, <2>2, <2>3, Steps, GrantSlot, ArrivesSlot, AskSlot, SettleSlot, AnswerSlot,
       EndSlot DEF Always
<1> QED BY <1>1, <1>2, AlwaysInvariant, PTL DEF Spec

\* Two requests are never on the kernel together, however many there are and
\* however deep providers dispatch back, until a request runs inside a turn that
\* does not await it.
THEOREM OneOnTheKernel == Spec => []OneWhileContained
<1>1. (Contained => Slot) => OneWhileContained
  <2> SUFFICES ASSUME Slot, NEW d \in Dispatch, NEW e \in Dispatch, InFlight(d), InFlight(e)
               PROVE  d = e
    BY DEF OneWhileContained, OneRequestAtATime
  <2>1. Top(d) /\ Top(e) /\ own[d] = running /\ own[e] = running
    BY DEF InFlight, Top, Active, Slot, Holder
  <2> QED BY <2>1 DEF Slot, Holder
<1> QED BY <1>1, SlotInvariant, PTL

\* A dispatch of a provider that queues finds the slot given back by the turn
\* its provider works for, until a request runs inside a turn that does not
\* await it.
THEOREM ProvidersAreNotWaitedFor == Spec => []NoDispatchWaitsOnItsCaller
<1>1. (Contained => Slot) => NoDispatchWaitsOnItsCaller
  <2> SUFFICES ASSUME Slot, NEW d \in Dispatch, NEW p \in Dispatch, caller[d] = p, pc[d] = "queued"
               PROVE  running # own[p]
    BY DEF NoDispatchWaitsOnItsCaller
  <2>1. own[d] = d /\ lane[d] # "direct"
    BY DEF Slot, Owners
  <2>2. pc[p] = "outside"
    BY <2>1, BrowserHostAssumption DEF Slot, Callers, BrowserHostAssumption
  <2> QED BY <2>2 DEF Slot, Holder, Top, Active
<1> QED BY <1>1, SlotInvariant, PTL
=============================================================================
