--------------------------- MODULE MCServerProofs ---------------------------
(***************************************************************************)
(* The safety properties of MCServer, proved for any sizes of its parts.   *)
(*                                                                         *)
(* The parts share no state, so each has an invariant of its own, lemmas   *)
(* for the steps it must survive, and one that says it rests while         *)
(* another part runs; the composition holds all of them at once.  Most of  *)
(* the invariants say what is still on its way: the copy of a listener     *)
(* set an emit has yet to work through, the orbitals a forward has left,   *)
(* the report of a page that is not yet read, the frames of a turn that is *)
(* not yet over, the row an ask saw before its await.                      *)
(***************************************************************************)
EXTENDS MCServer, WellFoundedInduction, SequenceTheorems, TLAPS

-----------------------------------------------------------------------------
(* Sequences and naturals *)

\* What a sequence is with one more at its end.
LEMMA AppendFacts ==
  ASSUME NEW S, NEW q \in Seq(S), NEW e \in S
  PROVE  /\ Append(q, e) \in Seq(S) /\ Append(q, e) # <<>>
         /\ Len(Append(q, e)) = Len(q) + 1 /\ Len(q) \in Nat
         /\ Append(q, e)[Len(q) + 1] = e
         /\ \A i \in 1..Len(q) : Append(q, e)[i] = q[i]
OBVIOUS

\* What a sequence that is not empty begins with, and what is left of it.
LEMMA TailFacts ==
  ASSUME NEW S, NEW q \in Seq(S), q # <<>>
  PROVE  /\ Head(q) \in S /\ Head(q) = q[1] /\ Tail(q) \in Seq(S)
         /\ Len(q) \in Nat \ {0} /\ Len(Tail(q)) = Len(q) - 1
         /\ \A i \in 1..(Len(q) - 1) : Tail(q)[i] = q[i + 1]
OBVIOUS

\* What a stretch of a sequence holds.
LEMMA SubSeqFacts ==
  ASSUME NEW S, NEW q \in Seq(S), NEW m \in Nat \ {0}, NEW n \in Nat, m <= n + 1, n <= Len(q)
  PROVE  /\ SubSeq(q, m, n) \in Seq(S) /\ Len(SubSeq(q, m, n)) = n - m + 1
         /\ \A i \in 1..(n - m + 1) : SubSeq(q, m, n)[i] = q[m + i - 1]
BY SubSeqProperties, SMT

\* A set of naturals that is not empty has a least member.
LEMMA MinNat ==
  ASSUME NEW T \in SUBSET Nat, T # {}
  PROVE  \E x \in T : \A y \in T : x <= y
<1>1. IsWellFoundedOn(OpToRel(<, Nat), Nat)
  BY Zenon, NatLessThanWellFounded
<1>2. PICK x \in T : \A y \in T : ~ (<<y, x>> \in OpToRel(<, Nat))
  BY <1>1, WFMin, Zenon
<1>3. \A y \in T : ~(y < x)
  BY <1>2 DEF OpToRel
<1> QED BY <1>3

-----------------------------------------------------------------------------
(* The event bus (events/EventBus.ts) *)

\* The emits in progress.
Frame == [phase : {"first", "second", "any", "over"}, running : BOOLEAN, rest : Seq(Listeners),
          later : 0..MaxSets, owed : SUBSET Listeners, got : SUBSET Listeners, twice : BOOLEAN]

\* Where a listener that is owed a call still waits for it: in the copy the
\* emit works through, in the set it copies next, or under the wildcard.
Waits(f, l) ==
  \/ l \in Events!ToSet(f.rest)
  \/ f.phase = "first" /\ f.later # 0 /\ l \in Events!ToSet(busMembers[f.later])
  \/ f.phase \in {"first", "second"} /\ \E h \in busLive : h.key = "*" /\ h.l = l

FrameOk(f) ==
  /\ f.twice = FALSE
  /\ f.phase = "over" => f.rest = <<>>
  /\ \A l \in f.owed : l \in f.got \/ Waits(f, l)

\* Every subscription nobody ended is in the set its key holds.
SetsInv ==
  /\ busHandles = busLive /\ busLive \subseteq Events!Handle
  /\ busMade \in 0..MaxSets
  /\ busTable \in [Events!Key -> 0..MaxSets] /\ \A k \in Events!Key : busTable[k] <= busMade
  /\ \A j, k \in Events!Key : busTable[j] # 0 /\ busTable[j] = busTable[k] => j = k
  /\ busMembers \in [1..MaxSets -> Seq(Listeners)]
  /\ \A h \in busLive : busTable[h.key] = h.set /\ h.l \in Events!ToSet(busMembers[h.set])

FramesInv ==
  /\ busStack \in Seq(Frame)
  /\ \A i \in 1..Len(busStack) : FrameOk(busStack[i])

BusInv == SetsInv /\ FramesInv

\* A bus nobody has used yet has nothing out of place.
LEMMA BusStart == ASSUME Events!BusInit PROVE BusInv
<1>1. busTable \in [Events!Key -> 0..MaxSets] /\ busMembers \in [1..MaxSets -> Seq(Listeners)]
  BY ServerAssumption DEF Events!BusInit
<1> QED BY <1>1, ServerAssumption DEF Events!BusInit, BusInv, SetsInv, FramesInv

\* What is left of a set without one of its listeners.
LEMMA WithoutFacts ==
  ASSUME NEW s \in Seq(Listeners), NEW l
  PROVE  /\ Events!Without(s, l) \in Seq(Listeners)
         /\ \A m \in Events!ToSet(s) : m # l => m \in Events!ToSet(Events!Without(s, l))
<1>1. CASE l \notin Events!ToSet(s)
  BY <1>1 DEF Events!Without
<1>2. CASE l \in Events!ToSet(s)
  <2> DEFINE n == CHOOSE i \in DOMAIN s : s[i] = l
             q == Events!RemoveAt(s, n)
  <2>1. n \in DOMAIN s /\ s[n] = l
    BY <1>2 DEF Events!ToSet
  <2>2. Len(s) \in Nat /\ DOMAIN s = 1..Len(s) /\ n \in 1..Len(s)
    BY <2>1
  <2>3. q = Events!Without(s, l)
    BY <1>2 DEF Events!Without
  <2>4. q = SubSeq(s, 1, n - 1) \o SubSeq(s, n + 1, Len(s))
    BY DEF Events!RemoveAt
  <2> HIDE DEF n, q
  <2> DEFINE a == SubSeq(s, 1, n - 1)
             b == SubSeq(s, n + 1, Len(s))
  <2>5. a \in Seq(Listeners) /\ Len(a) = n - 1 /\ \A i \in 1..(n - 1) : a[i] = s[i]
    BY <2>2
  <2>6. b \in Seq(Listeners) /\ Len(b) = Len(s) - n /\ \A i \in 1..(Len(s) - n) : b[i] = s[n + i]
    <3>1. n + 1 \in Nat \ {0} /\ Len(s) \in Nat /\ n + 1 <= Len(s) + 1 /\ Len(s) <= Len(s) /\ Len(s) - (n + 1) + 1 = Len(s) - n
      BY <2>2
    <3>2. \A i \in 1..(Len(s) - n) : (n + 1) + i - 1 = n + i
      BY <2>2
    <3> QED BY <3>1, <3>2, SubSeqFacts
  <2> HIDE DEF a, b
  <2>7. /\ a \o b \in Seq(Listeners) /\ Len(a \o b) = Len(a) + Len(b)
        /\ \A i \in 1..Len(a) : (a \o b)[i] = a[i]
        /\ \A i \in 1..Len(b) : (a \o b)[Len(a) + i] = b[i]
    <3> DEFINE c == a \o b
    <3>1. /\ c \in Seq(Listeners) /\ Len(c) = Len(a) + Len(b) /\ Len(a) \in Nat /\ Len(b) \in Nat
          /\ \A i \in 1..(Len(a) + Len(b)) : c[i] = IF i <= Len(a) THEN a[i] ELSE b[i - Len(a)]
      <4>1. a \in Seq(Listeners) /\ b \in Seq(Listeners)
        BY <2>5, <2>6
      <4>2. Len(a) \in Nat /\ Len(b) \in Nat
        BY <4>1
      <4> QED BY <4>1, <4>2, ConcatProperties, Zenon
    <3> HIDE DEF c
    <3>2. ASSUME NEW i \in 1..Len(a) PROVE c[i] = a[i]
      BY <3>1, SMTT(30)
    <3>3. ASSUME NEW i \in 1..Len(b) PROVE c[Len(a) + i] = b[i]
      <4>1. Len(a) + i \in 1..(Len(a) + Len(b)) /\ ~(Len(a) + i <= Len(a)) /\ (Len(a) + i) - Len(a) = i
        BY <3>1
      <4> QED BY <3>1, <4>1
    <3> QED BY <3>1, <3>2, <3>3 DEF c
  <2>8. q = a \o b
    BY <2>4 DEF a, b
  <2>9. DOMAIN q = 1..Len(q) /\ Len(q) = Len(s) - 1
    <3>1. q \in Seq(Listeners) /\ Len(q) = (n - 1) + (Len(s) - n)
      BY <2>5, <2>6, <2>7, <2>8
    <3>2. (n - 1) + (Len(s) - n) = Len(s) - 1
      BY <2>2
    <3> QED BY <3>1, <3>2
  <2>10. ASSUME NEW m \in Events!ToSet(s), m # l PROVE m \in Events!ToSet(q)
    <3>1. PICK i \in 1..Len(s) : s[i] = m
      BY <2>2 DEF Events!ToSet
    <3>2. CASE i < n
      <4>1. i \in 1..(n - 1) /\ i \in 1..Len(q)
        BY <2>2, <2>9, <3>2
      <4>2. q[i] = m
        <5>1. i \in 1..Len(a) /\ a[i] = s[i]
          BY <2>5, <4>1
        <5> QED BY <2>7, <2>8, <3>1, <5>1
      <4> QED BY <2>9, <4>1, <4>2 DEF Events!ToSet
    <3>3. CASE n < i
      <4>1. i - n \in 1..(Len(s) - n) /\ n + (i - n) = i /\ (n - 1) + (i - n) = i - 1 /\ i - 1 \in 1..Len(q)
        BY <2>2, <2>9, <3>3
      <4>2. q[i - 1] = m
        <5>1. PICK j : j = i - n
          OBVIOUS
        <5>2. j \in 1..Len(b) /\ b[j] = s[n + j] /\ n + j = i /\ Len(a) + j = i - 1
          BY <2>5, <2>6, <4>1, <5>1
        <5> QED BY <2>7, <2>8, <3>1, <5>2
      <4> QED BY <2>9, <4>1, <4>2 DEF Events!ToSet
    <3>4. i # n
      BY <2>1, <2>10, <3>1
    <3> QED BY <2>2, <3>2, <3>3, <3>4
  <2> QED BY <2>3, <2>7, <2>8, <2>10
<1> QED BY <1>1, <1>2

\* A frame is still good when the listeners that left are forgiven.
LEMMA FrameKeeps ==
  ASSUME NEW f \in Frame, FrameOk(f), NEW gone,
         \A s \in 1..MaxSets : \A l \in Events!ToSet(busMembers[s]) \ gone : l \in Events!ToSet(busMembers'[s]),
         \A h \in busLive : h.l \notin gone => h \in busLive'
  PROVE  /\ [f EXCEPT !.owed = @ \ gone] \in Frame
         /\ FrameOk([f EXCEPT !.owed = @ \ gone])'
<1> DEFINE g == [f EXCEPT !.owed = @ \ gone]
<1>1. /\ g \in Frame /\ g.twice = f.twice /\ g.phase = f.phase /\ g.rest = f.rest /\ g.got = f.got
      /\ g.later = f.later /\ g.owed = f.owed \ gone
  BY DEF Frame
<1> HIDE DEF g
<1>2. ASSUME NEW l \in g.owed PROVE l \in g.got \/ Waits(g, l)'
  <2>1. l \in f.owed /\ l \notin gone
    BY <1>1
  <2>2. l \in f.got \/ Waits(f, l)
    BY <2>1 DEF FrameOk
  <2>3. f.later # 0 => f.later \in 1..MaxSets
    BY ServerAssumption DEF Frame
  <2> QED BY <1>1, <2>1, <2>2, <2>3 DEF Waits
<1>3. FrameOk(g)'
  BY <1>1, <1>2 DEF FrameOk
<1> QED BY <1>1, <1>3 DEF g

\* So are all of them.
LEMMA FramesKeep ==
  ASSUME FramesInv, NEW gone,
         \A s \in 1..MaxSets : \A l \in Events!ToSet(busMembers[s]) \ gone : l \in Events!ToSet(busMembers'[s]),
         \A h \in busLive : h.l \notin gone => h \in busLive',
         busStack' = Events!Forgiven(busStack, gone)
  PROVE  FramesInv'
<1>1. Len(busStack) \in Nat /\ \A i \in 1..Len(busStack) : busStack[i] \in Frame /\ FrameOk(busStack[i])
  BY DEF FramesInv
<1>2. busStack' = [i \in 1..Len(busStack) |-> [busStack[i] EXCEPT !.owed = @ \ gone]]
  BY DEF Events!Forgiven
<1> DEFINE next(f) == [f EXCEPT !.owed = @ \ gone]
<1>3. \A f \in Frame : FrameOk(f) => next(f) \in Frame /\ FrameOk(next(f))'
  BY FrameKeeps
<1>4. \A i \in 1..Len(busStack) : busStack'[i] = next(busStack[i])
  BY <1>2
<1> HIDE DEF next
<1>5. ASSUME NEW i \in 1..Len(busStack) PROVE busStack'[i] \in Frame /\ FrameOk(busStack[i])'
  <2>1. PICK f : f = busStack[i]
    OBVIOUS
  <2>2. PICK g : g = next(f)
    OBVIOUS
  <2>3. g \in Frame /\ FrameOk(g)'
    BY <1>1, <1>3, <2>1, <2>2
  <2>4. busStack'[i] = g
    BY <1>4, <2>1, <2>2
  <2> QED BY <2>3, <2>4
<1>6. busStack' \in Seq(Frame) /\ Len(busStack') = Len(busStack)
  BY <1>1, <1>2, <1>5
<1> QED BY <1>5, <1>6 DEF FramesInv

\* And when nobody left and the stack is as it was.
LEMMA FramesStay ==
  ASSUME FramesInv,
         \A s \in 1..MaxSets : \A l \in Events!ToSet(busMembers[s]) : l \in Events!ToSet(busMembers'[s]),
         busLive \subseteq busLive', UNCHANGED busStack
  PROVE  FramesInv'
<1>1. Len(busStack) \in Nat /\ \A i \in 1..Len(busStack) : busStack[i] \in Frame /\ FrameOk(busStack[i])
  BY DEF FramesInv
<1>2. ASSUME NEW f \in Frame, FrameOk(f) PROVE FrameOk(f)'
  <2>1. f.later # 0 => f.later \in 1..MaxSets
    BY ServerAssumption DEF Frame
  <2> QED BY <1>2, <2>1 DEF FrameOk, Waits
<1> QED BY <1>1, <1>2 DEF FramesInv

\* A new frame on the stack, or another one on top of it.
LEMMA TopMoves ==
  ASSUME FramesInv, NEW f \in Frame, FrameOk(f), UNCHANGED <<busMembers, busLive>>,
         \/ busStack' = Append(busStack, f)
         \/ busStack # <<>> /\ busStack' = [busStack EXCEPT ![Len(busStack)] = f]
  PROVE  FramesInv'
<1>1. \A g : FrameOk(g)' <=> FrameOk(g)
  BY DEF FrameOk, Waits
<1>2. busStack \in Seq(Frame) /\ Len(busStack) \in Nat /\ \A i \in 1..Len(busStack) : FrameOk(busStack[i])
  BY DEF FramesInv
<1>3. CASE busStack' = Append(busStack, f)
  BY <1>1, <1>2, <1>3, AppendFacts DEF FramesInv
<1>4. CASE busStack # <<>> /\ busStack' = [busStack EXCEPT ![Len(busStack)] = f]
  <2>1. /\ busStack' \in Seq(Frame) /\ Len(busStack') = Len(busStack)
        /\ \A i \in 1..Len(busStack) : busStack'[i] = IF i = Len(busStack) THEN f ELSE busStack[i]
    BY <1>2, <1>4
  <2> QED BY <1>1, <1>2, <2>1 DEF FramesInv
<1> QED BY <1>3, <1>4

\* on(): the set that is added to is the one its key holds afterwards.
LEMMA OnKeeps ==
  ASSUME BusInv, NEW k \in Events!Key, NEW l \in Listeners, Events!On(k, l)
  PROVE  BusInv'
<1> DEFINE s == IF busTable[k] = 0 THEN busMade + 1 ELSE busTable[k]
           h == [key |-> k, set |-> s, l |-> l]
<1>1. s \in 1..MaxSets /\ (busTable[k] = 0 => s = busMade + 1) /\ (busTable[k] # 0 => s = busTable[k])
  BY ServerAssumption DEF BusInv, SetsInv, Events!On
<1>2. /\ busTable' = [busTable EXCEPT ![k] = s] /\ busMade' = IF busTable[k] = 0 THEN s ELSE busMade
      /\ busMembers' = [busMembers EXCEPT ![s] = IF l \in Events!ToSet(@) THEN @ ELSE Append(@, l)]
      /\ busHandles' = busHandles \cup {h} /\ busLive' = busLive \cup {h} /\ UNCHANGED busStack
  BY DEF Events!On
<1> HIDE DEF s
<1>3. h \in Events!Handle /\ h.key = k /\ h.set = s /\ h.l = l
  BY <1>1 DEF Events!Handle
<1> HIDE DEF h
<1>4. /\ busTable' \in [Events!Key -> 0..MaxSets] /\ busTable'[k] = s
      /\ \A j \in Events!Key \ {k} : busTable'[j] = busTable[j]
  BY <1>1, <1>2, ServerAssumption DEF BusInv, SetsInv
<1>5. busMade' \in 0..MaxSets /\ busMade <= busMade' /\ s <= busMade'
  <2>1. busMade \in 0..MaxSets /\ busTable[k] <= busMade
    BY DEF BusInv, SetsInv
  <2>2. CASE busTable[k] = 0
    BY <1>1, <1>2, <2>1, <2>2, ServerAssumption
  <2>3. CASE busTable[k] # 0
    BY <1>1, <1>2, <2>1, <2>3, ServerAssumption
  <2> QED BY <2>2, <2>3
<1>6. \A j \in Events!Key : busTable'[j] <= busMade'
  <2>1. busMade \in Nat /\ busMade' \in Nat /\ \A j \in Events!Key : busTable[j] \in Nat /\ busTable[j] <= busMade
    BY <1>5, ServerAssumption DEF BusInv, SetsInv
  <2>2. ASSUME NEW j \in Events!Key \ {k} PROVE busTable'[j] <= busMade'
    BY <1>4, <1>5, <2>1
  <2> QED BY <1>4, <1>5, <2>2
<1>7. \A j \in Events!Key \ {k} : busTable[j] # s
  BY <1>1, ServerAssumption DEF BusInv, SetsInv
<1>8. \A i, j \in Events!Key : busTable'[i] # 0 /\ busTable'[i] = busTable'[j] => i = j
  BY <1>4, <1>7 DEF BusInv, SetsInv
<1> DEFINE was == busMembers[s]
           is == IF l \in Events!ToSet(was) THEN was ELSE Append(was, l)
<1>9. was \in Seq(Listeners)
  BY <1>1 DEF BusInv, SetsInv
<1>10. is \in Seq(Listeners) /\ l \in Events!ToSet(is) /\ \A m \in Events!ToSet(was) : m \in Events!ToSet(is)
  <2>1. CASE l \in Events!ToSet(was)
    BY <1>9, <2>1
  <2>2. CASE l \notin Events!ToSet(was)
    <3> DEFINE q == Append(was, l)
    <3>1. /\ q \in Seq(Listeners) /\ Len(q) = Len(was) + 1 /\ Len(was) \in Nat
          /\ q[Len(was) + 1] = l /\ \A i \in 1..Len(was) : q[i] = was[i]
      <4> HIDE DEF was
      <4> QED BY <1>9, AppendFacts
    <3>2. DOMAIN was = 1..Len(was) /\ DOMAIN q = 1..(Len(was) + 1)
      BY <1>9, <3>1
    <3>3. is = q
      BY <2>2
    <3> HIDE DEF q, is, was
    <3>4. Len(was) + 1 \in DOMAIN q /\ \A i \in DOMAIN was : i \in DOMAIN q /\ q[i] = was[i]
      BY <3>1, <3>2
    <3> QED BY <3>1, <3>3, <3>4 DEF Events!ToSet
  <2> QED BY <2>1, <2>2
<1>11. busMembers' = [busMembers EXCEPT ![s] = is]
  BY <1>2
<1> HIDE DEF was, is
<1>12. /\ busMembers' \in [1..MaxSets -> Seq(Listeners)] /\ busMembers'[s] = is
       /\ \A r \in 1..MaxSets \ {s} : busMembers'[r] = busMembers[r]
  BY <1>1, <1>10, <1>11 DEF BusInv, SetsInv
<1>13. \A r \in 1..MaxSets : \A m \in Events!ToSet(busMembers[r]) : m \in Events!ToSet(busMembers'[r])
  BY <1>10, <1>12 DEF was
<1>14. ASSUME NEW g \in busLive' PROVE busTable'[g.key] = g.set /\ g.l \in Events!ToSet(busMembers'[g.set])
  <2>1. CASE g = h
    BY <1>3, <1>4, <1>10, <1>12, <2>1
  <2>2. CASE g \in busLive
    <3>1. /\ g.key \in Events!Key /\ g.set \in 1..MaxSets /\ busTable[g.key] = g.set
          /\ g.l \in Events!ToSet(busMembers[g.set])
      BY <2>2 DEF BusInv, SetsInv, Events!Handle
    <3>2. busTable'[g.key] = g.set
      BY <1>1, <1>4, <3>1, ServerAssumption
    <3> QED BY <1>13, <3>1, <3>2
  <2> QED BY <1>2, <1>14, <2>1, <2>2
<1>15. SetsInv'
  BY <1>2, <1>3, <1>4, <1>5, <1>6, <1>8, <1>12, <1>14 DEF BusInv, SetsInv
<1>16. FramesInv'
  BY <1>2, <1>13, FramesStay DEF BusInv
<1> QED BY <1>15, <1>16 DEF BusInv

\* The function on() returned: while a handle is used once and not after
\* clear(), its set is the one its key holds, so nobody else is dropped.
LEMMA UnsubscribeKeeps ==
  ASSUME BusInv, NEW h \in busHandles, Events!Unsubscribe(h)
  PROVE  BusInv'
<1> DEFINE s == busMembers[h.set]
           q == Events!Without(s, h.l)
<1>1. /\ h \in busLive /\ h.key \in Events!Key /\ h.set \in 1..MaxSets /\ h.l \in Listeners
      /\ h = [key |-> h.key, set |-> h.set, l |-> h.l]
      /\ busTable[h.key] = h.set /\ s \in Seq(Listeners)
  BY DEF BusInv, SetsInv, Events!Handle
<1>2. /\ busMembers' = [busMembers EXCEPT ![h.set] = q]
      /\ busTable' = [busTable EXCEPT ![h.key] = IF q = <<>> THEN 0 ELSE @]
      /\ busHandles' = busHandles \ {h} /\ busLive' = busLive \ {h}
      /\ busStack' = Events!Forgiven(busStack, {h.l}) /\ UNCHANGED busMade
  BY DEF Events!Unsubscribe
<1>3. q \in Seq(Listeners) /\ \A m \in Events!ToSet(s) : m # h.l => m \in Events!ToSet(q)
  BY <1>1, WithoutFacts
<1>4. q = <<>> => \A m \in Events!ToSet(s) : m = h.l
  BY <1>3, SMTT(30) DEF Events!ToSet
<1>5. /\ busMembers' \in [1..MaxSets -> Seq(Listeners)] /\ busMembers'[h.set] = q
      /\ \A r \in 1..MaxSets \ {h.set} : busMembers'[r] = busMembers[r]
  <2> HIDE DEF q
  <2> QED BY <1>1, <1>2, <1>3 DEF BusInv, SetsInv
<1>6. /\ busTable' \in [Events!Key -> 0..MaxSets]
      /\ busTable'[h.key] = IF q = <<>> THEN 0 ELSE h.set
      /\ \A j \in Events!Key \ {h.key} : busTable'[j] = busTable[j]
  <2> HIDE DEF q
  <2> QED BY <1>1, <1>2, ServerAssumption DEF BusInv, SetsInv
<1> HIDE DEF q
<1>7. \A r \in 1..MaxSets : \A m \in Events!ToSet(busMembers[r]) \ {h.l} : m \in Events!ToSet(busMembers'[r])
  BY <1>3, <1>5
<1>8. ASSUME NEW g \in busLive' PROVE busTable'[g.key] = g.set /\ g.l \in Events!ToSet(busMembers'[g.set])
  <2>1. /\ g \in busLive /\ g # h /\ g.key \in Events!Key /\ g.set \in 1..MaxSets
        /\ g = [key |-> g.key, set |-> g.set, l |-> g.l]
        /\ busTable[g.key] = g.set /\ g.l \in Events!ToSet(busMembers[g.set])
    BY <1>2 DEF BusInv, SetsInv, Events!Handle
  <2>2. g.set = h.set => g.key = h.key
    BY <1>1, <2>1 DEF BusInv, SetsInv
  <2>3. g.key = h.key => g.set = h.set /\ g.l # h.l
    BY <1>1, <2>1
  <2>4. CASE g.key = h.key
    <3>1. g.l \in Events!ToSet(q)
      BY <1>3, <2>1, <2>3, <2>4
    <3>2. q # <<>>
      BY <1>4, <2>1, <2>3, <2>4
    <3> QED BY <1>5, <1>6, <2>3, <2>4, <3>1, <3>2
  <2>5. CASE g.key # h.key
    BY <1>5, <1>6, <2>1, <2>2, <2>5
  <2> QED BY <2>4, <2>5
<1>9. \A j \in Events!Key : busTable'[j] = busTable[j] \/ busTable'[j] = 0
  BY <1>1, <1>6
<1>10. \A j \in Events!Key : busTable'[j] <= busMade
  <2>1. 0 <= busMade /\ \A j \in Events!Key : busTable[j] <= busMade
    BY ServerAssumption DEF BusInv, SetsInv
  <2> QED BY <1>9, <2>1
<1>11. \A i, j \in Events!Key : busTable'[i] # 0 /\ busTable'[i] = busTable'[j] => i = j
  BY <1>9 DEF BusInv, SetsInv
<1>12. SetsInv'
  BY <1>2, <1>5, <1>6, <1>8, <1>10, <1>11 DEF BusInv, SetsInv
<1>13. \A g \in busLive : g.l \notin {h.l} => g \in busLive'
  BY <1>2
<1>14. FramesInv'
  BY <1>2, <1>7, <1>13, FramesKeep DEF BusInv
<1> QED BY <1>12, <1>14 DEF BusInv

\* clear(): nobody is owed anything any more.
LEMMA ClearKeeps ==
  ASSUME BusInv, Events!Clear
  PROVE  BusInv'
<1>1. /\ busTable' = [k \in Events!Key |-> 0] /\ busHandles' = {} /\ busLive' = {}
      /\ busStack' = Events!Forgiven(busStack, Listeners) /\ UNCHANGED <<busMembers, busMade>>
  BY DEF Events!Clear
<1>2. SetsInv'
  BY <1>1, ServerAssumption DEF BusInv, SetsInv
<1>3. \A h \in busLive : h.l \notin Listeners => h \in busLive'
  BY DEF BusInv, SetsInv, Events!Handle
<1>4. FramesInv'
  BY <1>1, <1>3, FramesKeep DEF BusInv
<1> QED BY <1>2, <1>4 DEF BusInv

\* emit(): who is subscribed now waits in the copy, in the set copied next, or
\* under the wildcard.
LEMMA EmitKeeps ==
  ASSUME BusInv, NEW keyed \in BOOLEAN, Events!Emit(keyed)
  PROVE  BusInv'
<1>1. UNCHANGED <<busTable, busMembers, busMade, busHandles, busLive>>
  BY DEF Events!Emit
<1>2. SetsInv'
  BY <1>1 DEF BusInv, SetsInv
<1> DEFINE first == IF keyed THEN "id" ELSE "name"
           f == [phase |-> "first", running |-> FALSE,
                 rest |-> Events!Held(first),
                 later |-> IF keyed THEN busTable["name"] ELSE 0,
                 owed |-> {h.l : h \in {x \in busLive : keyed \/ x.key # "id"}},
                 got |-> {}, twice |-> FALSE]
<1>3. CASE busStack' = busStack
  <2>1. FramesInv'
    BY <1>1, <1>3, FramesStay DEF BusInv
  <2> QED BY <1>2, <2>1 DEF BusInv
<1>4. CASE busStack' = Append(busStack, f)
  <2>1. \A k \in Events!Key : Events!Held(k) \in Seq(Listeners)
    BY ServerAssumption DEF BusInv, SetsInv, Events!Held
  <2>2. \A h \in busLive : /\ h.key \in Events!Key /\ h.l \in Listeners /\ h.set # 0 /\ h.set = busTable[h.key]
                           /\ h.l \in Events!ToSet(busMembers[h.set])
    BY ServerAssumption DEF BusInv, SetsInv, Events!Handle
  <2>3. first \in Events!Key /\ "name" \in Events!Key
    BY DEF Events!Key, Events!IdKey, Events!NameKey
  <2>4. f.later \in 0..MaxSets
    BY <2>3, ServerAssumption DEF BusInv, SetsInv
  <2>5. f.owed \in SUBSET Listeners
    BY <2>2
  <2>6. f \in Frame
    BY <2>1, <2>3, <2>4, <2>5 DEF Frame
  <2>7. ASSUME NEW l \in f.owed PROVE Waits(f, l)
    <3>1. PICK h \in busLive : h.l = l /\ (keyed \/ h.key # "id")
      OBVIOUS
    <3>2. h.key \in {"id", "name", "*"}
      BY <2>2 DEF Events!Key, Events!IdKey, Events!NameKey, Events!AnyKey
    <3>3. CASE h.key = "*"
      BY <3>1, <3>3 DEF Waits
    <3>4. CASE h.key = first
      BY <2>2, <3>1, <3>4 DEF Waits, Events!Held
    <3>5. CASE h.key = "name" /\ keyed
      BY <2>2, <3>1, <3>5 DEF Waits
    <3> QED BY <3>1, <3>2, <3>3, <3>4, <3>5
  <2>8. FrameOk(f)
    BY <2>7 DEF FrameOk
  <2> HIDE DEF f
  <2>9. FramesInv'
    BY <1>1, <1>4, <2>6, <2>8, TopMoves DEF BusInv
  <2> QED BY <1>2, <2>9 DEF BusInv
<1> QED BY <1>3, <1>4 DEF Events!Emit, Events!IdKey, Events!NameKey

\* The emit that runs is one of the frames.
LEMMA TopFacts ==
  ASSUME BusInv, busStack # <<>>
  PROVE  Events!Top \in Frame /\ FrameOk(Events!Top) /\ Len(busStack) \in Nat \ {0}
BY DEF BusInv, FramesInv, Events!Top

\* The next listener of the copy: it has heard, or hears now.
LEMMA DeliverKeeps ==
  ASSUME BusInv, Events!Deliver
  PROVE  BusInv'
<1> DEFINE f == Events!Top
           x == Head(f.rest)
           skip == [f EXCEPT !.rest = Tail(@)]
           call == [f EXCEPT !.rest = Tail(@), !.running = TRUE, !.got = @ \cup {Head(f.rest)},
                             !.twice = @ \/ (f.phase # "any" /\ Head(f.rest) \in f.got)]
<1>1. /\ busStack # <<>> /\ f.rest # <<>>
      /\ UNCHANGED <<busTable, busMembers, busMade, busHandles, busLive>>
  BY DEF Events!Deliver
<1>2. f \in Frame /\ FrameOk(f)
  BY <1>1, TopFacts
<1>3. /\ Events!Heard(f) => busStack' = [busStack EXCEPT ![Len(busStack)] = skip]
      /\ ~Events!Heard(f) => busStack' = [busStack EXCEPT ![Len(busStack)] = call]
  BY DEF Events!Deliver, Events!SetTop
<1>4. SetsInv'
  BY <1>1 DEF BusInv, SetsInv
<1> HIDE DEF f
<1>5. f.rest \in Seq(Listeners) /\ f.phase # "over" /\ f.phase \in {"first", "second", "any", "over"}
  BY <1>1, <1>2 DEF FrameOk, Frame
<1>6. /\ Tail(f.rest) \in Seq(Listeners) /\ x \in Listeners
      /\ \A m \in Events!ToSet(f.rest) : m = x \/ m \in Events!ToSet(Tail(f.rest))
  <2> DEFINE q == f.rest
  <2>1. /\ x \in Listeners /\ x = q[1] /\ Tail(q) \in Seq(Listeners)
        /\ Len(q) \in Nat \ {0} /\ Len(Tail(q)) = Len(q) - 1
        /\ \A i \in 1..(Len(q) - 1) : Tail(q)[i] = q[i + 1]
    BY <1>1, <1>5, TailFacts
  <2>2. DOMAIN q = 1..Len(q) /\ DOMAIN Tail(q) = 1..(Len(q) - 1)
    BY <1>5, <2>1
  <2> HIDE DEF q, x
  <2>3. ASSUME NEW m \in Events!ToSet(q), m # x PROVE m \in Events!ToSet(Tail(q))
    <3>1. PICK i \in 1..Len(q) : q[i] = m
      BY <2>2 DEF Events!ToSet
    <3>2. i - 1 \in 1..(Len(q) - 1) /\ (i - 1) + 1 = i
      BY <2>1, <2>3, <3>1
    <3> QED BY <2>1, <2>2, <3>1, <3>2 DEF Events!ToSet
  <2> QED BY <2>1, <2>3 DEF q
<1>7. CASE Events!Heard(f)
  <2>1. /\ skip \in Frame /\ skip.rest = Tail(f.rest) /\ skip.twice = f.twice /\ skip.phase = f.phase
        /\ skip.owed = f.owed /\ skip.got = f.got /\ skip.later = f.later
    BY <1>2, <1>6 DEF Frame
  <2>2. x \in f.got
    BY <1>7 DEF Events!Heard
  <2>3. busStack' = [busStack EXCEPT ![Len(busStack)] = skip]
    BY <1>3, <1>7
  <2> HIDE DEF skip, x
  <2>4. FrameOk(skip)
    BY <1>2, <1>5, <1>6, <2>1, <2>2 DEF FrameOk, Waits
  <2>5. FramesInv'
    BY <1>1, <2>1, <2>3, <2>4, TopMoves DEF BusInv
  <2> QED BY <1>4, <2>5 DEF BusInv
<1>8. CASE ~Events!Heard(f)
  <2>1. (f.phase # "any" /\ x \in f.got) = FALSE
    BY <1>5, <1>8 DEF Events!Heard
  <2>2. f.twice = FALSE
    BY <1>2 DEF FrameOk
  <2>3. /\ call \in Frame /\ call.rest = Tail(f.rest) /\ call.twice = FALSE /\ call.phase = f.phase
        /\ call.owed = f.owed /\ call.got = f.got \cup {x} /\ call.later = f.later
    BY <1>2, <1>6, <2>1, <2>2 DEF Frame
  <2>4. busStack' = [busStack EXCEPT ![Len(busStack)] = call]
    BY <1>3, <1>8
  <2> HIDE DEF call, x
  <2>5. FrameOk(call)
    BY <1>2, <1>5, <1>6, <2>3 DEF FrameOk, Waits
  <2>6. FramesInv'
    BY <1>1, <2>3, <2>4, <2>5, TopMoves DEF BusInv
  <2> QED BY <1>4, <2>6 DEF BusInv
<1> QED BY <1>7, <1>8

\* The next set is copied: who waited for that copy is in it.
LEMMA TurnKeeps ==
  ASSUME BusInv, Events!Turn
  PROVE  BusInv'
<1> DEFINE f == Events!Top
<1>1. /\ busStack # <<>> /\ f.rest = <<>>
      /\ UNCHANGED <<busTable, busMembers, busMade, busHandles, busLive>>
  BY DEF Events!Turn
<1>2. f \in Frame /\ FrameOk(f)
  BY <1>1, TopFacts
<1>3. SetsInv'
  BY <1>1 DEF BusInv, SetsInv
<1>4. Events!ToSet(<<>>) = {}
  BY DEF Events!ToSet
<1>5. \A l \in f.owed \ f.got : Waits(f, l)
  BY <1>2 DEF FrameOk
<1>6. f.twice = FALSE
  BY <1>2 DEF FrameOk
<1>7. CASE f.phase = "first"
  <2> DEFINE r == IF f.later = 0 THEN <<>> ELSE busMembers[f.later]
             g == [f EXCEPT !.phase = "second", !.rest = r]
  <2>1. busStack' = [busStack EXCEPT ![Len(busStack)] = g]
    BY <1>7 DEF Events!Turn, Events!SetTop
  <2> HIDE DEF f
  <2>2. f.later # 0 => busMembers[f.later] \in Seq(Listeners)
    BY <1>2, ServerAssumption DEF BusInv, SetsInv, Frame
  <2>21. r \in Seq(Listeners) /\ (f.later # 0 => r = busMembers[f.later])
    BY <2>2
  <2> HIDE DEF r
  <2>3. /\ g \in Frame /\ g.phase = "second" /\ g.owed = f.owed /\ g.got = f.got /\ g.twice = f.twice
        /\ g.rest = r
    BY <1>2, <2>21 DEF Frame
  <2> HIDE DEF g
  <2>4. FrameOk(g)
    <3>1. ASSUME NEW l \in g.owed, l \notin g.got PROVE Waits(g, l)
      <4>1. Waits(f, l)
        BY <1>5, <2>3, <3>1
      <4> QED BY <1>1, <1>4, <1>7, <2>21, <2>3, <4>1 DEF Waits
    <3> QED BY <1>6, <2>3, <3>1 DEF FrameOk
  <2>5. FramesInv'
    BY <1>1, <2>1, <2>3, <2>4, TopMoves DEF BusInv
  <2> QED BY <1>3, <2>5 DEF BusInv
<1>8. CASE f.phase = "second"
  <2> DEFINE g == [f EXCEPT !.phase = "any", !.rest = Events!Held("*")]
  <2>1. busStack' = [busStack EXCEPT ![Len(busStack)] = g]
    BY <1>8 DEF Events!Turn, Events!SetTop, Events!AnyKey
  <2> HIDE DEF f
  <2>2. "*" \in Events!Key /\ Events!Held("*") \in Seq(Listeners)
    BY ServerAssumption DEF BusInv, SetsInv, Events!Held, Events!Key, Events!AnyKey
  <2>3. \A h \in busLive : h.key = "*" => h.l \in Events!ToSet(Events!Held("*"))
    BY ServerAssumption DEF BusInv, SetsInv, Events!Held, Events!Handle
  <2>4. /\ g \in Frame /\ g.phase = "any" /\ g.owed = f.owed /\ g.got = f.got /\ g.twice = f.twice
        /\ g.rest = Events!Held("*")
    BY <1>2, <2>2 DEF Frame
  <2> HIDE DEF g
  <2>5. FrameOk(g)
    BY <1>1, <1>4, <1>5, <1>6, <1>8, <2>3, <2>4 DEF FrameOk, Waits
  <2>6. FramesInv'
    BY <1>1, <2>1, <2>4, <2>5, TopMoves DEF BusInv
  <2> QED BY <1>3, <2>6 DEF BusInv
<1>9. CASE f.phase = "any"
  <2> DEFINE g == [f EXCEPT !.phase = "over"]
  <2>1. busStack' = [busStack EXCEPT ![Len(busStack)] = g]
    BY <1>9 DEF Events!Turn, Events!SetTop
  <2> HIDE DEF f
  <2>2. g \in Frame /\ g.owed = f.owed /\ g.got = f.got /\ g.twice = f.twice /\ g.rest = f.rest
    BY <1>2 DEF Frame
  <2> HIDE DEF g
  <2>3. FrameOk(g)
    BY <1>1, <1>4, <1>5, <1>6, <1>9, <2>2 DEF FrameOk, Waits
  <2>4. FramesInv'
    BY <1>1, <2>1, <2>2, <2>3, TopMoves DEF BusInv
  <2> QED BY <1>3, <2>4 DEF BusInv
<1> QED BY <1>7, <1>8, <1>9 DEF Events!Turn

\* Every step of the bus, the return of a listener and the end of an emit too.
LEMMA BusStep ==
  ASSUME BusInv, Events!BusNext
  PROVE  BusInv'
<1>1. CASE Events!Return
  <2> DEFINE f == Events!Top
             g == [f EXCEPT !.running = FALSE]
  <2>1. /\ busStack # <<>> /\ busStack' = [busStack EXCEPT ![Len(busStack)] = g]
        /\ UNCHANGED <<busTable, busMembers, busMade, busHandles, busLive>>
    BY <1>1 DEF Events!Return, Events!SetTop
  <2>2. f \in Frame /\ FrameOk(f)
    BY <2>1, TopFacts
  <2> HIDE DEF f
  <2>3. /\ g \in Frame /\ g.phase = f.phase /\ g.owed = f.owed /\ g.got = f.got /\ g.twice = f.twice
        /\ g.rest = f.rest /\ g.later = f.later
    BY <2>2 DEF Frame
  <2> HIDE DEF g
  <2>4. FrameOk(g)
    BY <2>2, <2>3 DEF FrameOk, Waits
  <2>5. FramesInv'
    BY <2>1, <2>3, <2>4, TopMoves DEF BusInv
  <2>6. SetsInv'
    BY <2>1 DEF BusInv, SetsInv
  <2> QED BY <2>5, <2>6 DEF BusInv
<1>2. CASE Events!EndEmit
  <2>1. /\ busStack # <<>> /\ busStack' = SubSeq(busStack, 1, Len(busStack) - 1)
        /\ UNCHANGED <<busTable, busMembers, busMade, busHandles, busLive>>
    BY <1>2 DEF Events!EndEmit
  <2>2. SetsInv'
    BY <2>1 DEF BusInv, SetsInv
  <2>3. busStack \in Seq(Frame) /\ \A i \in 1..Len(busStack) : FrameOk(busStack[i])
    BY DEF BusInv, FramesInv
  <2>4. \A g : FrameOk(g)' <=> FrameOk(g)
    BY <2>1 DEF FrameOk, Waits
  <2>5. /\ busStack' \in Seq(Frame) /\ Len(busStack') = Len(busStack) - 1 /\ Len(busStack) \in Nat \ {0}
        /\ \A i \in 1..(Len(busStack) - 1) : busStack'[i] = busStack[i]
    <3> DEFINE q == busStack
               n == Len(q) - 1
    <3>1. q \in Seq(Frame) /\ Len(q) \in Nat \ {0} /\ n \in Nat /\ 1 <= n + 1 /\ n <= Len(q) /\ 1 \in Nat \ {0} /\ n - 1 + 1 = n
      BY <2>1, <2>3
    <3>2. \A i \in 1..n : 1 + i - 1 = i
      BY <3>1
    <3>3. busStack' = SubSeq(q, 1, n)
      BY <2>1
    <3> HIDE DEF q, n
    <3>4. /\ busStack' \in Seq(Frame) /\ Len(busStack') = n - 1 + 1
          /\ \A i \in 1..(n - 1 + 1) : busStack'[i] = q[1 + i - 1]
      BY <3>1, <3>3, SubSeqFacts
    <3> QED BY <3>1, <3>2, <3>4 DEF q, n
  <2>6. FramesInv'
    BY <2>3, <2>4, <2>5 DEF FramesInv
  <2> QED BY <2>2, <2>6 DEF BusInv
<1> QED BY <1>1, <1>2, OnKeeps, UnsubscribeKeeps, ClearKeeps, EmitKeeps, DeliverKeeps, TurnKeeps
        DEF Events!BusNext

\* So an emit that is over has reached everyone it owed, each once.
LEMMA BusHolds == ASSUME BusInv PROVE Events!EverySubscriberHears /\ Events!OnceUnderBothKeys
<1>1. \A i \in 1..Len(busStack) : FrameOk(busStack[i])
  BY DEF BusInv, FramesInv
<1>2. Events!ToSet(<<>>) = {}
  BY DEF Events!ToSet
<1>3. Events!OnceUnderBothKeys
  BY <1>1 DEF Events!OnceUnderBothKeys, FrameOk
<1>4. Events!EverySubscriberHears
  BY <1>1, <1>2 DEF Events!EverySubscriberHears, FrameOk, Waits
<1> QED BY <1>3, <1>4

-----------------------------------------------------------------------------
(* Routing across renames (events/identity/routing.ts) *)

\* What the listener holds of ids is of the trait it was bound to, and the last
\* emit was matched against it.
RouteInv ==
  /\ routeEmitted # None => routeListen # None
  /\ routeListen # None =>
       /\ routeListen.key \in {"id", "name"}
       /\ routeListen.src.traitId \in {None, routeListen.target}
       /\ routeListen.src.orbitalId \in {None, HomeOf[routeListen.target]}
  /\ Events!RenameProof

\* Nothing is bound yet.
LEMMA RouteInit == ASSUME Events!RouteInit PROVE RouteInv
BY DEF Events!RouteInit, RouteInv, Events!RenameProof

\* Neither a rename nor an emit touches the ids a listener was bound with.
LEMMA RouteStep ==
  ASSUME RouteInv, Events!RouteNext
  PROVE  RouteInv'
<1> USE DEF RouteInv, Events!RenameProof, Events!ById
<1>1. ASSUME NEW t \in Traits, NEW form \in {"explicit", "E", "*.E", "T.E", "O.T.E"},
             NEW kind \in {"any", "trait", "orbital"}, NEW withIds \in BOOLEAN,
             Events!Bind(t, form, kind, withIds)
      PROVE  RouteInv'
  BY <1>1 DEF Events!Bind, Events!ParseListenSource, Events!EventRouteKey
<1>2. ASSUME NEW t \in Traits, NEW n \in Names, Events!RenameTrait(t, n) PROVE RouteInv'
  BY <1>2 DEF Events!RenameTrait
<1>3. ASSUME NEW o \in Orbitals, NEW n \in Names, Events!RenameOrbital(o, n) PROVE RouteInv'
  BY <1>3 DEF Events!RenameOrbital
<1>4. ASSUME NEW t \in Traits, NEW withIds \in BOOLEAN, Events!EmitFrom(t, withIds) PROVE RouteInv'
  BY <1>4 DEF Events!EmitFrom, Events!Matches, Events!Stamp, Events!SameNames, Events!EventRouteKey
<1> QED BY <1>1, <1>2, <1>3, <1>4 DEF Events!RouteNext

-----------------------------------------------------------------------------
(* The residence of dispatch legs *)

\* What may run at a place.
KeptAt(at) == IF at = "local" THEN {"browser"} ELSE {"server"}

Leg == [at : {"local", "remote"}, traits : SUBSET Traits]

\* A leg goes where the data of its traits is.
AtItsData(leg) == \A t \in leg.traits : legNeed[t] \subseteq KeptAt(leg.at)

\* No trait is in two legs, nor in one that is left and one that ran; while a
\* request runs, each of its seeds was run or is in a leg that is left.
LegInv ==
  /\ legNeed \in [Traits -> SUBSET {"browser", "server"}]
  /\ legLegs \in Seq(Leg)
  /\ \A i \in 1..Len(legLegs) : AtItsData(legLegs[i])
  /\ \A i, j \in 1..Len(legLegs) : i # j => legLegs[i].traits \cap legLegs[j].traits = {}
  /\ \A p \in legRan : \A i \in 1..Len(legLegs) : p[1] \notin legLegs[i].traits
  /\ legVerdict = "running" => \A t \in Legs!ToSet(legRequest.seeds) :
       (\E p \in legRan : p[1] = t) \/ \E i \in 1..Len(legLegs) : t \in legLegs[i].traits
  /\ Legs!EachSeedAtItsData

\* No request runs yet.
LEMMA LegInit == ASSUME Legs!Init PROVE LegInv
BY DEF Legs!Init, LegInv, Legs!EachSeedAtItsData, Legs!Need

\* Where routeLeg() sends traits that must run together, their data is.
LEMMA RouteIsRight ==
  ASSUME LegInv, NEW named \in SUBSET Traits, Legs!Route(named) # "refused"
  PROVE  /\ Legs!Route(named) \in {"local", "remote"}
         /\ \A t \in Legs!LegTraits(named) : legNeed[t] \subseteq KeptAt(Legs!Route(named))
<1> DEFINE reached == UNION {legNeed[t] : t \in Legs!LegTraits(named)}
<1>1. Legs!LegTraits(named) \subseteq Traits
  BY DEF Legs!LegTraits
<1>2. reached \subseteq {"browser", "server"} /\ \A t \in Legs!LegTraits(named) : legNeed[t] \subseteq reached
  BY <1>1 DEF LegInv
<1>3. Legs!Route(named) = (IF reached = {"browser", "server"} \/ (~legRemote /\ reached = {"server"})
                           THEN "refused"
                           ELSE IF "browser" \in reached \/ ~legRemote THEN "local" ELSE "remote")
  BY DEF Legs!Route
<1> HIDE DEF reached
<1>4. Legs!Route(named) \in {"local", "remote"}
  BY <1>3
<1>5. Legs!Route(named) = "local" => reached \subseteq {"browser"}
  BY <1>2, <1>3
<1>6. Legs!Route(named) = "remote" => reached \subseteq {"server"}
  BY <1>2, <1>3
<1> QED BY <1>2, <1>4, <1>5, <1>6 DEF KeptAt

\* The same of a single seed.
LEMMA SeedIsRouted ==
  ASSUME LegInv, NEW t \in Traits, Legs!Route({t}) # "refused"
  PROVE  Legs!Route({t}) \in {"local", "remote"} /\ legNeed[t] \subseteq KeptAt(Legs!Route({t}))
BY RouteIsRight DEF Legs!LegTraits

\* The legs of a batch whose seeds are all routed.
LEMMA MountLegsAreRight ==
  ASSUME LegInv, NEW seeds \in Seq(Traits), seeds # <<>>,
         \A t \in Legs!ToSet(seeds) : Legs!Route({t}) # "refused"
  PROVE  LET legs == Legs!MountLegs(seeds) IN
         /\ legs \in Seq(Leg)
         /\ \A i \in 1..Len(legs) : AtItsData(legs[i])
         /\ \A i, j \in 1..Len(legs) : i # j => legs[i].traits \cap legs[j].traits = {}
         /\ \A t \in Legs!ToSet(seeds) : \E i \in 1..Len(legs) : t \in legs[i].traits
<1> DEFINE first == Legs!Route({Head(seeds)})
           second == IF first = "local" THEN "remote" ELSE "local"
           leg(at) == [at |-> at, traits |-> Legs!LegSeeds(seeds, at)]
<1>1. Legs!ToSet(seeds) \subseteq Traits /\ Head(seeds) \in Legs!ToSet(seeds)
  BY DEF Legs!ToSet
<1>2. first \in {"local", "remote"} /\ second \in {"local", "remote"} /\ first # second
  BY <1>1, SeedIsRouted
<1>3. \A at \in {"local", "remote"} : leg(at) \in Leg /\ AtItsData(leg(at))
  BY <1>1, SeedIsRouted DEF Legs!LegSeeds, Leg, AtItsData
<1>4. \A t \in Legs!ToSet(seeds) : t \in leg(first).traits \/ t \in leg(second).traits
  BY <1>1, <1>2, SeedIsRouted DEF Legs!LegSeeds
<1>5. leg(first).traits \cap leg(second).traits = {}
  BY <1>2 DEF Legs!LegSeeds
<1>6. CASE Legs!LegSeeds(seeds, second) = {}
  <2>1. Legs!MountLegs(seeds) = <<leg(first)>>
    BY <1>6 DEF Legs!MountLegs
  <2>2. leg(second).traits = {}
    BY <1>6
  <2> HIDE DEF leg, first, second
  <2> QED BY <1>2, <1>3, <1>4, <2>1, <2>2
<1>7. CASE Legs!LegSeeds(seeds, second) # {}
  <2>1. Legs!MountLegs(seeds) = <<leg(first), leg(second)>>
    BY <1>7 DEF Legs!MountLegs
  <2> HIDE DEF leg, first, second
  <2> QED BY <1>2, <1>3, <1>4, <1>5, <2>1
<1> QED BY <1>6, <1>7

\* Every step of dispatchLegs().
LEMMA LegStep ==
  ASSUME LegInv, Legs!Next
  PROVE  LegInv'
<1>1. ASSUME NEW seeds \in Seq(Traits), NEW others \in SUBSET Traits, Legs!Send(seeds, others)
      PROVE  LegInv'
  <2> DEFINE named == Legs!ToSet(seeds) \cup others
             split == Len(seeds) > 1
             bad == split /\ \E t \in Legs!ToSet(seeds) : Legs!Route({t}) = "refused"
             parts == IF split /\ ~bad THEN Legs!MountLegs(seeds) ELSE <<>>
             whole == [at |-> Legs!Route(named), traits |-> Legs!LegTraits(named)]
             plan == IF Len(parts) > 1 THEN parts ELSE <<whole>>
             refused == bad \/ (Len(parts) <= 1 /\ Legs!Route(named) = "refused")
  <2>1. /\ legLegs' = IF refused THEN <<>> ELSE plan
        /\ legVerdict' = IF refused THEN "refused" ELSE "running"
        /\ legRequest' = IF refused THEN Legs!Idle ELSE [seeds |-> seeds, named |-> named]
        /\ legRan' = {} /\ legTwice' = FALSE
        /\ UNCHANGED legNeed
    BY <1>1 DEF Legs!Send
  <2>2. named \in SUBSET Traits /\ Legs!ToSet(seeds) \subseteq Legs!LegTraits(named)
    <3>1. Legs!ToSet(seeds) \subseteq Traits
      BY DEF Legs!ToSet
    <3>2. Legs!ToSet(seeds) \subseteq named /\ (named = {} => Legs!ToSet(seeds) = {})
      OBVIOUS
    <3> QED BY <3>1, <3>2 DEF Legs!LegTraits
  <2>3. CASE refused
    <3>1. legLegs' = <<>> /\ legVerdict' = "refused" /\ legRan' = {} /\ legTwice' = FALSE
             /\ legNeed' = legNeed
      BY <2>1, <2>3
    <3> HIDE DEF refused, plan
    <3> QED BY <3>1 DEF LegInv, Legs!EachSeedAtItsData
  <2>4. CASE ~refused
    <3>1. /\ plan \in Seq(Leg)
          /\ \A i \in 1..Len(plan) : AtItsData(plan[i])
          /\ \A i, j \in 1..Len(plan) : i # j => plan[i].traits \cap plan[j].traits = {}
          /\ \A t \in Legs!ToSet(seeds) : \E i \in 1..Len(plan) : t \in plan[i].traits
      <4>1. CASE Len(parts) > 1
        <5>1. split /\ ~bad /\ parts = Legs!MountLegs(seeds)
          <6> HIDE DEF split, bad
          <6> QED BY <4>1
        <5>2. seeds # <<>>
          BY <5>1
        <5>3. \A t \in Legs!ToSet(seeds) : Legs!Route({t}) # "refused"
          BY <5>1
        <5>4. plan = Legs!MountLegs(seeds)
          BY <4>1, <5>1
        <5>5. LET legs == Legs!MountLegs(seeds) IN
              /\ legs \in Seq(Leg)
              /\ \A i \in 1..Len(legs) : AtItsData(legs[i])
              /\ \A i, j \in 1..Len(legs) : i # j => legs[i].traits \cap legs[j].traits = {}
              /\ \A t \in Legs!ToSet(seeds) : \E i \in 1..Len(legs) : t \in legs[i].traits
          <6> HIDE DEF plan
          <6> QED BY <5>2, <5>3, MountLegsAreRight
        <5> HIDE DEF plan
        <5> QED BY <5>4, <5>5, Zenon
      <4>2. CASE ~(Len(parts) > 1)
        <5>1. plan = <<whole>>
          BY <4>2
        <5>2. Legs!Route(named) # "refused"
          <6>1. Len(parts) \in Nat
            <7>1. CASE split /\ ~bad
              BY <7>1, MountLegsAreRight
            <7>2. CASE ~(split /\ ~bad)
              BY <7>2
            <7> QED BY <7>1, <7>2
          <6> HIDE DEF parts
          <6> QED BY <2>4, <4>2, <6>1
        <5>3. whole \in Leg /\ AtItsData(whole)
          BY <2>2, <5>2, RouteIsRight DEF Leg, AtItsData, Legs!LegTraits
        <5>4. Legs!ToSet(seeds) \subseteq whole.traits
          BY <2>2
        <5>5. <<whole>> \in Seq(Leg) /\ Len(<<whole>>) = 1 /\ <<whole>>[1] = whole
          BY <5>3
        <5> HIDE DEF whole, plan
        <5> QED BY <5>1, <5>3, <5>4, <5>5
      <4> QED BY <4>1, <4>2
    <3>2. /\ legLegs' = plan /\ legVerdict' = "running" /\ legRequest'.seeds = seeds
      BY <2>1, <2>4
    <3> HIDE DEF plan, refused
    <3> QED BY <2>1, <3>1, <3>2 DEF LegInv, Legs!EachSeedAtItsData, AtItsData
  <2> QED BY <2>3, <2>4
<1>2. ASSUME NEW outcome \in {"success", "failure", "thrown"}, Legs!RunLeg(outcome) PROVE LegInv'
  <2> DEFINE leg == Head(legLegs)
  <2>1. legVerdict = "running" /\ legLegs # <<>> /\ UNCHANGED legNeed
    BY <1>2 DEF Legs!RunLeg
  <2>2. CASE outcome = "thrown"
    <3>1. legRan' = legRan /\ legVerdict' = "thrown" /\ legLegs' = <<>>
      BY <1>2, <2>2 DEF Legs!RunLeg
    <3>2. legTwice' <=> legTwice
      BY <1>2, <2>2 DEF Legs!RunLeg
    <3> QED BY <2>1, <3>1, <3>2 DEF LegInv, Legs!EachSeedAtItsData
  <2>3. CASE outcome # "thrown"
    <3>1. /\ legRan' = legRan \cup (leg.traits \X {leg.at})
          /\ legTwice' = (legTwice \/ \E t \in leg.traits : \E p \in legRan : p[1] = t)
          /\ legLegs' = Tail(legLegs) /\ UNCHANGED <<legVerdict, legRequest>>
      BY <1>2, <2>3 DEF Legs!RunLeg
    <3>2. legLegs' \in Seq(Leg) /\ Len(legLegs') = Len(legLegs) - 1 /\ Len(legLegs) \in Nat \ {0}
            /\ leg = legLegs[1]
            /\ \A i \in 1..Len(legLegs') : legLegs'[i] = legLegs[i + 1]
      BY <2>1, <3>1 DEF LegInv
    <3>3. leg \in Leg /\ AtItsData(leg) /\ \A p \in legRan : p[1] \notin leg.traits
      BY <2>1, <3>2 DEF LegInv
    <3>4. \A i \in 1..Len(legLegs') : i + 1 \in 1..Len(legLegs) /\ i + 1 # 1
      BY <3>2
    <3> HIDE DEF leg
    <3>5. ~legTwice'
      <4>1. ~ \E t \in leg.traits : \E p \in legRan : p[1] = t
        BY <3>3
      <4>2. ~legTwice
        BY DEF LegInv, Legs!EachSeedAtItsData
      <4> QED BY <3>1, <4>1, <4>2
    <3>6. \A p \in legRan' : p \in legRan \/ (p[1] \in leg.traits /\ p[2] = leg.at)
      BY <3>1
    <3>7. \A p \in legRan' : legNeed[p[1]] \subseteq KeptAt(p[2])
      BY <3>3, <3>6 DEF LegInv, Legs!EachSeedAtItsData, AtItsData, KeptAt
    <3>8. \A i \in 1..Len(legLegs') : AtItsData(legLegs'[i])
      BY <3>2, <3>4 DEF LegInv
    <3>9. \A i, j \in 1..Len(legLegs') : i # j => legLegs'[i].traits \cap legLegs'[j].traits = {}
      <4> SUFFICES ASSUME NEW i \in 1..Len(legLegs'), NEW j \in 1..Len(legLegs'), i # j
                   PROVE  legLegs'[i].traits \cap legLegs'[j].traits = {}
        OBVIOUS
      <4>1. i + 1 \in 1..Len(legLegs) /\ j + 1 \in 1..Len(legLegs) /\ i + 1 # j + 1
        BY <3>2
      <4>2. legLegs[i + 1].traits \cap legLegs[j + 1].traits = {}
        BY <4>1 DEF LegInv
      <4> QED BY <3>2, <4>2
    <3>10. \A p \in legRan' : \A i \in 1..Len(legLegs') : p[1] \notin legLegs'[i].traits
      <4> SUFFICES ASSUME NEW p \in legRan', NEW i \in 1..Len(legLegs')
                   PROVE  p[1] \notin legLegs'[i].traits
        OBVIOUS
      <4>1. i + 1 \in 1..Len(legLegs) /\ i + 1 # 1 /\ 1 \in 1..Len(legLegs) /\ legLegs'[i] = legLegs[i + 1]
        BY <3>2
      <4> QED BY <3>2, <3>6, <4>1 DEF LegInv
    <3>11. \A t \in Legs!ToSet(legRequest.seeds) :
             (\E p \in legRan' : p[1] = t) \/ \E i \in 1..Len(legLegs') : t \in legLegs'[i].traits
      <4> SUFFICES ASSUME NEW t \in Legs!ToSet(legRequest.seeds),
                          ~ \E p \in legRan' : p[1] = t
                   PROVE  \E i \in 1..Len(legLegs') : t \in legLegs'[i].traits
        OBVIOUS
      <4>1. \A p \in legRan : p[1] # t
        BY <3>1
      <4>2. t \notin leg.traits
        <5>1. \A u \in leg.traits : <<u, leg.at>> \in legRan'
          BY <3>1
        <5> QED BY <5>1
      <4>3. PICK i \in 1..Len(legLegs) : t \in legLegs[i].traits
        BY <2>1, <4>1 DEF LegInv
      <4>4. i # 1
        BY <3>2, <4>2, <4>3
      <4>5. i - 1 \in 1..Len(legLegs') /\ legLegs'[i - 1] = legLegs[i]
        BY <3>2, <4>4
      <4> QED BY <4>3, <4>5
    <3>12. legVerdict' = "running"
      BY <2>1, <3>1
    <3> QED BY <2>1, <3>1, <3>2, <3>5, <3>7, <3>8, <3>9, <3>10, <3>11, <3>12
            DEF LegInv, Legs!EachSeedAtItsData, AtItsData, KeptAt
  <2> QED BY <2>2, <2>3
<1>3. CASE Legs!Respond
  <2>1. legVerdict = "running" /\ legLegs = <<>>
          /\ UNCHANGED <<legNeed, legRequest, legLegs, legRan, legTwice, legReplies>>
          /\ legVerdict' = IF Legs!MergedSuccess THEN "success" ELSE "failure"
    BY <1>3 DEF Legs!Respond
  <2>2. \A t \in Legs!ToSet(legRequest.seeds) : \E p \in legRan : p[1] = t
    BY <2>1 DEF LegInv
  <2> QED BY <2>1, <2>2 DEF LegInv, Legs!EachSeedAtItsData, Legs!MergedSuccess, AtItsData
<1>4. \A seeds \in Legs!SeqOf(Traits, 3) : seeds \in Seq(Traits)
  <2> SUFFICES ASSUME NEW seeds \in Legs!SeqOf(Traits, 3) PROVE seeds \in Seq(Traits)
    OBVIOUS
  <2>1. PICK m \in 0..3 : seeds \in [1..m -> Traits]
    BY Zenon DEF Legs!SeqOf
  <2>2. m \in Nat
    OBVIOUS
  <2> QED BY <2>1, <2>2
<1> QED BY <1>1, <1>2, <1>3, <1>4 DEF Legs!Next

-----------------------------------------------------------------------------
(* The bridge (server/ServerBridge.ts) *)

\* The orbitals an event is for.
ForOrbitals == IF bridgeTarget = "broadcast" THEN Orbitals ELSE {bridgeTarget}

Flight == [e : Bridge!Event, nth : {1}, at : {"listing", "sending"}, left : Seq(Orbitals)]

\* What was sent of an event and what is left of it are all it is for, each once.
OnItsWay(f) ==
  /\ f.at = "listing" => bridgeTarget = "broadcast" /\ bridgeReached[f.e] = <<>>
  /\ f.at = "sending" =>
       /\ Bridge!IsInjective(f.left)
       /\ Bridge!ToSet(f.left) \cap Bridge!ToSet(bridgeReached[f.e]) = {}
       /\ Bridge!ToSet(f.left) \cup Bridge!ToSet(bridgeReached[f.e]) = ForOrbitals

\* One forward is under way of an event at most, and none of one that was
\* counted or that nobody emitted.
BridgeInv ==
  /\ bridgeTarget \in Orbitals \cup {"broadcast"}
  /\ bridgeConnected \in BOOLEAN /\ bridgeSubscribed \in {0, 1} /\ (~bridgeConnected => bridgeSubscribed = 0)
  /\ bridgeClass = [e \in Bridge!Event |-> bridgeClass[e]]
  /\ bridgeReached \in [Bridge!Event -> Seq(Orbitals)]
  /\ bridgeCounted \subseteq Bridge!Event
  /\ bridgeFlights \subseteq Flight
  /\ \A f, g \in bridgeFlights : f.e = g.e => f = g
  /\ \A f \in bridgeFlights : bridgeClass[f.e] # "none" /\ f.e \notin bridgeCounted /\ OnItsWay(f)
  /\ \A e \in Bridge!Event : bridgeClass[e] = "none" => bridgeReached[e] = <<>> /\ e \notin bridgeCounted
  /\ Bridge!ForwardedOnceToAll

\* The bridge has forwarded nothing yet.
LEMMA BridgeInit == ASSUME Bridge!Init PROVE BridgeInv
<1>1. bridgeConnected \in BOOLEAN
  BY Zenon DEF Bridge!Init
<1>2. /\ bridgeTarget \in Orbitals \cup {"broadcast"} /\ bridgeSubscribed = 0
      /\ bridgeClass = [e \in Bridge!Event |-> "none"] /\ bridgeFlights = {}
      /\ bridgeReached = [e \in Bridge!Event |-> <<>>] /\ bridgeCounted = {}
  BY DEF Bridge!Init
<1>3. Bridge!IsInjective(<<>>)
  BY DEF Bridge!IsInjective
<1> QED BY <1>1, <1>2, <1>3 DEF BridgeInv, Bridge!ForwardedOnceToAll

\* The next event is one that nobody emitted.
LEMMA NextIsUnemitted ==
  ASSUME Bridge!Unemitted # {}
  PROVE  (CHOOSE x \in Bridge!Unemitted : \A y \in Bridge!Unemitted : x <= y) \in Bridge!Unemitted
<1>1. Bridge!Unemitted \in SUBSET Nat
  BY ServerAssumption DEF Bridge!Unemitted, Bridge!Event
<1>2. \E x \in Bridge!Unemitted : \A y \in Bridge!Unemitted : x <= y
  BY <1>1, MinNat
<1> QED BY <1>2

\* A forward that starts has everything before it.
LEMMA ForwardsStart ==
  ASSUME BridgeInv, NEW e \in Bridge!Event, bridgeClass[e] = "none", NEW c, NEW f \in Bridge!Forwards(e, c)
  PROVE  /\ f \in Flight /\ f.e = e /\ OnItsWay(f)
         /\ \A g \in Bridge!Forwards(e, c) : g = f
<1>1. bridgeSubscribed = 1 /\ bridgeReached[e] = <<>>
  BY DEF Bridge!Forwards, BridgeInv
<1> DEFINE first == [e |-> e, nth |-> 1, at |-> IF bridgeTarget = "broadcast" THEN "listing" ELSE "sending",
                     left |-> IF bridgeTarget = "broadcast" THEN <<>> ELSE <<bridgeTarget>>]
<1>2. \A g \in Bridge!Forwards(e, c) : g = first
  BY <1>1 DEF Bridge!Forwards
<1>3. first \in Flight
  BY DEF BridgeInv, Flight
<1>4. OnItsWay(first)
  <2>1. CASE bridgeTarget = "broadcast"
    BY <1>1, <2>1 DEF OnItsWay
  <2>2. CASE bridgeTarget # "broadcast"
    <3>1. Bridge!ToSet(<<bridgeTarget>>) = {bridgeTarget} /\ Bridge!ToSet(<<>>) = {}
      BY DEF Bridge!ToSet
    <3>2. Bridge!IsInjective(<<bridgeTarget>>)
      BY DEF Bridge!IsInjective
    <3> QED BY <1>1, <2>2, <3>1, <3>2 DEF OnItsWay, ForOrbitals
  <2> QED BY <2>1, <2>2
<1> QED BY <1>2, <1>3, <1>4

\* What changes none of the orbitals reached, but for the class of a new event
\* whose forwards start.
LEMMA EmitStep ==
  ASSUME BridgeInv, NEW e \in Bridge!Event, bridgeClass[e] = "none", NEW c, c # "none",
         bridgeClass' = [bridgeClass EXCEPT ![e] = c],
         bridgeFlights' = bridgeFlights \cup Bridge!Forwards(e, c),
         UNCHANGED <<bridgeTarget, bridgeConnected, bridgeSubscribed, bridgeReached, bridgeCounted>>
  PROVE  BridgeInv'
<1>1. \A f \in bridgeFlights : f.e # e /\ f \in Flight
  BY DEF BridgeInv
<1>2. \A f \in Bridge!Forwards(e, c) : f \in Flight /\ f.e = e /\ OnItsWay(f)
         /\ \A g \in Bridge!Forwards(e, c) : g = f
  BY ForwardsStart
<1>3. e \notin bridgeCounted
  BY DEF BridgeInv
<1>4. \A f : OnItsWay(f)' <=> OnItsWay(f)
  BY DEF OnItsWay, ForOrbitals
<1>5. /\ bridgeClass'[e] = c /\ \A d \in Bridge!Event \ {e} : bridgeClass'[d] = bridgeClass[d]
      /\ bridgeClass' = [d \in Bridge!Event |-> bridgeClass'[d]]
  BY DEF BridgeInv
<1>6. \A f, g \in bridgeFlights' : f.e = g.e => f = g
  BY <1>1, <1>2 DEF BridgeInv
<1>7. \A f \in bridgeFlights' : bridgeClass'[f.e] # "none" /\ f.e \notin bridgeCounted /\ OnItsWay(f)
  <2>1. \A f \in bridgeFlights : f.e \in Bridge!Event \ {e}
    BY <1>1 DEF Flight
  <2> QED BY <1>2, <1>3, <1>5, <2>1 DEF BridgeInv
<1> QED BY <1>2, <1>4, <1>5, <1>6, <1>7 DEF BridgeInv, Bridge!ForwardedOnceToAll, ForOrbitals

\* One orbital answers; what it emits starts forwards of an event that was new.
LEMMA SendStep ==
  ASSUME BridgeInv, NEW f \in bridgeFlights, f.at = "sending", f.left # <<>>,
         NEW new \in SUBSET Flight,
         \A n \in new : bridgeClass[n.e] = "none" /\ bridgeClass'[n.e] # "none" /\ OnItsWay(n),
         \A n, m \in new : n.e = m.e => n = m,
         bridgeClass' = [x \in Bridge!Event |-> bridgeClass'[x]],
         \A x \in Bridge!Event : bridgeClass[x] # "none" => bridgeClass'[x] # "none",
         bridgeReached' = [bridgeReached EXCEPT ![f.e] = Append(@, Head(f.left))],
         bridgeFlights' = (bridgeFlights \ {f}) \cup {[f EXCEPT !.left = Tail(@)]} \cup new,
         UNCHANGED <<bridgeTarget, bridgeConnected, bridgeSubscribed, bridgeCounted>>
  PROVE  BridgeInv'
<1> DEFINE was == bridgeReached[f.e]
           x == Head(f.left)
           g == [f EXCEPT !.left = Tail(@)]
<1>1. f \in Flight /\ f.e \in Bridge!Event /\ f.left \in Seq(Orbitals) /\ was \in Seq(Orbitals)
  BY DEF BridgeInv, Flight
<1>2. g \in Flight /\ g.e = f.e /\ g.at = "sending" /\ g.left = Tail(f.left)
  <2>1. Tail(f.left) \in Seq(Orbitals)
    BY <1>1, TailFacts
  <2> QED BY <1>1, <2>1 DEF Flight
<1>3. /\ Bridge!IsInjective(f.left) /\ Bridge!IsInjective(was)
      /\ Bridge!ToSet(f.left) \cap Bridge!ToSet(was) = {}
      /\ Bridge!ToSet(f.left) \cup Bridge!ToSet(was) = ForOrbitals
  BY <1>1 DEF BridgeInv, OnItsWay, Bridge!ForwardedOnceToAll
<1>4. x \in Orbitals /\ x \in Bridge!ToSet(f.left)
  BY <1>1 DEF Bridge!ToSet
<1>5. /\ Append(was, x) \in Seq(Orbitals) /\ Bridge!IsInjective(Append(was, x))
      /\ Bridge!ToSet(Append(was, x)) = Bridge!ToSet(was) \cup {x}
  <2> DEFINE next == Append(was, x)
  <2>1. x \notin Bridge!ToSet(was)
    BY <1>3, <1>4
  <2>2. /\ next \in Seq(Orbitals) /\ Len(next) = Len(was) + 1 /\ Len(was) \in Nat
        /\ next[Len(was) + 1] = x /\ \A i \in 1..Len(was) : next[i] = was[i]
    <3> HIDE DEF was, x
    <3> QED BY <1>1, <1>4, AppendFacts
  <2>3. DOMAIN was = 1..Len(was) /\ DOMAIN next = 1..(Len(was) + 1)
    BY <1>1, <2>2
  <2>4. \A i, j \in 1..Len(was) : was[i] = was[j] => i = j
    BY <1>3, <2>3 DEF Bridge!IsInjective
  <2>5. \A i \in 1..Len(was) : was[i] # x
    BY <2>1, <2>3 DEF Bridge!ToSet
  <2> HIDE DEF was, x, next
  <2>6. Bridge!IsInjective(next)
    BY <2>2, <2>3, <2>4, <2>5 DEF Bridge!IsInjective
  <2>7. ASSUME NEW y \in Bridge!ToSet(next) PROVE y \in Bridge!ToSet(was) \cup {x}
    BY <2>2, <2>3 DEF Bridge!ToSet
  <2>8. ASSUME NEW y \in Bridge!ToSet(was) \cup {x} PROVE y \in Bridge!ToSet(next)
    <3>1. CASE y = x
      BY <2>2, <2>3, <3>1 DEF Bridge!ToSet
    <3>2. CASE y \in Bridge!ToSet(was)
      <4>1. PICK i \in 1..Len(was) : was[i] = y
        BY <2>3, <3>2 DEF Bridge!ToSet
      <4>2. i \in DOMAIN next
        BY <2>2, <2>3
      <4> QED BY <2>2, <4>1, <4>2 DEF Bridge!ToSet
    <3> QED BY <2>8, <3>1, <3>2
  <2> QED BY <2>2, <2>6, <2>7, <2>8 DEF next
<1>6. /\ Bridge!IsInjective(Tail(f.left))
      /\ Bridge!ToSet(Tail(f.left)) = Bridge!ToSet(f.left) \ {x}
  <2> DEFINE q == f.left
  <2>1. /\ x = q[1] /\ Tail(q) \in Seq(Orbitals) /\ q \in Seq(Orbitals)
        /\ Len(q) \in Nat \ {0} /\ Len(Tail(q)) = Len(q) - 1
        /\ \A i \in 1..(Len(q) - 1) : Tail(q)[i] = q[i + 1]
    BY <1>1, TailFacts
  <2>2. \A i, j \in 1..Len(q) : q[i] = q[j] => i = j
    BY <1>1, <1>3 DEF Bridge!IsInjective
  <2>3. DOMAIN q = 1..Len(q) /\ DOMAIN Tail(q) = 1..(Len(q) - 1)
    BY <2>1
  <2> HIDE DEF q, x
  <2>4. Bridge!IsInjective(Tail(q))
    BY <2>1, <2>2, <2>3 DEF Bridge!IsInjective
  <2>5. ASSUME NEW y \in Bridge!ToSet(Tail(q)) PROVE y \in Bridge!ToSet(q) \ {x}
    BY <2>1, <2>2, <2>3 DEF Bridge!ToSet
  <2>6. ASSUME NEW y \in Bridge!ToSet(q), y # x PROVE y \in Bridge!ToSet(Tail(q))
    <3>1. PICK i \in 1..Len(q) : q[i] = y
      BY <2>3 DEF Bridge!ToSet
    <3>2. i - 1 \in 1..(Len(q) - 1) /\ (i - 1) + 1 = i
      BY <2>1, <2>6, <3>1
    <3> QED BY <2>1, <2>3, <3>1, <3>2 DEF Bridge!ToSet
  <2> QED BY <2>4, <2>5, <2>6 DEF q
<1>7. /\ bridgeReached' \in [Bridge!Event -> Seq(Orbitals)] /\ bridgeReached'[f.e] = Append(was, x)
      /\ \A e \in Bridge!Event \ {f.e} : bridgeReached'[e] = bridgeReached[e]
  BY <1>1, <1>5 DEF BridgeInv
<1> HIDE DEF was, x, g
<1>8. \A h \in bridgeFlights \ {f} : h.e \in Bridge!Event \ {f.e}
  BY <1>1 DEF BridgeInv, Flight
<1>9. bridgeClass[f.e] # "none" /\ f.e \notin bridgeCounted
  BY DEF BridgeInv
<1>10. \A n \in new : n.e \in Bridge!Event \ {f.e} /\ n.e \notin bridgeCounted
  BY <1>9 DEF BridgeInv, Flight
<1>11. \A h : bridgeReached'[h.e] = bridgeReached[h.e] /\ OnItsWay(h) => OnItsWay(h)'
  BY DEF OnItsWay, ForOrbitals
<1>12. \A h \in (bridgeFlights \ {f}) \cup new : OnItsWay(h)'
  BY <1>7, <1>8, <1>10, <1>11 DEF BridgeInv
<1>13. \A h : h = g => OnItsWay(h)'
  BY <1>2, <1>3, <1>4, <1>5, <1>6, <1>7, SMTT(30) DEF OnItsWay, ForOrbitals
<1>14. bridgeFlights' = (bridgeFlights \ {f}) \cup {g} \cup new
  BY DEF g
<1>15. \A h \in bridgeFlights' : bridgeClass'[h.e] # "none" /\ h.e \notin bridgeCounted' /\ OnItsWay(h)'
  <2>1. \A h \in bridgeFlights \ {f} : bridgeClass'[h.e] # "none" /\ h.e \notin bridgeCounted
    BY <1>8 DEF BridgeInv
  <2>2. bridgeClass'[f.e] # "none"
    BY <1>1, <1>9
  <2> QED BY <1>2, <1>9, <1>10, <1>12, <1>13, <1>14, <2>1, <2>2
<1>16. \A h, k \in bridgeFlights' : h.e = k.e => h = k
  <2>1. \A h \in bridgeFlights, n \in new : h.e # n.e
    BY DEF BridgeInv
  <2> QED BY <1>2, <1>8, <1>10, <1>14, <2>1 DEF BridgeInv
<1>17. bridgeFlights' \subseteq Flight
  BY <1>2, <1>14 DEF BridgeInv
<1>18. \A e \in Bridge!Event : bridgeClass'[e] = "none" => bridgeReached'[e] = <<>> /\ e \notin bridgeCounted'
  BY <1>1, <1>7, <1>9 DEF BridgeInv
<1>19. Bridge!ForwardedOnceToAll'
  BY <1>1, <1>5, <1>7, <1>9 DEF BridgeInv, Bridge!ForwardedOnceToAll
<1> QED BY <1>7, <1>15, <1>16, <1>17, <1>18, <1>19 DEF BridgeInv

\* Every step of the bridge.
LEMMA BridgeStep ==
  ASSUME BridgeInv, Bridge!Next
  PROVE  BridgeInv'
<1>0. \A e : bridgeTarget' = bridgeTarget /\ bridgeReached' = bridgeReached => (OnItsWay(e)' <=> OnItsWay(e))
  BY DEF OnItsWay, ForOrbitals
<1>1. CASE Bridge!Connect
  <2>1. /\ bridgeConnected' \in BOOLEAN /\ bridgeSubscribed' \in {0, 1}
        /\ (~bridgeConnected' => bridgeSubscribed' = 0)
    <3>1. CASE bridgeConnected
      BY <1>1, <3>1 DEF Bridge!Connect, BridgeInv
    <3>2. CASE ~bridgeConnected
      BY <1>1, <3>2 DEF Bridge!Connect, BridgeInv
    <3> QED BY <3>1, <3>2
  <2>2. UNCHANGED <<bridgeTarget, bridgeClass, bridgeFlights, bridgeReached, bridgeCounted>>
    BY <1>1 DEF Bridge!Connect
  <2> QED BY <1>0, <2>1, <2>2 DEF BridgeInv, Bridge!ForwardedOnceToAll
<1>2. CASE Bridge!Disconnect
  BY <1>0, <1>2 DEF Bridge!Disconnect, BridgeInv, Bridge!ForwardedOnceToAll
<1>3. ASSUME NEW c \in Bridge!Class, Bridge!Emit(c) PROVE BridgeInv'
  <2>1. PICK e \in Bridge!Unemitted :
          /\ bridgeClass' = [bridgeClass EXCEPT ![e] = c]
          /\ bridgeFlights' = bridgeFlights \cup Bridge!Forwards(e, c)
    BY <1>3, NextIsUnemitted DEF Bridge!Emit
  <2>2. UNCHANGED <<bridgeTarget, bridgeConnected, bridgeSubscribed, bridgeReached, bridgeCounted>>
    BY <1>3 DEF Bridge!Emit
  <2>3. e \in Bridge!Event /\ bridgeClass[e] = "none" /\ c # "none"
    BY DEF Bridge!Unemitted, Bridge!Class
  <2> QED BY <2>1, <2>2, <2>3, EmitStep
<1>4. ASSUME NEW f \in bridgeFlights, Bridge!List(f) PROVE BridgeInv'
  <2>1. PICK order \in Bridge!SeqOf(Orbitals, Bridge!Cardinality(Orbitals)) :
          /\ Bridge!IsInjective(order) /\ Bridge!ToSet(order) = Orbitals
          /\ bridgeFlights' = (bridgeFlights \ {f}) \cup {[f EXCEPT !.at = "sending", !.left = order]}
    BY <1>4 DEF Bridge!List
  <2>2. PICK m \in 0..Bridge!Cardinality(Orbitals) : order \in [1..m -> Orbitals]
    BY <2>1, Zenon DEF Bridge!SeqOf
  <2>3. order \in Seq(Orbitals)
    <3> HIDE DEF Bridge!ToSet
    <3> QED BY <2>2
  <2> DEFINE g == [f EXCEPT !.at = "sending", !.left = order]
  <2>4. /\ f.at = "listing"
        /\ UNCHANGED <<bridgeTarget, bridgeConnected, bridgeSubscribed, bridgeClass, bridgeReached, bridgeCounted>>
    BY <1>4 DEF Bridge!List
  <2>5. /\ f \in Flight /\ f.e \in Bridge!Event /\ bridgeTarget = "broadcast" /\ bridgeReached[f.e] = <<>>
        /\ bridgeClass[f.e] # "none" /\ f.e \notin bridgeCounted
        /\ \A h \in bridgeFlights \ {f} : h.e # f.e
    BY <2>4 DEF BridgeInv, OnItsWay, Flight
  <2>6. g \in Flight /\ g.e = f.e /\ g.at = "sending" /\ g.left = order
    BY <2>3, <2>5 DEF Flight
  <2>7. bridgeFlights' = (bridgeFlights \ {f}) \cup {g}
    BY <2>1
  <2> HIDE DEF g
  <2>8. OnItsWay(g)
    <3>1. Bridge!ToSet(<<>>) = {}
      BY DEF Bridge!ToSet
    <3> QED BY <2>1, <2>5, <2>6, <3>1 DEF OnItsWay, ForOrbitals
  <2>9. \A h : OnItsWay(h)' <=> OnItsWay(h)
    BY <1>0, <2>4
  <2>10. \A h \in bridgeFlights' : bridgeClass'[h.e] # "none" /\ h.e \notin bridgeCounted' /\ OnItsWay(h)'
    BY <2>4, <2>5, <2>6, <2>7, <2>8, <2>9 DEF BridgeInv
  <2>11. \A h, k \in bridgeFlights' : h.e = k.e => h = k
    BY <2>5, <2>6, <2>7 DEF BridgeInv
  <2> QED BY <2>4, <2>6, <2>7, <2>10, <2>11 DEF BridgeInv, Bridge!ForwardedOnceToAll
<1>5. ASSUME NEW f \in bridgeFlights, Bridge!Count(f) PROVE BridgeInv'
  <2>1. /\ f.at = "sending" /\ f.left = <<>> /\ bridgeFlights' = bridgeFlights \ {f}
        /\ bridgeCounted' = bridgeCounted \cup {f.e}
        /\ UNCHANGED <<bridgeTarget, bridgeConnected, bridgeSubscribed, bridgeClass, bridgeReached>>
    BY <1>5 DEF Bridge!Count
  <2>2. f.e \in Bridge!Event /\ bridgeClass[f.e] # "none" /\ OnItsWay(f) /\ \A g \in bridgeFlights \ {f} : g.e # f.e
    BY DEF BridgeInv, Flight
  <2>3. Bridge!ToSet(bridgeReached[f.e]) = ForOrbitals
    BY <2>1, <2>2 DEF OnItsWay, Bridge!ToSet
  <2>4. Bridge!ForwardedOnceToAll'
    BY <2>1, <2>3 DEF BridgeInv, Bridge!ForwardedOnceToAll, ForOrbitals
  <2> QED BY <1>0, <2>1, <2>2, <2>4 DEF BridgeInv
<1>6. ASSUME NEW f \in bridgeFlights, Bridge!Fail(f) PROVE BridgeInv'
  BY <1>0, <1>6 DEF Bridge!Fail, BridgeInv, Bridge!ForwardedOnceToAll
<1>7. ASSUME NEW f \in bridgeFlights, NEW b \in BOOLEAN, Bridge!SendToOrbital(f, b) PROVE BridgeInv'
  <2>1. /\ f.at = "sending" /\ f.left # <<>>
        /\ bridgeReached' = [bridgeReached EXCEPT ![f.e] = Append(@, Head(f.left))]
        /\ UNCHANGED <<bridgeTarget, bridgeConnected, bridgeSubscribed, bridgeCounted>>
    BY <1>7 DEF Bridge!SendToOrbital
  <2>2. bridgeClass = [x \in Bridge!Event |-> bridgeClass[x]]
    BY DEF BridgeInv
  <2> DEFINE moved == (bridgeFlights \ {f}) \cup {[f EXCEPT !.left = Tail(@)]}
  <2>3. CASE b /\ Bridge!Unemitted # {}
    <3>1. PICK e \in Bridge!Unemitted :
            /\ bridgeClass' = [bridgeClass EXCEPT ![e] = "SERVER:"]
            /\ bridgeFlights' = moved \cup Bridge!Forwards(e, "SERVER:")
      BY <1>7, <2>3, NextIsUnemitted DEF Bridge!SendToOrbital
    <3>2. e \in Bridge!Event /\ bridgeClass[e] = "none"
      BY DEF Bridge!Unemitted
    <3> DEFINE new == Bridge!Forwards(e, "SERVER:")
    <3>3. \A n \in new : n \in Flight /\ n.e = e /\ OnItsWay(n) /\ \A m \in new : m = n
      BY <3>2, ForwardsStart
    <3>4. /\ bridgeClass'[e] = "SERVER:" /\ \A x \in Bridge!Event \ {e} : bridgeClass'[x] = bridgeClass[x]
          /\ bridgeClass' = [x \in Bridge!Event |-> bridgeClass'[x]]
      BY <2>2, <3>1, <3>2
    <3>5. bridgeFlights' = moved \cup new
      BY <3>1
    <3> HIDE DEF new
    <3>6. new \in SUBSET Flight
      BY <3>3
    <3>61. \A n, m \in new : n.e = m.e => n = m
      BY <3>3
    <3>7. \A n \in new : bridgeClass[n.e] = "none" /\ bridgeClass'[n.e] # "none" /\ OnItsWay(n)
      BY <3>2, <3>3, <3>4
    <3>8. \A x \in Bridge!Event : bridgeClass[x] # "none" => bridgeClass'[x] # "none"
      BY <3>2, <3>4
    <3>9. bridgeFlights' = (bridgeFlights \ {f}) \cup {[f EXCEPT !.left = Tail(@)]} \cup new
      BY <3>5
    <3> QED BY <2>1, <3>4, <3>9, <3>6, <3>61, <3>7, <3>8, SendStep, Zenon
  <2>4. CASE ~(b /\ Bridge!Unemitted # {})
    <3>1. bridgeFlights' = moved /\ bridgeClass' = bridgeClass
      BY <1>7, <2>4 DEF Bridge!SendToOrbital
    <3> DEFINE new == {}
    <3>2. bridgeFlights' = (bridgeFlights \ {f}) \cup {[f EXCEPT !.left = Tail(@)]} \cup new
      BY <3>1
    <3>3. bridgeClass' = [x \in Bridge!Event |-> bridgeClass'[x]]
      BY <2>2, <3>1
    <3>4. /\ new \in SUBSET Flight
          /\ \A n \in new : bridgeClass[n.e] = "none" /\ bridgeClass'[n.e] # "none" /\ OnItsWay(n)
          /\ \A n, m \in new : n.e = m.e => n = m
          /\ \A x \in Bridge!Event : bridgeClass[x] # "none" => bridgeClass'[x] # "none"
      BY <3>1
    <3> HIDE DEF new
    <3> QED BY <2>1, <3>2, <3>3, <3>4, SendStep, Zenon
  <2> QED BY <2>3, <2>4
<1> QED BY <1>1, <1>2, <1>3, <1>4, <1>5, <1>6, <1>7 DEF Bridge!Next

-----------------------------------------------------------------------------
(* Who owns the rows that are seeded *)

\* All stamped rows have the owner the store stamps, which is the viewer unless
\* a naming waits for the schema or the viewer has no id; nothing waits once the
\* schema is there.
PersonaInv ==
  /\ personaUser \in Register!Stamps /\ personaOwnerId \in Register!Stamps
  /\ personaOwner \in [Entities -> Register!Stamps \cup {Register!Absent, Register!Declared}]
  /\ \A e \in Entities : personaOwner[e] \in Register!Stamps => personaOwner[e] = personaOwnerId
  /\ personaPending \/ personaUser = NoViewer \/ personaOwnerId = personaUser
  /\ personaPending \in BOOLEAN /\ personaResolved \in BOOLEAN
  /\ personaResolved => ~personaPending

\* Nothing is stamped yet.
LEMMA PersonaInit == ASSUME Register!SeedInit PROVE PersonaInv
BY ServerAssumption DEF Register!SeedInit, PersonaInv, Register!Stamps, Register!Absent, Register!Declared

\* Every step of naming the viewer and registering.
LEMMA PersonaStep ==
  ASSUME PersonaInv, Register!SeedNext
  PROVE  PersonaInv'
<1> USE ServerAssumption DEF PersonaInv, Register!Stamps, Register!Absent, Register!Declared,
        Register!Restamped, Register!Seeded
<1>1. ASSUME NEW u \in Register!Stamps, Register!SetDefaultUser(u) PROVE PersonaInv'
  <2>1. personaUser' = u /\ UNCHANGED personaResolved
    BY <1>1 DEF Register!SetDefaultUser
  <2>2. CASE u # NoViewer /\ u # personaUser /\ personaResolved
    <3>1. personaOwnerId' = u /\ personaOwner' = Register!Restamped(personaOwner, u)
             /\ UNCHANGED personaPending
      BY <1>1, <2>2 DEF Register!SetDefaultUser, Register!RestampGated
    <3> QED BY <2>1, <3>1
  <2>3. CASE u # NoViewer /\ u # personaUser /\ ~personaResolved
    <3>1. personaPending' = TRUE /\ UNCHANGED <<personaOwnerId, personaOwner>>
      BY <1>1, <2>3 DEF Register!SetDefaultUser, Register!RestampGated
    <3> QED BY <2>1, <2>3, <3>1
  <2>4. CASE u = NoViewer \/ u = personaUser
    <3>1. UNCHANGED <<personaPending, personaOwnerId, personaOwner>>
      BY <1>1, <2>4 DEF Register!SetDefaultUser
    <3> QED BY <2>1, <2>4, <3>1
  <2> QED BY <2>2, <2>3, <2>4
<1>2. CASE Register!BeginRegister
  BY <1>2 DEF Register!BeginRegister
<1>3. ASSUME NEW v \in Viewers, Register!PrepareMockSeeding(v) PROVE PersonaInv'
  BY <1>3 DEF Register!PrepareMockSeeding
<1>4. ASSUME NEW e \in Entities, Register!RegisterOrbital(e) PROVE PersonaInv'
  BY <1>4 DEF Register!RegisterOrbital
<1>5. CASE Register!OpenKernel
  BY <1>5 DEF Register!OpenKernel
<1>6. CASE Register!Finish
  <2>1. personaResolved' = TRUE /\ personaPending' = FALSE /\ UNCHANGED personaUser
    BY <1>6 DEF Register!Finish, Register!FlushPendingOwnerRestamp
  <2>2. CASE personaPending /\ personaUser # NoViewer
    <3>1. personaOwnerId' = personaUser /\ personaOwner' = Register!Restamped(personaOwner, personaUser)
      BY <1>6, <2>2 DEF Register!Finish, Register!FlushPendingOwnerRestamp
    <3> QED BY <2>1, <3>1
  <2>3. CASE ~(personaPending /\ personaUser # NoViewer)
    <3>1. UNCHANGED <<personaOwnerId, personaOwner>>
      BY <1>6, <2>3 DEF Register!Finish, Register!FlushPendingOwnerRestamp
    <3> QED BY <2>1, <2>3, <3>1
  <2> QED BY <2>2, <2>3
<1>7. CASE Register!FailSeeding
  BY <1>7 DEF Register!FailSeeding
<1>8. CASE Register!ResetMockPersistence
  BY <1>8 DEF Register!ResetMockPersistence
<1>9. CASE Register!ResetCircuitState
  BY <1>9 DEF Register!ResetCircuitState
<1>10. CASE Register!UnregisterAll
  BY <1>10 DEF Register!UnregisterAll
<1> QED BY <1>1, <1>2, <1>3, <1>4, <1>5, <1>6, <1>7, <1>8, <1>9, <1>10 DEF Register!SeedNext

\* So once nothing is pending, the rows that are stamped are the viewer's.
LEMMA PersonaHolds == ASSUME PersonaInv PROVE Register!ViewerOwnsTheRows
BY DEF PersonaInv, Register!ViewerOwnsTheRows

-----------------------------------------------------------------------------
(* The watch of the pages *)

Ready(t) == [kind |-> "ready", tab |-> t]

\* What the page of a tab will be told last; it may be unable to.
WillWatch(t) ==
  IF pageInbox[t] = <<>> THEN pageAttached[t] \/ pageFailed[t] ELSE pageInbox[t][Len(pageInbox[t])].kind = "watch"

\* A page has reported each element of its executor's memory once.
ReportInv ==
  /\ pageReported = [t \in Tabs |-> pageReported[t]]
  /\ pageTold = [t \in Tabs |-> [x \in Elements |-> IF x \in pageReported[t] THEN 1 ELSE 0]]

\* While the watch is placed and no page ended its loop, a page that runs was
\* reached by the loop over the tabs or has yet to be, or its report that it is
\* there is on its way.
WatchInv ==
  /\ pageLive = [t \in Tabs |-> pageLive[t]] /\ pageAttached = [t \in Tabs |-> pageAttached[t]]
  /\ pageFailed \in [Tabs -> BOOLEAN] /\ pageGaveUp \in BOOLEAN
  /\ pageInbox \in [Tabs -> Seq([kind : Watched!Loops, by : Watched!Loops \cup {"ready"}])]
  /\ pageOutbox \in Seq([kind : {"ready", "element"}, tab : Tabs])
  /\ pageLoop \in [Watched!Loops -> [left : SUBSET Tabs, at : Tabs \cup {NoTab}]]
  /\ pageWatching => pageLoop["unwatch"].left = {}
  /\ \A t \in Tabs :
       pageWatching /\ ~pageGaveUp /\ pageLive[t] /\ t \notin pageLoop["watch"].left
         /\ (\A i \in 1..Len(pageOutbox) : pageOutbox[i] # Ready(t))
       => WillWatch(t)

\* No page runs yet.
LEMMA PageInit == ASSUME Watched!Init PROVE ReportInv /\ WatchInv
<1>1. pageFailed \in [Tabs -> BOOLEAN] /\ pageGaveUp \in BOOLEAN
  BY DEF Watched!Init
<1>2. ReportInv
  BY DEF Watched!Init, ReportInv
<1> QED BY <1>1, <1>2 DEF Watched!Init, WatchInv, Watched!Loops, Watched!Idle

\* A page counts what it reports in the memory it asks before it reports.
LEMMA ReportStep ==
  ASSUME ReportInv, Watched!Next
  PROVE  ReportInv'
<1> USE DEF ReportInv
<1>1. ASSUME NEW t \in Tabs, Watched!PageLoads(t) PROVE ReportInv'
  BY <1>1 DEF Watched!PageLoads
<1>2. ASSUME NEW t \in Tabs, NEW visible, Watched!Report(t, visible, pageReported[t])
      PROVE  ReportInv'
  <2> DEFINE new == visible \ pageReported[t]
  <2>1. pageReported' = [pageReported EXCEPT ![t] = pageReported[t] \cup new]
    BY <1>2 DEF Watched!Report
  <2>2. pageTold' = [pageTold EXCEPT ![t] = [x \in Elements |-> @[x] + IF x \in new THEN 1 ELSE 0]]
    BY <1>2 DEF Watched!Report
  <2>3. \A x \in Elements : pageTold[t][x] + (IF x \in new THEN 1 ELSE 0)
                              = IF x \in pageReported[t] \cup new THEN 1 ELSE 0
    OBVIOUS
  <2>4. pageTold'[t] = [x \in Elements |-> IF x \in pageReported'[t] THEN 1 ELSE 0]
    BY <2>1, <2>2, <2>3
  <2>5. \A s \in Tabs \ {t} : pageTold'[s] = pageTold[s] /\ pageReported'[s] = pageReported[s]
    BY <2>1, <2>2
  <2>6. pageReported' = [s \in Tabs |-> pageReported'[s]] /\ pageTold' = [s \in Tabs |-> pageTold'[s]]
    BY <2>1, <2>2
  <2> HIDE DEF new
  <2> QED BY <2>4, <2>5, <2>6
<1>3. CASE UNCHANGED <<pageReported, pageTold>>
  BY <1>3
<1>4. ASSUME NEW t \in Tabs, Watched!Command(t) PROVE ReportInv'
  <2>1. UNCHANGED <<pageReported, pageTold>> \/ \E visible : Watched!Report(t, visible, pageReported[t])
    BY <1>4 DEF Watched!Command, Watched!RunsInPage, Watched!WatchPage, Watched!WatchFails,
       Watched!ReportSome, Watched!UnwatchPage
  <2> QED BY <1>2, <1>3, <2>1
<1>5. ASSUME NEW t \in Tabs, NEW x \in Elements, Watched!Mutates(t, x) PROVE ReportInv'
  <2>1. UNCHANGED <<pageReported, pageTold>> \/ \E visible : Watched!Report(t, visible, pageReported[t])
    BY <1>5 DEF Watched!Mutates, Watched!ReportSome
  <2> QED BY <1>2, <1>3, <2>1
<1> QED BY <1>1, <1>3, <1>4, <1>5 DEF Watched!Next, Watched!PageUnloads, Watched!Watch, Watched!Unwatch,
        Watched!Send, Watched!OnReady, Watched!OnElement, Watched!GiveUp, Watched!AwaitReady,
        Watched!WorkerRestarts, Watched!pages

\* A page told of its executor's elements sends nothing but those.
LEMMA ReportsArrive ==
  ASSUME WatchInv, NEW t \in Tabs, NEW visible, NEW seen, Watched!Report(t, visible, seen)
  PROVE  /\ pageOutbox' \in Seq([kind : {"ready", "element"}, tab : Tabs])
         /\ \A s \in Tabs : (\A i \in 1..Len(pageOutbox') : pageOutbox'[i] # Ready(s))
              => \A i \in 1..Len(pageOutbox) : pageOutbox[i] # Ready(s)
<1>1. CASE pageOutbox' = pageOutbox
  BY <1>1 DEF WatchInv
<1>2. CASE pageOutbox' = Append(pageOutbox, [kind |-> "element", tab |-> t])
  <2>1. pageOutbox' \in Seq([kind : {"ready", "element"}, tab : Tabs])
          /\ Len(pageOutbox') = Len(pageOutbox) + 1
          /\ \A i \in 1..Len(pageOutbox) : pageOutbox'[i] = pageOutbox[i]
    BY <1>2 DEF WatchInv
  <2> QED BY <2>1 DEF WatchInv
<1> QED BY <1>1, <1>2 DEF Watched!Report

\* Every step of the pages, the worker and its loops keeps the watch whole.
LEMMA WatchStep ==
  ASSUME WatchInv, Watched!Next
  PROVE  WatchInv'
<1> USE DEF Watched!Loops
<1>1. ASSUME NEW t \in Tabs, Watched!PageLoads(t) PROVE WatchInv'
  <2>1. /\ pageLive' = [pageLive EXCEPT ![t] = TRUE] /\ pageAttached' = [pageAttached EXCEPT ![t] = FALSE]
        /\ pageFailed' = [pageFailed EXCEPT ![t] = FALSE]
        /\ pageOutbox' = Append(pageOutbox, Ready(t))
        /\ UNCHANGED <<pageInbox, pageWatching, pageGaveUp, pageLoop>>
    BY <1>1 DEF Watched!PageLoads, Watched!worker, Ready
  <2>2. /\ pageOutbox' \in Seq([kind : {"ready", "element"}, tab : Tabs])
        /\ Len(pageOutbox') = Len(pageOutbox) + 1 /\ pageOutbox'[Len(pageOutbox')] = Ready(t)
        /\ \A i \in 1..Len(pageOutbox) : pageOutbox'[i] = pageOutbox[i]
    BY <2>1 DEF WatchInv, Ready
  <2>3. \A s \in Tabs : (\A i \in 1..Len(pageOutbox') : pageOutbox'[i] # Ready(s))
          => s # t /\ \A i \in 1..Len(pageOutbox) : pageOutbox[i] # Ready(s)
    <3>1. Len(pageOutbox) \in Nat
      BY DEF WatchInv
    <3>2. Len(pageOutbox') \in 1..Len(pageOutbox') /\ 1..Len(pageOutbox) \subseteq 1..Len(pageOutbox')
      BY <2>2, <3>1
    <3> QED BY <2>2, <3>2, Zenon
  <2> QED BY <2>1, <2>2, <2>3 DEF WatchInv, WillWatch
<1>2. ASSUME NEW t \in Tabs, Watched!PageUnloads(t) PROVE WatchInv'
  BY <1>2 DEF Watched!PageUnloads, Watched!worker, WatchInv, WillWatch
<1>3. ASSUME NEW t \in Tabs, Watched!Command(t) PROVE WatchInv'
  <2> DEFINE c == Head(pageInbox[t])
  <2>1. /\ pageInbox[t] # <<>> /\ pageInbox' = [pageInbox EXCEPT ![t] = Tail(@)]
        /\ UNCHANGED <<pageLive, pageWatching>>
    BY <1>3 DEF Watched!Command
  <2>r. PICK fails \in BOOLEAN : /\ fails => pageLive[t] /\ c.kind = "watch"
                                 /\ Watched!RunsInPage(t, c.kind, fails)
                                 /\ Watched!Replied(t, c.by, fails)
    BY <1>3 DEF Watched!Command
  <2> HIDE DEF c
  <2>2. /\ pageLoop' \in [Watched!Loops -> [left : SUBSET Tabs, at : Tabs \cup {NoTab}]]
        /\ \A k \in Watched!Loops : pageLoop'[k].left \subseteq pageLoop[k].left
        /\ ~pageGaveUp' => ~pageGaveUp /\ \A k \in Watched!Loops : pageLoop'[k].left = pageLoop[k].left
    <3>1. CASE UNCHANGED <<pageLoop, pageGaveUp>>
      BY <3>1 DEF WatchInv
    <3>2. ASSUME NEW k \in Watched!Loops, pageLoop' = [pageLoop EXCEPT ![k].at = NoTab], UNCHANGED pageGaveUp
          PROVE  <2>2!1 /\ <2>2!2 /\ <2>2!3
      <4>1. pageLoop'[k] = [pageLoop[k] EXCEPT !.at = NoTab] /\ pageLoop'[k] \in [left : SUBSET Tabs, at : Tabs \cup {NoTab}]
        BY <3>2 DEF WatchInv
      <4> QED BY <3>2, <4>1 DEF WatchInv
    <3>3. ASSUME NEW k \in Watched!Loops, pageLoop' = [pageLoop EXCEPT ![k] = Watched!Idle], pageGaveUp' = TRUE
          PROVE  <2>2!1 /\ <2>2!2 /\ <2>2!3
      <4>1. Watched!Idle.left = {} /\ Watched!Idle \in [left : SUBSET Tabs, at : Tabs \cup {NoTab}]
        BY DEF Watched!Idle
      <4> QED BY <3>3, <4>1 DEF WatchInv
    <3>4. \/ UNCHANGED <<pageLoop, pageGaveUp>>
          \/ /\ c.by \in Watched!Loops
             /\ \/ pageLoop' = [pageLoop EXCEPT ![c.by].at = NoTab] /\ UNCHANGED pageGaveUp
                \/ pageLoop' = [pageLoop EXCEPT ![c.by] = Watched!Idle] /\ pageGaveUp' = TRUE
      BY <2>r DEF Watched!Replied
    <3>5. CASE c.by \in Watched!Loops
      <4> PICK k \in Watched!Loops : k = c.by
        BY <3>5
      <4> QED BY <3>1, <3>2, <3>3, <3>4
    <3> QED BY <3>1, <3>4, <3>5
  <2>3. /\ pageAttached' = [s \in Tabs |-> pageAttached'[s]] /\ pageFailed' = [s \in Tabs |-> pageFailed'[s]]
        /\ \A s \in Tabs \ {t} : pageAttached'[s] = pageAttached[s] /\ pageFailed'[s] = pageFailed[s]
        /\ pageLive[t] /\ c.kind = "watch" => pageAttached'[t] \/ pageFailed'[t]
    BY <2>r DEF Watched!RunsInPage, Watched!WatchPage, Watched!WatchFails, Watched!UnwatchPage, WatchInv
  <2>4. /\ pageOutbox' \in Seq([kind : {"ready", "element"}, tab : Tabs])
        /\ \A s \in Tabs : (\A i \in 1..Len(pageOutbox') : pageOutbox'[i] # Ready(s))
              => \A i \in 1..Len(pageOutbox) : pageOutbox[i] # Ready(s)
    <3>1. pageOutbox' = pageOutbox \/ \E visible, seen : Watched!Report(t, visible, seen)
      BY <2>r DEF Watched!RunsInPage, Watched!WatchPage, Watched!WatchFails, Watched!ReportSome,
         Watched!UnwatchPage
    <3> QED BY <3>1, ReportsArrive DEF WatchInv
  <2>5. /\ pageInbox' \in [Tabs -> Seq([kind : Watched!Loops, by : Watched!Loops \cup {"ready"}])]
        /\ \A s \in Tabs \ {t} : pageInbox'[s] = pageInbox[s]
        /\ pageInbox'[t] = Tail(pageInbox[t])
    BY <2>1 DEF WatchInv
  <2>6. /\ pageInbox'[t] # <<>> => pageInbox'[t][Len(pageInbox'[t])] = pageInbox[t][Len(pageInbox[t])]
        /\ pageInbox'[t] = <<>> => c = pageInbox[t][Len(pageInbox[t])]
    <3> DEFINE q == pageInbox[t]
    <3>1. q \in Seq([kind : Watched!Loops, by : Watched!Loops \cup {"ready"}]) /\ q # <<>>
      BY <2>1 DEF WatchInv
    <3> HIDE DEF q
    <3>2. /\ Tail(q) # <<>> => Tail(q)[Len(Tail(q))] = q[Len(q)]
          /\ Tail(q) = <<>> => Head(q) = q[Len(q)]
      <4>1. Len(q) \in Nat \ {0} /\ Len(Tail(q)) = Len(q) - 1 /\ Head(q) = q[1]
              /\ \A i \in 1..Len(q) - 1 : Tail(q)[i] = q[i + 1]
        BY <3>1
      <4>2. Tail(q) # <<>> => Len(q) - 1 \in 1..Len(q) - 1
        BY <3>1, <4>1
      <4>3. Tail(q) = <<>> => Len(q) = 1
        BY <4>1
      <4> QED BY <4>1, <4>2, <4>3
    <3> QED BY <2>5, <3>2 DEF q, c
  <2>7. \A s \in Tabs : pageLive[s] /\ WillWatch(s) => WillWatch(s)'
    BY <2>1, <2>3, <2>5, <2>6 DEF WillWatch
  <2>8. pageGaveUp' \in BOOLEAN
    BY <2>r DEF Watched!Replied, WatchInv
  <2>9. pageFailed' \in [Tabs -> BOOLEAN]
    <3>1. pageFailed' = pageFailed \/ \E b \in BOOLEAN : pageFailed' = [pageFailed EXCEPT ![t] = b]
      BY <2>r DEF Watched!RunsInPage
    <3> QED BY <3>1 DEF WatchInv
  <2> QED BY <2>1, <2>2, <2>3, <2>4, <2>5, <2>7, <2>8, <2>9 DEF WatchInv
<1>4. ASSUME NEW t \in Tabs, NEW x \in Elements, Watched!Mutates(t, x) PROVE WatchInv'
  <2>1. UNCHANGED <<pageLive, pageAttached, pageFailed, pageInbox, pageWatching, pageGaveUp, pageLoop>>
    BY <1>4 DEF Watched!Mutates, Watched!worker
  <2>2. pageOutbox' = pageOutbox \/ \E visible, seen : Watched!Report(t, visible, seen)
    BY <1>4 DEF Watched!Mutates, Watched!ReportSome
  <2>3. /\ pageOutbox' \in Seq([kind : {"ready", "element"}, tab : Tabs])
        /\ \A s \in Tabs : (\A i \in 1..Len(pageOutbox') : pageOutbox'[i] # Ready(s))
              => \A i \in 1..Len(pageOutbox) : pageOutbox[i] # Ready(s)
    BY <2>2, ReportsArrive DEF WatchInv
  <2> QED BY <2>1, <2>3 DEF WatchInv, WillWatch
<1>5. CASE Watched!Watch
  <2>1. /\ pageWatching' = TRUE /\ pageLoop' = [pageLoop EXCEPT !["watch"].left = Tabs]
        /\ pageLoop["unwatch"] = Watched!Idle
        /\ UNCHANGED <<pageLive, pageAttached, pageFailed, pageInbox, pageOutbox>>
    BY <1>5 DEF Watched!Watch, Watched!MayStart, Watched!pages
  <2>3. pageGaveUp' \in BOOLEAN
    BY <1>5 DEF Watched!Watch
  <2>2. /\ pageLoop'["watch"].left = Tabs /\ pageLoop'["unwatch"].left = {}
        /\ pageLoop' \in [Watched!Loops -> [left : SUBSET Tabs, at : Tabs \cup {NoTab}]]
    <3>1. pageLoop["watch"] \in [left : SUBSET Tabs, at : Tabs \cup {NoTab}]
            /\ pageLoop'["watch"] = [pageLoop["watch"] EXCEPT !.left = Tabs]
            /\ pageLoop'["unwatch"] = pageLoop["unwatch"]
      BY <2>1 DEF WatchInv
    <3>2. pageLoop'["watch"] \in [left : SUBSET Tabs, at : Tabs \cup {NoTab}] /\ pageLoop'["watch"].left = Tabs
      BY <3>1
    <3>3. pageLoop' = [k \in Watched!Loops |-> pageLoop'[k]]
      BY <2>1 DEF WatchInv
    <3>4. pageLoop["unwatch"].left = {} /\ pageLoop["unwatch"] \in [left : SUBSET Tabs, at : Tabs \cup {NoTab}]
      BY <2>1 DEF WatchInv, Watched!Idle
    <3> QED BY <3>1, <3>2, <3>3, <3>4
  <2> QED BY <2>1, <2>2, <2>3 DEF WatchInv
<1>6. CASE Watched!Unwatch
  <2>1. /\ pageWatching' = FALSE /\ pageLoop' = [pageLoop EXCEPT !["unwatch"].left = Tabs]
        /\ UNCHANGED <<pageLive, pageAttached, pageFailed, pageInbox, pageOutbox>>
    BY <1>6 DEF Watched!Unwatch, Watched!pages
  <2>2. pageLoop' \in [Watched!Loops -> [left : SUBSET Tabs, at : Tabs \cup {NoTab}]]
    BY <2>1 DEF WatchInv
  <2>3. pageGaveUp' \in BOOLEAN
    BY <1>6 DEF Watched!Unwatch, WatchInv
  <2> QED BY <2>1, <2>2, <2>3 DEF WatchInv
<1>7. ASSUME NEW k \in Watched!Loops, Watched!Send(k) PROVE WatchInv'
  <2>1. PICK t \in pageLoop[k].left :
          /\ pageLoop' = [pageLoop EXCEPT ![k] = [left |-> @.left \ {t}, at |-> t]]
          /\ pageInbox' = [pageInbox EXCEPT ![t] = Append(@, [kind |-> k, by |-> k])]
    BY <1>7 DEF Watched!Send
  <2>2. UNCHANGED <<pageLive, pageAttached, pageFailed, pageOutbox, pageWatching, pageGaveUp>>
    BY <1>7 DEF Watched!Send, Watched!pages
  <2>3. t \in Tabs /\ pageLoop[k] \in [left : SUBSET Tabs, at : Tabs \cup {NoTab}]
    BY <2>1 DEF WatchInv
  <2>4. /\ pageLoop' \in [Watched!Loops -> [left : SUBSET Tabs, at : Tabs \cup {NoTab}]]
        /\ pageLoop'[k].left = pageLoop[k].left \ {t}
        /\ \A j \in Watched!Loops \ {k} : pageLoop'[j] = pageLoop[j]
    BY <2>1, <2>3 DEF WatchInv
  <2>5. /\ pageInbox' \in [Tabs -> Seq([kind : Watched!Loops, by : Watched!Loops \cup {"ready"}])]
        /\ \A s \in Tabs \ {t} : pageInbox'[s] = pageInbox[s]
        /\ pageInbox'[t] # <<>> /\ pageInbox'[t][Len(pageInbox'[t])].kind = k
    <3> DEFINE q == pageInbox[t]
               e == [kind |-> k, by |-> k]
    <3>1. q \in Seq([kind : Watched!Loops, by : Watched!Loops \cup {"ready"}])
            /\ e \in [kind : Watched!Loops, by : Watched!Loops \cup {"ready"}] /\ e.kind = k
      BY <2>3 DEF WatchInv
    <3> HIDE DEF q, e
    <3>2. /\ Append(q, e) \in Seq([kind : Watched!Loops, by : Watched!Loops \cup {"ready"}])
          /\ Append(q, e) # <<>> /\ Append(q, e)[Len(Append(q, e))] = e
      BY <3>1
    <3>3. pageInbox' = [pageInbox EXCEPT ![t] = Append(q, e)]
      BY <2>1 DEF q, e
    <3> QED BY <2>3, <3>1, <3>2, <3>3 DEF WatchInv
  <2>6. pageWatching => k = "watch"
    BY <2>1 DEF WatchInv
  <2>7. \A s \in Tabs \ {t} : WillWatch(s) => WillWatch(s)'
    BY <2>2, <2>5 DEF WillWatch
  <2>8. k = "watch" => WillWatch(t)'
    BY <2>5 DEF WillWatch
  <2>9. k = "watch" => /\ pageLoop'["unwatch"].left = pageLoop["unwatch"].left
                       /\ pageLoop'["watch"].left = pageLoop["watch"].left \ {t}
    BY <2>4
  <2> QED BY <2>2, <2>4, <2>5, <2>6, <2>7, <2>8, <2>9 DEF WatchInv
<1>8. CASE Watched!OnReady
  <2> DEFINE t == Head(pageOutbox).tab
  <2>1. /\ pageOutbox # <<>> /\ Head(pageOutbox).kind = "ready" /\ pageOutbox' = Tail(pageOutbox)
        /\ UNCHANGED <<pageLive, pageAttached, pageFailed, pageWatching, pageGaveUp, pageLoop>>
        /\ Watched!Attach(t)
    BY <1>8 DEF Watched!OnReady, Watched!pages
  <2>2. Head(pageOutbox) = Ready(t) /\ t \in Tabs
    <3>1. PICK h \in [kind : {"ready", "element"}, tab : Tabs] : h = Head(pageOutbox)
      <4>1. pageOutbox \in Seq([kind : {"ready", "element"}, tab : Tabs])
        BY DEF WatchInv
      <4>2. Head(pageOutbox) \in [kind : {"ready", "element"}, tab : Tabs]
        BY <2>1, <4>1, TailFacts
      <4> QED BY <4>2
    <3>2. h.kind = "ready" /\ h.tab = t
      BY <2>1, <3>1
    <3> QED BY <3>1, <3>2 DEF Ready
  <2> HIDE DEF t
  <2>3. /\ pageOutbox' \in Seq([kind : {"ready", "element"}, tab : Tabs])
        /\ \A s \in Tabs : s # t /\ (\A i \in 1..Len(pageOutbox') : pageOutbox'[i] # Ready(s))
             => \A i \in 1..Len(pageOutbox) : pageOutbox[i] # Ready(s)
    <3>1. /\ pageOutbox \in Seq([kind : {"ready", "element"}, tab : Tabs])
          /\ pageOutbox' \in Seq([kind : {"ready", "element"}, tab : Tabs])
          /\ Len(pageOutbox') = Len(pageOutbox) - 1 /\ pageOutbox[1] = Ready(t)
          /\ \A i \in 1..Len(pageOutbox') : pageOutbox'[i] = pageOutbox[i + 1]
      BY <2>1, <2>2 DEF WatchInv
    <3>2. ASSUME NEW s \in Tabs, s # t, \A i \in 1..Len(pageOutbox') : pageOutbox'[i] # Ready(s),
                 NEW i \in 1..Len(pageOutbox)
          PROVE  pageOutbox[i] # Ready(s)
      <4>1. CASE i = 1
        BY <3>1, <3>2, <4>1 DEF Ready
      <4>2. CASE i # 1
        <5>1. i - 1 \in 1..Len(pageOutbox') /\ (i - 1) + 1 = i
          BY <3>1, <4>2
        <5> QED BY <3>1, <3>2, <5>1
      <4> QED BY <4>1, <4>2
    <3> QED BY <3>1, <3>2
  <2>4. CASE ~pageWatching
    <3>1. pageInbox' = pageInbox
      BY <2>1, <2>4 DEF Watched!Attach
    <3> QED BY <2>1, <2>3, <2>4, <3>1 DEF WatchInv
  <2>5. CASE pageWatching
    <3> DEFINE e == [kind |-> "watch", by |-> "ready"]
    <3>1. pageInbox' = [pageInbox EXCEPT ![t] = Append(@, e)]
      BY <2>1, <2>5 DEF Watched!Attach
    <3>2. /\ pageInbox' \in [Tabs -> Seq([kind : Watched!Loops, by : Watched!Loops \cup {"ready"}])]
          /\ \A s \in Tabs \ {t} : pageInbox'[s] = pageInbox[s]
          /\ pageInbox'[t] # <<>> /\ pageInbox'[t][Len(pageInbox'[t])].kind = "watch"
      <4> DEFINE q == pageInbox[t]
      <4>1. q \in Seq([kind : Watched!Loops, by : Watched!Loops \cup {"ready"}])
              /\ e \in [kind : Watched!Loops, by : Watched!Loops \cup {"ready"}] /\ e.kind = "watch"
        BY <2>2 DEF WatchInv
      <4>2. pageInbox' = [pageInbox EXCEPT ![t] = Append(q, e)]
        BY <3>1
      <4> HIDE DEF q, e
      <4>3. /\ Append(q, e) \in Seq([kind : Watched!Loops, by : Watched!Loops \cup {"ready"}])
            /\ Append(q, e) # <<>> /\ Append(q, e)[Len(Append(q, e))] = e
        BY <4>1, AppendFacts
      <4> QED BY <2>2, <4>1, <4>2, <4>3 DEF WatchInv
    <3>3. \A s \in Tabs \ {t} : WillWatch(s) => WillWatch(s)'
      BY <2>1, <3>2 DEF WillWatch
    <3>4. \A s \in Tabs : s = t => WillWatch(s)'
      BY <3>2 DEF WillWatch
    <3> QED BY <2>1, <2>3, <3>2, <3>3, <3>4 DEF WatchInv
  <2> QED BY <2>4, <2>5
<1>9. CASE Watched!OnElement
  <2>1. /\ pageOutbox # <<>> /\ Head(pageOutbox).kind = "element" /\ pageOutbox' = Tail(pageOutbox)
        /\ UNCHANGED <<pageLive, pageAttached, pageFailed, pageInbox, pageWatching, pageGaveUp, pageLoop>>
    BY <1>9 DEF Watched!OnElement, Watched!pages, Watched!worker
  <2>2. /\ pageOutbox \in Seq([kind : {"ready", "element"}, tab : Tabs])
        /\ pageOutbox' \in Seq([kind : {"ready", "element"}, tab : Tabs])
        /\ Len(pageOutbox') = Len(pageOutbox) - 1 /\ pageOutbox[1].kind = "element"
        /\ \A i \in 1..Len(pageOutbox') : pageOutbox'[i] = pageOutbox[i + 1]
    BY <2>1 DEF WatchInv
  <2>3. ASSUME NEW s \in Tabs, \A i \in 1..Len(pageOutbox') : pageOutbox'[i] # Ready(s),
               NEW i \in 1..Len(pageOutbox)
        PROVE  pageOutbox[i] # Ready(s)
    <3>1. CASE i = 1
      BY <2>2, <3>1 DEF Ready
    <3>2. CASE i # 1
      <4>1. i - 1 \in 1..Len(pageOutbox') /\ (i - 1) + 1 = i
        BY <2>2, <3>2
      <4> QED BY <2>2, <2>3, <4>1
    <3> QED BY <3>1, <3>2
  <2>4. \A s \in Tabs : (\A i \in 1..Len(pageOutbox') : pageOutbox'[i] # Ready(s))
          => \A i \in 1..Len(pageOutbox) : pageOutbox[i] # Ready(s)
    BY <2>3
  <2> QED BY <2>1, <2>2, <2>4 DEF WatchInv, WillWatch
<1>10. CASE UNCHANGED <<pageLive, pageAttached, pageFailed, pageInbox, pageOutbox, pageWatching,
                         pageGaveUp, pageLoop>>
  BY <1>10 DEF WatchInv, WillWatch
<1>11. CASE Watched!WorkerRestarts
  <2>1. /\ pageWatching' = FALSE /\ pageLoop' = [k \in Watched!Loops |-> Watched!Idle]
        /\ pageInbox' = [t \in Tabs |-> [i \in DOMAIN pageInbox[t] |-> [pageInbox[t][i] EXCEPT !.by = "ready"]]]
        /\ UNCHANGED <<pageLive, pageAttached, pageFailed, pageOutbox>>
    BY <1>11 DEF Watched!WorkerRestarts, Watched!pages
  <2>2. pageInbox' \in [Tabs -> Seq([kind : Watched!Loops, by : Watched!Loops \cup {"ready"}])]
    <3> SUFFICES ASSUME NEW t \in Tabs
                 PROVE  [i \in DOMAIN pageInbox[t] |-> [pageInbox[t][i] EXCEPT !.by = "ready"]]
                          \in Seq([kind : Watched!Loops, by : Watched!Loops \cup {"ready"}])
      BY <2>1
    <3> DEFINE S == [kind : Watched!Loops, by : Watched!Loops \cup {"ready"}]
    <3>1. PICK q : q = pageInbox[t]
      OBVIOUS
    <3>2. q \in Seq(S)
      BY <3>1 DEF WatchInv
    <3>3. \A m \in S : [m EXCEPT !.by = "ready"] \in S
      OBVIOUS
    <3> HIDE DEF S
    <3>4. DOMAIN q = 1..Len(q) /\ Len(q) \in Nat /\ \A i \in 1..Len(q) : q[i] \in S
      BY <3>2
    <3>5. [i \in 1..Len(q) |-> [q[i] EXCEPT !.by = "ready"]] \in Seq(S)
      BY <3>3, <3>4
    <3> QED BY <3>1, <3>4, <3>5 DEF S
  <2>3. pageGaveUp' \in BOOLEAN
    BY <1>11 DEF Watched!WorkerRestarts, WatchInv
  <2> QED BY <2>1, <2>2, <2>3 DEF WatchInv, Watched!Idle
<1> QED BY <1>1, <1>2, <1>3, <1>4, <1>5, <1>6, <1>7, <1>8, <1>9, <1>10, <1>11
        DEF Watched!Next, Watched!GiveUp, Watched!AwaitReady, Watched!pages

\* So a page reports an element once, and does so when it was asked to watch.
LEMMA PageHolds == ASSUME ReportInv, WatchInv PROVE Watched!ReportedOnce /\ Watched!PagesFollowTheWatch
<1>1. Watched!ReportedOnce
  BY DEF ReportInv, Watched!ReportedOnce
<1>2. DOMAIN pageOutbox = 1..Len(pageOutbox)
  BY DEF WatchInv
<1>3. Watched!PagesFollowTheWatch
  BY <1>2 DEF WatchInv, WillWatch, Ready, Watched!PagesFollowTheWatch, Watched!Followed, Watched!Idle, Watched!Loops
<1> QED BY <1>1, <1>3

-----------------------------------------------------------------------------
(* Ticks and streams of the router *)

\* The handles that run are those the runtime can stop, of one registration.
TickInv ==
  /\ routerHandles = routerBindings
  /\ \A h \in routerHandles : h[2] \in Ticks
  /\ \A h, i \in routerHandles : h[2] = i[2] => h = i
  /\ \A h \in routerHandles : h[2][1] \in routerRegistered

\* A stream's frames are the one stretch of the bus that is of its request,
\* and how its turn came out.
TellsItsTurn(f, b, r) ==
  \E first \in 0..Len(b), n \in 0..2, last \in {"complete", "error"} :
    /\ first + n <= Len(b)
    /\ \A i \in 1..Len(b) : b[i][1] = r <=> i \in (first + 1)..(first + n)
    /\ f = [i \in 1..n |-> b[first + i]] \o <<<<last>>, <<"done">>>>

\* A request waits for its turn in one place.
QueueOk ==
  \A i \in 1..Len(routerQueue) : routerQueue[i] \in Requests =>
    /\ routerAt[routerQueue[i]][1] = "queued"
    /\ \A j \in 1..Len(routerQueue) : routerQueue[j] = routerQueue[i] => j = i

\* Until a request is over neither the bus nor its stream has anything of it.
RequestOk(r) ==
  /\ routerAt[r][1] # "over" =>
       routerFrames[r] = <<>> /\ \A i \in 1..Len(routerBus) : routerBus[i][1] # r
  /\ routerFrames[r] # <<>> =>
       routerAt[r][1] = "over" /\ routerAt[r][2] = "stream" /\ TellsItsTurn(routerFrames[r], routerBus, r)

StreamInv ==
  /\ routerQueue \in Seq(Requests \cup Ticks)
  /\ routerBus \in Seq(Requests \X {1, 2})
  /\ routerAt = [r \in Requests |-> routerAt[r]]
  /\ routerFrames = [r \in Requests |-> routerFrames[r]]
  /\ QueueOk
  /\ \A r \in Requests : RequestOk(r)

RouterInv == TickInv /\ StreamInv

\* Nothing is registered and nothing is queued.
LEMMA RouterInit == ASSUME Router!Init PROVE RouterInv
BY DEF Router!Init, RouterInv, TickInv, StreamInv, QueueOk, RequestOk

\* A registration stops the handles of the one before it first.
LEMMA TickStep ==
  ASSUME TickInv, Router!Next
  PROVE  TickInv'
<1> USE DEF TickInv, Router!apps
<1>1. CASE Router!UnregisterAll
  BY <1>1 DEF Router!UnregisterAll
<1>2. CASE Router!RegisterOrbitals
  BY <1>2 DEF Router!RegisterOrbitals
<1>3. CASE Router!SetupTicks
  <2>1. PICK bound :
          /\ bound \subseteq {t \in Ticks : t[1] \in routerRegistered}
          /\ routerBindings' = {<<routerMutations, t>> : t \in bound}
    BY <1>3 DEF Router!SetupTicks
  <2>2. routerHandles' = routerBindings' /\ routerRegistered' = routerRegistered
    BY <1>3 DEF Router!SetupTicks, Router!CleanupTicks
  <2> QED BY <2>1, <2>2
<1>4. CASE Router!OpenKernel
  BY <1>4 DEF Router!OpenKernel
<1>5. CASE Router!TurnOfTick
  BY <1>5 DEF Router!TurnOfTick
<1>6. CASE \E a \in Apps : Router!BeginRegister(a)
  BY <1>6 DEF Router!BeginRegister
<1>7. CASE \E h \in routerHandles : Router!Fire(h)
  BY <1>7 DEF Router!Fire
<1>8. CASE \E r \in Requests : Router!Look(r) \/ (\E k \in Router!Kind : Router!Arrive(r, k))
                               \/ \E ok \in BOOLEAN : Router!Viewed(r, ok)
  BY <1>8 DEF Router!Look, Router!Arrive, Router!Viewed
<1>9. CASE \E n \in 0..2 : Router!Turn(n)
  BY <1>9 DEF Router!Turn
<1> QED BY <1>1, <1>2, <1>3, <1>4, <1>5, <1>6, <1>7, <1>8, <1>9 DEF Router!Next

\* What a turn publishes of its own request is no stretch of another's.
LEMMA OthersArePublished ==
  ASSUME NEW b \in Seq(Requests \X {1, 2}), NEW r \in Requests, NEW q \in Requests \ {r},
         NEW n \in 0..2, NEW f, TellsItsTurn(f, b, r)
  PROVE  TellsItsTurn(f, b \o Router!Publish(q, n), r)
<1> DEFINE c == b \o Router!Publish(q, n)
<1>1. Router!Publish(q, n) \in Seq(Requests \X {1, 2}) /\ Len(Router!Publish(q, n)) = n
        /\ \A i \in 1..n : Router!Publish(q, n)[i] = <<q, i>>
  BY DEF Router!Publish
<1>2. /\ Len(c) = Len(b) + n /\ Len(b) \in Nat /\ (\A i \in 1..Len(b) : c[i] = b[i])
      /\ \A i \in 1..Len(c) : i > Len(b) => c[i] = <<q, i - Len(b)>>
  BY <1>1, ConcatProperties
<1>3. \A i \in 1..Len(c) : i > Len(b) => c[i][1] = q
  BY <1>2
<1> HIDE DEF c
<1>4. PICK first \in 0..Len(b), m \in 0..2, last \in {"complete", "error"} :
        /\ first + m <= Len(b)
        /\ \A i \in 1..Len(b) : b[i][1] = r <=> i \in (first + 1)..(first + m)
        /\ f = [i \in 1..m |-> b[first + i]] \o <<<<last>>, <<"done">>>>
  BY DEF TellsItsTurn
<1>5. first \in Nat /\ m \in Nat /\ first \in 0..Len(c) /\ first + m <= Len(c)
  <2>1. first \in Nat /\ m \in Nat /\ n \in Nat /\ first <= Len(b) /\ first + m <= Len(b)
    BY <1>2, <1>4
  <2> QED BY <1>2, <2>1
<1>6. \A i \in 1..Len(c) : c[i][1] = r <=> i \in (first + 1)..(first + m)
  <2> SUFFICES ASSUME NEW i \in 1..Len(c)
               PROVE  c[i][1] = r <=> i \in (first + 1)..(first + m)
    OBVIOUS
  <2>1. CASE i <= Len(b)
    <3>1. i \in 1..Len(b) /\ c[i] = b[i]
      BY <1>2, <2>1
    <3> QED BY <1>4, <3>1
  <2>2. CASE i > Len(b)
    <3>1. c[i][1] # r
      BY <1>3, <2>2
    <3>2. first + m <= Len(b)
      BY <1>4
    <3>3. i \notin (first + 1)..(first + m)
      BY <1>2, <1>5, <2>2, <3>2
    <3> QED BY <3>1, <3>3
  <2> QED BY <2>1, <2>2, <1>2
<1>7. [i \in 1..m |-> b[first + i]] = [i \in 1..m |-> c[first + i]]
  <2>1. \A i \in 1..m : first + i \in 1..Len(b)
    BY <1>2, <1>4, <1>5
  <2> QED BY <1>2, <2>1
<1>8. f = [i \in 1..m |-> c[first + i]] \o <<<<last>>, <<"done">>>>
  BY <1>4, <1>7
<1> SUFFICES \E s \in 0..Len(c), k \in 0..2, l \in {"complete", "error"} :
               /\ s + k <= Len(c)
               /\ \A i \in 1..Len(c) : c[i][1] = r <=> i \in (s + 1)..(s + k)
               /\ f = [i \in 1..k |-> c[s + i]] \o <<<<l>>, <<"done">>>>
  BY DEF TellsItsTurn, c
<1> WITNESS first \in 0..Len(c), m \in 0..2, last \in {"complete", "error"}
<1> QED
  BY <1>5, <1>6, <1>8

\* A stream that watches the bus while its turn runs tells what it published.
LEMMA TurnIsTold ==
  ASSUME NEW b \in Seq(Requests \X {1, 2}), NEW r \in Requests, NEW n \in 0..2,
         \A i \in 1..Len(b) : b[i][1] # r
  PROVE  TellsItsTurn(Router!Publish(r, n) \o <<<<"complete">>, <<"done">>>>, b \o Router!Publish(r, n), r)
<1> DEFINE p == Router!Publish(r, n)
           c == b \o p
<1>1. p \in Seq(Requests \X {1, 2}) /\ Len(p) = n /\ \A i \in 1..n : p[i] = <<r, i>>
  BY DEF Router!Publish
<1>2. Len(c) = Len(b) + n /\ (\A i \in 1..Len(b) : c[i] = b[i]) /\ \A i \in 1..n : c[Len(b) + i] = p[i]
  BY <1>1
<1>3. \A i \in 1..Len(c) : i > Len(b) => c[i][1] = r
  BY <1>1, <1>2
<1>4. \A i \in 1..Len(c) : c[i][1] = r <=> i \in (Len(b) + 1)..(Len(b) + n)
  BY <1>2, <1>3
<1>5. p = [i \in 1..n |-> c[Len(b) + i]]
  BY <1>2 DEF Router!Publish
<1>6. Len(b) \in 0..Len(c) /\ Len(b) + n <= Len(c)
  BY <1>2
<1>7. p \o <<<<"complete">>, <<"done">>>> = [i \in 1..n |-> c[Len(b) + i]] \o <<<<"complete">>, <<"done">>>>
  BY <1>5
<1> HIDE DEF c, p
<1> SUFFICES \E s \in 0..Len(c), k \in 0..2, l \in {"complete", "error"} :
               /\ s + k <= Len(c)
               /\ \A i \in 1..Len(c) : c[i][1] = r <=> i \in (s + 1)..(s + k)
               /\ p \o <<<<"complete">>, <<"done">>>> = [i \in 1..k |-> c[s + i]] \o <<<<l>>, <<"done">>>>
  BY DEF TellsItsTurn, c, p
<1> WITNESS Len(b) \in 0..Len(c), n \in 0..2, "complete" \in {"complete", "error"}
<1> QED
  BY <1>4, <1>6, <1>7

\* And how the turn ended.
LEMMA EndIsTold ==
  ASSUME NEW b \in Seq(Requests \X {1, 2}), NEW r \in Requests, NEW last \in {"complete", "error"},
         \A i \in 1..Len(b) : b[i][1] # r
  PROVE  TellsItsTurn(<<<<last>>, <<"done">>>>, b, r)
<1>1. [i \in 1..0 |-> b[0 + i]] = <<>>
  OBVIOUS
<1>2. <<<<last>>, <<"done">>>> = [i \in 1..0 |-> b[0 + i]] \o <<<<last>>, <<"done">>>>
  BY <1>1
<1> SUFFICES \E s \in 0..Len(b), k \in 0..2, l \in {"complete", "error"} :
               /\ s + k <= Len(b)
               /\ \A i \in 1..Len(b) : b[i][1] = r <=> i \in (s + 1)..(s + k)
               /\ <<<<last>>, <<"done">>>> = [i \in 1..k |-> b[s + i]] \o <<<<l>>, <<"done">>>>
  BY DEF TellsItsTurn
<1> WITNESS 0 \in 0..Len(b), 0 \in 0..2, last \in {"complete", "error"}
<1> QED
  BY <1>2

\* The frames of a request that has none yet, when its stream ends early.
LEMMA EndedStep ==
  ASSUME StreamInv, NEW r \in Requests, routerAt[r][1] # "over", NEW last \in {"complete", "error"},
         routerFrames' = Router!Ended(r, last)
  PROVE  /\ routerFrames' = [q \in Requests |-> routerFrames'[q]]
         /\ \A q \in Requests \ {r} : routerFrames'[q] = routerFrames[q]
         /\ routerFrames'[r] # <<>> =>
              routerAt[r][2] = "stream" /\ TellsItsTurn(routerFrames'[r], routerBus, r)
<1>1. routerFrames[r] = <<>> /\ \A i \in 1..Len(routerBus) : routerBus[i][1] # r
  BY DEF StreamInv, RequestOk
<1>2. PICK ending : ending = <<<<last>>, <<"done">>>>
  OBVIOUS
<1>3. <<>> \o ending = ending
  BY <1>2
<1>4. TellsItsTurn(ending, routerBus, r)
  BY <1>1, <1>2, EndIsTold DEF StreamInv
<1>5. routerFrames' = [routerFrames EXCEPT ![r] = IF routerAt[r][2] = "stream" THEN @ \o ending ELSE @]
  BY <1>2 DEF Router!Ended
<1>6. routerFrames = [q \in Requests |-> routerFrames[q]]
  BY DEF StreamInv
<1>7. CASE routerAt[r][2] = "stream"
  <2>1. routerFrames' = [routerFrames EXCEPT ![r] = ending]
    BY <1>1, <1>3, <1>5, <1>7
  <2> QED BY <1>4, <1>6, <1>7, <2>1
<1>8. CASE routerAt[r][2] # "stream"
  <2>1. routerFrames' = routerFrames
    BY <1>5, <1>6, <1>8
  <2> QED BY <1>1, <1>6, <2>1
<1> QED BY <1>7, <1>8

\* A request that moves on is not the one of another place of the queue.
LEMMA NotYetHeard ==
  ASSUME StreamInv, NEW r \in Requests, routerAt[r][1] \notin {"over", "queued"}
  PROVE  /\ \A i \in 1..Len(routerQueue) : routerQueue[i] # r
         /\ routerFrames[r] = <<>> /\ \A i \in 1..Len(routerBus) : routerBus[i][1] # r
BY DEF StreamInv, QueueOk, RequestOk

\* Nothing else changes for the others when a request moves on outside the queue.
LEMMA MovesOn ==
  ASSUME StreamInv, NEW r \in Requests, routerAt[r][1] \notin {"over", "queued"},
         NEW s \in {"view", "look", "over"}, NEW k, routerAt' = [routerAt EXCEPT ![r] = <<s, k>>],
         UNCHANGED <<routerQueue, routerBus>>,
         routerFrames' = [q \in Requests |-> routerFrames'[q]],
         \A q \in Requests \ {r} : routerFrames'[q] = routerFrames[q],
         \/ routerFrames'[r] = <<>>
         \/ s = "over" /\ k = "stream" /\ TellsItsTurn(routerFrames'[r], routerBus, r)
  PROVE  StreamInv'
<1>1. /\ routerAt' = [q \in Requests |-> routerAt'[q]]
      /\ routerAt'[r][1] = s /\ routerAt'[r][2] = k
      /\ \A q \in Requests \ {r} : routerAt'[q] = routerAt[q]
      /\ \A i \in 1..Len(routerQueue) : routerQueue[i] # r
      /\ routerFrames[r] = <<>> /\ \A i \in 1..Len(routerBus) : routerBus[i][1] # r
  <2>1. /\ routerAt'[r] = <<s, k>> /\ routerAt' = [q \in Requests |-> routerAt'[q]]
        /\ \A q \in Requests \ {r} : routerAt'[q] = routerAt[q]
    BY DEF StreamInv, QueueOk
  <2> QED BY <2>1, NotYetHeard
<1>2. QueueOk'
  <2>1. QueueOk
    BY DEF StreamInv
  <2> QED BY <1>1, <2>1 DEF QueueOk
<1>3. RequestOk(r)'
  BY <1>1 DEF RequestOk
<1>4. ASSUME NEW q \in Requests \ {r} PROVE RequestOk(q)'
  <2>1. RequestOk(q)
    BY DEF StreamInv
  <2> QED BY <1>1, <2>1 DEF RequestOk
<1> QED BY <1>1, <1>2, <1>3, <1>4 DEF StreamInv

\* A turn that begins leaves the queue; who waits behind it still does.
LEMMA TailKeeps ==
  ASSUME StreamInv, routerQueue # <<>>, routerQueue' = Tail(routerQueue),
         \A q \in Requests : q # Head(routerQueue) => routerAt'[q] = routerAt[q]
  PROVE  routerQueue' \in Seq(Requests \cup Ticks) /\ QueueOk'
<1>1. /\ Head(routerQueue) = routerQueue[1] /\ routerQueue' \in Seq(Requests \cup Ticks)
      /\ Len(routerQueue) \in Nat \ {0} /\ Len(routerQueue') = Len(routerQueue) - 1
      /\ \A i \in 1..(Len(routerQueue) - 1) : routerQueue'[i] = routerQueue[i + 1]
  BY TailFacts DEF StreamInv
<1>2. \A i \in 1..Len(routerQueue') : /\ i + 1 \in 1..Len(routerQueue) /\ i + 1 # 1
                                     /\ routerQueue'[i] = routerQueue[i + 1]
  BY <1>1
<1>3. 1 \in 1..Len(routerQueue)
  BY <1>1
<1>4. ASSUME NEW i \in 1..Len(routerQueue'), routerQueue'[i] \in Requests
      PROVE  /\ routerAt'[routerQueue'[i]][1] = "queued"
             /\ \A j \in 1..Len(routerQueue') : routerQueue'[j] = routerQueue'[i] => j = i
  <2>1. /\ routerAt[routerQueue[i + 1]][1] = "queued"
        /\ \A j \in 1..Len(routerQueue) : routerQueue[j] = routerQueue[i + 1] => j = i + 1
    BY <1>2, <1>4 DEF StreamInv, QueueOk
  <2>2. routerQueue[i + 1] # Head(routerQueue)
    BY <1>1, <1>2, <1>3, <2>1
  <2>3. routerAt'[routerQueue'[i]][1] = "queued"
    BY <1>2, <1>4, <2>1, <2>2
  <2>4. ASSUME NEW j \in 1..Len(routerQueue'), routerQueue'[j] = routerQueue'[i] PROVE j = i
    <3>1. j + 1 = i + 1
      BY <1>2, <2>1, <2>4
    <3> QED BY <3>1
  <2> QED BY <2>3, <2>4
<1> QED BY <1>1, <1>4 DEF QueueOk

\* Every step of the queue and of the streams.
LEMMA StreamStep ==
  ASSUME StreamInv, TickInv, Router!Next
  PROVE  StreamInv'
<1> USE ServerAssumption
<1>1. CASE UNCHANGED <<routerQueue, routerAt, routerBus, routerFrames>>
  BY <1>1 DEF StreamInv, QueueOk, RequestOk
<1>2. ASSUME NEW h \in routerHandles, Router!Fire(h) PROVE StreamInv'
  <2>1. routerQueue' = Append(routerQueue, h[2]) /\ h[2] \in Ticks
    BY <1>2 DEF Router!Fire, TickInv
  <2>2. UNCHANGED <<routerAt, routerBus, routerFrames>>
    BY <1>2 DEF Router!Fire
  <2>3. PICK t \in Ticks : t = h[2]
    BY <2>1
  <2>4. /\ routerQueue' \in Seq(Requests \cup Ticks) /\ Len(routerQueue') = Len(routerQueue) + 1
        /\ Len(routerQueue) \in Nat /\ routerQueue'[Len(routerQueue) + 1] = t
        /\ \A i \in 1..Len(routerQueue) : routerQueue'[i] = routerQueue[i]
    BY <2>1, <2>3, AppendFacts DEF StreamInv
  <2>5. \A i \in 1..Len(routerQueue') :
           routerQueue'[i] \in Requests => i \in 1..Len(routerQueue) /\ routerQueue'[i] = routerQueue[i]
    BY <2>4
  <2>6. QueueOk'
    <3>1. QueueOk
      BY DEF StreamInv
    <3> QED BY <2>2, <2>5, <3>1 DEF QueueOk
  <2>7. ASSUME NEW q \in Requests PROVE RequestOk(q)'
    <3>1. RequestOk(q)
      BY DEF StreamInv
    <3> QED BY <2>2, <3>1 DEF RequestOk
  <2> QED BY <2>2, <2>4, <2>6, <2>7 DEF StreamInv
<1>3. ASSUME NEW r \in Requests, NEW k \in Router!Kind, Router!Arrive(r, k) PROVE StreamInv'
  <2>1. PICK s \in {"over", "look", "view"} : routerAt' = [routerAt EXCEPT ![r] = <<s, k>>]
    <3>1. CASE k # "input" /\ ((k = "hook") # (routerResolved \in InboundApps))
      BY <1>3, <3>1 DEF Router!Arrive
    <3>2. CASE ~(k # "input" /\ ((k = "hook") # (routerResolved \in InboundApps)))
      BY <1>3, <3>2 DEF Router!Arrive
    <3> QED BY <3>1, <3>2
  <2>2. routerAt[r][1] = "idle" /\ UNCHANGED <<routerQueue, routerBus, routerFrames>>
    BY <1>3 DEF Router!Arrive
  <2>3. routerAt[r][1] \notin {"over", "queued"}
    BY <2>2
  <2>4. routerFrames[r] = <<>> /\ routerFrames = [q \in Requests |-> routerFrames[q]]
    BY <2>3 DEF StreamInv, RequestOk
  <2>5. s \in {"view", "look", "over"}
    BY <2>1
  <2> QED BY <2>1, <2>2, <2>3, <2>4, <2>5, MovesOn
<1>4. ASSUME NEW r \in Requests, NEW ok \in BOOLEAN, Router!Viewed(r, ok) PROVE StreamInv'
  <2>1. PICK s \in {"over", "look"} :
          /\ routerAt' = [routerAt EXCEPT ![r] = <<s, routerAt[r][2]>>]
          /\ ~ok => s = "over"
    BY <1>4 DEF Router!Viewed
  <2>2. routerAt[r][1] \notin {"over", "queued"} /\ UNCHANGED <<routerQueue, routerBus>>
    BY <1>4 DEF Router!Viewed
  <2>3. PICK k : k = routerAt[r][2]
    OBVIOUS
  <2>4. routerAt' = [routerAt EXCEPT ![r] = <<s, k>>]
    BY <2>1, <2>3
  <2>5. CASE ok
    <3>1. routerFrames' = routerFrames
      BY <1>4, <2>5 DEF Router!Viewed
    <3>2. routerFrames[r] = <<>> /\ routerFrames = [q \in Requests |-> routerFrames[q]]
      BY <2>2 DEF StreamInv, RequestOk
    <3> QED BY <2>2, <2>4, <3>1, <3>2, MovesOn
  <2>6. CASE ~ok
    <3>1. routerFrames' = Router!Ended(r, "error") /\ s = "over"
      <4>1. s = "over"
        BY <2>1, <2>6
      <4>2. routerFrames' = Router!Ended(r, "error")
        BY <1>4, <2>6, Zenon DEF Router!Viewed
      <4> QED BY <4>1, <4>2
    <3>2. /\ routerFrames' = [q \in Requests |-> routerFrames'[q]]
          /\ \A q \in Requests \ {r} : routerFrames'[q] = routerFrames[q]
          /\ routerFrames'[r] # <<>> =>
               routerAt[r][2] = "stream" /\ TellsItsTurn(routerFrames'[r], routerBus, r)
      BY <2>2, <3>1, EndedStep
    <3> QED BY <2>2, <2>3, <2>4, <3>1, <3>2, MovesOn
  <2> QED BY <2>5, <2>6
<1>5. ASSUME NEW r \in Requests, Router!Look(r) PROVE StreamInv'
  <2>1. routerAt[r][1] = "look" /\ routerBus' = routerBus
    BY <1>5 DEF Router!Look
  <2>2. CASE routerRegistered = {}
    <3>1. /\ routerAt' = [routerAt EXCEPT ![r] = <<"over", routerAt[r][2]>>]
          /\ routerQueue' = routerQueue /\ routerFrames' = Router!Ended(r, "complete")
      BY <1>5, <2>2 DEF Router!Look
    <3>2. routerAt[r][1] \notin {"over", "queued"}
      BY <2>1
    <3>3. /\ routerFrames' = [q \in Requests |-> routerFrames'[q]]
          /\ \A q \in Requests \ {r} : routerFrames'[q] = routerFrames[q]
          /\ routerFrames'[r] # <<>> =>
               routerAt[r][2] = "stream" /\ TellsItsTurn(routerFrames'[r], routerBus, r)
      BY <3>1, <3>2, EndedStep
    <3>4. PICK k : k = routerAt[r][2]
      OBVIOUS
    <3>5. PICK s \in {"view", "look", "over"} : s = "over"
      OBVIOUS
    <3>6. routerAt' = [routerAt EXCEPT ![r] = <<s, k>>]
      BY <3>1, <3>4, <3>5
    <3> QED BY <2>1, <3>1, <3>2, <3>3, <3>4, <3>5, <3>6, MovesOn
  <2>3. CASE routerRegistered # {}
    <3>1. /\ routerAt' = [routerAt EXCEPT ![r] = <<"queued", routerAt[r][2]>>]
          /\ routerQueue' = Append(routerQueue, r) /\ routerFrames' = routerFrames
      BY <1>5, <2>3 DEF Router!Look
    <3>2. routerAt[r][1] \notin {"over", "queued"}
      BY <2>1 DEF StreamInv, QueueOk, RequestOk
    <3>20. PICK k : k = routerAt[r][2]
      BY <3>2
    <3>22. PICK s \in {"view", "look", "queued", "over"} : s = "queued"
      OBVIOUS
    <3>21. routerAt' = [routerAt EXCEPT ![r] = <<s, k>>]
      BY <3>1, <3>20, <3>22
    <3>3. /\ routerAt' = [q \in Requests |-> routerAt'[q]]
          /\ routerAt'[r][1] = s /\ routerAt'[r][2] = k
          /\ \A q \in Requests \ {r} : routerAt'[q] = routerAt[q]
          /\ \A i \in 1..Len(routerQueue) : routerQueue[i] # r
          /\ routerFrames[r] = <<>> /\ \A i \in 1..Len(routerBus) : routerBus[i][1] # r
      <4>1. /\ routerAt'[r] = <<s, k>> /\ routerAt' = [q \in Requests |-> routerAt'[q]]
            /\ \A q \in Requests \ {r} : routerAt'[q] = routerAt[q]
        BY <3>21 DEF StreamInv, QueueOk
      <4> QED BY <3>2, <4>1, NotYetHeard
    <3>4. /\ routerQueue' \in Seq(Requests \cup Ticks) /\ Len(routerQueue') = Len(routerQueue) + 1
          /\ routerQueue'[Len(routerQueue')] = r
          /\ \A i \in 1..Len(routerQueue) : routerQueue'[i] = routerQueue[i]
      BY <3>1 DEF StreamInv, QueueOk, RequestOk
    <3>5. \A i \in 1..Len(routerQueue') : routerQueue'[i] \in Requests =>
             /\ routerAt'[routerQueue'[i]][1] = "queued"
             /\ \A j \in 1..Len(routerQueue') : routerQueue'[j] = routerQueue'[i] => j = i
      <4> SUFFICES ASSUME NEW i \in 1..Len(routerQueue'), routerQueue'[i] \in Requests
                   PROVE  /\ routerAt'[routerQueue'[i]][1] = "queued"
                          /\ \A j \in 1..Len(routerQueue') : routerQueue'[j] = routerQueue'[i] => j = i
        OBVIOUS
      <4>0. Len(routerQueue) \in Nat
        BY DEF StreamInv, QueueOk, RequestOk
      <4>1. CASE i = Len(routerQueue')
        <5>1. routerQueue'[i] = r
          BY <3>4, <4>1
        <5>2. ASSUME NEW j \in 1..Len(routerQueue'), j # i
              PROVE  j \in 1..Len(routerQueue) /\ routerQueue'[j] # r
          <6>1. j \in 1..Len(routerQueue)
            BY <4>0, <4>1, <5>2, <3>4
          <6> QED BY <3>3, <3>4, <6>1
        <5> QED BY <3>22, <3>3, <4>1, <5>1, <5>2
      <4>2. CASE i # Len(routerQueue')
        <5>1. i \in 1..Len(routerQueue) /\ routerQueue'[i] = routerQueue[i] /\ routerQueue[i] # r
          BY <4>0, <4>2, <3>3, <3>4
        <5>2. routerAt'[routerQueue'[i]][1] = "queued"
          <6>1. routerAt[routerQueue[i]][1] = "queued"
            BY <5>1 DEF StreamInv, QueueOk
          <6> QED BY <5>1, <6>1, <3>3
        <5>3. ASSUME NEW j \in 1..Len(routerQueue'), routerQueue'[j] = routerQueue'[i]
              PROVE  j = i
          <6>1. j # Len(routerQueue')
            BY <3>4, <5>1, <5>3
          <6>2. j \in 1..Len(routerQueue) /\ routerQueue'[j] = routerQueue[j]
            BY <4>0, <6>1, <3>4
          <6>3. QueueOk /\ i \in 1..Len(routerQueue) /\ routerQueue[i] \in Requests /\ routerQueue[j] = routerQueue[i]
            BY <4>2, <5>1, <5>3, <6>2 DEF StreamInv
          <6> QED BY <6>2, <6>3 DEF QueueOk
        <5> QED BY <5>2, <5>3
      <4> QED BY <4>1, <4>2
    <3>6. QueueOk'
      BY <3>5 DEF QueueOk
    <3>7. ASSUME NEW q \in Requests PROVE RequestOk(q)'
      <4>1. RequestOk(q)
        BY DEF StreamInv
      <4> QED BY <2>1, <3>1, <3>22, <3>3, <4>1 DEF RequestOk
    <3> QED BY <2>1, <3>1, <3>3, <3>4, <3>6, <3>7 DEF StreamInv
  <2> QED BY <2>2, <2>3
<1>6. ASSUME NEW n \in 0..2, Router!Turn(n) PROVE StreamInv'
  <2>1. PICK r \in Requests : r = Head(routerQueue)
    BY <1>6 DEF Router!Turn
  <2>2. /\ routerQueue # <<>> /\ routerQueue' = Tail(routerQueue)
        /\ routerAt' = [routerAt EXCEPT ![r] = <<"over", routerAt[r][2]>>]
    BY <1>6, <2>1 DEF Router!Turn
  <2>3. routerAt[r][1] = "queued" /\ routerFrames[r] = <<>>
          /\ \A i \in 1..Len(routerBus) : routerBus[i][1] # r
    <3>1. 1 \in 1..Len(routerQueue) /\ routerQueue[1] = r
      BY <2>1, <2>2 DEF StreamInv, QueueOk, RequestOk
    <3>2. routerAt[r][1] = "queued"
      BY <3>1 DEF StreamInv, QueueOk, RequestOk
    <3> QED BY <3>2 DEF StreamInv, QueueOk, RequestOk
  <2>4. routerQueue' \in Seq(Requests \cup Ticks) /\ QueueOk'
    <3>1. \A q \in Requests : q # Head(routerQueue) => routerAt'[q] = routerAt[q]
      BY <2>1, <2>2
    <3> QED BY <2>2, <3>1, TailKeeps
  <2>5. routerAt' = [q \in Requests |-> routerAt'[q]]
    BY <2>2, <2>3 DEF StreamInv, QueueOk, RequestOk
  <2>6. CASE routerKernel = None
    <3>1. routerFrames' = Router!Ended(r, "error") /\ routerBus' = routerBus
      BY <1>6, <2>1, <2>6 DEF Router!Turn
    <3>2. /\ routerFrames' = [q \in Requests |-> routerFrames'[q]]
          /\ \A q \in Requests \ {r} : routerFrames'[q] = routerFrames[q]
          /\ routerFrames'[r] # <<>> =>
               routerAt[r][2] = "stream" /\ TellsItsTurn(routerFrames'[r], routerBus, r)
      BY <2>3, <3>1, EndedStep
    <3>3. routerAt'[r] = <<"over", routerAt[r][2]>> /\ \A q \in Requests \ {r} : routerAt'[q] = routerAt[q]
      BY <2>2 DEF StreamInv
    <3>4. ASSUME NEW q \in Requests PROVE RequestOk(q)'
      <4>1. RequestOk(q)
        BY DEF StreamInv
      <4>2. CASE q = r
        BY <3>1, <3>2, <3>3, <4>2 DEF RequestOk
      <4>3. CASE q # r
        BY <3>1, <3>2, <3>3, <4>1, <4>3 DEF RequestOk
      <4> QED BY <4>2, <4>3
    <3>5. routerBus' \in Seq(Requests \X {1, 2})
      BY <3>1 DEF StreamInv
    <3> QED BY <2>4, <2>5, <3>2, <3>4, <3>5 DEF StreamInv
  <2>7. CASE routerKernel # None
    <3>1. routerBus' = routerBus \o Router!Publish(r, n)
      BY <1>6, <2>1, <2>7 DEF Router!Turn
    <3>2. routerFrames' = [routerFrames EXCEPT ![r] =
                  IF routerAt[r][2] = "stream"
                  THEN @ \o Router!Publish(r, n) \o <<<<"complete">>, <<"done">>>> ELSE @]
      BY <1>6, <2>1, <2>7 DEF Router!Turn, Router!Pushed
    <3>3. Router!Publish(r, n) \in Seq(Requests \X {1, 2}) /\ Len(Router!Publish(r, n)) = n
            /\ \A i \in 1..n : Router!Publish(r, n)[i][1] = r
      BY DEF Router!Publish
    <3> DEFINE p == Router!Publish(r, n)
               f == p \o <<<<"complete">>, <<"done">>>>
    <3>4. <<>> \o p \o <<<<"complete">>, <<"done">>>> = f
      BY <3>3
    <3>5. TellsItsTurn(f, routerBus', r)
      BY <2>3, <3>1, TurnIsTold DEF StreamInv, QueueOk, RequestOk
    <3>6. \A q \in Requests \ {r} : \A g : TellsItsTurn(g, routerBus, q) => TellsItsTurn(g, routerBus', q)
      BY <3>1, OthersArePublished DEF StreamInv, QueueOk, RequestOk
    <3>7. /\ routerBus' \in Seq(Requests \X {1, 2})
          /\ \A i \in 1..Len(routerBus') : routerBus'[i][1] = r
               \/ \E j \in 1..Len(routerBus) : routerBus'[i] = routerBus[j]
      BY <3>1, <3>3, SMTT(30) DEF StreamInv, QueueOk, RequestOk
    <3> HIDE DEF p, f
    <3>8. routerFrames' = [q \in Requests |-> routerFrames'[q]]
            /\ routerFrames'[r] = (IF routerAt[r][2] = "stream" THEN f ELSE <<>>)
            /\ \A q \in Requests \ {r} : routerFrames'[q] = routerFrames[q]
      BY <2>3, <3>2, <3>4 DEF StreamInv, QueueOk, RequestOk, p
    <3>9. /\ routerAt'[r] = <<"over", routerAt[r][2]>>
          /\ \A q \in Requests \ {r} : routerAt'[q] = routerAt[q]
      BY <2>2 DEF StreamInv, QueueOk, RequestOk
    <3>10. \A q \in Requests : routerAt'[q][1] # "over" =>
             routerFrames'[q] = <<>> /\ \A i \in 1..Len(routerBus') : routerBus'[i][1] # q
      <4> SUFFICES ASSUME NEW q \in Requests, routerAt'[q][1] # "over"
                   PROVE  routerFrames'[q] = <<>> /\ \A i \in 1..Len(routerBus') : routerBus'[i][1] # q
        OBVIOUS
      <4>1. q # r /\ routerAt'[q] = routerAt[q]
        BY <3>9
      <4>2. routerFrames[q] = <<>> /\ \A i \in 1..Len(routerBus) : routerBus[i][1] # q
        BY <4>1 DEF StreamInv, QueueOk, RequestOk
      <4>3. \A i \in 1..Len(routerBus') : routerBus'[i][1] # q
        BY <3>7, <4>1, <4>2
      <4> QED BY <3>8, <4>1, <4>2, <4>3
    <3>11. \A q \in Requests : routerFrames'[q] # <<>> =>
             routerAt'[q][1] = "over" /\ routerAt'[q][2] = "stream"
               /\ TellsItsTurn(routerFrames'[q], routerBus', q)
      BY <3>5, <3>6, <3>8, <3>9 DEF StreamInv, QueueOk, RequestOk
    <3>12. \A q \in Requests : RequestOk(q)'
      BY <3>10, <3>11 DEF RequestOk
    <3> QED BY <2>4, <2>5, <3>7, <3>8, <3>12 DEF StreamInv
  <2> QED BY <2>6, <2>7
<1>7. CASE Router!TurnOfTick
  <2>1. routerQueue # <<>> /\ routerQueue' = Tail(routerQueue)
          /\ UNCHANGED <<routerAt, routerBus, routerFrames>>
    BY <1>7 DEF Router!TurnOfTick
  <2>2. routerQueue' \in Seq(Requests \cup Ticks) /\ QueueOk'
    BY <2>1, TailKeeps
  <2>3. ASSUME NEW q \in Requests PROVE RequestOk(q)'
    <3>1. RequestOk(q)
      BY DEF StreamInv
    <3> QED BY <2>1, <3>1 DEF RequestOk
  <2> QED BY <2>1, <2>2, <2>3 DEF StreamInv
<1> QED BY <1>1, <1>2, <1>3, <1>4, <1>5, <1>6, <1>7 DEF Router!Next, Router!UnregisterAll,
        Router!RegisterOrbitals, Router!SetupTicks, Router!OpenKernel, Router!BeginRegister

-----------------------------------------------------------------------------
(* Readers and a swap of the app *)

\* The registry: what is registered is seeded, a kernel that is open has all of
\* its app and nothing else is there, none is open while orbitals come, and after
\* a swap that ended well the schema is of the app that is there.
RegistryInv ==
  /\ readOrbitals \in [OrbitalNames -> Apps \cup {None}]
  /\ readStore = readOrbitals
  /\ readResolved \in Apps \cup {None}
  /\ readKernel \in [app : Apps \cup {None}, nth : Nat]
  /\ readSwap \in [app : Apps \cup {None}, left : SUBSET OrbitalNames]
  /\ readSwaps \in Nat /\ readKernel.nth <= readSwaps /\ readWhole \in BOOLEAN
  /\ readSwap.app = None => readSwap.left = {}
  /\ readSwap.left # {} => readKernel.app = None
  /\ readSwap.app # None =>
       /\ readSwap.left \subseteq HasOrbitals[readSwap.app]
       /\ \A n \in OrbitalNames : readOrbitals[n] \in {None, readSwap.app}
       /\ \A n \in HasOrbitals[readSwap.app] \ readSwap.left : readOrbitals[n] = readSwap.app
       /\ readKernel.nth = readSwaps => readSwap.left = {}
  /\ readKernel.app # None =>
       /\ \A n \in OrbitalNames : readOrbitals[n] \in {None, readKernel.app}
       /\ \A n \in HasOrbitals[readKernel.app] : readOrbitals[n] = readKernel.app
  /\ readWhole =>
       /\ readSwap.app = None
       /\ readResolved # None => \A n \in HasOrbitals[readResolved] : readOrbitals[n] = readResolved

AnswerOk(x) ==
  /\ x.answer = "description" => x.states \in {x.of, None}
  /\ x.answer = "rows" => x.rows = {x.of}
  /\ x.answer = "page" => x.rows = {x.states}
  /\ x.answer = "roster" /\ x.whole /\ x.of # None => x.rows = {x.of}
  /\ x.answer = "notFound" => x.during = None

Place == [step : Reads!Step, name : OrbitalNames \cup {None}]

Glance == [app : Apps \cup {None}, nth : Nat, rows : SUBSET (Apps \cup {None})]

\* What a read has seen of the store is of the kernel it asked, as long as that
\* one is open.
ReadingOk(at, seen) ==
  /\ at.step # "idle" => at.name \in OrbitalNames
  /\ at.step = "resolving" =>
       /\ seen.nth <= readKernel.nth
       /\ (readKernel.app # None /\ readKernel.nth = seen.nth) =>
            /\ at.name \in HasOrbitals[readKernel.app]
            /\ seen.rows \in {{}, {readKernel.app}}

ReaderInv ==
  /\ readAt \in [Readers -> Place] /\ readSeen \in [Readers -> Glance]
  /\ \A r \in Readers : ReadingOk(readAt[r], readSeen[r])
  /\ readTold = [r \in Readers |-> readTold[r]]
  /\ \A r \in Readers : AnswerOk(readTold[r])

\* Nothing is registered and nobody reads.
LEMMA ReadsInit == ASSUME Reads!Init PROVE RegistryInv /\ ReaderInv
BY DEF Reads!Init, RegistryInv, ReaderInv, ReadingOk, Place, Glance, AnswerOk,
       Reads!Nothing, Reads!NoAnswer, Reads!Step

\* Every step of a swap; a reader leaves the registry alone.
LEMMA RegistryStep ==
  ASSUME RegistryInv, Reads!Next
  PROVE  RegistryInv'
<1> USE ServerAssumption DEF RegistryInv, Reads!Swapping
<1>1. ASSUME NEW a \in Apps, Reads!BeginSwap(a) PROVE RegistryInv'
  <2>1. /\ readSwap = [app |-> None, left |-> readSwap.left] /\ readSwap.left = {}
        /\ readSwaps' = readSwaps + 1 /\ readSwap' = [app |-> a, left |-> HasOrbitals[a]]
        /\ readOrbitals' = [n \in OrbitalNames |-> None] /\ readStore' = readOrbitals'
        /\ readKernel' = [readKernel EXCEPT !.app = None] /\ readResolved' = readResolved
        /\ readWhole' = FALSE
    BY <1>1 DEF Reads!BeginSwap, Reads!KernelGone
  <2>2. readKernel' \in [app : Apps \cup {None}, nth : Nat] /\ readKernel'.app = None
        /\ readKernel'.nth = readKernel.nth
    BY <2>1
  <2>3. readSwaps' \in Nat /\ readKernel'.nth <= readSwaps' /\ readKernel'.nth # readSwaps'
    BY <2>1, <2>2
  <2>4. /\ readSwap' \in [app : Apps \cup {None}, left : SUBSET OrbitalNames]
        /\ readSwap'.app = a /\ readSwap'.left = HasOrbitals[a] /\ a # None
    BY <2>1
  <2>5. readOrbitals' \in [OrbitalNames -> Apps \cup {None}] /\ \A n \in OrbitalNames : readOrbitals'[n] = None
    BY <2>1
  <2>6. readWhole' \in BOOLEAN
    BY <2>1
  <2> QED BY <2>1, <2>2, <2>3, <2>4, <2>5, <2>6
<1>2. ASSUME NEW n \in OrbitalNames, Reads!RegisterOrbital(n) PROVE RegistryInv'
  BY <1>2 DEF Reads!RegisterOrbital
<1>3. CASE Reads!OpenKernel
  BY <1>3 DEF Reads!OpenKernel, Reads!Opened
<1>4. CASE Reads!StashResolved
  <2>1. /\ readSwap.app # None /\ readSwap.left = {} /\ readResolved' = readSwap.app
        /\ readSwap' = [app |-> None, left |-> {}]
        /\ UNCHANGED <<readOrbitals, readStore, readKernel, readSwaps>>
    BY <1>4 DEF Reads!StashResolved, Reads!Opened
  <2>2. \A n \in HasOrbitals[readResolved'] : readOrbitals'[n] = readResolved'
    BY <2>1
  <2>3. readWhole' \in BOOLEAN
    BY <1>4 DEF Reads!StashResolved
  <2> QED BY <2>1, <2>2, <2>3
<1>5. CASE Reads!FailSwap
  BY <1>5 DEF Reads!FailSwap
<1>6. CASE UNCHANGED Reads!registry
  BY <1>6 DEF Reads!registry
<1> QED BY <1>1, <1>2, <1>3, <1>4, <1>5, <1>6 DEF Reads!Next, Reads!LookUp, Reads!ViewerOf,
        Reads!GetIdentityRoster, Reads!LookAgain, Reads!ResolveRows, Reads!AnswerRead,
        Reads!ResumeResolve

\* A good answer to one reader leaves the answers good.
LEMMA TellStep ==
  ASSUME ReaderInv, NEW r \in Readers, NEW x, AnswerOk(x), readTold' = [readTold EXCEPT ![r] = x]
  PROVE  readTold' = [q \in Readers |-> readTold'[q]] /\ \A q \in Readers : AnswerOk(readTold'[q])
BY DEF ReaderInv

\* What a look-up in the registry answers at once is of one app.
LEMMA AnswerIsOk ==
  ASSUME RegistryInv, NEW n \in OrbitalNames, NEW kind \in {"describe", "rows"},
         readOrbitals[n] # None \/ readSwap.app = None
  PROVE  AnswerOk(Reads!Answered(n, kind))
BY DEF RegistryInv, AnswerOk, Reads!Answered, Reads!Refused, Reads!Description, Reads!EntityRows,
   Reads!Says

\* A reader that resumes leaves what it has seen, and the kernel, alone.
LEMMA ResumeKeeps ==
  ASSUME NEW r \in Readers, Reads!ResumeResolve(r)
  PROVE  UNCHANGED <<readSeen, readKernel>>
BY DEF Reads!ResumeResolve, Reads!registry

\* One reader moves on; what it saw, if it resolves then, is of the kernel.
LEMMA ReaderMoves ==
  ASSUME ReaderInv, NEW r \in Readers, NEW a \in Place, NEW g \in Glance,
         readAt' = [readAt EXCEPT ![r] = a], readSeen' = [readSeen EXCEPT ![r] = g],
         ReadingOk(a, g), UNCHANGED readKernel,
         \/ UNCHANGED readTold
         \/ \E x : AnswerOk(x) /\ readTold' = [readTold EXCEPT ![r] = x]
  PROVE  ReaderInv'
<1>1. /\ readAt' \in [Readers -> Place] /\ readSeen' \in [Readers -> Glance]
      /\ readAt'[r] = a /\ readSeen'[r] = g
      /\ \A q \in Readers \ {r} : readAt'[q] = readAt[q] /\ readSeen'[q] = readSeen[q]
  BY DEF ReaderInv
<1>2. readTold' = [q \in Readers |-> readTold'[q]] /\ \A q \in Readers : AnswerOk(readTold'[q])
  BY TellStep DEF ReaderInv
<1>3. \A b, h : ReadingOk(b, h)' <=> ReadingOk(b, h)
  BY DEF ReadingOk
<1>4. ASSUME NEW q \in Readers PROVE ReadingOk(readAt'[q], readSeen'[q])
  BY <1>1 DEF ReaderInv
<1>5. \A q \in Readers : ReadingOk(readAt[q], readSeen[q])'
  BY <1>3, <1>4
<1>6. \A q \in Readers : AnswerOk(readTold[q])'
  BY <1>2
<1> QED BY <1>1, <1>2, <1>5, <1>6 DEF ReaderInv

\* Where a reader is, and what it has seen.
LEMMA ReaderFacts ==
  ASSUME ReaderInv, NEW r \in Readers
  PROVE  /\ readAt[r] \in Place /\ readSeen[r] \in Glance /\ ReadingOk(readAt[r], readSeen[r])
         /\ readAt = [readAt EXCEPT ![r] = readAt[r]] /\ readSeen = [readSeen EXCEPT ![r] = readSeen[r]]
         /\ \A s \in Reads!Step :
              /\ [readAt[r] EXCEPT !.step = s] \in Place
              /\ [readAt[r] EXCEPT !.step = s].step = s
              /\ [readAt[r] EXCEPT !.step = s].name = readAt[r].name
              /\ [readAt EXCEPT ![r].step = s] = [readAt EXCEPT ![r] = [readAt[r] EXCEPT !.step = s]]
BY DEF ReaderInv, Place

\* Every step of a reader, and of a swap between two of its steps.
LEMMA ReaderStep ==
  ASSUME RegistryInv, ReaderInv, Reads!Next
  PROVE  ReaderInv'
<1>1. ASSUME NEW a \in Apps, Reads!BeginSwap(a) PROVE ReaderInv'
  BY <1>1 DEF Reads!BeginSwap, Reads!KernelGone, ReaderInv, ReadingOk
<1>2. ASSUME NEW n \in OrbitalNames, Reads!RegisterOrbital(n) PROVE ReaderInv'
  BY <1>2 DEF Reads!RegisterOrbital, ReaderInv, ReadingOk
<1>3. CASE Reads!OpenKernel
  BY <1>3, ServerAssumption DEF Reads!OpenKernel, Reads!Opened, RegistryInv, ReaderInv, ReadingOk, Glance
<1>4. CASE Reads!StashResolved
  BY <1>4 DEF Reads!StashResolved, ReaderInv, ReadingOk
<1>5. CASE Reads!FailSwap
  BY <1>5 DEF Reads!FailSwap, ReaderInv, ReadingOk
<1>6. ASSUME NEW r \in Readers, NEW n \in OrbitalNames, NEW kind \in {"describe", "rows"},
             Reads!LookUp(r, n, kind)
      PROVE  ReaderInv'
  <2>0. UNCHANGED <<readSeen, readKernel>>
    BY <1>6 DEF Reads!LookUp, Reads!registry
  <2>1. CASE Reads!FoundOrOver(n)
    <3> DEFINE a == [step |-> "over", name |-> n]
    <3>1. AnswerOk(Reads!Answered(n, kind))
      BY <2>1, AnswerIsOk DEF Reads!FoundOrOver, Reads!Swapping
    <3>2. readAt' = [readAt EXCEPT ![r] = a] /\ readTold' = [readTold EXCEPT ![r] = Reads!Answered(n, kind)]
      BY <1>6, <2>1 DEF Reads!LookUp, Reads!Begins, Reads!Tells
    <3>3. a \in Place /\ \A g : ReadingOk(a, g)
      BY DEF Place, ReadingOk, Reads!Step
    <3> HIDE DEF a
    <3>4. readSeen' = [readSeen EXCEPT ![r] = readSeen[r]] /\ readSeen[r] \in Glance
      BY <2>0, ReaderFacts
    <3> QED BY <2>0, <3>1, <3>2, <3>3, <3>4, ReaderMoves
  <2>2. CASE ~Reads!FoundOrOver(n)
    <3> DEFINE a == [step |-> kind, name |-> n]
    <3>1. readAt' = [readAt EXCEPT ![r] = a] /\ UNCHANGED readTold
      BY <1>6, <2>2 DEF Reads!LookUp, Reads!Begins
    <3>2. a \in Place /\ \A g : ReadingOk(a, g)
      BY DEF Place, ReadingOk, Reads!Step
    <3> HIDE DEF a
    <3>3. readSeen' = [readSeen EXCEPT ![r] = readSeen[r]] /\ readSeen[r] \in Glance
      BY <2>0, ReaderFacts
    <3> QED BY <2>0, <3>1, <3>2, <3>3, ReaderMoves
  <2> QED BY <2>1, <2>2
<1>7. ASSUME NEW r \in Readers, NEW n \in OrbitalNames, Reads!ViewerOf(r, n) PROVE ReaderInv'
  <2> DEFINE a == [step |-> "viewer", name |-> n]
  <2>1. readAt' = [readAt EXCEPT ![r] = a] /\ UNCHANGED <<readTold, readSeen, readKernel>>
    BY <1>7 DEF Reads!ViewerOf, Reads!Begins, Reads!registry
  <2>2. a \in Place /\ \A g : ReadingOk(a, g)
    BY DEF Place, ReadingOk, Reads!Step
  <2> HIDE DEF a
  <2>3. readSeen' = [readSeen EXCEPT ![r] = readSeen[r]] /\ readSeen[r] \in Glance
    BY <2>1, ReaderFacts
  <2> QED BY <2>1, <2>2, <2>3, ReaderMoves
<1>8. ASSUME NEW r \in Readers, NEW n \in OrbitalNames, Reads!GetIdentityRoster(r, n)
      PROVE  ReaderInv'
  <2> DEFINE a == [step |-> "over", name |-> n]
  <2>1. readAt' = [readAt EXCEPT ![r] = a] /\ UNCHANGED <<readSeen, readKernel>>
    BY <1>8 DEF Reads!GetIdentityRoster, Reads!Begins, Reads!registry
  <2>2. \E x : AnswerOk(x) /\ readTold' = [readTold EXCEPT ![r] = x]
    <3>1. ASSUME Reads!Owned(n) PROVE AnswerOk(Reads!Says("roster", readResolved, None, {readStore[n]}))
      BY <3>1 DEF RegistryInv, Reads!Owned, Reads!Says, AnswerOk
    <3>2. AnswerOk(Reads!Refused("roster"))
      BY DEF Reads!Refused, Reads!Says, AnswerOk
    <3> QED BY <1>8, <3>1, <3>2 DEF Reads!GetIdentityRoster, Reads!Tells
  <2>3. a \in Place /\ \A g : ReadingOk(a, g)
    BY DEF Place, ReadingOk, Reads!Step
  <2> HIDE DEF a
  <2>4. readSeen' = [readSeen EXCEPT ![r] = readSeen[r]] /\ readSeen[r] \in Glance
    BY <2>1, ReaderFacts
  <2> QED BY <2>1, <2>2, <2>3, <2>4, ReaderMoves
<1>9. ASSUME NEW r \in Readers, Reads!LookAgain(r) PROVE ReaderInv'
  <2> DEFINE s == readAt[r].step
             n == readAt[r].name
             a == [readAt[r] EXCEPT !.step = "over"]
  <2>1. s \in {"describe", "rows"} /\ n \in OrbitalNames
    BY <1>9, ReaderFacts DEF Reads!LookAgain, Reads!Waits, ReadingOk
  <2>2. AnswerOk(Reads!Answered(n, s))
    BY <1>9, <2>1, AnswerIsOk DEF Reads!LookAgain, Reads!Swapping
  <2>3. /\ readAt' = [readAt EXCEPT ![r].step = "over"] /\ UNCHANGED <<readSeen, readKernel>>
        /\ readTold' = [readTold EXCEPT ![r] = Reads!Answered(n, s)]
    BY <1>9 DEF Reads!LookAgain, Reads!Goes, Reads!Tells, Reads!registry
  <2>4. "over" \in Reads!Step
    BY DEF Reads!Step
  <2>5. /\ a \in Place /\ a.step = "over" /\ a.name = n /\ readAt' = [readAt EXCEPT ![r] = a]
        /\ readSeen' = [readSeen EXCEPT ![r] = readSeen[r]] /\ readSeen[r] \in Glance
    BY <2>3, <2>4, ReaderFacts
  <2> HIDE DEF a
  <2>6. ReadingOk(a, readSeen[r])
    BY <2>1, <2>5 DEF ReadingOk
  <2> QED BY <2>2, <2>3, <2>5, <2>6, ReaderMoves
<1>10. ASSUME NEW r \in Readers, Reads!ResolveRows(r) PROVE ReaderInv'
  <2> DEFINE n == readAt[r].name
             asks == Reads!Owned(n) /\ readKernel.app # None /\ n \in HasOrbitals[readKernel.app]
  <2>0. readAt[r].step = "viewer" /\ n \in OrbitalNames /\ UNCHANGED readKernel
          /\ "over" \in Reads!Step /\ "resolving" \in Reads!Step
    BY <1>10, ReaderFacts DEF Reads!ResolveRows, Reads!registry, ReadingOk, Reads!Step
  <2>1. CASE asks
    <3> DEFINE g == [app |-> readResolved, nth |-> readKernel.nth, rows |-> {}]
               a == [readAt[r] EXCEPT !.step = "resolving"]
    <3>1. /\ readSeen' = [readSeen EXCEPT ![r] = g]
          /\ readAt' = [readAt EXCEPT ![r].step = "resolving"]
          /\ UNCHANGED readTold
      BY <1>10, <2>1 DEF Reads!ResolveRows, Reads!Goes
    <3>2. a \in Place /\ a.step = "resolving" /\ a.name = n /\ readAt' = [readAt EXCEPT ![r] = a]
      BY <2>0, <3>1, ReaderFacts
    <3>3. g \in Glance /\ g.nth = readKernel.nth /\ g.rows = {} /\ readKernel.nth \in Nat
      BY DEF Glance, RegistryInv
    <3> HIDE DEF a, g
    <3>4. ReadingOk(a, g)
      BY <2>0, <2>1, <3>2, <3>3 DEF ReadingOk
    <3> QED BY <2>0, <3>1, <3>2, <3>3, <3>4, ReaderMoves
  <2>2. CASE ~asks
    <3> DEFINE a == [readAt[r] EXCEPT !.step = "over"]
    <3>1. \E x : AnswerOk(x) /\ readTold' = [readTold EXCEPT ![r] = x]
      BY <1>10, <2>2 DEF Reads!ResolveRows, Reads!Tells, Reads!Says, Reads!Refused, AnswerOk
    <3>2. readAt' = [readAt EXCEPT ![r].step = "over"] /\ UNCHANGED readSeen
      BY <1>10, <2>2 DEF Reads!ResolveRows, Reads!Goes
    <3>3. /\ a \in Place /\ a.step = "over" /\ a.name = n /\ readAt' = [readAt EXCEPT ![r] = a]
          /\ readSeen' = [readSeen EXCEPT ![r] = readSeen[r]] /\ readSeen[r] \in Glance
      BY <2>0, <3>2, ReaderFacts
    <3> HIDE DEF a
    <3>4. ReadingOk(a, readSeen[r])
      BY <2>0, <3>3 DEF ReadingOk
    <3> QED BY <2>0, <3>1, <3>3, <3>4, ReaderMoves
  <2> QED BY <2>1, <2>2
<1>11. ASSUME NEW r \in Readers, Reads!AnswerRead(r) PROVE ReaderInv'
  <2> DEFINE n == readAt[r].name
             g == [readSeen[r] EXCEPT !.rows = {readStore[n]}]
  <2>1. /\ readAt[r].step = "resolving" /\ UNCHANGED <<readAt, readTold, readKernel>>
        /\ readSeen' = [readSeen EXCEPT ![r].rows = {readStore[n]}]
    BY <1>11 DEF Reads!AnswerRead, Reads!registry
  <2>2. n \in OrbitalNames /\ readStore[n] \in Apps \cup {None}
    BY <2>1, ReaderFacts DEF ReadingOk, RegistryInv
  <2>3. /\ g \in Glance /\ g.rows = {readStore[n]} /\ g.nth = readSeen[r].nth
        /\ readSeen' = [readSeen EXCEPT ![r] = g]
    BY <2>1, <2>2, ReaderFacts DEF Glance
  <2>4. (readKernel.app # None /\ n \in HasOrbitals[readKernel.app]) => readStore[n] = readKernel.app
    BY DEF RegistryInv
  <2>5. readAt[r] \in Place /\ readAt' = [readAt EXCEPT ![r] = readAt[r]] /\ ReadingOk(readAt[r], readSeen[r])
    BY <2>1, ReaderFacts
  <2> HIDE DEF g
  <2>6. ReadingOk(readAt[r], g)
    BY <2>1, <2>3, <2>4, <2>5 DEF ReadingOk
  <2> QED BY <2>1, <2>3, <2>5, <2>6, ReaderMoves
<1>12. ASSUME NEW r \in Readers, Reads!ResumeResolve(r) PROVE ReaderInv'
  <2> DEFINE a == [readAt[r] EXCEPT !.step = "over"]
  <2>1. \E x : AnswerOk(x) /\ readTold' = [readTold EXCEPT ![r] = x]
    <3>0. readAt[r].step = "resolving" /\ ReadingOk(readAt[r], readSeen[r])
      BY <1>12, ReaderFacts DEF Reads!ResumeResolve
    <3>1. CASE Reads!SameKernel(r)
      <4> DEFINE x == Reads!Says("page", readSeen[r].app, readKernel.app, readSeen[r].rows)
      <4>1. readSeen[r].rows = {readKernel.app}
        BY <1>12, <3>0, <3>1 DEF Reads!ResumeResolve, Reads!SameKernel, ReadingOk
      <4>2. AnswerOk(x)
        BY <4>1 DEF AnswerOk, Reads!Says
      <4>3. readTold' = [readTold EXCEPT ![r] = x]
        BY <1>12, <3>1 DEF Reads!ResumeResolve, Reads!Tells
      <4> QED BY <4>2, <4>3
    <3>2. CASE ~Reads!SameKernel(r)
      <4>1. AnswerOk(Reads!Refused("failed"))
        BY DEF AnswerOk, Reads!Says, Reads!Refused
      <4>2. readTold' = [readTold EXCEPT ![r] = Reads!Refused("failed")]
        BY <1>12, <3>2 DEF Reads!ResumeResolve, Reads!Tells
      <4> QED BY <4>1, <4>2
    <3> QED BY <3>1, <3>2
  <2>2. readAt[r].step = "resolving" /\ readAt' = [readAt EXCEPT ![r].step = "over"]
    BY <1>12 DEF Reads!ResumeResolve, Reads!Goes
  <2>3. UNCHANGED <<readSeen, readKernel>>
    BY <1>12, ResumeKeeps
  <2>4. "over" \in Reads!Step
    BY DEF Reads!Step
  <2>5. /\ a \in Place /\ a.step = "over" /\ a.name = readAt[r].name /\ readAt' = [readAt EXCEPT ![r] = a]
        /\ readSeen' = [readSeen EXCEPT ![r] = readSeen[r]] /\ readSeen[r] \in Glance
    BY <2>2, <2>3, <2>4, ReaderFacts
  <2> HIDE DEF a
  <2>6. ReadingOk(a, readSeen[r])
    BY <2>2, <2>5, ReaderFacts DEF ReadingOk
  <2> QED BY <2>1, <2>3, <2>5, <2>6, ReaderMoves
<1> QED BY <1>1, <1>2, <1>3, <1>4, <1>5, <1>6, <1>7, <1>8, <1>9, <1>10, <1>11, <1>12 DEF Reads!Next

-----------------------------------------------------------------------------
(* Kernels and their dispatches *)

\* What the engines remember their kernels know, a kernel belongs to one
\* engine, and a dispatch runs on a kernel that was opened.
KernelInv ==
  /\ Kernels!TypeOK
  /\ Kernels!ResetForgetsNothing /\ Kernels!FlightsEnd
  /\ \A e \in Engines : kernelHandle[e] <= kernelMade
  /\ \A e, f \in Engines : kernelHandle[e] = kernelHandle[f] => e = f \/ kernelHandle[e] = 0
  /\ \A d \in Dispatches : kernelRuns[d].on <= kernelMade
  /\ \A d \in Dispatches : kernelRuns[d].at = "awaiting" => kernelRuns[d].on # 0

\* The first engine has its first kernel.
LEMMA KernelInit == ASSUME Kernels!EngineInit PROVE KernelInv
BY ServerAssumption DEF Kernels!EngineInit, KernelInv, Kernels!TypeOK, Kernels!ResetForgetsNothing,
     Kernels!FlightsEnd, Kernels!Told, Kernels!Live

\* A dispatch goes on or is answered, on a kernel that lives.
LEMMA ProgressKeeps ==
  ASSUME KernelInv, NEW d \in Dispatches, NEW k \in 1 .. MaxKernels, k <= kernelMade,
         Kernels!Live(k), kernelRuns[d].at \in {"idle", "awaiting"},
         kernelRuns[d].at = "awaiting" => kernelRuns[d].on = k, Kernels!Progress(d, k),
         UNCHANGED <<kernelHandle, kernelMade, kernelKnows, kernelKept>>
  PROVE  KernelInv'
<1> USE ServerAssumption
<1>1. PICK at \in {"answered", "awaiting"} :
        /\ kernelRuns' = [kernelRuns EXCEPT ![d] = [at |-> at, on |-> k]]
        /\ kernelFlights' = IF at = "answered" THEN kernelFlights \ {<<k, d>>}
                           ELSE kernelFlights \cup {<<k, d>>}
  BY DEF Kernels!Progress
<1>2. /\ kernelRuns'[d].at = at /\ kernelRuns'[d].on = k
      /\ \A c \in Dispatches \ {d} : kernelRuns'[c] = kernelRuns[c]
  BY <1>1 DEF KernelInv, Kernels!TypeOK
<1>3. kernelFlights' \subseteq (1..MaxKernels) \X Dispatches
  BY <1>1 DEF KernelInv, Kernels!TypeOK
<1>4. kernelRuns' \in [Dispatches -> [at : {"idle", "awaiting", "answered", "failed"}, on : 0..MaxKernels]]
  <2>1. [at |-> at, on |-> k] \in [at : {"idle", "awaiting", "answered", "failed"}, on : 0..MaxKernels]
    OBVIOUS
  <2> QED BY <1>1, <2>1 DEF KernelInv, Kernels!TypeOK
<1>5. Kernels!TypeOK' /\ Kernels!ResetForgetsNothing'
  <2>1. Kernels!TypeOK'
    BY <1>3, <1>4 DEF KernelInv, Kernels!TypeOK
  <2>2. Kernels!ResetForgetsNothing'
    BY DEF KernelInv, Kernels!ResetForgetsNothing
  <2> QED BY <2>1, <2>2
<1>6. \A i : Kernels!Live(i)' <=> Kernels!Live(i)
  BY DEF Kernels!Live
<1>7. kernelFlights = {f \in (1..MaxKernels) \X Dispatches :
         Kernels!Live(f[1]) /\ kernelRuns[f[2]].at = "awaiting" /\ kernelRuns[f[2]].on = f[1]}
  BY DEF KernelInv, Kernels!FlightsEnd
<1>8. ASSUME NEW i \in 1..MaxKernels, NEW c \in Dispatches
      PROVE  <<i, c>> \in kernelFlights' <=>
               Kernels!Live(i) /\ kernelRuns'[c].at = "awaiting" /\ kernelRuns'[c].on = i
  <2>1. <<i, c>> \in kernelFlights <=>
          Kernels!Live(i) /\ kernelRuns[c].at = "awaiting" /\ kernelRuns[c].on = i
    BY <1>7
  <2>2. CASE c = d /\ i = k
    BY <1>1, <1>2, <2>2
  <2>3. CASE c = d /\ i # k
    BY <1>1, <1>2, <2>1, <2>3
  <2>4. CASE c # d
    BY <1>1, <1>2, <2>1, <2>4
  <2> QED BY <2>2, <2>3, <2>4
<1>9. Kernels!FlightsEnd'
  <2>1. \A f \in (1..MaxKernels) \X Dispatches :
          f \in kernelFlights' <=>
            Kernels!Live(f[1])' /\ kernelRuns'[f[2]].at = "awaiting" /\ kernelRuns'[f[2]].on = f[1]
    <3> TAKE f \in (1..MaxKernels) \X Dispatches
    <3>1. f = <<f[1], f[2]>> /\ f[1] \in 1..MaxKernels /\ f[2] \in Dispatches
      OBVIOUS
    <3> QED BY <1>6, <1>8, <3>1
  <2> QED BY <1>3, <2>1 DEF Kernels!FlightsEnd
<1>10. /\ \A c \in Dispatches : kernelRuns'[c].on <= kernelMade'
       /\ \A c \in Dispatches : kernelRuns'[c].at = "awaiting" => kernelRuns'[c].on # 0
  <2>1. ASSUME NEW c \in Dispatches
        PROVE  /\ kernelRuns[c].on <= kernelMade
               /\ kernelRuns[c].at = "awaiting" => kernelRuns[c].on # 0
    BY DEF KernelInv
  <2>2. ASSUME NEW c \in Dispatches
        PROVE  /\ kernelRuns'[c].on <= kernelMade
               /\ kernelRuns'[c].at = "awaiting" => kernelRuns'[c].on # 0
    <3>1. CASE c = d
      BY <1>2, <3>1
    <3>2. CASE c # d
      BY <1>2, <2>1, <3>2
    <3> QED BY <3>1, <3>2
  <2> QED BY <2>2
<1>11. /\ \A e \in Engines : kernelHandle'[e] <= kernelMade'
       /\ \A e, f \in Engines : kernelHandle'[e] = kernelHandle'[f] => e = f \/ kernelHandle'[e] = 0
  BY DEF KernelInv
<1> QED BY <1>5, <1>9, <1>10, <1>11 DEF KernelInv

\* Every step of the engines and their dispatches.
LEMMA KernelStep ==
  ASSUME KernelInv, Kernels!EngineNext
  PROVE  KernelInv'
<1> USE ServerAssumption DEF KernelInv, Kernels!TypeOK, Kernels!Told
<1>1. ASSUME NEW e \in Engines, NEW t \in Kernels!Told, Kernels!Tell(e, t) PROVE KernelInv'
  BY <1>1 DEF Kernels!Tell, Kernels!ResetForgetsNothing, Kernels!FlightsEnd, Kernels!Live
<1>2. ASSUME NEW e \in Engines, Kernels!Reset(e) PROVE KernelInv'
  <2> USE <1>2 DEF Kernels!Reset, Kernels!ToldAgain
  <2>1. Kernels!TypeOK'
    BY DEF Kernels!Freed
  <2>2. Kernels!ResetForgetsNothing'
    BY DEF Kernels!ResetForgetsNothing
  <2>3. Kernels!FlightsEnd'
    BY DEF Kernels!FlightsEnd, Kernels!Freed, Kernels!Live
  <2> QED BY <2>1, <2>2, <2>3
<1>3. ASSUME NEW e \in Engines, Kernels!Dispose(e) PROVE KernelInv'
  <2> USE <1>3 DEF Kernels!Dispose
  <2>1. Kernels!TypeOK' /\ Kernels!ResetForgetsNothing'
    BY DEF Kernels!Freed, Kernels!ResetForgetsNothing
  <2>3. Kernels!FlightsEnd'
    BY DEF Kernels!FlightsEnd, Kernels!Freed, Kernels!Live
  <2> QED BY <2>1, <2>3
<1>4. ASSUME NEW e \in Engines, Kernels!Fork(e) PROVE KernelInv'
  <2> USE <1>4 DEF Kernels!Fork
  <2>1. Kernels!TypeOK' /\ Kernels!ResetForgetsNothing'
    BY DEF Kernels!ResetForgetsNothing
  <2>3. Kernels!FlightsEnd'
    BY DEF Kernels!FlightsEnd, Kernels!Live
  <2> QED BY <2>1, <2>3
<1>5. ASSUME NEW e \in Engines, NEW d \in Dispatches, Kernels!Start(d, e) PROVE KernelInv'
  <2> DEFINE k == kernelHandle[e]
  <2>1. /\ k \in 1 .. MaxKernels /\ k <= kernelMade /\ Kernels!Live(k)
        /\ kernelRuns[d].at = "idle" /\ Kernels!Progress(d, k)
        /\ UNCHANGED <<kernelHandle, kernelMade, kernelKnows, kernelKept>>
    BY <1>5 DEF Kernels!Start, Kernels!Live
  <2> HIDE DEF k, KernelInv
  <2> QED BY <2>1, ProgressKeeps
<1>6. ASSUME NEW d \in Dispatches, Kernels!Resume(d) PROVE KernelInv'
  <2> DEFINE k == kernelRuns[d].on
  <2>0. k \in 0 .. MaxKernels /\ k <= kernelMade
    OBVIOUS
  <2>1. CASE Kernels!Live(k) /\ Kernels!Progress(d, k)
    <3>1. kernelRuns[d].at = "awaiting" /\ k \in 1 .. MaxKernels
      BY <1>6, <2>0 DEF Kernels!Resume
    <3>2. UNCHANGED <<kernelHandle, kernelMade, kernelKnows, kernelKept>>
      BY <1>6 DEF Kernels!Resume
    <3> HIDE DEF KernelInv
    <3> QED BY <2>0, <2>1, <3>1, <3>2, ProgressKeeps
  <2>2. CASE ~Kernels!Live(k)
    <3>1. /\ kernelRuns' = [kernelRuns EXCEPT ![d].at = "failed"]
          /\ UNCHANGED <<kernelHandle, kernelMade, kernelKnows, kernelKept, kernelFlights>>
      BY <1>6, <2>2 DEF Kernels!Resume
    <3>2. kernelRuns'[d].at = "failed" /\ kernelRuns'[d].on = k
      BY <3>1
    <3>3. \A c \in Dispatches \ {d} : kernelRuns'[c] = kernelRuns[c]
      BY <3>1
    <3>4. kernelRuns' \in [Dispatches -> [at : {"idle", "awaiting", "answered", "failed"},
                                        on : 0..MaxKernels]]
      BY <3>1
    <3>5. Kernels!FlightsEnd'
      BY <3>1, <3>2, <3>3, <2>2 DEF Kernels!FlightsEnd, Kernels!Live
    <3>6. Kernels!ResetForgetsNothing'
      BY <3>1 DEF Kernels!ResetForgetsNothing
    <3>7. \A c \in Dispatches : kernelRuns'[c].on = kernelRuns[c].on
      BY <3>2, <3>3
    <3>8. Kernels!TypeOK'
      BY <3>1, <3>4
    <3>9. /\ \A c \in Dispatches : kernelRuns'[c].on <= kernelMade'
          /\ \A c \in Dispatches : kernelRuns'[c].at = "awaiting" => kernelRuns'[c].on # 0
      BY <3>1, <3>2, <3>3, <3>7
    <3>10. /\ \A e \in Engines : kernelHandle'[e] <= kernelMade'
           /\ \A e, f \in Engines : kernelHandle'[e] = kernelHandle'[f] => e = f \/ kernelHandle'[e] = 0
      BY <3>1
    <3> HIDE DEF Kernels!TypeOK
    <3> QED BY <3>5, <3>6, <3>8, <3>9, <3>10 DEF KernelInv
  <2> QED BY <1>6, <2>1, <2>2 DEF Kernels!Resume
<1>7. ASSUME NEW d \in Dispatches, Kernels!Abandon(d) PROVE KernelInv'
  <2>1. /\ kernelRuns' = [kernelRuns EXCEPT ![d].at = "failed"] /\ kernelRuns[d].at = "awaiting"
        /\ kernelFlights' = kernelFlights \ {<<kernelRuns[d].on, d>>}
        /\ UNCHANGED <<kernelHandle, kernelMade, kernelKnows, kernelKept>>
    BY <1>7 DEF Kernels!Abandon, Kernels!Abandoned
  <2>2. Kernels!TypeOK'
    BY <2>1
  <2>3. /\ kernelRuns'[d].at = "failed" /\ kernelRuns'[d].on = kernelRuns[d].on
        /\ \A c \in Dispatches \ {d} : kernelRuns'[c] = kernelRuns[c]
    BY <2>1
  <2>4. Kernels!FlightsEnd'
    BY <2>1, <2>3 DEF Kernels!FlightsEnd, Kernels!Live
  <2>5. Kernels!ResetForgetsNothing'
    BY <2>1 DEF Kernels!ResetForgetsNothing
  <2> HIDE DEF Kernels!TypeOK
  <2> QED BY <2>1, <2>2, <2>3, <2>4, <2>5
<1> QED BY <1>1, <1>2, <1>3, <1>4, <1>5, <1>6, <1>7 DEF Kernels!EngineNext

-----------------------------------------------------------------------------
(* Rows and the asks of a kernel *)

Idle(a) == rowRowAsks[a].at \in {"idle", "done"}

AskStates ==
  [at : {"idle", "done"}]
    \cup [at : {"batch", "look", "delete", "query", "list"}, row : Rows]
    \cup [at : {"store", "back"}, row : Rows, existing : BOOLEAN, seen : SUBSET Asks]

\* One ask is busy at a time, what it saw of its row is so still, and a row
\* that is not there owes nothing.
RowInv ==
  /\ rowRowAsks \in [Asks -> AskStates]
  /\ rowPresent \subseteq Rows
  /\ rowFields \in [Rows -> SUBSET Asks] /\ rowDue \in [Rows -> SUBSET Asks]
  /\ rowRowAnswers \in [Asks -> SUBSET Asks]
  /\ \A a, b \in Asks : a = b \/ Idle(a) \/ Idle(b)
  /\ \A a \in Asks : rowRowAsks[a].at = "store" =>
       (rowRowAsks[a].existing <=> rowRowAsks[a].row \in rowPresent)
  /\ \A a \in Asks : rowRowAsks[a].at = "back" => a \in rowFields[rowRowAsks[a].row]
  /\ \A r \in Rows \ rowPresent : rowDue[r] = {}
  /\ Kernels!NoWriteLost

\* No ask is busy.
LEMMA RowInit == ASSUME Kernels!RowInit PROVE RowInv
BY DEF Kernels!RowInit, RowInv, Kernels!NoWriteLost, AskStates, Idle

\* An ask goes on to a step that claims nothing of its row.
LEMMA AskGoesOn ==
  ASSUME RowInv, NEW a \in Asks, NEW s \in AskStates, s.at \notin {"store", "back"},
         \A b \in Asks \ {a} : s.at = "done" \/ Idle(b),
         rowRowAsks' = [rowRowAsks EXCEPT ![a] = s],
         UNCHANGED <<rowPresent, rowFields, rowDue, rowRowAnswers>>
  PROVE  RowInv'
<1>1. rowRowAsks' \in [Asks -> AskStates]
  BY DEF RowInv
<1>2. rowRowAsks'[a] = s /\ \A b \in Asks \ {a} : rowRowAsks'[b] = rowRowAsks[b]
  BY DEF RowInv
<1>3. \A b, c \in Asks : b = c \/ Idle(b)' \/ Idle(c)'
  BY <1>2 DEF RowInv, Idle
<1>4. /\ \A b \in Asks : rowRowAsks'[b].at = "store" =>
            (rowRowAsks'[b].existing <=> rowRowAsks'[b].row \in rowPresent')
      /\ \A b \in Asks : rowRowAsks'[b].at = "back" => b \in rowFields'[rowRowAsks'[b].row]
  BY <1>2 DEF RowInv
<1>5. Kernels!NoWriteLost'
  BY DEF RowInv, Kernels!NoWriteLost
<1> QED BY <1>1, <1>3, <1>4, <1>5 DEF RowInv

\* A write is in its row, and the ask that made it is done.
LEMMA BatchWrites ==
  ASSUME RowInv, NEW a \in Asks, NEW r \in Rows, rowRowAsks[a].at = "batch",
         rowRowAsks' = [rowRowAsks EXCEPT ![a] = [at |-> "done"]],
         rowPresent' = rowPresent \cup {r},
         rowFields' = [rowFields EXCEPT ![r] = rowFields[r] \cup {a}],
         rowDue' = [rowDue EXCEPT ![r] = @ \cup {a}],
         rowRowAnswers' = [rowRowAnswers EXCEPT ![a] = rowFields'[r]]
  PROVE  RowInv'
<1>1. [at |-> "done"] \in AskStates
  BY DEF AskStates
<1>2. rowRowAsks' \in [Asks -> AskStates]
  BY <1>1 DEF RowInv
<1>3. rowRowAsks'[a].at = "done" /\ \A b \in Asks \ {a} : rowRowAsks'[b] = rowRowAsks[b]
  BY DEF RowInv
<1>4. \A b \in Asks : rowRowAsks'[b].at \in {"idle", "done"}
  BY <1>3 DEF RowInv, Idle
<1>5. /\ rowFields' \in [Rows -> SUBSET Asks] /\ rowDue' \in [Rows -> SUBSET Asks]
      /\ rowFields'[r] = rowFields[r] \cup {a} /\ rowDue'[r] = rowDue[r] \cup {a}
      /\ \A q \in Rows \ {r} : rowFields'[q] = rowFields[q] /\ rowDue'[q] = rowDue[q]
  BY DEF RowInv
<1>6. /\ rowRowAnswers' \in [Asks -> SUBSET Asks] /\ a \in rowRowAnswers'[a]
      /\ \A b \in Asks \ {a} : rowRowAnswers'[b] = rowRowAnswers[b]
  BY <1>5 DEF RowInv
<1>7. Kernels!NoWriteLost'
  BY <1>5, <1>6 DEF RowInv, Kernels!NoWriteLost
<1>8. rowPresent' \subseteq Rows /\ \A q \in Rows \ rowPresent' : rowDue'[q] = {}
  BY <1>5 DEF RowInv
<1> QED BY <1>2, <1>4, <1>5, <1>6, <1>7, <1>8 DEF RowInv, Idle

\* Every await of an ask of the kernel.
LEMMA RowStep ==
  ASSUME RowInv, Kernels!RowNext
  PROVE  RowInv'
<1> USE DEF RowInv, Kernels!NoWriteLost, Idle, AskStates, Kernels!At, Kernels!To, Kernels!Done
<1>1. ASSUME NEW a \in Asks, NEW r \in Rows, Kernels!Begin(a, r) PROVE RowInv'
  <2>1. rowRowAsks[a].at = "idle" /\ \A b \in Asks : Idle(b)
    BY <1>1, ServerAssumption DEF Kernels!Begin
  <2>2. PICK s \in AskStates : /\ s.at \notin {"store", "back"}
                             /\ rowRowAsks' = [rowRowAsks EXCEPT ![a] = s]
    BY <1>1 DEF Kernels!Begin
  <2>3. UNCHANGED <<rowPresent, rowFields, rowDue, rowRowAnswers>>
    BY <1>1 DEF Kernels!Begin
  <2> QED BY <2>1, <2>2, <2>3, AskGoesOn
<1>2. ASSUME NEW a \in Asks, Kernels!Query(a) PROVE RowInv'
  BY <1>2, SMTT(30) DEF Kernels!Query
<1>3. ASSUME NEW a \in Asks, Kernels!List(a) PROVE RowInv'
  BY <1>3 DEF Kernels!List
<1>4. ASSUME NEW a \in Asks, Kernels!Batch(a) PROVE RowInv'
  <2> DEFINE r == rowRowAsks[a].row
  <2>1. rowRowAsks[a].at = "batch" /\ r \in Rows /\ \A b \in Asks \ {a} : Idle(b)
    <3>1. rowRowAsks[a] \in AskStates
      OBVIOUS
    <3> QED BY <1>4, <3>1 DEF Kernels!Batch
  <2>2. CASE /\ Kernels!Written(a, r, rowFields[r])
             /\ rowDue' = [rowDue EXCEPT ![r] = @ \cup {a}]
             /\ Kernels!Answer(a, rowFields'[r])
    <3> HIDE DEF r
    <3> QED BY <2>1, <2>2, BatchWrites DEF Kernels!Written, Kernels!Answer
  <2>3. CASE /\ \/ rowRowAsks' = [rowRowAsks EXCEPT ![a] = [at |-> "look", row |-> r]]
                \/ rowRowAsks' = [rowRowAsks EXCEPT ![a] = [at |-> "done"]]
             /\ UNCHANGED <<rowPresent, rowFields, rowDue, rowRowAnswers>>
    <3>1. PICK s \in AskStates : /\ s.at \notin {"store", "back"}
                               /\ rowRowAsks' = [rowRowAsks EXCEPT ![a] = s]
      BY <2>1, <2>3
    <3> QED BY <2>1, <2>3, <3>1, AskGoesOn
  <2> QED BY <1>4, <2>2, <2>3 DEF Kernels!Batch
<1>5. ASSUME NEW a \in Asks, Kernels!Look(a) PROVE RowInv'
  <2> DEFINE r == rowRowAsks[a].row
             saw == [at |-> "store", row |-> r, existing |-> r \in rowPresent,
                     seen |-> rowFields[r]]
  <2>1. rowRowAsks[a].at = "look" /\ rowRowAsks[a] \in AskStates /\ r \in Rows
    BY <1>5, SMTT(30) DEF Kernels!Look
  <2>2. saw \in AskStates
    BY <2>1
  <2>3. /\ rowRowAsks' = [rowRowAsks EXCEPT ![a] = saw]
        /\ UNCHANGED <<rowPresent, rowFields, rowDue, rowRowAnswers>>
    BY <1>5 DEF Kernels!Look, Kernels!Existing
  <2>4. rowRowAsks' \in [Asks -> AskStates]
    BY <2>2, <2>3
  <2>5. saw.at = "store" /\ saw.row = r /\ (saw.existing <=> r \in rowPresent)
    OBVIOUS
  <2>6. rowRowAsks'[a] = saw /\ \A b \in Asks \ {a} : rowRowAsks'[b] = rowRowAsks[b]
    BY <2>3
  <2> HIDE DEF saw
  <2>7. \A b, c \in Asks : b = c \/ Idle(b)' \/ Idle(c)'
    BY <2>1, <2>5, <2>6
  <2> QED BY <2>1, <2>3, <2>4, <2>5, <2>6, <2>7
<1>6. ASSUME NEW a \in Asks, Kernels!Store(a) PROVE RowInv'
  BY <1>6 DEF Kernels!Store, Kernels!Written
<1>7. ASSUME NEW a \in Asks, Kernels!ReadBack(a) PROVE RowInv'
  BY <1>7 DEF Kernels!ReadBack, Kernels!Answer
<1>8. ASSUME NEW a \in Asks, Kernels!Delete(a) PROVE RowInv'
  BY <1>8 DEF Kernels!Delete
<1> QED BY <1>1, <1>2, <1>3, <1>4, <1>5, <1>6, <1>7, <1>8 DEF Kernels!RowNext

-----------------------------------------------------------------------------
(* The HTTP event transport *)

\* An event on its way is addressed to the app it was meant for, or to none.
HttpInv ==
  /\ httpBehavior = httpAsked
  /\ httpBehavior \in [Views -> Apps \cup {None}]
  /\ \A r \in httpPosts : r.kind = "send" => r.app = r.behavior
  /\ Http!ReachesItsOwnApp

\* No view has registered.
LEMMA HttpInit == ASSUME Http!Init PROVE HttpInv
BY DEF Http!Init, HttpInv, Http!ReachesItsOwnApp

\* Every call of a view and every arrival at the server.
LEMMA HttpStep ==
  ASSUME HttpInv, Http!Next
  PROVE  HttpInv'
<1> USE DEF HttpInv, Http!ReachesItsOwnApp, Http!Post
<1>1. ASSUME NEW v \in Views, Http!Unregister(v) PROVE HttpInv'
  BY <1>1 DEF Http!Unregister
<1>2. ASSUME NEW v \in Views, NEW a \in Apps, Http!Register(v, a) PROVE HttpInv'
  BY <1>2 DEF Http!Register
<1>3. ASSUME NEW v \in Views, NEW own \in Apps \cup {None}, Http!Send(v, own) PROVE HttpInv'
  BY <1>3 DEF Http!Send, Http!Addressed
<1>4. ASSUME Http!Arrive PROVE HttpInv'
  <2>1. PICK r \in httpPosts :
          /\ httpPosts' = httpPosts \ {r}
          /\ Http!Registered(r) \/ Http!Unregistered(r) \/ Http!Dispatched(r) \/ Http!Lost(r)
          /\ UNCHANGED <<httpBehavior, httpAsked, httpPosted>>
    BY <1>4 DEF Http!Arrive
  <2>2. CASE Http!Dispatched(r)
    BY <2>1, <2>2 DEF Http!Dispatched
  <2> QED BY <2>1, <2>2 DEF Http!Registered, Http!Unregistered, Http!Lost
<1> QED BY <1>1, <1>2, <1>3, <1>4 DEF Http!Next

-----------------------------------------------------------------------------
(* Reading what a resolver writes *)

\* The behaviors b are those of the first lazy pages of version v.
BehaviorsOf(v, b) ==
  /\ b \in Seq(Pages \X (1..Versions))
  /\ \A i \in 1..Len(b) :
       /\ b[i][1] = DeclaredPages[v][i]
       /\ ShownOrbital[b[i][2]][b[i][1]] = ShownOrbital[v][b[i][1]]

\* What was read so far fits the program that was read, and what runs was read.
FileInv ==
  /\ fileDisk \in [Register!File -> 0..Versions]
  /\ fileNewest \in 1..Versions
  /\ fileReading \in {"catalogs", "lazy"} =>
       fileProgram \in 1..Versions /\ BehaviorsOf(fileProgram, fileLazy)
  /\ fileReading = "idle" => fileLazy = <<>>
  /\ fileRunning # Register!Nothing =>
       /\ BehaviorsOf(fileRunning.program, fileRunning.lazy)
       /\ Len(fileRunning.lazy) = Len(DeclaredPages[fileRunning.program])

\* Nothing was read yet.
LEMMA FileInit == ASSUME Register!ReadInit PROVE FileInv
BY ServerAssumption DEF Register!ReadInit, FileInv, Register!File

\* The behaviors read so far stay right when the next one is read.
LEMMA OneMoreBehavior ==
  ASSUME NEW v, NEW b, BehaviorsOf(v, b), NEW q \in Pages, NEW w \in 1..Versions,
         q = DeclaredPages[v][Len(b) + 1], ShownOrbital[w][q] = ShownOrbital[v][q]
  PROVE  BehaviorsOf(v, Append(b, <<q, w>>))
<1> DEFINE c == Append(b, <<q, w>>)
<1>1. b \in Seq(Pages \X (1..Versions)) /\ Len(b) \in Nat
  BY DEF BehaviorsOf
<1>2. /\ c \in Seq(Pages \X (1..Versions)) /\ Len(c) = Len(b) + 1 /\ c[Len(b) + 1] = <<q, w>>
      /\ \A i \in 1..Len(b) : c[i] = b[i]
  BY <1>1
<1> HIDE DEF c
<1>3. ASSUME NEW i \in 1..Len(c)
      PROVE  /\ c[i][1] = DeclaredPages[v][i]
             /\ ShownOrbital[c[i][2]][c[i][1]] = ShownOrbital[v][c[i][1]]
  <2>1. CASE i = Len(b) + 1
    BY <1>2, <2>1
  <2>2. CASE i \in 1..Len(b)
    <3>1. c[i] = b[i]
      BY <1>2, <2>2
    <3>2. b[i][1] = DeclaredPages[v][i] /\ ShownOrbital[b[i][2]][b[i][1]] = ShownOrbital[v][b[i][1]]
      BY <2>2 DEF BehaviorsOf
    <3> QED BY <3>1, <3>2
  <2> QED BY <1>1, <1>2, <2>1, <2>2
<1> QED BY <1>2, <1>3 DEF BehaviorsOf, c

\* Every step of the resolver that writes and of the reader.
LEMMA FileStep ==
  ASSUME FileInv, Register!ReadNext
  PROVE  FileInv'
<1> USE ServerAssumption DEF FileInv
<1>1. CASE Register!ReadProgram
  <2>1. BehaviorsOf(fileDisk["program"], <<>>)
    BY DEF BehaviorsOf
  <2>2. fileDisk["program"] \in 0..Versions
    BY DEF Register!File
  <2>3. CASE fileDisk["program"] = 0
    BY <1>1, <2>3 DEF Register!ReadProgram, Register!FailReading
  <2>4. CASE fileDisk["program"] # 0
    BY <1>1, <2>1, <2>2, <2>4 DEF Register!ReadProgram
  <2> QED BY <2>3, <2>4
<1>2. CASE Register!ReadCatalogs
  BY <1>2 DEF Register!ReadCatalogs, Register!FailReading
<1>3. CASE Register!ReadLazy
  <2> DEFINE p == DeclaredPages[fileProgram][Len(fileLazy) + 1]
  <2>1. /\ fileReading = "lazy" /\ Len(fileLazy) < Len(DeclaredPages[fileProgram])
        /\ UNCHANGED <<fileDisk, fileWriting, fileNewest>>
    BY <1>3 DEF Register!ReadLazy
  <2>2. fileProgram \in 1..Versions /\ fileLazy \in Seq(Pages \X (1..Versions))
          /\ DeclaredPages[fileProgram] \in Seq(Pages)
    BY <2>1 DEF BehaviorsOf
  <2>3. p \in Pages
    BY <2>1, <2>2
  <2>4. fileDisk[p] \in 0..Versions
    BY <2>3 DEF Register!File
  <2>5. CASE fileDisk[p] # 0 /\ Register!Shows(p, fileDisk[p])
    <3>1. /\ fileLazy' = Append(fileLazy, <<p, fileDisk[p]>>)
          /\ fileReading' = "catalogs" /\ UNCHANGED <<fileProgram, fileRunning>>
      BY <1>3, <2>5 DEF Register!ReadLazy
    <3>2. ShownOrbital[fileDisk[p]][p] = ShownOrbital[fileProgram][p]
      BY <2>5 DEF Register!Shows
    <3>3. PICK v \in 1..Versions : v = fileDisk[p]
      BY <2>4, <2>5
    <3>4. PICK q \in Pages : q = p
      BY <2>3
    <3>5. BehaviorsOf(fileProgram, Append(fileLazy, <<q, v>>))
      <4>1. q = DeclaredPages[fileProgram][Len(fileLazy) + 1] /\ ShownOrbital[v][q] = ShownOrbital[fileProgram][q]
        BY <3>2, <3>3, <3>4
      <4> QED BY <2>1, <4>1, OneMoreBehavior
    <3> QED BY <2>1, <2>2, <3>1, <3>3, <3>4, <3>5
  <2>6. CASE ~(fileDisk[p] # 0 /\ Register!Shows(p, fileDisk[p]))
    BY <1>3, <2>1, <2>6 DEF Register!ReadLazy, Register!FailReading
  <2> QED BY <2>5, <2>6
<1>4. CASE Register!Register
  BY <1>4 DEF Register!Register
<1>5. CASE Register!Again
  BY <1>5 DEF Register!Again
<1>6. CASE Register!Resolve
  BY <1>6 DEF Register!Resolve
<1>7. ASSUME NEW f \in Register!File, Register!Write(f) PROVE FileInv'
  BY <1>7 DEF Register!Write
<1> QED BY <1>1, <1>2, <1>3, <1>4, <1>5, <1>6, <1>7 DEF Register!ReadNext

\* So the program that runs shows no page whose behavior does not have it.
LEMMA FileHolds == ASSUME FileInv PROVE Register!LazyPagesWork
<1> SUFFICES ASSUME fileRunning # Register!Nothing
             PROVE  LET v == fileRunning.program IN
                    /\ Len(fileRunning.lazy) = Len(DeclaredPages[v])
                    /\ \A i \in DOMAIN fileRunning.lazy :
                         /\ fileRunning.lazy[i][1] = DeclaredPages[v][i]
                         /\ ShownOrbital[fileRunning.lazy[i][2]][fileRunning.lazy[i][1]]
                              = ShownOrbital[v][DeclaredPages[v][i]]
  BY DEF Register!LazyPagesWork
<1>1. PICK b : b = fileRunning.lazy
  OBVIOUS
<1>2. b \in Seq(Pages \X (1..Versions)) /\ DOMAIN b = 1..Len(b)
  BY <1>1 DEF FileInv, BehaviorsOf
<1> QED BY <1>1, <1>2 DEF FileInv, BehaviorsOf

-----------------------------------------------------------------------------
(* The composition *)

\* A part that rests keeps its invariant.
LEMMA BusRests == ASSUME BusInv, UNCHANGED busVars PROVE BusInv'
BY DEF busVars, BusInv, SetsInv, FramesInv, FrameOk, Waits

\* So does routing.
LEMMA RouteRests == ASSUME RouteInv, UNCHANGED routeVars PROVE RouteInv'
BY DEF routeVars, RouteInv, Events!RenameProof, Events!ById

\* So do the legs.
LEMMA LegsRest == ASSUME LegInv, UNCHANGED legVars PROVE LegInv'
BY DEF legVars, LegInv, AtItsData, Legs!EachSeedAtItsData

\* So does the bridge.
LEMMA BridgeRests == ASSUME BridgeInv, UNCHANGED bridgeVars PROVE BridgeInv'
BY DEF bridgeVars, BridgeInv, OnItsWay, ForOrbitals, Bridge!ForwardedOnceToAll

\* So do the seeding and the reading of a program.
LEMMA PersonaRests == ASSUME PersonaInv, UNCHANGED personaVars PROVE PersonaInv'
BY DEF personaVars, PersonaInv

\* So do the reports of the pages and the watch.
LEMMA PageRests == ASSUME ReportInv, WatchInv, UNCHANGED pageVars PROVE ReportInv' /\ WatchInv'
BY DEF pageVars, ReportInv, WatchInv, WillWatch

\* So does the router.
LEMMA RouterRests == ASSUME RouterInv, UNCHANGED routerVars PROVE RouterInv'
BY DEF routerVars, RouterInv, TickInv, StreamInv, QueueOk, RequestOk

\* So do the readers.
LEMMA ReadsRest == ASSUME RegistryInv, ReaderInv, UNCHANGED readVars PROVE RegistryInv' /\ ReaderInv'
BY DEF readVars, RegistryInv, ReaderInv, ReadingOk, Place, Glance

\* So do the kernels.
LEMMA KernelsRest == ASSUME KernelInv, UNCHANGED kernelVars PROVE KernelInv'
BY DEF kernelVars, KernelInv, Kernels!TypeOK, Kernels!ResetForgetsNothing, Kernels!FlightsEnd, Kernels!Live

\* So do the asks.
LEMMA RowsRest == ASSUME RowInv, UNCHANGED rowVars PROVE RowInv'
BY DEF rowVars, RowInv, Idle, Kernels!NoWriteLost

\* So does the HTTP transport.
LEMMA HttpRests == ASSUME HttpInv, UNCHANGED httpVars PROVE HttpInv'
BY DEF httpVars, HttpInv, Http!ReachesItsOwnApp

\* So does the reader of files.
LEMMA FileRests == ASSUME FileInv, UNCHANGED fileVars PROVE FileInv'
BY DEF fileVars, FileInv

\* The invariant of the composition.
ServerInv ==
  /\ BusInv /\ RouteInv /\ LegInv /\ BridgeInv /\ PersonaInv
  /\ ReportInv /\ WatchInv /\ RouterInv /\ RegistryInv /\ ReaderInv
  /\ KernelInv /\ RowInv /\ HttpInv /\ FileInv

\* A step runs one part while the others rest.
LEMMA OnePartRuns ==
  ASSUME ServerInv, Next
  PROVE  ServerInv'
<1>1. /\ \/ Events!BusNext \/ UNCHANGED busVars
      /\ \/ Events!RouteNext \/ UNCHANGED routeVars
      /\ \/ Legs!Next \/ UNCHANGED legVars
      /\ \/ Bridge!Next \/ UNCHANGED bridgeVars
      /\ \/ Register!SeedNext \/ UNCHANGED personaVars
      /\ \/ Watched!Next \/ UNCHANGED pageVars
      /\ \/ Router!Next \/ UNCHANGED routerVars
      /\ \/ Reads!Next \/ UNCHANGED readVars
      /\ \/ Kernels!EngineNext \/ UNCHANGED kernelVars
      /\ \/ Kernels!RowNext \/ UNCHANGED rowVars
      /\ \/ Http!Next \/ UNCHANGED httpVars
      /\ \/ Register!ReadNext \/ UNCHANGED fileVars
  BY DEF Next, Rest
<1>2. BusInv' /\ RouteInv' /\ LegInv' /\ BridgeInv'
  BY <1>1, BusStep, RouteStep, LegStep, BridgeStep, BusRests, RouteRests, LegsRest, BridgeRests
     DEF ServerInv
<1>3. PersonaInv' /\ ReportInv' /\ WatchInv' /\ RouterInv'
  BY <1>1, PersonaStep, ReportStep, WatchStep, TickStep, StreamStep, PersonaRests, PageRests,
     RouterRests DEF ServerInv, RouterInv
<1>4. RegistryInv' /\ ReaderInv' /\ KernelInv' /\ RowInv' /\ HttpInv' /\ FileInv'
  BY <1>1, RegistryStep, ReaderStep, KernelStep, RowStep, HttpStep, FileStep, ReadsRest,
     KernelsRest, RowsRest, HttpRests, FileRests DEF ServerInv
<1> QED BY <1>2, <1>3, <1>4 DEF ServerInv

\* Everything the parts keep holds whatever part runs.
THEOREM PartsAreKept == Spec => []ServerInv
<1>1. Init => ServerInv
  BY BusStart, RouteInit, LegInit, BridgeInit, PersonaInit, PageInit, RouterInit, ReadsInit,
     KernelInit, RowInit, HttpInit, FileInit DEF Init, ServerInv
<1>2. ServerInv /\ [Next]_vars => ServerInv'
  <2>1. ASSUME ServerInv, UNCHANGED vars PROVE ServerInv'
    BY <2>1, BusRests, RouteRests, LegsRest, BridgeRests, PersonaRests, PageRests, RouterRests,
       ReadsRest, KernelsRest, RowsRest, HttpRests, FileRests DEF vars, ServerInv
  <2> QED BY <2>1, OnePartRuns
<1> QED BY <1>1, <1>2, PTL DEF Spec

\* So a tick runs once however often its app is replaced, and a stream tells
\* its own turn.
LEMMA RouterHolds == ASSUME RouterInv PROVE Router!TicksRunOnce /\ Router!StreamsTellTheirTurn
BY DEF RouterInv, TickInv, StreamInv, QueueOk, RequestOk, TellsItsTurn, Router!TicksRunOnce, Router!StreamsTellTheirTurn

\* So a reader is answered of one app.
LEMMA ReadsHold == ASSUME ReaderInv PROVE Reads!AnswersOfOneApp /\ Reads!NotFoundMeansGone
BY DEF ReaderInv, ReadingOk, AnswerOk, Reads!AnswersOfOneApp, Reads!NotFoundMeansGone

\* Whoever listens is told, and once: the listeners of an emit under each of
\* its keys whatever others do to the bus meanwhile, the server orbitals of an
\* event the bridge forwards, and a tab's reports of a watched element.
THEOREM EveryoneToldOnce == Spec => []EveryoneIsToldOnce
<1>1. ServerInv => EveryoneIsToldOnce
  BY BusHolds, PageHolds DEF ServerInv, EveryoneIsToldOnce, BridgeInv
<1> QED BY <1>1, PartsAreKept, PTL

\* An event arrives where it was addressed to, and only there: at the trait a
\* listener named, at the residence of the data, at the app its view registered.
THEOREM EventsArrive == Spec => []ArrivesWhereItBelongs
<1>1. ServerInv => ArrivesWhereItBelongs
  BY DEF ServerInv, ArrivesWhereItBelongs, RouteInv, LegInv, HttpInv
<1> QED BY <1>1, PartsAreKept, PTL

\* The rows that are seeded belong to the viewer named in the end, and no write
\* of a kernel's ask is undone by the way the adapter stores it.
THEOREM RowsKept == Spec => []RowsAreKept
<1>1. ServerInv => RowsAreKept
  BY PersonaHolds DEF ServerInv, RowsAreKept, RowInv
<1> QED BY <1>1, PartsAreKept, PTL

\* A tick runs once, a stream tells its own turn, a reader is told of one app
\* although it is swapped between its awaits, a kernel that is opened again
\* knows what its predecessor was told, and flights end with their dispatches.
THEOREM TurnsWhole == Spec => []TurnsAreWhole
<1>1. ServerInv => TurnsAreWhole
  BY RouterHolds, ReadsHold DEF ServerInv, TurnsAreWhole, KernelInv
<1> QED BY <1>1, PartsAreKept, PTL

\* A program read while its resolver writes it shows no page whose behavior
\* does not have it.
THEOREM LazyPagesAlwaysWork == Spec => []LazyPagesWork
<1>1. ServerInv => LazyPagesWork
  BY FileHolds DEF ServerInv, LazyPagesWork
<1> QED BY <1>1, PartsAreKept, PTL
-----------------------------------------------------------------------------
(* The types of the parts *)

\* The bus keeps its types: the calls and the emits stay within their bounds.
LEMMA BusTypes ==
  ASSUME BusInv, BusInv', Events!TypeOK, Events!BusNext \/ UNCHANGED busVars
  PROVE  Events!TypeOK'
<1>1. busCalls' \in 0..MaxSubscriptions /\ busEmits' \in 0..MaxEmits
  <2>1. ASSUME NEW k, NEW l, Events!On(k, l) PROVE busCalls' = busCalls + 1 /\ busCalls < MaxSubscriptions /\ busEmits' = busEmits
    BY <2>1 DEF Events!On
  <2>2. ASSUME NEW b, Events!Emit(b) PROVE busEmits' = busEmits + 1 /\ busEmits < MaxEmits /\ busCalls' = busCalls
    BY <2>2 DEF Events!Emit
  <2>3. ASSUME NEW h, Events!Unsubscribe(h) PROVE busEmits' = busEmits /\ busCalls' = busCalls
    BY <2>3 DEF Events!Unsubscribe
  <2>4. CASE UNCHANGED <<busEmits, busCalls>>
    BY <2>4 DEF Events!TypeOK
  <2>5. \/ \E k, l : Events!On(k, l)
        \/ \E b : Events!Emit(b)
        \/ UNCHANGED <<busEmits, busCalls>>
    BY <2>3 DEF Events!BusNext, busVars, Events!Clear, Events!Deliver, Events!Return, Events!Turn, Events!EndEmit
  <2> QED BY <2>1, <2>2, <2>4, <2>5, ServerAssumption DEF Events!TypeOK
<1>2. \A i \in 1..Len(busStack') : busStack'[i].phase \in {"first", "second", "any", "over"}
  <2>1. \A i \in 1..Len(busStack') : busStack'[i] \in Frame
    BY DEF BusInv, FramesInv
  <2> QED BY <2>1 DEF Frame
<1> QED BY <1>1, <1>2 DEF BusInv, SetsInv, Events!TypeOK

\* The legs keep theirs.
LEMMA LegTypes ==
  ASSUME LegInv, LegInv', Legs!TypeOK, Legs!Next \/ UNCHANGED legVars
  PROVE  Legs!TypeOK'
<1>1. \A i \in 1..Len(legLegs') : legLegs'[i].at \in {"local", "remote"} /\ legLegs'[i].traits \subseteq Traits
  <2>1. \A i \in 1..Len(legLegs') : legLegs'[i] \in Leg
    BY DEF LegInv
  <2> QED BY <2>1 DEF Leg
<1>2. CASE UNCHANGED legVars
  BY <1>1, <1>2 DEF legVars, Legs!TypeOK
<1>3. ASSUME NEW seeds \in Legs!SeqOf(Traits, 3), NEW others \in SUBSET Traits, Legs!Send(seeds, others)
      PROVE  Legs!TypeOK'
  <2>1. seeds \in Seq(Traits)
    <3>1. PICK m \in 0..3 : seeds \in [1..m -> Traits]
      BY DEF Legs!SeqOf
    <3> QED BY <3>1
  <2>2. legRequest' = Legs!Idle \/ legRequest' = [seeds |-> seeds, named |-> Legs!ToSet(seeds) \cup others]
    BY <1>3 DEF Legs!Send
  <2>3. Legs!ToSet(seeds) \subseteq Traits
    BY <2>1 DEF Legs!ToSet
  <2>4. legRequest'.seeds \in Seq(Traits) /\ legRequest'.named \subseteq Traits
    <3>1. <<>> \in Seq(Traits)
      OBVIOUS
    <3>2. CASE legRequest' = Legs!Idle
      BY <3>1, <3>2 DEF Legs!Idle
    <3>3. CASE legRequest' = [seeds |-> seeds, named |-> Legs!ToSet(seeds) \cup others]
      BY <2>1, <2>3, <3>3
    <3> QED BY <2>2, <3>2, <3>3
  <2>5. /\ legSends < MaxSends /\ legSends' = legSends + 1 /\ legVerdict' \in {"refused", "running"}
        /\ legRan' = {} /\ legTwice' = FALSE /\ legReplies' = <<>> /\ legNeed' = legNeed /\ legRemote' = legRemote
    BY <1>3 DEF Legs!Send
  <2>6. legSends' \in 0..MaxSends
    <3>1. MaxSends \in Nat /\ legSends \in 0..MaxSends
      BY ServerAssumption DEF Legs!TypeOK
    <3> QED BY <2>5, <3>1
  <2>8. legReplies' \in Seq(BOOLEAN) /\ legTwice' \in BOOLEAN
    <3>1. <<>> \in Seq(BOOLEAN)
      OBVIOUS
    <3>2. FALSE \in BOOLEAN
      BY Zenon
    <3> QED BY <2>5, <3>1, <3>2, Zenon
  <2>7. legNeed' \in [Traits -> Legs!Need] /\ legRemote' \in BOOLEAN
    BY <2>5, Zenon DEF Legs!TypeOK
  <2> QED BY <1>1, <2>4, <2>5, <2>6, <2>7, <2>8 DEF Legs!TypeOK
<1>4. ASSUME NEW outcome \in {"success", "failure", "thrown"}, Legs!RunLeg(outcome) PROVE Legs!TypeOK'
  <2> DEFINE leg == Head(legLegs)
  <2>1. leg.at \in {"local", "remote"} /\ leg.traits \subseteq Traits
    <3>1. legLegs # <<>> /\ leg \in Leg
      BY <1>4, TailFacts DEF Legs!RunLeg, LegInv
    <3> QED BY <3>1 DEF Leg
  <2>2. leg.traits \X {leg.at} \subseteq Traits \X {"local", "remote"}
    BY <2>1
  <2>3. legRan' \subseteq legRan \cup (leg.traits \X {leg.at})
    BY <1>4 DEF Legs!RunLeg
  <2>4. legTwice' \in BOOLEAN
    BY <1>4, Zenon DEF Legs!RunLeg, Legs!TypeOK
  <2>5. /\ legNeed' = legNeed /\ legRemote' = legRemote /\ legSends' = legSends
        /\ legVerdict' \in {legVerdict, "thrown"} /\ legRequest' \in {legRequest, Legs!Idle}
    BY <1>4 DEF Legs!RunLeg
  <2>6. legReplies' \in Seq(BOOLEAN)
    <3>1. legReplies' = legReplies \/ legReplies' = Append(legReplies, outcome = "success")
      BY <1>4 DEF Legs!RunLeg
    <3>2. (outcome = "success") \in BOOLEAN
      OBVIOUS
    <3>3. legReplies \in Seq(BOOLEAN)
      BY DEF Legs!TypeOK
    <3>4. Append(legReplies, outcome = "success") \in Seq(BOOLEAN)
      BY <3>2, <3>3, AppendFacts, Zenon
    <3> QED BY <3>1, <3>3, <3>4
  <2>7. legRequest'.seeds \in Seq(Traits) /\ legRequest'.named \subseteq Traits
    <3>1. <<>> \in Seq(Traits)
      OBVIOUS
    <3>2. CASE legRequest' = Legs!Idle
      BY <3>1, <3>2 DEF Legs!Idle
    <3>3. CASE legRequest' = legRequest
      BY <3>3 DEF Legs!TypeOK
    <3> QED BY <2>5, <3>2, <3>3
  <2> HIDE DEF leg
  <2>8. legRan' \subseteq Traits \X {"local", "remote"}
    BY <2>2, <2>3 DEF Legs!TypeOK
  <2>9. legVerdict' \in {"none", "running", "success", "failure", "refused", "thrown"}
    BY <2>5 DEF Legs!TypeOK
  <2> QED BY <1>1, <2>4, <2>5, <2>6, <2>7, <2>8, <2>9 DEF Legs!TypeOK
<1>5. CASE Legs!Respond
  BY <1>1, <1>5 DEF Legs!Respond, Legs!TypeOK
<1> QED BY <1>2, <1>3, <1>4, <1>5 DEF Legs!Next

\* The bridge keeps its own.
LEMMA BridgeTypes ==
  ASSUME BridgeInv, BridgeInv', Bridge!TypeOK, Bridge!Next \/ UNCHANGED bridgeVars
  PROVE  Bridge!TypeOK'
<1>1. \A f \in bridgeFlights' : f.e \in Bridge!Event /\ f.left \in Seq(Orbitals) /\ f.at \in {"listing", "sending"}
  BY DEF BridgeInv, Flight
<1>2. ASSUME UNCHANGED bridgePattern, bridgeConnects' \in 0..MaxConnects,
             bridgeClass' \in [Bridge!Event -> Bridge!Class \cup {"none"}]
      PROVE  Bridge!TypeOK'
  BY <1>1, <1>2 DEF BridgeInv, Bridge!TypeOK
<1>3. CASE UNCHANGED bridgeVars \/ Bridge!Connect \/ Bridge!Disconnect
  <2>1. UNCHANGED <<bridgePattern, bridgeClass>>
    BY <1>3 DEF bridgeVars, Bridge!Connect, Bridge!Disconnect
  <2>2. bridgeConnects' = bridgeConnects \/ (bridgeConnects < MaxConnects /\ bridgeConnects' = bridgeConnects + 1)
    BY <1>3 DEF bridgeVars, Bridge!Connect, Bridge!Disconnect
  <2>3. bridgeConnects' \in 0..MaxConnects
    BY <2>2, ServerAssumption DEF Bridge!TypeOK
  <2> QED BY <1>2, <2>1, <2>3 DEF Bridge!TypeOK
<1>4. ASSUME NEW c \in Bridge!Class, Bridge!Emit(c) PROVE Bridge!TypeOK'
  <2>1. UNCHANGED <<bridgePattern, bridgeConnects>> /\ \E e : bridgeClass' = [bridgeClass EXCEPT ![e] = c]
    BY <1>4 DEF Bridge!Emit
  <2>2. bridgeClass' \in [Bridge!Event -> Bridge!Class \cup {"none"}]
    BY <2>1 DEF Bridge!TypeOK
  <2> QED BY <1>2, <2>1, <2>2 DEF Bridge!TypeOK
<1>5. ASSUME NEW f \in bridgeFlights, Bridge!List(f) \/ Bridge!Count(f) \/ Bridge!Fail(f) PROVE Bridge!TypeOK'
  <2>1. UNCHANGED <<bridgePattern, bridgeConnects, bridgeClass>>
    BY <1>5 DEF Bridge!List, Bridge!Count, Bridge!Fail
  <2> QED BY <1>2, <2>1 DEF Bridge!TypeOK
<1>6. ASSUME NEW f \in bridgeFlights, NEW b \in BOOLEAN, Bridge!SendToOrbital(f, b) PROVE Bridge!TypeOK'
  <2>1. /\ UNCHANGED <<bridgePattern, bridgeConnects>>
        /\ bridgeClass' = bridgeClass \/ \E e : bridgeClass' = [bridgeClass EXCEPT ![e] = "SERVER:"]
    BY <1>6 DEF Bridge!SendToOrbital
  <2>2. bridgeClass' \in [Bridge!Event -> Bridge!Class \cup {"none"}]
    BY <2>1 DEF Bridge!TypeOK, Bridge!Class
  <2> QED BY <1>2, <2>1, <2>2 DEF Bridge!TypeOK
<1> QED BY <1>3, <1>4, <1>5, <1>6 DEF Bridge!Next

\* The seeding of an app keeps its own.
LEMMA PersonaTypes ==
  ASSUME PersonaInv, PersonaInv', Register!TypeOK, Register!SeedNext \/ UNCHANGED personaVars
  PROVE  Register!TypeOK'
<1>1. ASSUME /\ personaNamed' \in BOOLEAN
             /\ personaOrbitals' \subseteq Entities /\ personaTodo' \subseteq Entities
             /\ personaKernelRows' \in {personaKernelRows, personaUser, Register!Absent}
             /\ personaPhase' \in {"idle", "resolving", "seeding", "opened"}
      PROVE  Register!TypeOK'
  BY <1>1 DEF PersonaInv, Register!TypeOK
<1>2. personaNamed \in BOOLEAN /\ personaOrbitals \subseteq Entities /\ personaTodo \subseteq Entities
      /\ personaPhase \in {"idle", "resolving", "seeding", "opened"}
  BY DEF Register!TypeOK
<1>3. CASE UNCHANGED personaVars
  BY <1>1, <1>2, <1>3 DEF personaVars
<1>4. ASSUME NEW u, Register!SetDefaultUser(u) PROVE Register!TypeOK'
  BY <1>1, <1>2, <1>4 DEF Register!SetDefaultUser
<1>5. ASSUME NEW u, Register!PrepareMockSeeding(u) PROVE Register!TypeOK'
  BY <1>1, <1>2, <1>5 DEF Register!PrepareMockSeeding
<1>6. ASSUME NEW e \in Entities, Register!RegisterOrbital(e) PROVE Register!TypeOK'
  BY <1>1, <1>2, <1>6 DEF Register!RegisterOrbital
<1>7. CASE Register!BeginRegister \/ Register!OpenKernel \/ Register!Finish \/ Register!FailSeeding
            \/ Register!ResetMockPersistence \/ Register!ResetCircuitState \/ Register!UnregisterAll
  BY <1>1, <1>2, <1>7 DEF Register!BeginRegister, Register!OpenKernel, Register!Finish, Register!FailSeeding,
     Register!ResetMockPersistence, Register!ResetCircuitState, Register!UnregisterAll
<1> QED BY <1>3, <1>4, <1>5, <1>6, <1>7 DEF Register!SeedNext

\* A report adds elements to those reported.
LEMMA ReportedTypes ==
  ASSUME NEW t \in Tabs, NEW visible, visible \subseteq Elements,
         pageReported \in [Tabs -> SUBSET Elements], Watched!Report(t, visible, pageReported[t])
  PROVE  pageReported' \in [Tabs -> SUBSET Elements]
<1>1. pageReported' = [pageReported EXCEPT ![t] = pageReported[t] \cup (visible \ pageReported[t])]
  BY DEF Watched!Report
<1> QED BY <1>1

\* The pages keep theirs.
LEMMA PageTypes ==
  ASSUME ReportInv, WatchInv, ReportInv', WatchInv', Watched!TypeOK, Watched!Next \/ UNCHANGED pageVars
  PROVE  Watched!TypeOK'
<1> USE DEF Watched!pages, Watched!worker, Watched!counts
<1> DEFINE ShownOk == pageShown \in [Tabs -> SUBSET Elements] /\ pageReported \in [Tabs -> SUBSET Elements]
           LiveOk == pageLive \in [Tabs -> BOOLEAN] /\ pageAttached \in [Tabs -> BOOLEAN]
           WorkerOk == pageWatching \in BOOLEAN /\ pageWaits \in [Calls -> Watched!Waiting]
<1>1. ASSUME LiveOk', ShownOk', WorkerOk' PROVE Watched!TypeOK'
  <2>1. pageTold' \in [Tabs -> [Elements -> Nat]]
    BY DEF ReportInv
  <2> QED BY <1>1, <2>1 DEF WatchInv, Watched!TypeOK
<1>2. LiveOk /\ ShownOk /\ WorkerOk
  BY DEF Watched!TypeOK
<1>3. ASSUME NEW t \in Tabs, Watched!PageLoads(t) \/ Watched!PageUnloads(t) PROVE LiveOk' /\ ShownOk' /\ WorkerOk'
  <2>1. /\ \E b \in BOOLEAN : pageLive' = [pageLive EXCEPT ![t] = b]
        /\ pageAttached' = [pageAttached EXCEPT ![t] = FALSE]
    BY <1>3, Zenon DEF Watched!PageLoads, Watched!PageUnloads
  <2>2. LiveOk'
    BY <1>2, <2>1
  <2>3. \/ pageShown' = pageShown /\ pageReported' = pageReported
        \/ pageShown' = [pageShown EXCEPT ![t] = {}] /\ pageReported' = [pageReported EXCEPT ![t] = {}]
    BY <1>3 DEF Watched!PageLoads, Watched!PageUnloads
  <2>4. ShownOk'
    BY <1>2, <2>3
  <2>5. pageWatching' = pageWatching /\ pageWaits' = pageWaits
    BY <1>3 DEF Watched!PageLoads, Watched!PageUnloads
  <2> QED BY <1>2, <2>2, <2>4, <2>5
<1>4. ASSUME NEW t \in Tabs, NEW x \in Elements, Watched!Mutates(t, x) PROVE LiveOk' /\ ShownOk' /\ WorkerOk'
  <2>1. pageLive' = pageLive /\ pageAttached' = pageAttached /\ pageWatching' = pageWatching /\ pageWaits' = pageWaits
        /\ pageShown' = [pageShown EXCEPT ![t] = @ \cup {x}]
    BY <1>4 DEF Watched!Mutates
  <2>2. pageShown' \in [Tabs -> SUBSET Elements]
    BY <1>2, <2>1
  <2>3. pageReported' = pageReported
        \/ \E through \in SUBSET pageShown'[t] : Watched!Report(t, through, pageReported[t])
    BY <1>4 DEF Watched!Mutates, Watched!ReportSome
  <2>4. pageReported' \in [Tabs -> SUBSET Elements]
    <3>1. pageShown'[t] \subseteq Elements
      BY <2>2
    <3> QED BY <1>2, <2>3, <3>1, ReportedTypes
  <2> QED BY <1>2, <2>1, <2>2, <2>4
<1>5. ASSUME NEW t \in Tabs, Watched!Command(t) PROVE LiveOk' /\ ShownOk' /\ WorkerOk'
  <2>1. UNCHANGED <<pageLive, pageShown, pageWatching, pageWaits>>
        /\ \E k, fails : Watched!RunsInPage(t, k, fails)
    BY <1>5 DEF Watched!Command
  <2>5. \/ UNCHANGED <<pageAttached, pageReported>>
        \/ Watched!WatchFails(t) \/ Watched!WatchPage(t) \/ Watched!UnwatchPage(t)
    BY <2>1 DEF Watched!RunsInPage
  <2>6. pageAttached' = pageAttached \/ pageAttached' = [pageAttached EXCEPT ![t] = TRUE]
        \/ pageAttached' = [pageAttached EXCEPT ![t] = FALSE]
    BY <2>5 DEF Watched!WatchFails, Watched!WatchPage, Watched!UnwatchPage
  <2>2. pageReported' = pageReported
        \/ \E through \in SUBSET pageShown[t] : Watched!Report(t, through, pageReported[t])
    BY <2>5 DEF Watched!WatchFails, Watched!WatchPage, Watched!UnwatchPage, Watched!ReportSome
  <2>3. pageReported' \in [Tabs -> SUBSET Elements]
    <3>1. pageShown[t] \subseteq Elements
      BY <1>2
    <3> QED BY <1>2, <2>2, <3>1, ReportedTypes
  <2>4. LiveOk'
    BY <1>2, <2>1, <2>6
  <2> QED BY <1>2, <2>1, <2>3, <2>4
<1>6. CASE UNCHANGED pageVars \/ Watched!Watch \/ Watched!Unwatch \/ Watched!OnElement
            \/ \E k \in Watched!Loops : Watched!Send(k)
  <2>1. /\ UNCHANGED <<pageLive, pageAttached, pageShown, pageReported, pageWaits>>
        /\ pageWatching' = pageWatching \/ pageWatching' = TRUE \/ pageWatching' = FALSE
    BY <1>6 DEF pageVars, Watched!Watch, Watched!Unwatch, Watched!OnElement, Watched!Send
  <2>2. pageWatching' \in BOOLEAN
    BY <1>2, <2>1, Zenon
  <2>3. pageWaits' \in [Calls -> Watched!Waiting]
    BY <1>2, <2>1
  <2>4. LiveOk' /\ ShownOk'
    BY <1>2, <2>1
  <2>5. WorkerOk'
    BY <2>2, <2>3, Zenon
  <2> HIDE DEF LiveOk, ShownOk, WorkerOk
  <2> QED BY <1>1, <2>4, <2>5
<1>7. CASE Watched!OnReady \/ Watched!WorkerRestarts
  <2>1. /\ UNCHANGED <<pageLive, pageAttached, pageShown, pageReported>>
        /\ pageWatching' = pageWatching \/ pageWatching' = FALSE
    BY <1>7 DEF Watched!OnReady, Watched!WorkerRestarts
  <2>2. pageWaits' \in [Calls -> Watched!Waiting]
    BY <1>2, <1>7 DEF Watched!OnReady, Watched!WorkerRestarts, Watched!Waiting
  <2>3. pageWatching' \in BOOLEAN
    BY <1>2, <2>1, Zenon
  <2>4. LiveOk' /\ ShownOk'
    BY <1>2, <2>1
  <2>5. WorkerOk'
    BY <2>2, <2>3, Zenon
  <2> HIDE DEF LiveOk, ShownOk, WorkerOk
  <2> QED BY <1>1, <2>4, <2>5
<1>8. ASSUME NEW c \in Calls, Watched!GiveUp(c) \/ \E t \in Tabs : Watched!AwaitReady(c, t)
      PROVE  LiveOk' /\ ShownOk' /\ WorkerOk'
  <2>1. /\ UNCHANGED <<pageLive, pageAttached, pageShown, pageReported, pageWatching>>
        /\ \E w \in Watched!Waiting : pageWaits' = [pageWaits EXCEPT ![c] = w]
    BY <1>8 DEF Watched!GiveUp, Watched!AwaitReady, Watched!Waiting
  <2>2. pageWaits' \in [Calls -> Watched!Waiting]
    BY <1>2, <2>1
  <2> QED BY <1>2, <2>1, <2>2
<1> HIDE DEF LiveOk, ShownOk, WorkerOk
<1> QED BY <1>1, <1>3, <1>4, <1>5, <1>6, <1>7, <1>8 DEF Watched!Next

\* What the frames of a request are made of.
LEMMA FramesAreFrames ==
  ASSUME NEW b \in Seq(Requests \X {1, 2}), NEW r \in Requests, NEW f, TellsItsTurn(f, b, r)
  PROVE  f \in Seq(Router!Frame)
<1>1. PICK first \in 0..Len(b), n \in 0..2, last \in {"complete", "error"} :
        /\ first + n <= Len(b)
        /\ f = [i \in 1..n |-> b[first + i]] \o <<<<last>>, <<"done">>>>
  BY DEF TellsItsTurn
<1>2. \A i \in 1..n : b[first + i] \in Requests \X {1, 2}
  BY <1>1
<1>3. \A i \in 1..n : b[first + i] \in Router!Frame
  BY <1>2 DEF Router!Frame
<1>4. [i \in 1..n |-> b[first + i]] \in Seq(Router!Frame)
  BY <1>3
<1>5. <<last>> \in Router!Frame /\ <<"done">> \in Router!Frame
  BY DEF Router!Frame
<1>6. <<<<last>>, <<"done">>>> \in Seq(Router!Frame)
  BY <1>5
<1> QED BY <1>1, <1>4, <1>6

\* The router keeps its types.
LEMMA RouterTypes ==
  ASSUME RouterInv, RouterInv', Router!TypeOK, Router!Next \/ UNCHANGED routerVars
  PROVE  Router!TypeOK'
<1> USE DEF Router!apps
<1> DEFINE AppsOk == /\ routerRegistered \subseteq Apps /\ {routerResolved, routerKernel} \subseteq Apps \cup {None}
                     /\ routerPhase = <<>> \/ routerPhase \in {"orbitals", "ticks", "kernel"} \X Apps
                     /\ routerHandles \subseteq (0..MaxMutations) \X Ticks
                     /\ routerMutations \in 0..MaxMutations
           AsksOk == /\ routerAt \in [Requests -> {<<"idle">>} \cup ({"view", "look", "queued", "over"} \X Router!Kind)]
                     /\ routerEmits \in [Requests -> 0..2]
<1>1. ASSUME AppsOk', AsksOk' PROVE Router!TypeOK'
  <2>1. routerBindings' \subseteq routerHandles'
    BY DEF RouterInv, TickInv
  <2>2. \A r \in Requests : routerFrames'[r] \in Seq(Router!Frame)
    <3> SUFFICES ASSUME NEW r \in Requests PROVE routerFrames'[r] \in Seq(Router!Frame)
      OBVIOUS
    <3>1. routerBus' \in Seq(Requests \X {1, 2})
          /\ (routerFrames'[r] = <<>> \/ TellsItsTurn(routerFrames'[r], routerBus', r))
      BY DEF RouterInv, StreamInv, RequestOk
    <3>2. <<>> \in Seq(Router!Frame)
      OBVIOUS
    <3> QED BY <3>1, <3>2, FramesAreFrames
  <2>3. routerQueue' \in Seq(Requests \cup Ticks) /\ routerBus' \in Seq(Requests \X {1, 2})
    BY DEF RouterInv, StreamInv
  <2> QED BY <1>1, <2>1, <2>2, <2>3 DEF Router!TypeOK
<1>2. AppsOk /\ AsksOk
  BY DEF Router!TypeOK
<1>3. CASE UNCHANGED <<Router!apps, routerAt, routerEmits>>
  BY <1>1, <1>2, <1>3
<1>4. CASE Router!UnregisterAll
  BY <1>1, <1>2, <1>4 DEF Router!UnregisterAll
<1>5. ASSUME NEW a \in Apps, Router!BeginRegister(a) PROVE Router!TypeOK'
  <2>1. routerMutations' \in 0..MaxMutations
    BY <1>2, <1>5, ServerAssumption DEF Router!BeginRegister
  <2> QED BY <1>1, <1>2, <1>5, <2>1 DEF Router!BeginRegister
<1>6. CASE Router!RegisterOrbitals \/ Router!OpenKernel
  <2>1. routerPhase[2] \in Apps
    BY <1>2, <1>6 DEF Router!RegisterOrbitals, Router!OpenKernel
  <2> QED BY <1>1, <1>2, <1>6, <2>1 DEF Router!RegisterOrbitals, Router!OpenKernel
<1>7. CASE Router!SetupTicks
  <2>1. routerPhase[2] \in Apps
    BY <1>2, <1>7 DEF Router!SetupTicks
  <2>2. PICK bound \in SUBSET Ticks : routerBindings' = {<<routerMutations, t>> : t \in bound}
    BY <1>7 DEF Router!SetupTicks
  <2>3. routerBindings' \subseteq (0..MaxMutations) \X Ticks
    BY <1>2, <2>2
  <2>4. routerHandles' \subseteq (0..MaxMutations) \X Ticks
    BY <2>3 DEF RouterInv, TickInv
  <2>5. routerPhase' = <<>> \/ routerPhase' = <<"kernel", routerPhase[2]>>
    BY <1>7 DEF Router!SetupTicks
  <2> QED BY <1>1, <1>2, <1>7, <2>1, <2>4, <2>5 DEF Router!SetupTicks
<1>8. ASSUME NEW r \in Requests, NEW p, routerAt' = [routerAt EXCEPT ![r] = p], routerEmits' = routerEmits,
             p \in {"view", "look", "queued", "over"} \X Router!Kind, UNCHANGED Router!apps
      PROVE  Router!TypeOK'
  BY <1>1, <1>2, <1>8
<1>9. ASSUME NEW r \in Requests, NEW k \in Router!Kind, Router!Arrive(r, k) PROVE Router!TypeOK'
  <2>1. \E p \in {"view", "look", "queued", "over"} \X Router!Kind : routerAt' = [routerAt EXCEPT ![r] = p]
    <3>1. \A m \in {"over", "look", "view"} : <<m, k>> \in {"view", "look", "queued", "over"} \X Router!Kind
      OBVIOUS
    <3>2. \/ routerAt' = [routerAt EXCEPT ![r] = <<"over", k>>]
          \/ routerAt' = [routerAt EXCEPT ![r] = <<"look", k>>]
          \/ routerAt' = [routerAt EXCEPT ![r] = <<"view", k>>]
      BY <1>9 DEF Router!Arrive
    <3> QED BY <3>1, <3>2
  <2> QED BY <1>8, <1>9, <2>1 DEF Router!Arrive
<1>10. ASSUME NEW r \in Requests, Router!Look(r) \/ \E ok \in BOOLEAN : Router!Viewed(r, ok) PROVE Router!TypeOK'
  <2>1. routerAt[r][1] \in {"look", "view"}
    BY <1>10 DEF Router!Look, Router!Viewed
  <2>2. routerAt[r][2] \in Router!Kind
    BY <1>2, <2>1
  <2>3. \E p \in {"view", "look", "queued", "over"} \X Router!Kind : routerAt' = [routerAt EXCEPT ![r] = p]
    BY <1>10, <2>2 DEF Router!Look, Router!Viewed
  <2>4. routerEmits' = routerEmits /\ UNCHANGED Router!apps
    BY <1>10 DEF Router!Look, Router!Viewed
  <2> QED BY <1>8, <2>3, <2>4
<1>11. ASSUME NEW n \in 0..2, Router!Turn(n) PROVE Router!TypeOK'
  <2> DEFINE r == Head(routerQueue)
  <2>1. routerQueue # <<>> /\ r \in Requests /\ routerAt' = [routerAt EXCEPT ![r] = <<"over", routerAt[r][2]>>]
        /\ (routerEmits' = routerEmits \/ routerEmits' = [routerEmits EXCEPT ![r] = n]) /\ UNCHANGED Router!apps
    BY <1>11 DEF Router!Turn
  <2>2. routerAt[r][1] = "queued"
    <3>1. 1 \in 1..Len(routerQueue) /\ r = routerQueue[1]
      BY <2>1 DEF RouterInv, StreamInv
    <3> HIDE DEF r
    <3> QED BY <2>1, <3>1 DEF RouterInv, StreamInv, QueueOk
  <2> HIDE DEF r
  <2>3. routerAt[r][2] \in Router!Kind
    BY <1>2, <2>1, <2>2
  <2> QED BY <1>1, <1>2, <2>1, <2>3
<1>12. CASE UNCHANGED routerVars \/ Router!TurnOfTick \/ \E h \in routerHandles : Router!Fire(h)
  BY <1>3, <1>12 DEF routerVars, Router!TurnOfTick, Router!Fire
<1> QED BY <1>4, <1>5, <1>6, <1>7, <1>9, <1>10, <1>11, <1>12 DEF Router!Next

\* The readers keep theirs.
LEMMA ReadTypes ==
  ASSUME RegistryInv, RegistryInv', ReaderInv, ReaderInv', Reads!TypeOK, Reads!Next \/ UNCHANGED readVars
  PROVE  Reads!TypeOK'
<1> USE DEF Reads!registry
<1> DEFINE Told(f) == \A r \in Readers : f[r].answer \in Reads!Answer /\ f[r].of \in Apps \cup {None}
<1>1. ASSUME readSwaps' \in 0..MaxSwaps, Told(readTold') PROVE Reads!TypeOK'
  <2>1. readKernel' \in [app : Apps \cup {None}, nth : 0..MaxSwaps]
    <3>1. readKernel' \in [app : Apps \cup {None}, nth : Nat] /\ readKernel'.nth <= readSwaps'
      BY DEF RegistryInv
    <3>2. readKernel'.nth \in 0..MaxSwaps
      BY <1>1, <3>1, ServerAssumption
    <3> QED BY <3>1, <3>2
  <2>2. readAt' \in [Readers -> [step : Reads!Step, name : OrbitalNames \cup {None}]]
    BY DEF ReaderInv, Place
  <2>3. /\ {readOrbitals'[n] : n \in OrbitalNames} \cup {readStore'[n] : n \in OrbitalNames} \subseteq Apps \cup {None}
        /\ readResolved' \in Apps \cup {None}
        /\ readSwap'.app \in Apps \cup {None} /\ readSwap'.left \subseteq OrbitalNames
    BY DEF RegistryInv
  <2>4. readWhole' \in BOOLEAN
    BY DEF RegistryInv
  <2> QED BY <1>1, <2>1, <2>2, <2>3, <2>4 DEF Reads!TypeOK
<1>2. readSwaps \in 0..MaxSwaps /\ Told(readTold)
  BY DEF Reads!TypeOK
<1>3. CASE UNCHANGED <<readSwaps, readTold>>
  BY <1>1, <1>2, <1>3
<1>4. ASSUME NEW r \in Readers, NEW a, Reads!Tells(r, a), a.answer \in Reads!Answer, a.of \in Apps \cup {None},
             UNCHANGED readSwaps
      PROVE  Reads!TypeOK'
  <2>1. Told(readTold')
    <3>1. readTold' = [readTold EXCEPT ![r] = a]
      BY <1>4 DEF Reads!Tells
    <3>2. readTold = [s \in Readers |-> readTold[s]]
      BY DEF ReaderInv
    <3>3. readTold'[r] = a /\ \A s \in Readers \ {r} : readTold'[s] = readTold[s]
      BY <3>1, <3>2
    <3> QED BY <1>2, <1>4, <3>3
  <2> QED BY <1>1, <1>2, <1>4, <2>1
<1>5. ASSUME NEW w, NEW o, NEW s, NEW h PROVE Reads!Says(w, o, s, h).answer = w /\ Reads!Says(w, o, s, h).of = o
  BY DEF Reads!Says
<1>6. ASSUME NEW n \in OrbitalNames, NEW k
      PROVE  Reads!Answered(n, k).answer \in Reads!Answer /\ Reads!Answered(n, k).of \in Apps \cup {None}
  <2>1. readOrbitals[n] \in Apps \cup {None}
    BY DEF RegistryInv
  <2> QED BY <1>5, <2>1 DEF Reads!Answered, Reads!Refused, Reads!Description, Reads!EntityRows, Reads!Answer
<1>7. ASSUME NEW w \in {"failed", "roster"} PROVE Reads!Refused(w).answer \in Reads!Answer /\ Reads!Refused(w).of \in Apps \cup {None}
  BY <1>5 DEF Reads!Refused, Reads!Answer
<1>8. ASSUME NEW a \in Apps, Reads!BeginSwap(a) PROVE Reads!TypeOK'
  <2>1. readSwaps' \in 0..MaxSwaps /\ readTold' = readTold
    BY <1>2, <1>8, ServerAssumption DEF Reads!BeginSwap
  <2> QED BY <1>1, <1>2, <2>1
<1>9. CASE \/ UNCHANGED readVars \/ \E n \in OrbitalNames : Reads!RegisterOrbital(n)
           \/ Reads!OpenKernel \/ Reads!StashResolved \/ Reads!FailSwap
           \/ \E r \in Readers, n \in OrbitalNames : Reads!ViewerOf(r, n)
           \/ \E r \in Readers : Reads!AnswerRead(r)
  BY <1>3, <1>9 DEF readVars, Reads!RegisterOrbital, Reads!OpenKernel, Reads!StashResolved, Reads!FailSwap,
     Reads!ViewerOf, Reads!AnswerRead
<1>10. ASSUME NEW r \in Readers, NEW n \in OrbitalNames, NEW k, Reads!LookUp(r, n, k) PROVE Reads!TypeOK'
  BY <1>3, <1>4, <1>6, <1>10 DEF Reads!LookUp
<1>11. ASSUME NEW r \in Readers, Reads!LookAgain(r) PROVE Reads!TypeOK'
  <2>1. readAt[r].name \in OrbitalNames
    BY <1>11 DEF Reads!LookAgain, Reads!Waits, ReaderInv, ReadingOk, Place
  <2> QED BY <1>4, <1>6, <1>11, <2>1 DEF Reads!LookAgain
<1>12. ASSUME NEW r \in Readers, Reads!ResolveRows(r) PROVE Reads!TypeOK'
  BY <1>3, <1>4, <1>7, <1>12 DEF Reads!ResolveRows
<1>13. ASSUME NEW r \in Readers, Reads!ResumeResolve(r) PROVE Reads!TypeOK'
  <2>1. readSeen[r].app \in Apps \cup {None}
    BY DEF ReaderInv, Glance
  <2>2. "page" \in Reads!Answer
    BY DEF Reads!Answer
  <2> DEFINE page == Reads!Says("page", readSeen[r].app, readKernel.app, readSeen[r].rows)
  <2>3. page.answer \in Reads!Answer /\ page.of \in Apps \cup {None}
    BY <1>5, <2>1, <2>2
  <2>4. UNCHANGED readSwaps /\ (Reads!Tells(r, page) \/ Reads!Tells(r, Reads!Refused("failed")))
    BY <1>13 DEF Reads!ResumeResolve
  <2> HIDE DEF page
  <2> QED BY <1>4, <1>7, <2>3, <2>4
<1>14. ASSUME NEW r \in Readers, NEW n \in OrbitalNames, Reads!GetIdentityRoster(r, n) PROVE Reads!TypeOK'
  <2> DEFINE page == Reads!Says("roster", readResolved, None, {readStore[n]})
  <2>1. page.answer \in Reads!Answer /\ page.of \in Apps \cup {None}
    BY <1>5 DEF Reads!Answer, RegistryInv
  <2>2. UNCHANGED readSwaps /\ (Reads!Tells(r, page) \/ Reads!Tells(r, Reads!Refused("roster")))
    BY <1>14 DEF Reads!GetIdentityRoster
  <2> HIDE DEF page
  <2> QED BY <1>4, <1>7, <2>1, <2>2
<1> QED BY <1>8, <1>9, <1>10, <1>11, <1>12, <1>13, <1>14 DEF Reads!Next

\* The parts have their types at first.
LEMMA TypesStart ==
  ASSUME Init, ServerInv
  PROVE  /\ Events!TypeOK /\ Legs!TypeOK /\ Bridge!TypeOK /\ Register!TypeOK
         /\ Watched!TypeOK /\ Router!TypeOK /\ Reads!TypeOK
<1>1. 0 \in 0..MaxSubscriptions /\ 0 \in 0..MaxEmits /\ 0 \in 0..MaxSends /\ 0 \in 0..MaxConnects
      /\ 0 \in 0..MaxSwaps /\ 0 \in 0..MaxMutations /\ 0 \in 0..MaxSets
  BY ServerAssumption
<1>2. TRUE \in BOOLEAN /\ FALSE \in BOOLEAN
  BY Zenon
<1>3. Events!TypeOK
  BY <1>1 DEF Init, Events!BusInit, Events!TypeOK, ServerInv, BusInv, SetsInv
<1>4. Legs!TypeOK
  <2>1. <<>> \in Seq(Traits) /\ <<>> \in Seq(BOOLEAN)
    OBVIOUS
  <2>2. legNeed \in [Traits -> Legs!Need] /\ legRemote \in BOOLEAN /\ legTwice \in BOOLEAN
    BY <1>2, Zenon DEF Init, Legs!Init
  <2>3. legRequest.seeds \in Seq(Traits) /\ legRequest.named \subseteq Traits
    BY <2>1 DEF Init, Legs!Init, Legs!Idle
  <2>4. /\ legLegs = <<>> /\ legRan = {} /\ legReplies \in Seq(BOOLEAN)
        /\ legVerdict = "none" /\ legSends \in 0..MaxSends
    BY <1>1, <2>1 DEF Init, Legs!Init
  <2> QED BY <2>2, <2>3, <2>4 DEF Legs!TypeOK
<1>5. Bridge!TypeOK
  BY <1>1 DEF Init, Bridge!Init, Bridge!TypeOK, ServerInv, BridgeInv
<1>6. Register!TypeOK
  <2>1. personaNamed \in BOOLEAN /\ personaPending \in BOOLEAN /\ personaResolved \in BOOLEAN
    BY <1>2, Zenon DEF Init, Register!SeedInit
  <2> QED BY <2>1 DEF Init, Register!SeedInit, Register!TypeOK, ServerInv, PersonaInv
<1>7. Watched!TypeOK
  <2>1. pageLive \in [Tabs -> BOOLEAN] /\ pageAttached \in [Tabs -> BOOLEAN] /\ pageWatching \in BOOLEAN
    BY <1>2, Zenon DEF Init, Watched!Init
  <2>2. pageTold \in [Tabs -> [Elements -> Nat]]
    BY DEF Init, Watched!Init
  <2>3. pageShown \in [Tabs -> SUBSET Elements] /\ pageReported \in [Tabs -> SUBSET Elements]
    BY DEF Init, Watched!Init
  <2> QED BY <2>1, <2>2, <2>3 DEF Init, Watched!Init, Watched!TypeOK, ServerInv, WatchInv, Watched!Waiting
<1>8. Router!TypeOK
  <2>1. <<>> \in Seq(Router!Frame) /\ <<>> \in Seq(Requests \cup Ticks) /\ <<>> \in Seq(Requests \X {1, 2})
    OBVIOUS
  <2> QED BY <1>1, <2>1 DEF Init, Router!Init, Router!TypeOK
<1>9. Reads!TypeOK
  BY <1>1 DEF Init, Reads!Init, Reads!TypeOK, Reads!NoAnswer, Reads!Answer, Reads!Step
<1> QED BY <1>3, <1>4, <1>5, <1>6, <1>7, <1>8, <1>9

\* The types of the parts, with what the parts keep.
TypesInv ==
  /\ ServerInv
  /\ Events!TypeOK /\ Legs!TypeOK /\ Bridge!TypeOK /\ Register!TypeOK
  /\ Watched!TypeOK /\ Router!TypeOK /\ Reads!TypeOK

\* Every step keeps the types, whatever part it is a step of.
LEMMA TypesStep == ASSUME TypesInv, ServerInv', [Next]_vars PROVE TypesInv'
<1>1. /\ \/ Events!BusNext \/ UNCHANGED busVars
      /\ \/ Legs!Next \/ UNCHANGED legVars
      /\ \/ Bridge!Next \/ UNCHANGED bridgeVars
      /\ \/ Register!SeedNext \/ UNCHANGED personaVars
      /\ \/ Watched!Next \/ UNCHANGED pageVars
      /\ \/ Router!Next \/ UNCHANGED routerVars
      /\ \/ Reads!Next \/ UNCHANGED readVars
  BY DEF Next, Rest, vars
<1>2. Events!TypeOK' /\ Legs!TypeOK' /\ Bridge!TypeOK'
  BY <1>1, BusTypes, LegTypes, BridgeTypes DEF TypesInv, ServerInv
<1>3. Register!TypeOK' /\ Watched!TypeOK' /\ Router!TypeOK' /\ Reads!TypeOK'
  BY <1>1, PersonaTypes, PageTypes, RouterTypes, ReadTypes DEF TypesInv, ServerInv
<1> QED BY <1>2, <1>3 DEF TypesInv

\* The state of every part has its types: the counters stay within their
\* bounds, the queues hold what is sent over them, and nobody is anywhere but
\* at the places the code has.
THEOREM TypesAreKept == Spec => []TypeOK
<1>1. Init => ServerInv
  BY BusStart, RouteInit, LegInit, BridgeInit, PersonaInit, PageInit, RouterInit, ReadsInit,
     KernelInit, RowInit, HttpInit, FileInit DEF Init, ServerInv
<1>2. Init => TypesInv
  BY <1>1, TypesStart DEF TypesInv
<1>3. TypesInv /\ ServerInv' /\ [Next]_vars => TypesInv'
  BY TypesStep
<1>4. TypesInv => TypeOK
  BY DEF TypesInv, TypeOK, ServerInv, KernelInv
<1> QED BY <1>2, <1>3, <1>4, PartsAreKept, PTL DEF Spec
=============================================================================
