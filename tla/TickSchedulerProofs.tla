------------------------- MODULE TickSchedulerProofs -------------------------
(***************************************************************************)
(* Proofs about TickScheduler for any ticks, intervals, lags and bounds.   *)
(*                                                                         *)
(* The argument for the numbers: between two visits of a tick the clock    *)
(* gives its lag and its credit the same time, and a visit moves the lag   *)
(* to the accumulator; a due tick pays one interval of credit and keeps    *)
(* the rest of the accumulator, which is less than what it paid for.  A    *)
(* lag that grew in a pause is thrown away before a pass sees it, since no *)
(* pass begins while the scheduler is paused (Loop).                       *)
(*                                                                         *)
(* The argument for the loop: a pass on an animation frame has no callback *)
(* pending and asks for the next one at its end, so it must find the loop  *)
(* running then; that is what the condition on the callbacks is for.       *)
(***************************************************************************)
EXTENDS TickScheduler, FiniteSetTheorems, TLAPS

\* A tick with an interval of its own, and the time since it was visited.
Interval(i) == kind[i] \notin {Cron, EveryPass}
Since(i) == IF lag[i] = Unset THEN 0 ELSE lag[i]

\* A callback is of a pass, and an id that is not registered is blank.
Visits ==
  /\ firing # 0 => pass /\ firing < nextId
  /\ \A i \in Id : i \notin ticks =>
       /\ kind[i] = EveryPass /\ acc[i] = 0 /\ lag[i] = Unset
       /\ fired[i] = Unset /\ credit[i] = 0

\* The loop sleeps through a pause, and a timer is pending while it runs.
Loop ==
  /\ running => ~paused
  /\ ~hasRaf => pending = IF running THEN {handle} ELSE {}

\* Less than an interval is left over, but for the tick whose callback runs.
LeftOver(i) ==
  /\ kind[i] = Cron => acc[i] <= CronCheck
  /\ kind[i] = EveryPass => acc[i] = 0
  /\ Interval(i) /\ firing # i => acc[i] < kind[i]
  /\ Interval(i) /\ firing = i => kind[i] <= acc[i] /\ acc[i] < kind[i] + MaxLag

Accumulated == \A i \in Id : LeftOver(i)

\* What is left over was given by the clock, outside of pauses.
GivenByTheClock(i) ==
  /\ 0 <= credit[i]
  /\ Interval(i) /\ firing # i =>
       acc[i] + (IF paused /\ ~pass THEN 0 ELSE Since(i)) <= credit[i]
  /\ Interval(i) /\ firing = i => acc[i] - kind[i] <= credit[i]
  /\ firing = i => Since(i) = 0

Credited == \A i \in Id : GivenByTheClock(i)

\* Where the next pass is: scheduled under frameHandle, or under way.
LoopInv ==
  /\ running <=> ticks # {} /\ ~paused
  /\ pass /\ hasRaf => pending = {} /\ running
  /\ ~(pass /\ hasRaf) => pending = IF running THEN {handle} ELSE {}

\* What the theorems about the loop ask of the callbacks: on animation frames
\* they do not stop the loop they run in.
LoopIsLeftRunning == {"stopLast", "pause"} \cap Animated = {}

\* What the theorem about pauses asks: no callback pauses the scheduler.
PausedFromOutside == "pause" \notin Animated \cup Timed

IInv == TypeOK /\ Visits /\ Loop /\ Accumulated /\ Credited
-----------------------------------------------------------------------------
\* What `%` leaves of an accumulator is less than the interval and was not paid for.
LEMMA Remainder ==
  ASSUME NEW a \in Nat, NEW k \in Nat \ {0}
  PROVE  a % k \in Nat /\ a % k < k /\ (k <= a => a % k <= a - k)
<1>1. a % k \in Nat OBVIOUS
<1>2. a % k < k OBVIOUS
<1>3. ASSUME k <= a PROVE a % k <= a - k BY <1>3
<1> QED BY <1>1, <1>2, <1>3

\* The kinds of registered ticks, and the bounds made of them.
LEMMA Bounds ==
  ASSUME TickAssumption
  PROVE  /\ EveryPass = 0 /\ Unset = -1 /\ Cron \notin Nat
         /\ CronCheck \in Nat \ {0} /\ MaxLag \in Nat \ {0} /\ LongestInterval \in Nat
         /\ MaxAcc = LongestInterval + CronCheck + MaxLag
         /\ MaxCredit = LongestInterval + MaxLag
         /\ MaxAcc \in Nat /\ MaxCredit \in Nat
         /\ \A k \in Kinds \cup {EveryPass} : k # Cron => k \in 0 .. LongestInterval
BY DEF TickAssumption, EveryPass, Unset, MaxAcc, MaxCredit
\* The interval of a tick that is not a cron tick.
LEMMA IntervalIsNat ==
  ASSUME TickAssumption, TypeOK, NEW i \in Id, kind[i] # Cron
  PROVE  kind[i] \in Nat /\ kind[i] <= LongestInterval
<1>1. kind[i] \in Kinds \cup {EveryPass}
  BY DEF TypeOK
<1>2. kind[i] \in 0 .. LongestInterval
  BY <1>1, Bounds
<1> QED BY <1>2, Bounds
-----------------------------------------------------------------------------
(***************************************************************************)
(* Types, and the ids that are not registered.                             *)
(***************************************************************************)
\* A visit moves the lag to the accumulator, or starts over.
LEMMA AccAfterBounded ==
  ASSUME TickAssumption, TypeOK, Accumulated, NEW i \in Id, firing # i
  PROVE  AccAfter(i) \in 0 .. MaxAcc
<1> USE Bounds DEF TypeOK, Accumulated, LeftOver, Interval
<1>1. acc[i] \in Nat /\ acc[i] <= MaxAcc /\ (lag[i] # Unset => lag[i] \in 0 .. MaxLag)
  OBVIOUS
<1>2. CASE kind[i] = EveryPass \/ lag[i] = Unset
  BY <1>1, <1>2 DEF AccAfter
<1>3. CASE kind[i] = Cron /\ lag[i] # Unset
  BY <1>1, <1>3 DEF AccAfter
<1>4. CASE Interval(i) /\ lag[i] # Unset
  <2>1. kind[i] \in 0 .. LongestInterval /\ acc[i] < kind[i]
    BY <1>4
  <2> QED BY <1>1, <1>4, <2>1 DEF AccAfter
<1> QED BY <1>2, <1>3, <1>4

\* Type correctness, action by action.
LEMMA TypeStep ==
  ASSUME TickAssumption, TypeOK, Visits, Accumulated, [Next]_vars
  PROVE  TypeOK'
<1>1. ASSUME NEW k \in Kinds, Add(k) PROVE TypeOK'
  <2>1. nextId \in Id /\ nextId' \in 1 .. MaxId + 1 /\ ticks' \subseteq 1 .. nextId' - 1
    BY <1>1 DEF Add, TypeOK, Id, TickAssumption
  <2>2. kind' \in [Id -> Kinds \cup {EveryPass}]
    BY <1>1, <2>1 DEF Add, TypeOK
  <2>3. acc' \in [Id -> 0 .. MaxAcc]
    <3>1. CronCheck \in 0 .. MaxAcc /\ 0 \in 0 .. MaxAcc
      BY Bounds
    <3> QED BY <1>1, <2>1, <3>1 DEF Add, TypeOK
  <2>4. handle' \in Frame \cup {NoFrame} /\ pending' \subseteq Frame /\ running' \in BOOLEAN
    BY <1>1 DEF Add, EnsureRunning, Schedule, clock, TypeOK
  <2> QED BY <1>1, <2>1, <2>2, <2>3, <2>4 DEF Add, TypeOK
<1>2. ASSUME NEW gone \in SUBSET Id, Forget(gone) PROVE TypeOK'
  <2>0. 0 \in 0 .. MaxAcc /\ Unset \in Unset .. MaxLag /\ 0 \in Int
    BY Bounds
  <2>1. ticks' \subseteq 1 .. nextId' - 1 /\ nextId' = nextId
    BY <1>2 DEF Forget, TypeOK
  <2>2. kind' \in [Id -> Kinds \cup {EveryPass}] /\ acc' \in [Id -> 0 .. MaxAcc]
    BY <1>2, <2>0 DEF Forget, TypeOK
  <2>3. lag' \in [Id -> Unset .. MaxLag] /\ fired' \in [Id -> Matching \cup {Unset}]
        /\ credit' \in [Id -> Int]
    BY <1>2, <2>0 DEF Forget, TypeOK
  <2>4. handle' \in Frame \cup {NoFrame} /\ pending' \subseteq Frame /\ running' \in BOOLEAN
    BY <1>2 DEF Forget, MaybeStop, StopLoop, clock, TypeOK
  <2> QED BY <1>2, <2>1, <2>2, <2>3, <2>4 DEF Forget, TypeOK
<1>3. ASSUME NEW i \in Id, Visit(i) PROVE TypeOK'
  <2>0. firing = 0 /\ i # 0 /\ Unset \in Unset .. MaxLag /\ 0 \in Unset .. MaxLag
    BY <1>3, Bounds DEF Visit, Id
  <2>1. acc' \in [Id -> 0 .. MaxAcc]
    <3>1. AccAfter(i) \in 0 .. MaxAcc
      BY <2>0, AccAfterBounded
    <3> QED BY <1>3, <3>1 DEF Visit, TypeOK
  <2>2. lag' \in [Id -> Unset .. MaxLag]
    BY <1>3, <2>0 DEF Visit, TypeOK
  <2>3. fired' \in [Id -> Matching \cup {Unset}]
    BY <1>3 DEF Visit, Due, TypeOK
  <2>4. credit' \in [Id -> Int]
    <3>1. kind[i] # Cron => credit[i] - kind[i] \in Int
      <4>1. kind[i] # Cron => kind[i] \in Int
        BY IntervalIsNat
      <4>2. credit[i] \in Int
        BY DEF TypeOK
      <4> QED BY <4>1, <4>2
    <3> QED BY <1>3, <3>1 DEF Visit, TypeOK
  <2> QED BY <1>3, <2>1, <2>2, <2>3, <2>4 DEF Visit, clock, TypeOK
<1>4. ASSUME Pause PROVE TypeOK'
  BY <1>4 DEF Pause, StopLoop, table, TypeOK
<1>5. ASSUME Resume PROVE TypeOK'
  <2>1. handle' \in Frame \cup {NoFrame} /\ pending' \subseteq Frame /\ running' \in BOOLEAN
    BY <1>5 DEF Resume, EnsureRunning, Schedule, clock, TypeOK
  <2>2. lag' \in [Id -> Unset .. MaxLag]
    <3>1. Unset \in Unset .. MaxLag
      BY Bounds
    <3> QED BY <1>5, <3>1 DEF Resume
  <2> QED BY <1>5, <2>1, <2>2 DEF Resume, TypeOK
<1>6. ASSUME NEW f \in Frame, BeginPass(f) PROVE TypeOK'
  BY <1>6 DEF BeginPass, table, TypeOK
<1>7. ASSUME Return PROVE TypeOK'
  <2>1. acc' \in [Id -> 0 .. MaxAcc]
    <3>1. CASE firing \in ticks /\ Interval(firing)
      <4>1. firing \in Id /\ kind[firing] \in Nat \ {0} /\ kind[firing] <= LongestInterval
        <5>1. firing \in Id
          BY <1>7 DEF TypeOK, Return
        <5> QED BY <3>1, <5>1, IntervalIsNat, Bounds DEF Interval
      <4>2. acc[firing] \in Nat
        BY <4>1, Bounds DEF TypeOK
      <4>3. acc[firing] % kind[firing] \in Nat /\ acc[firing] % kind[firing] < kind[firing]
        BY <4>1, <4>2, Remainder
      <4>4. acc[firing] % kind[firing] \in 0 .. MaxAcc
        <5> DEFINE rest == acc[firing] % kind[firing]
        <5>1. rest \in Nat /\ rest < kind[firing]
          BY <4>3
        <5> HIDE DEF rest
        <5>2. rest \in 0 .. MaxAcc
          BY <4>1, <5>1, Bounds
        <5> QED BY <5>2 DEF rest
      <4>5. acc' = [acc EXCEPT ![firing] = acc[firing] % kind[firing]]
        BY <1>7, <3>1 DEF Return, Interval, TypeOK
      <4> QED BY <4>1, <4>4, <4>5 DEF TypeOK
    <3>2. CASE ~(firing \in ticks /\ Interval(firing))
      BY <1>7, <3>2 DEF Return, Interval, TypeOK
    <3> QED BY <3>1, <3>2
  <2> QED BY <1>7, <2>1 DEF Return, clock, TypeOK
<1>8. ASSUME EndPass PROVE TypeOK'
  BY <1>8 DEF EndPass, Schedule, table, TypeOK
<1>9. ASSUME Elapse PROVE TypeOK'
  <2>1. lag' \in [Id -> Unset .. MaxLag]
    <3>1. ASSUME NEW i \in Id
          PROVE  (IF lag[i] = Unset THEN Unset ELSE lag[i] + 1) \in Unset .. MaxLag
      <4>1. lag[i] \in Unset .. MaxLag /\ lag[i] < MaxLag
        BY <1>9 DEF Elapse, TypeOK
      <4> QED BY <4>1, Bounds
    <3> QED BY <1>9, <3>1 DEF Elapse
  <2>2. credit' \in [Id -> Int]
    <3>1. \A i \in Id : credit[i] \in Int /\ credit[i] + 1 \in Int
      BY DEF TypeOK
    <3> QED BY <1>9, <3>1 DEF Elapse
  <2>3. minute' \in 0 .. MaxMinute
    BY <1>9 DEF Elapse, TypeOK, TickAssumption
  <2> QED BY <1>9, <2>1, <2>2, <2>3 DEF Elapse, clock, TypeOK
<1>10. CASE UNCHANGED vars
  BY <1>10 DEF vars, table, clock, TypeOK
<1>11. ASSUME NEW i \in Id, Stop(i) PROVE TypeOK'
  BY <1>2, <1>11 DEF Stop
<1>12. ASSUME StopAll PROVE TypeOK'
  <2>1. ticks \in SUBSET Id
    BY DEF TypeOK, Id, TickAssumption
  <2> QED BY <1>2, <1>12, <2>1 DEF StopAll
<1> QED
  BY <1>1, <1>3, <1>4, <1>5, <1>6, <1>7, <1>8, <1>9, <1>10, <1>11, <1>12 DEF Next

\* What is of a tick that is not registered stays blank.
LEMMA VisitsStep ==
  ASSUME TickAssumption, TypeOK, Visits, [Next]_vars
  PROVE  Visits'
<1>1. ASSUME NEW k \in Kinds, Add(k) PROVE Visits'
  <2>1. nextId \in Id /\ nextId' = nextId + 1 /\ nextId \in Nat /\ nextId \in ticks'
    BY <1>1 DEF Add, TypeOK, Id, TickAssumption
  <2>2. firing' # 0 => pass' /\ firing' < nextId'
    BY <1>1, <2>1 DEF Add, Visits, TypeOK, Id, TickAssumption
  <2>3. ASSUME NEW i \in Id, i \notin ticks'
        PROVE  kind'[i] = kind[i] /\ acc'[i] = acc[i] /\ i \notin ticks
    BY <1>1, <2>1, <2>3 DEF Add, TypeOK
  <2> QED BY <1>1, <2>2, <2>3 DEF Add, Visits
<1>2. ASSUME NEW gone \in SUBSET Id, Forget(gone) PROVE Visits'
  BY <1>2 DEF Forget, Visits
<1>3. ASSUME NEW i \in Id, Visit(i) PROVE Visits'
  <2>1. i \in ticks /\ i # 0 /\ i < nextId
    BY <1>3 DEF Visit, Unvisited, TypeOK, Id, TickAssumption
  <2>2. ASSUME NEW j \in Id, j \notin ticks'
        PROVE  /\ kind'[j] = kind[j] /\ acc'[j] = acc[j] /\ lag'[j] = lag[j]
               /\ fired'[j] = fired[j] /\ credit'[j] = credit[j] /\ j \notin ticks
    BY <1>3, <2>1, <2>2 DEF Visit, TypeOK
  <2>3. firing' # 0 => pass' /\ firing' < nextId'
    BY <1>3, <2>1 DEF Visit
  <2> QED BY <2>2, <2>3, <1>3 DEF Visits, Visit
<1>4. ASSUME Pause PROVE Visits'
  BY <1>4 DEF Pause, table, Visits
<1>5. ASSUME Resume PROVE Visits'
  BY <1>5 DEF Resume, Visits
<1>6. ASSUME NEW f \in Frame, BeginPass(f) PROVE Visits'
  BY <1>6 DEF BeginPass, table, Visits, TypeOK
<1>7. ASSUME Return PROVE Visits'
  <2>1. ASSUME NEW i \in Id, i \notin ticks'
        PROVE  acc'[i] = acc[i]
    BY <1>7, <2>1 DEF Return, TypeOK
  <2> QED BY <1>7, <2>1 DEF Return, Visits
<1>8. ASSUME EndPass PROVE Visits'
  BY <1>8 DEF EndPass, table, Visits
<1>9. ASSUME Elapse PROVE Visits'
  BY <1>9 DEF Elapse, Visits
<1>10. CASE UNCHANGED vars
  BY <1>10 DEF vars, table, Visits
<1>11. ASSUME NEW i \in Id, Stop(i) PROVE Visits'
  BY <1>2, <1>11 DEF Stop
<1>12. ASSUME StopAll PROVE Visits'
  <2>1. ticks \in SUBSET Id
    BY DEF TypeOK, Id, TickAssumption
  <2> QED BY <1>2, <1>12, <2>1 DEF StopAll
<1> QED
  BY <1>1, <1>3, <1>4, <1>5, <1>6, <1>7, <1>8, <1>9, <1>10, <1>11, <1>12 DEF Next

\* The loop and a pause exclude each other.
LEMMA LoopStep ==
  ASSUME TickAssumption, TypeOK, Visits, Loop, [Next]_vars
  PROVE  Loop'
<1>1. ASSUME NEW k \in Kinds, Add(k) PROVE Loop'
  BY <1>1 DEF Add, EnsureRunning, Schedule, clock, Loop, TypeOK
<1>2. ASSUME NEW gone \in SUBSET Id, Forget(gone) PROVE Loop'
  BY <1>2 DEF Forget, MaybeStop, StopLoop, clock, Loop, TypeOK
<1>3. ASSUME NEW i \in Id, Visit(i) PROVE Loop'
  BY <1>3 DEF Visit, clock, Loop
<1>4. ASSUME Pause PROVE Loop'
  BY <1>4 DEF Pause, StopLoop, Loop
<1>5. ASSUME Resume PROVE Loop'
  BY <1>5 DEF Resume, EnsureRunning, Schedule, clock, Loop, TypeOK
<1>6. ASSUME NEW f \in Frame, BeginPass(f) PROVE Loop'
  BY <1>6 DEF BeginPass, Loop
<1>7. ASSUME Return PROVE Loop'
  BY <1>7 DEF Return, clock, Loop
<1>8. ASSUME EndPass PROVE Loop'
  BY <1>8 DEF EndPass, Loop
<1>9. ASSUME Elapse PROVE Loop'
  BY <1>9 DEF Elapse, clock, Loop
<1>10. CASE UNCHANGED vars
  BY <1>10 DEF vars, clock, Loop
<1>11. ASSUME NEW i \in Id, Stop(i) PROVE Loop'
  BY <1>2, <1>11 DEF Stop
<1>12. ASSUME StopAll PROVE Loop'
  <2>1. ticks \in SUBSET Id
    BY DEF TypeOK, Id, TickAssumption
  <2> QED BY <1>2, <1>12, <2>1 DEF StopAll
<1> QED
  BY <1>1, <1>3, <1>4, <1>5, <1>6, <1>7, <1>8, <1>9, <1>10, <1>11, <1>12 DEF Next
-----------------------------------------------------------------------------
(***************************************************************************)
(* The numbers of a tick.                                                  *)
(***************************************************************************)
\* What is known of the numbers of a tick, one by one.
LEMMA NumberTypes ==
  ASSUME TickAssumption, TypeOK, NEW i \in Id
  PROVE  /\ acc[i] \in Nat /\ credit[i] \in Int /\ i \in Nat \ {0}
         /\ lag[i] # Unset => lag[i] \in Nat /\ lag[i] <= MaxLag
         /\ Since(i) \in Nat /\ Since(i) <= MaxLag
         /\ Interval(i) => kind[i] \in Nat \ {0} /\ kind[i] <= LongestInterval
<1>1. acc[i] \in Nat /\ credit[i] \in Int /\ i \in Nat \ {0}
  BY Bounds DEF TypeOK, Id, TickAssumption
<1>2. lag[i] # Unset => lag[i] \in Nat /\ lag[i] <= MaxLag
  <2>1. lag[i] \in Unset .. MaxLag
    BY DEF TypeOK
  <2> QED BY <2>1, Bounds
<1>3. Since(i) \in Nat /\ Since(i) <= MaxLag
  BY <1>2, Bounds DEF Since
<1>4. Interval(i) => kind[i] \in Nat \ {0} /\ kind[i] <= LongestInterval
  BY IntervalIsNat DEF Interval, EveryPass
<1> QED BY <1>1, <1>2, <1>3, <1>4

\* A due interval tick has collected its interval, and less than MaxLag more;
\* any other keeps less than its interval.
LEMMA AccumulatedStep ==
  ASSUME TickAssumption, TypeOK, Visits, Accumulated, [Next]_vars
  PROVE  Accumulated'
<1> SUFFICES ASSUME NEW j \in Id PROVE LeftOver(j)'
  BY DEF Accumulated
<1>0. LeftOver(j) /\ Cron # EveryPass
  BY Bounds DEF Accumulated
<1>1. ASSUME NEW k \in Kinds, Add(k) PROVE LeftOver(j)'
  <2>1. CASE j = nextId
    <3>1. firing' # j
      BY <1>1, <2>1, NumberTypes DEF Add, Visits, TypeOK
    <3>2. kind'[j] = k /\ acc'[j] = IF k = Cron THEN CronCheck ELSE 0
      BY <1>1, <2>1 DEF Add, TypeOK
    <3>3. k \notin {Cron, EveryPass} => 0 < k
      BY Bounds
    <3>4. CronCheck <= CronCheck
      BY Bounds
    <3> QED BY <1>0, <3>1, <3>2, <3>3, <3>4 DEF LeftOver, Interval
  <2>2. CASE j # nextId
    <3>1. kind'[j] = kind[j] /\ acc'[j] = acc[j] /\ firing' = firing
      BY <1>1, <2>2 DEF Add, TypeOK
    <3> QED BY <1>0, <3>1 DEF LeftOver, Interval
  <2> QED BY <2>1, <2>2
<1>2. ASSUME NEW gone \in SUBSET Id, Forget(gone) PROVE LeftOver(j)'
  BY <1>0, <1>2 DEF Forget, LeftOver, Interval
<1>3. ASSUME NEW i \in Id, Visit(i) PROVE LeftOver(j)'
  <2>1. firing = 0 /\ firing # j /\ kind'[j] = kind[j] /\ firing' \in {0, i}
    BY <1>3, NumberTypes DEF Visit
  <2>2. CASE j # i
    <3>1. acc'[j] = acc[j] /\ firing' # j
      BY <1>3, <2>1, <2>2, NumberTypes DEF Visit, TypeOK
    <3> QED BY <1>0, <2>1, <3>1 DEF LeftOver, Interval
  <2>3. CASE j = i
    <3>1. acc'[j] = AccAfter(j) /\ (firing' = j <=> Due(j))
      BY <1>3, <2>3, NumberTypes DEF Visit, TypeOK
    <3>2. CASE kind[j] = EveryPass
      BY <1>0, <2>1, <3>1, <3>2 DEF LeftOver, Interval, AccAfter
    <3>3. CASE kind[j] = Cron
      <4>1. AccAfter(j) <= CronCheck
        BY <1>0, <3>3, NumberTypes, Bounds DEF LeftOver, AccAfter
      <4> QED BY <1>0, <2>1, <3>1, <3>3, <4>1 DEF LeftOver, Interval
    <3>4. CASE Interval(j)
      <4>1. acc[j] < kind[j] /\ kind[j] # EveryPass /\ kind[j] # Cron
        BY <1>0, <2>1, <3>4 DEF LeftOver, Interval
      <4>2. Due(j) => lag[j] # Unset /\ AccAfter(j) = acc[j] + lag[j] /\ acc[j] + lag[j] >= kind[j]
        BY <4>1 DEF Due, AccAfter
      <4>3. ~Due(j) => AccAfter(j) < kind[j]
        BY <4>1, <3>4, NumberTypes DEF Due, AccAfter
      <4>4. Due(j) => kind[j] <= AccAfter(j) /\ AccAfter(j) < kind[j] + MaxLag
        BY <4>1, <4>2, <3>4, NumberTypes, Bounds
      <4> QED BY <4>1, <4>3, <4>4, <2>1, <3>1 DEF LeftOver, Interval
    <3> QED BY <3>2, <3>3, <3>4 DEF Interval
  <2> QED BY <2>2, <2>3
<1>4. ASSUME Pause PROVE LeftOver(j)'
  BY <1>0, <1>4 DEF Pause, table, LeftOver, Interval
<1>5. ASSUME Resume PROVE LeftOver(j)'
  BY <1>0, <1>5 DEF Resume, LeftOver, Interval
<1>6. ASSUME NEW f \in Frame, BeginPass(f) PROVE LeftOver(j)'
  BY <1>0, <1>6 DEF BeginPass, table, LeftOver, Interval
<1>7. ASSUME Return PROVE LeftOver(j)'
  <2>1. firing' = 0 /\ firing' # j /\ kind'[j] = kind[j]
    BY <1>7, NumberTypes DEF Return
  <2>2. CASE j = firing /\ Interval(j)
    <3>1. j \in ticks
      BY <2>2 DEF Visits, Interval
    <3>2. acc'[j] = acc[j] % kind[j]
      BY <1>7, <2>2, <3>1 DEF Return, Interval, TypeOK
    <3>3. acc'[j] < kind[j]
      BY <2>2, <3>2, NumberTypes, Remainder
    <3> QED BY <2>1, <2>2, <3>3 DEF LeftOver, Interval
  <2>3. CASE ~(j = firing /\ Interval(j))
    <3>1. acc'[j] = acc[j]
      BY <1>7, <2>3 DEF Return, Interval, TypeOK
    <3> QED BY <1>0, <2>1, <2>3, <3>1 DEF LeftOver, Interval
  <2> QED BY <2>2, <2>3
<1>8. ASSUME EndPass PROVE LeftOver(j)'
  BY <1>0, <1>8 DEF EndPass, table, LeftOver, Interval
<1>9. ASSUME Elapse PROVE LeftOver(j)'
  BY <1>0, <1>9 DEF Elapse, LeftOver, Interval
<1>10. CASE UNCHANGED vars
  BY <1>0, <1>10 DEF vars, table, LeftOver, Interval
<1>11. ASSUME NEW i \in Id, Stop(i) PROVE LeftOver(j)'
  BY <1>2, <1>11 DEF Stop
<1>12. ASSUME StopAll PROVE LeftOver(j)'
  <2>1. ticks \in SUBSET Id
    BY DEF TypeOK, Id, TickAssumption
  <2> QED BY <1>2, <1>12, <2>1 DEF StopAll
<1> QED
  BY <1>1, <1>3, <1>4, <1>5, <1>6, <1>7, <1>8, <1>9, <1>10, <1>11, <1>12 DEF Next

\* The clock gives lag and credit alike, a visit moves lag to the accumulator,
\* and what fires is paid for.
LEMMA CreditedStep ==
  ASSUME TickAssumption, TypeOK, Visits, Loop, Accumulated, Credited, [Next]_vars
  PROVE  Credited'
<1> SUFFICES ASSUME NEW j \in Id PROVE GivenByTheClock(j)'
  BY DEF Credited
<1>0. GivenByTheClock(j) /\ LeftOver(j) /\ Cron # EveryPass
  BY Bounds DEF Credited, Accumulated
<1>a. Since(j) \in Nat /\ acc[j] \in Nat /\ credit[j] \in Int /\ j # 0
  BY NumberTypes
<1>b. Interval(j) => kind[j] \in Nat \ {0} /\ j \in ticks
  BY NumberTypes DEF Visits, Interval
<1>1. ASSUME NEW k \in Kinds, Add(k) PROVE GivenByTheClock(j)'
  <2>0. lag' = lag /\ credit' = credit /\ firing' = firing /\ paused' = paused /\ pass' = pass
    BY <1>1 DEF Add
  <2>1. CASE j = nextId
    <3>1. firing # j /\ j \notin ticks
      BY <1>1, <2>1, <1>a DEF Add, Visits, TypeOK
    <3>2. credit[j] = 0 /\ lag[j] = Unset
      BY <3>1 DEF Visits
    <3>3. Interval(j)' => acc'[j] = 0
      BY <1>1, <2>1 DEF Add, TypeOK, Interval
    <3> QED BY <2>0, <3>1, <3>2, <3>3 DEF GivenByTheClock, Since
  <2>2. CASE j # nextId
    <3>1. kind'[j] = kind[j] /\ acc'[j] = acc[j]
      BY <1>1, <2>2 DEF Add, TypeOK
    <3> QED BY <1>0, <2>0, <3>1 DEF GivenByTheClock, Interval, Since
  <2> QED BY <2>1, <2>2
<1>2. ASSUME NEW gone \in SUBSET Id, Forget(gone) PROVE GivenByTheClock(j)'
  <2>0. firing' = firing /\ paused' = paused /\ pass' = pass
    BY <1>2 DEF Forget
  <2>1. CASE j \in gone
    <3>1. kind'[j] = EveryPass /\ lag'[j] = Unset /\ credit'[j] = 0
      BY <1>2, <2>1 DEF Forget
    <3> QED BY <3>1 DEF GivenByTheClock, Interval, Since
  <2>2. CASE j \notin gone
    <3>1. kind'[j] = kind[j] /\ lag'[j] = lag[j] /\ credit'[j] = credit[j] /\ acc'[j] = acc[j]
      BY <1>2, <2>2 DEF Forget
    <3> QED BY <1>0, <2>0, <3>1 DEF GivenByTheClock, Interval, Since
  <2> QED BY <2>1, <2>2
<1>3. ASSUME NEW i \in Id, Visit(i) PROVE GivenByTheClock(j)'
  <2>1. /\ firing = 0 /\ firing # j /\ kind'[j] = kind[j] /\ firing' \in {0, i}
        /\ pass /\ pass' /\ paused' = paused
    BY <1>3, <1>a DEF Visit
  <2>2. CASE j # i
    <3>1. acc'[j] = acc[j] /\ lag'[j] = lag[j] /\ credit'[j] = credit[j] /\ firing' # j
      BY <1>3, <2>1, <2>2, <1>a DEF Visit, TypeOK
    <3> QED BY <1>0, <2>1, <3>1 DEF GivenByTheClock, Interval, Since
  <2>3. CASE j = i
    <3>1. /\ acc'[j] = AccAfter(j) /\ (firing' = j <=> Due(j))
          /\ credit'[j] = IF kind[j] # Cron /\ Due(j) THEN credit[j] - kind[j] ELSE credit[j]
          /\ lag'[j] = IF kind[j] = EveryPass THEN Unset ELSE 0
      BY <1>3, <2>3, <1>a DEF Visit, TypeOK
    <3>2. Since(j)' = 0
      BY <3>1 DEF Since
    <3>3. CASE kind[j] = EveryPass
      <4>1. credit'[j] = credit[j]
        BY <3>1, <3>3, <1>a DEF EveryPass
      <4> QED BY <1>0, <2>1, <3>2, <3>3, <4>1 DEF GivenByTheClock, Interval
    <3>4. CASE kind[j] = Cron
      <4>1. credit'[j] = credit[j]
        BY <3>1, <3>4
      <4> QED BY <1>0, <2>1, <3>2, <3>4, <4>1 DEF GivenByTheClock, Interval
    <3>5. CASE Interval(j)
      <4>1. AccAfter(j) = acc[j] + Since(j)
        BY <3>5, <1>a DEF AccAfter, Since, Interval
      <4>2. acc[j] + Since(j) <= credit[j]
        BY <1>0, <2>1, <3>5 DEF GivenByTheClock
      <4>3. Due(j) => kind[j] <= AccAfter(j)
        BY <3>5, <4>1 DEF Due, Interval, Since
      <4>4. CASE Due(j)
        <5>1. credit'[j] = credit[j] - kind[j] /\ firing' = j
          BY <3>1, <3>5, <4>4 DEF Interval
        <5>2. 0 <= credit'[j] /\ acc'[j] - kind[j] <= credit'[j]
          BY <1>a, <1>b, <3>1, <3>5, <4>1, <4>2, <4>3, <4>4, <5>1
        <5> QED BY <2>1, <3>2, <5>1, <5>2 DEF GivenByTheClock
      <4>5. CASE ~Due(j)
        <5>1. credit'[j] = credit[j] /\ firing' # j /\ acc'[j] + 0 <= credit'[j] /\ 0 <= credit[j]
          BY <1>0, <1>a, <3>1, <4>1, <4>2, <4>5 DEF GivenByTheClock
        <5> QED BY <2>1, <3>2, <5>1 DEF GivenByTheClock
      <4> QED BY <4>4, <4>5
    <3> QED BY <3>3, <3>4, <3>5 DEF Interval
  <2> QED BY <2>2, <2>3
<1>4. ASSUME Pause PROVE GivenByTheClock(j)'
  <2>1. /\ acc' = acc /\ kind' = kind /\ lag' = lag /\ credit' = credit
        /\ firing' = firing /\ pass' = pass /\ ~paused
    BY <1>4 DEF Pause, table
  <2>2. Interval(j) /\ firing # j => acc[j] + Since(j) <= credit[j] /\ acc[j] + 0 <= credit[j]
    BY <1>0, <1>a, <2>1 DEF GivenByTheClock
  <2> QED BY <1>0, <2>1, <2>2 DEF GivenByTheClock, Interval, Since
<1>5. ASSUME Resume PROVE GivenByTheClock(j)'
  <2>1. /\ acc' = acc /\ kind' = kind /\ lag'[j] = Unset /\ credit' = credit
        /\ firing' = firing /\ pass' = pass
    BY <1>5 DEF Resume
  <2>2. Since(j)' = 0
    BY <2>1 DEF Since
  <2>3. Interval(j) /\ firing # j => acc[j] + 0 <= credit[j]
    BY <1>0, <1>a DEF GivenByTheClock
  <2> QED BY <1>0, <2>1, <2>2, <2>3 DEF GivenByTheClock, Interval
<1>6. ASSUME NEW f \in Frame, BeginPass(f) PROVE GivenByTheClock(j)'
  <2>1. /\ acc' = acc /\ kind' = kind /\ lag' = lag /\ credit' = credit
        /\ firing' = firing /\ paused' = paused /\ ~pass
    BY <1>6 DEF BeginPass, table
  <2>2. pass' => ~paused
    BY <1>6 DEF BeginPass, Loop
  <2> QED BY <1>0, <2>1, <2>2 DEF GivenByTheClock, Interval, Since
<1>7. ASSUME Return PROVE GivenByTheClock(j)'
  <2>1. /\ firing' = 0 /\ firing' # j /\ kind'[j] = kind[j] /\ lag' = lag /\ credit' = credit
        /\ paused' = paused /\ pass' = pass
    BY <1>7, <1>a DEF Return
  <2>2. CASE j = firing /\ Interval(j)
    <3>1. acc'[j] = acc[j] % kind[j]
      BY <1>7, <1>b, <2>2 DEF Return, Interval, TypeOK
    <3>2. kind[j] <= acc[j] /\ acc[j] - kind[j] <= credit[j] /\ Since(j) = 0 /\ 0 <= credit[j]
      BY <1>0, <2>2 DEF LeftOver, GivenByTheClock
    <3>3. acc'[j] \in Nat /\ acc'[j] <= acc[j] - kind[j]
      BY <1>a, <1>b, <2>2, <3>1, <3>2, Remainder
    <3>4. acc'[j] + 0 <= credit[j]
      BY <1>a, <1>b, <2>2, <3>2, <3>3
    <3>5. Since(j)' = 0
      BY <2>1, <3>2 DEF Since
    <3> QED BY <2>1, <3>2, <3>4, <3>5 DEF GivenByTheClock
  <2>3. CASE ~(j = firing /\ Interval(j))
    <3>1. acc'[j] = acc[j]
      BY <1>7, <2>3 DEF Return, Interval, TypeOK
    <3> QED BY <1>0, <2>1, <2>3, <3>1 DEF GivenByTheClock, Interval, Since
  <2> QED BY <2>2, <2>3
<1>8. ASSUME EndPass PROVE GivenByTheClock(j)'
  <2>1. /\ acc' = acc /\ kind' = kind /\ lag' = lag /\ credit' = credit
        /\ firing' = firing /\ paused' = paused /\ pass /\ ~pass'
    BY <1>8 DEF EndPass, table
  <2>2. Interval(j) /\ firing # j => acc[j] + Since(j) <= credit[j] /\ acc[j] + 0 <= credit[j]
    BY <1>0, <1>a, <2>1 DEF GivenByTheClock
  <2> QED BY <1>0, <2>1, <2>2 DEF GivenByTheClock, Interval, Since
<1>9. ASSUME Elapse PROVE GivenByTheClock(j)'
  <2>1. /\ acc' = acc /\ kind' = kind /\ firing' = firing /\ paused' = paused
        /\ ~pass /\ ~pass' /\ firing # j
        /\ credit'[j] = IF j \in ticks /\ ~paused /\ credit[j] < MaxCredit
                        THEN credit[j] + 1 ELSE credit[j]
        /\ lag[j] < MaxLag
        /\ lag'[j] = IF lag[j] = Unset THEN Unset ELSE lag[j] + 1
    BY <1>9, <1>a DEF Elapse, Visits
  <2>2. 0 <= credit'[j] /\ credit[j] <= credit'[j] /\ credit'[j] \in Int
    BY <1>0, <1>a, <2>1 DEF GivenByTheClock
  <2>3. Since(j)' \in Nat /\ Since(j)' <= Since(j) + 1 /\ Since(j)' <= MaxLag
    <3>1. CASE lag[j] = Unset
      BY <2>1, <3>1, Bounds DEF Since
    <3>2. CASE lag[j] # Unset
      <4>1. lag[j] \in Nat /\ lag'[j] = lag[j] + 1 /\ lag'[j] # Unset
        BY <2>1, <3>2, NumberTypes, Bounds
      <4> QED BY <2>1, <3>2, <4>1, Bounds DEF Since
    <3> QED BY <3>1, <3>2
  <2>4. Interval(j) /\ ~paused => acc[j] + Since(j)' <= credit'[j]
    <3> SUFFICES ASSUME Interval(j), ~paused PROVE acc[j] + Since(j)' <= credit'[j]
      OBVIOUS
    <3>1. acc[j] + Since(j) <= credit[j]
      BY <1>0, <2>1 DEF GivenByTheClock
    <3>2. CASE credit[j] < MaxCredit
      <4>1. credit'[j] = credit[j] + 1
        BY <1>b, <2>1, <3>2
      <4> QED BY <1>a, <2>3, <3>1, <4>1
    <3>3. CASE ~(credit[j] < MaxCredit)
      <4>1. acc[j] < kind[j] /\ kind[j] \in Nat /\ kind[j] <= LongestInterval
        BY <1>0, <2>1, NumberTypes DEF LeftOver
      <4> QED BY <1>a, <2>2, <2>3, <3>3, <4>1, Bounds
    <3> QED BY <3>2, <3>3
  <2>5. Interval(j) => acc[j] + 0 <= credit'[j]
    BY <1>0, <1>a, <2>1, <2>2 DEF GivenByTheClock
  <2> QED BY <2>1, <2>2, <2>4, <2>5 DEF GivenByTheClock, Interval
<1>10. CASE UNCHANGED vars
  BY <1>0, <1>10 DEF vars, table, GivenByTheClock, Interval, Since
<1>11. ASSUME NEW i \in Id, Stop(i) PROVE GivenByTheClock(j)'
  BY <1>2, <1>11 DEF Stop
<1>12. ASSUME StopAll PROVE GivenByTheClock(j)'
  <2>1. ticks \in SUBSET Id
    BY DEF TypeOK, Id, TickAssumption
  <2> QED BY <1>2, <1>12, <2>1 DEF StopAll
<1> QED
  BY <1>1, <1>3, <1>4, <1>5, <1>6, <1>7, <1>8, <1>9, <1>10, <1>11, <1>12 DEF Next
-----------------------------------------------------------------------------
(***************************************************************************)
(* What holds of every tick, whatever the callbacks do.                    *)
(***************************************************************************)
LEMMA InitIInv ==
  ASSUME TickAssumption, Init
  PROVE  IInv
<1>1. TypeOK
  <2>1. /\ kind \in [Id -> Kinds \cup {EveryPass}] /\ fired \in [Id -> Matching \cup {Unset}]
        /\ credit \in [Id -> Int]
    BY DEF Init
  <2>2. acc \in [Id -> 0 .. MaxAcc] /\ lag \in [Id -> Unset .. MaxLag]
    <3>1. 0 \in 0 .. MaxAcc /\ Unset \in Unset .. MaxLag
      BY Bounds
    <3> QED BY <3>1 DEF Init
  <2>3. nextId \in 1 .. MaxId + 1 /\ ticks \subseteq 1 .. nextId - 1
    <3>1. nextId = 1 /\ ticks = {} /\ MaxId \in Nat
      BY DEF Init, TickAssumption
    <3> QED BY <3>1
  <2>4. minute \in 0 .. MaxMinute
    <3>1. minute = 0 /\ MaxMinute \in Nat
      BY DEF Init, TickAssumption
    <3> QED BY <3>1
  <2> QED BY <2>1, <2>2, <2>3, <2>4 DEF Init, TypeOK
<1>2. Visits /\ Loop
  BY DEF Init, Visits, Loop
<1>3. Accumulated
  BY Bounds DEF Init, Accumulated, LeftOver, Interval
<1>4. Credited
  <2>1. ASSUME NEW i \in Id PROVE GivenByTheClock(i)
    <3>1. credit[i] = 0 /\ kind[i] = EveryPass /\ lag[i] = Unset
      BY DEF Init
    <3> QED BY <3>1 DEF GivenByTheClock, Interval, Since
  <2> QED BY <2>1 DEF Credited
<1> QED BY <1>1, <1>2, <1>3, <1>4 DEF IInv

\* The inductive invariant of the clock.
THEOREM Invariant == Spec => []IInv
<1>1. Init => IInv
  BY TickAssumption, InitIInv
<1>2. IInv /\ [Next]_vars => IInv'
  BY TickAssumption, TypeStep, VisitsStep, LoopStep, AccumulatedStep, CreditedStep DEF IInv
<1> QED BY <1>1, <1>2, PTL DEF Spec

\* Every variable of the clock stays in its type: an accumulator is never
\* negative and never more than an interval and one late pass.
THEOREM TypeCorrect == Spec => []TypeOK
<1>1. IInv => TypeOK
  BY DEF IInv
<1> QED BY <1>1, Invariant, PTL

\* A tick never fires for more time than it was registered and unpaused.
THEOREM FiresNoMoreThanItsTime == Spec => []NeverAhead
<1>1. IInv => NeverAhead
  <2> SUFFICES ASSUME IInv, NEW i \in ticks PROVE credit[i] >= 0
    BY DEF NeverAhead
  <2>1. i \in Id
    BY TickAssumption DEF IInv, TypeOK, Id, TickAssumption
  <2> QED BY <2>1, TickAssumption, NumberTypes DEF IInv, Credited, GivenByTheClock
<1> QED BY <1>1, Invariant, PTL

\* When a callback has returned, less than an interval is left to be fired for.
THEOREM NothingPilesUp == Spec => []NoBacklog
<1>1. IInv => NoBacklog
  <2> SUFFICES ASSUME IInv, NEW i \in ticks PROVE firing # i /\ Interval(i) => acc[i] < kind[i]
    BY DEF NoBacklog, Interval
  <2>1. i \in Id
    BY TickAssumption DEF IInv, TypeOK, Id, TickAssumption
  <2> QED BY <2>1 DEF IInv, Accumulated, LeftOver
<1> QED BY <1>1, Invariant, PTL
-----------------------------------------------------------------------------
(***************************************************************************)
(* The loop.                                                               *)
(***************************************************************************)
\* The loop is one callback that is pending, or the pass it became.
LEMMA LoopInvStep ==
  ASSUME TickAssumption, LoopIsLeftRunning, TypeOK, LoopInv, [Next]_vars
  PROVE  LoopInv'
<1>1. ASSUME NEW k \in Kinds, Add(k) PROVE LoopInv'
  <2>1. ticks' # {} /\ paused' = paused /\ pass' = pass /\ hasRaf' = hasRaf
    BY <1>1 DEF Add
  <2>2. CASE running \/ paused
    <3>1. running' = running /\ handle' = handle /\ pending' = pending
      BY <1>1, <2>2 DEF Add, EnsureRunning, clock
    <3> QED BY <2>1, <2>2, <3>1 DEF LoopInv
  <2>3. CASE ~(running \/ paused)
    <3>1. running' = TRUE /\ pending' = pending \cup {handle'}
      BY <1>1, <2>3 DEF Add, EnsureRunning, Schedule
    <3> QED BY <2>1, <2>3, <3>1 DEF LoopInv
  <2> QED BY <2>2, <2>3
<1>2. ASSUME NEW gone, Forget(gone), pass /\ hasRaf => ticks \ gone # {} PROVE LoopInv'
  <2>1. ticks' = ticks \ gone /\ paused' = paused /\ pass' = pass /\ hasRaf' = hasRaf
    BY <1>2 DEF Forget
  <2>2. CASE ticks \ gone = {} /\ running
    BY <1>2, <2>1, <2>2 DEF Forget, MaybeStop, StopLoop, LoopInv
  <2>3. CASE ~(ticks \ gone = {} /\ running)
    <3>1. running' = running /\ handle' = handle /\ pending' = pending
      BY <1>2, <2>3 DEF Forget, MaybeStop, clock
    <3> QED BY <2>1, <2>3, <3>1 DEF LoopInv
  <2> QED BY <2>2, <2>3
<1>3. ASSUME NEW i \in Id, Visit(i) PROVE LoopInv'
  BY <1>3 DEF Visit, clock, LoopInv
<1>4. ASSUME Pause PROVE LoopInv'
  <2>1. ~(pass /\ hasRaf)
    BY <1>4 DEF Pause, MayCall, LoopIsLeftRunning
  <2> QED BY <1>4, <2>1 DEF Pause, StopLoop, table, LoopInv
<1>5. ASSUME Resume PROVE LoopInv'
  <2>1. ~running /\ pending = {} /\ ~(pass /\ hasRaf)
    BY <1>5 DEF Resume, LoopInv
  <2> QED BY <1>5, <2>1 DEF Resume, EnsureRunning, Schedule, clock, LoopInv
<1>6. ASSUME NEW f \in Frame, BeginPass(f) PROVE LoopInv'
  <2>1. running /\ pending = {handle} /\ f = handle
    BY <1>6 DEF BeginPass, LoopInv
  <2> QED BY <1>6, <2>1 DEF BeginPass, table, LoopInv
<1>7. ASSUME Return PROVE LoopInv'
  BY <1>7 DEF Return, clock, LoopInv
<1>8. ASSUME EndPass PROVE LoopInv'
  BY <1>8 DEF EndPass, Schedule, table, LoopInv
<1>9. ASSUME Elapse PROVE LoopInv'
  BY <1>9 DEF Elapse, clock, LoopInv
<1>10. CASE UNCHANGED vars
  BY <1>10 DEF vars, table, clock, LoopInv
<1>11. ASSUME NEW i \in Id, Stop(i) PROVE LoopInv'
  <2>1. pass /\ hasRaf => ~(ticks \subseteq {i})
    BY <1>11 DEF Stop, MayCall, LoopIsLeftRunning
  <2> QED BY <1>2, <1>11, <2>1 DEF Stop
<1>12. ASSUME StopAll PROVE LoopInv'
  <2>1. ~(pass /\ hasRaf)
    BY <1>12 DEF StopAll, MayCall, LoopIsLeftRunning
  <2> QED BY <1>2, <1>12, <2>1 DEF StopAll
<1> QED
  BY <1>1, <1>3, <1>4, <1>5, <1>6, <1>7, <1>8, <1>9, <1>10, <1>11, <1>12 DEF Next

LEMMA LoopInvariant ==
  ASSUME LoopIsLeftRunning
  PROVE  Spec => []LoopInv
<1>1. Init => LoopInv
  BY DEF Init, LoopInv
<1>2. TypeOK /\ LoopInv /\ [Next]_vars => LoopInv'
  BY TickAssumption, LoopIsLeftRunning, LoopInvStep
<1> QED BY <1>1, <1>2, TypeCorrect, PTL DEF Spec

\* Never two passes, scheduled or under way, whatever the callbacks add, stop
\* and resume, if on animation frames they leave the loop running.
THEOREM NeverTwoLoops ==
  ASSUME LoopIsLeftRunning
  PROVE  Spec => []OneLoop
<1>1. LoopInv => OneLoop
  <2> SUFFICES ASSUME LoopInv PROVE OneLoop
    OBVIOUS
  <2>1. CASE pending = {}
    <3>1. Cardinality(pending) = 0
      BY <2>1, FS_EmptySet
    <3> QED BY <3>1 DEF OneLoop
  <2>2. CASE pending = {handle} /\ ~(pass /\ hasRaf)
    <3>1. Cardinality(pending) = 1
      BY <2>2, FS_Singleton
    <3> QED BY <2>2, <3>1 DEF OneLoop
  <2> QED BY <2>1, <2>2 DEF LoopInv
<1> QED BY <1>1, LoopInvariant, LoopIsLeftRunning, PTL

\* The loop runs exactly while there is a tick and no pause.
THEOREM LoopLivesForTicks ==
  ASSUME LoopIsLeftRunning
  PROVE  Spec => []LoopServesTicks
<1>1. LoopInv => LoopServesTicks
  BY DEF LoopInv, LoopServesTicks
<1> QED BY <1>1, LoopInvariant, LoopIsLeftRunning, PTL
-----------------------------------------------------------------------------
(***************************************************************************)
(* Pauses.                                                                 *)
(***************************************************************************)
PassIsAwake == pass => ~paused

\* No tick fires between pause() and resume(), if pause() is not called from
\* within a pass: no pass begins then, and none was under way.
THEOREM NothingFiresInAPause ==
  ASSUME PausedFromOutside
  PROVE  Spec => PauseSilences
<1>1. Init => PassIsAwake
  BY DEF Init, PassIsAwake
<1>2. Loop /\ PassIsAwake /\ [Next]_vars => PassIsAwake'
  <2> SUFFICES ASSUME Loop, PassIsAwake, [Next]_vars PROVE PassIsAwake'
    OBVIOUS
  <2>1. ASSUME Pause PROVE ~pass'
    BY <2>1, PausedFromOutside DEF Pause, MayCall, PausedFromOutside
  <2>2. ASSUME NEW f \in Frame, BeginPass(f) PROVE pass' => ~paused'
    BY <2>2 DEF BeginPass, Loop
  <2> QED
    BY <2>1, <2>2 DEF Next, PassIsAwake, Add, Stop, StopAll, Forget, Visit, Resume,
       Return, EndPass, Elapse, vars
<1>3. PassIsAwake /\ [Next]_vars => (firing' # 0 /\ firing' # firing => ~paused)
  BY DEF Next, PassIsAwake, Add, Stop, StopAll, Forget, Visit, Pause, Resume,
     BeginPass, Return, EndPass, Elapse, vars
<1>4. IInv => Loop
  BY DEF IInv
<1>5. ASSUME PassIsAwake, [Next]_vars
      PROVE  [firing' # 0 /\ firing' # firing => ~paused]_vars
  BY <1>3, <1>5
<1> QED BY <1>1, <1>2, <1>4, <1>5, Invariant, PTL DEF Spec, PauseSilences
=============================================================================
