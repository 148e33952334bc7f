---------------------------- MODULE TickScheduler ----------------------------
(***************************************************************************)
(* The tick clock (time/TickScheduler.ts): one loop, on animation frames   *)
(* or on a timer where there are none, passes over every registered tick   *)
(* and fires those that are due.  The callbacks it fires may call the      *)
(* scheduler again: add, stop, pause and resume run in the middle of a     *)
(* pass, and the pass goes on over the ticks as they are by then.          *)
(***************************************************************************)
EXTENDS Naturals, Integers, FiniteSets

CONSTANTS
  Kinds,      \* the ticks that may be added: an interval (0: every pass) or Cron
  Cron,       \* a cron tick; its expression matches the minutes of Matching
  CronCheck,  \* CRON_CHECK_INTERVAL_MS, in the model's units of time
  Matching,   \* the calendar minutes a cron tick fires in
  LongestInterval, \* the longest interval of Kinds, in the same units
  MaxMinute,  \* bound: the last calendar minute of a behaviour
  MaxId,      \* bound: how many ticks are ever added
  MaxLag,     \* bound: the units of time a pass may come late
  Frame,      \* the handles of scheduled passes
  NoFrame,    \* frameHandle = null
  Animated,   \* what a callback on an animation frame may call
  Timed       \* what a callback of the timer may call

EveryPass == 0
Unset == -1
Op == {"add", "stop", "stopLast", "pause", "resume"}

ASSUME TickAssumption ==
  /\ LongestInterval \in Nat /\ Cron \notin Nat
  /\ Kinds \subseteq 0 .. LongestInterval \cup {Cron}
  /\ CronCheck \in Nat \ {0} /\ MaxLag \in Nat \ {0}
  /\ MaxMinute \in Nat /\ Matching \subseteq 0 .. MaxMinute
  /\ MaxId \in Nat
  /\ NoFrame \notin Frame
  /\ Animated \subseteq Op /\ Timed \subseteq Op

VARIABLES
  hasRaf,   \* decided once, by the constructor
  nextId,   \* the id of the next tick
  ticks,    \* the registered ids: a Map walked in insertion order
  kind,     \* of a registered id
  acc,      \* accumulatedMs
  lag,      \* the time since lastTimestamp, Unset when it is null
  fired,    \* lastFiredMinuteKey
  running,
  paused,
  handle,   \* frameHandle
  pending,  \* the frames, or the timer, that will call back
  pass,     \* a pass is under way
  cursor,   \* the last id it visited
  firing,   \* the id whose onDue is on the stack, 0 when none is
  minute,   \* the wall clock
  credit    \* history: unpaused time a tick was given minus the intervals it fired for

clock == <<running, handle, pending>>
table == <<nextId, ticks, kind, acc, lag, fired, credit>>
vars == <<hasRaf, table, paused, clock, pass, cursor, firing, minute>>

Id == 1 .. MaxId
MaxAcc == LongestInterval + CronCheck + MaxLag
MaxCredit == LongestInterval + MaxLag

Init ==
  /\ hasRaf \in BOOLEAN
  /\ nextId = 1 /\ ticks = {}
  /\ kind = [i \in Id |-> EveryPass]
  /\ acc = [i \in Id |-> 0] /\ lag = [i \in Id |-> Unset]
  /\ fired = [i \in Id |-> Unset] /\ credit = [i \in Id |-> 0]
  /\ running = FALSE /\ paused = FALSE
  /\ handle = NoFrame /\ pending = {}
  /\ pass = FALSE /\ cursor = 0 /\ firing = 0
  /\ minute = 0
-----------------------------------------------------------------------------
(***************************************************************************)
(* The loop's own operations.                                              *)
(***************************************************************************)
\* requestAnimationFrame or setInterval: one more callback will come.
Schedule ==
  /\ Frame \ pending # {}
  /\ handle' = CHOOSE f \in Frame \ pending : TRUE
  /\ pending' = pending \cup {handle'}

EnsureRunning(nowPaused) ==
  IF running \/ nowPaused
  THEN UNCHANGED clock
  ELSE running' = TRUE /\ Schedule

\* Mutant: the frame that is already scheduled is left to come.
StopLoopOnly ==
  /\ running' = FALSE
  /\ handle' = NoFrame
  /\ UNCHANGED pending

\* stopLoop: the scheduled callback, if frameHandle names one, is cancelled.
StopLoop ==
  /\ running' = FALSE
  /\ handle' = NoFrame
  /\ pending' = pending \ {handle}

\* Mutant: the loop is left running with nothing to walk.
MaybeStopNever(left) == UNCHANGED clock

MaybeStop(left) == IF left = {} /\ running THEN StopLoop ELSE UNCHANGED clock

\* The calls a caller may make now: any of them between passes.
MayCall(op) == ~pass \/ (firing # 0 /\ op \in IF hasRaf THEN Animated ELSE Timed)
-----------------------------------------------------------------------------
(***************************************************************************)
(* The scheduler's interface.                                              *)
(***************************************************************************)
\* add and addCron.
Add(k) ==
  /\ MayCall("add")
  /\ nextId <= MaxId
  /\ nextId' = nextId + 1
  /\ ticks' = ticks \cup {nextId}
  /\ kind' = [kind EXCEPT ![nextId] = k]
  /\ acc' = [acc EXCEPT ![nextId] = IF k = Cron THEN CronCheck ELSE 0]
  /\ EnsureRunning(paused)
  /\ UNCHANGED <<hasRaf, lag, fired, credit, paused, pass, cursor, firing, minute>>

\* The ids in gone are not looked at any more.
Forget(gone) ==
  /\ ticks' = ticks \ gone
  /\ kind' = [i \in Id |-> IF i \in gone THEN EveryPass ELSE kind[i]]
  /\ lag' = [i \in Id |-> IF i \in gone THEN Unset ELSE lag[i]]
  /\ acc' = [i \in Id |-> IF i \in gone THEN 0 ELSE acc[i]]
  /\ fired' = [i \in Id |-> IF i \in gone THEN Unset ELSE fired[i]]
  /\ credit' = [i \in Id |-> IF i \in gone THEN 0 ELSE credit[i]]
  /\ MaybeStop(ticks \ gone)
  /\ UNCHANGED <<hasRaf, nextId, paused, pass, cursor, firing, minute>>

\* stop of a handle, which may be called again.
Stop(i) ==
  /\ i < nextId
  /\ MayCall(IF ticks \subseteq {i} THEN "stopLast" ELSE "stop")
  /\ Forget({i})

StopAll ==
  /\ MayCall("stopLast")
  /\ Forget(ticks)

\* Mutant: pause only sets the flag.
PauseFlagOnly ==
  /\ ~paused
  /\ MayCall("pause")
  /\ paused' = TRUE
  /\ UNCHANGED <<hasRaf, table, clock, pass, cursor, firing, minute>>

Pause ==
  /\ ~paused
  /\ MayCall("pause")
  /\ paused' = TRUE
  /\ StopLoop
  /\ UNCHANGED <<hasRaf, table, pass, cursor, firing, minute>>

\* Mutant: the ticks keep the timestamps they had before the pause.
ResumeKeepsPhase ==
  /\ paused
  /\ MayCall("resume")
  /\ paused' = FALSE
  /\ IF ticks = {} THEN UNCHANGED clock ELSE EnsureRunning(FALSE)
  /\ UNCHANGED <<hasRaf, table, pass, cursor, firing, minute>>

\* Mutant: the loop is not started again.
ResumeFlagOnly ==
  /\ paused
  /\ MayCall("resume")
  /\ paused' = FALSE
  /\ lag' = [i \in Id |-> Unset]
  /\ UNCHANGED <<hasRaf, nextId, ticks, kind, acc, fired, credit, clock,
                 pass, cursor, firing, minute>>

Resume ==
  /\ paused
  /\ MayCall("resume")
  /\ paused' = FALSE
  /\ lag' = [i \in Id |-> Unset]
  /\ IF ticks = {} THEN UNCHANGED clock ELSE EnsureRunning(FALSE)
  /\ UNCHANGED <<hasRaf, nextId, ticks, kind, acc, fired, credit,
                 pass, cursor, firing, minute>>
-----------------------------------------------------------------------------
(***************************************************************************)
(* A pass.                                                                 *)
(***************************************************************************)
\* A frame (it came once, and is not pending any more) or the timer calls.
BeginPass(f) ==
  /\ ~pass
  /\ f \in pending
  /\ pending' = IF hasRaf THEN pending \ {f} ELSE pending
  /\ pass' = (running \/ ~hasRaf)
  /\ cursor' = 0
  /\ UNCHANGED <<hasRaf, table, paused, running, handle, firing, minute>>

Unvisited == {i \in ticks : i > cursor}

\* What a visit does to a tick: the time it has now, and whether it is due.
Due(i) ==
  /\ kind[i] # EveryPass =>
       lag[i] # Unset /\ acc[i] + lag[i] >= (IF kind[i] = Cron THEN CronCheck ELSE kind[i])
  /\ kind[i] = Cron => minute # fired[i] /\ minute \in Matching

AccAfter(i) ==
  IF kind[i] = EveryPass \/ lag[i] = Unset THEN acc[i]
  ELSE IF kind[i] = Cron /\ acc[i] + lag[i] >= CronCheck THEN 0
  ELSE acc[i] + lag[i]

Visit(i) ==
  /\ pass /\ firing = 0
  /\ i \in Unvisited /\ \A j \in Unvisited : i <= j
  /\ cursor' = i
  /\ acc' = [acc EXCEPT ![i] = AccAfter(i)]
  /\ lag' = [lag EXCEPT ![i] = IF kind[i] = EveryPass THEN Unset ELSE 0]
  /\ firing' = IF Due(i) THEN i ELSE 0
  /\ fired' = [fired EXCEPT ![i] = IF kind[i] = Cron /\ Due(i) THEN minute ELSE @]
  /\ credit' = [credit EXCEPT ![i] = IF kind[i] # Cron /\ Due(i) THEN @ - kind[i] ELSE @]
  /\ UNCHANGED <<hasRaf, nextId, ticks, kind, paused, clock, pass, minute>>

\* Mutant: the missed beats stay in the accumulator and fire one after another.
ReturnCatchesUp ==
  /\ firing # 0
  /\ firing' = 0
  /\ acc' = IF firing \in ticks /\ kind[firing] \notin {Cron, EveryPass}
            THEN [acc EXCEPT ![firing] = @ - kind[firing]] ELSE acc
  /\ UNCHANGED <<hasRaf, nextId, ticks, kind, lag, fired, credit, paused, clock,
                 pass, cursor, minute>>

\* onDue returns; of an interval tick only the phase remainder is kept.
Return ==
  /\ firing # 0
  /\ firing' = 0
  /\ acc' = IF firing \in ticks /\ kind[firing] \notin {Cron, EveryPass}
            THEN [acc EXCEPT ![firing] = @ % kind[firing]] ELSE acc
  /\ UNCHANGED <<hasRaf, nextId, ticks, kind, lag, fired, credit, paused, clock,
                 pass, cursor, minute>>

\* The pass is over; an animation frame asks for the next one.
EndPass ==
  /\ pass /\ firing = 0
  /\ Unvisited = {}
  /\ pass' = FALSE
  /\ cursor' = 0
  /\ IF hasRaf THEN Schedule ELSE UNCHANGED <<handle, pending>>
  /\ UNCHANGED <<hasRaf, table, paused, running, firing, minute>>

\* Time passes between passes, for the ticks and (maybe) for the calendar.
Elapse ==
  /\ ~pass
  /\ \A i \in Id : lag[i] < MaxLag
  /\ lag' = [i \in Id |-> IF lag[i] = Unset THEN Unset ELSE lag[i] + 1]
  /\ credit' = [i \in Id |-> IF i \in ticks /\ ~paused /\ credit[i] < MaxCredit
                             THEN credit[i] + 1 ELSE credit[i]]
  /\ minute' \in {minute} \cup ({minute + 1} \cap 0 .. MaxMinute)
  /\ UNCHANGED <<hasRaf, nextId, ticks, kind, acc, fired, paused, clock,
                 pass, cursor, firing>>

Next ==
  \/ \E k \in Kinds : Add(k)
  \/ \E i \in Id : Stop(i) \/ Visit(i)
  \/ StopAll \/ Pause \/ Resume
  \/ \E f \in Frame : BeginPass(f)
  \/ Return \/ EndPass \/ Elapse

Spec == Init /\ [][Next]_vars

(***************************************************************************)
(* The host keeps calling back what is scheduled, a callback returns, and  *)
(* time passes between the passes however many there are.                  *)
(***************************************************************************)
Fairness ==
  /\ \A f \in Frame : WF_vars(BeginPass(f))
  /\ \A i \in Id : WF_vars(Visit(i))
  /\ WF_vars(Return) /\ WF_vars(EndPass) /\ SF_vars(Elapse)

FairSpec == Spec /\ Fairness
-----------------------------------------------------------------------------
TypeOK ==
  /\ hasRaf \in BOOLEAN /\ running \in BOOLEAN /\ paused \in BOOLEAN /\ pass \in BOOLEAN
  /\ nextId \in 1 .. MaxId + 1 /\ ticks \subseteq 1 .. nextId - 1
  /\ kind \in [Id -> Kinds \cup {EveryPass}]
  /\ acc \in [Id -> 0 .. MaxAcc] /\ lag \in [Id -> Unset .. MaxLag]
  /\ fired \in [Id -> Matching \cup {Unset}] /\ credit \in [Id -> Int]
  /\ handle \in Frame \cup {NoFrame} /\ pending \subseteq Frame
  /\ cursor \in Id \cup {0} /\ firing \in Id \cup {0} /\ minute \in 0 .. MaxMinute

(***************************************************************************)
(* One loop, whatever was added, stopped, paused and resumed in the middle *)
(* of a pass: no more than one pass is ever scheduled or under way.        *)
(***************************************************************************)
OneLoop == Cardinality(pending) + (IF pass /\ hasRaf THEN 1 ELSE 0) <= 1

(***************************************************************************)
(* The loop lives exactly while there is something to tick: never kept     *)
(* awake by nothing, never asleep over a registered tick.                  *)
(***************************************************************************)
LoopServesTicks ==
  /\ running <=> ticks # {} /\ ~paused
  /\ ~pass => pending = IF running THEN {handle} ELSE {}

(***************************************************************************)
(* No interval tick runs ahead of the clock: it never fired for more than  *)
(* the unpaused time since it was added, so a pause is not caught up with. *)
(***************************************************************************)
NeverAhead == \A i \in ticks : credit[i] >= 0

(***************************************************************************)
(* No backlog outlives a firing: when a callback has returned, less than   *)
(* one interval is left over, however late the pass came.                  *)
(***************************************************************************)
NoBacklog ==
  \A i \in ticks : firing # i /\ kind[i] \notin {Cron, EveryPass} => acc[i] < kind[i]

(***************************************************************************)
(* Nothing fires from pause() until resume(): TickScheduler.ts:132-133.    *)
(***************************************************************************)
PauseSilences == [][firing' # 0 /\ firing' # firing => ~paused]_vars

(***************************************************************************)
(* Every registered interval tick keeps firing until it is stopped or the  *)
(* scheduler is paused, whatever else is added and stopped around it.      *)
(***************************************************************************)
EveryTickFires ==
  \A i \in Id :
    (i \in ticks /\ kind[i] # Cron) ~> (firing = i \/ i \notin ticks \/ paused)
=============================================================================
