-------------------------------- MODULE Cron --------------------------------
(***************************************************************************)
(* Cron expressions: a field is expanded to the set of its values once,    *)
(* part by part, and a tick fires in the minutes whose two fields hold the *)
(* clock's.  Two fields stand for the five.                                *)
(*                                                                         *)
(* A part is a record: "all" (*), "step" (a/b, its `from` being -1 for *), *)
(* "range" (a-b), "one" (a).  A word parses to no number and is left out.  *)
(***************************************************************************)
EXTENDS Integers, Sequences, FiniteSets

CONSTANTS MinuteFields,  \* the written minute fields, sequences of parts
          HourFields,    \* the written hour fields
          Minutes,       \* the last minute of an hour
          Hours          \* the last hour of a day

VARIABLES written,       \* the fields as written, <<minutes, hours>>
          expanded,      \* per field: the values so far
          todo,          \* per field: the parts to expand
          next,          \* the value a loop comes to next, or -1
          clock,         \* <<hour, minute>> of the day that is walked
          looked,        \* the scheduler looked at the clock this minute
          fired          \* minutes the tick fired in

cronVars == <<written, expanded, todo, next, clock, looked, fired>>

Last(f) == IF f = 1 THEN Minutes ELSE Hours

Init ==
  /\ written \in MinuteFields \X HourFields
  /\ expanded = <<{}, {}>>
  /\ todo = written
  /\ next = -1
  /\ clock = <<0, 0>> /\ looked = FALSE /\ fired = {}

Part(f) == Head(todo[f])

(* Where the loop of a part begins. *)
First(part) ==
  CASE part.form = "all" -> 0
    [] part.form = "step" -> IF part.from = -1 THEN 0 ELSE part.from
    [] OTHER -> part.from

(* Mutant: the loop stops before its last value. *)
EndsShort(part, f) == IF part.form = "range" THEN part.to - 1 ELSE Last(f) - 1

(* Where it ends: a step knows no end but the field's. *)
End(part, f) ==
  CASE part.form = "range" -> part.to
    [] part.form = "one" -> part.from
    [] OTHER -> Last(f)

By(part) == IF part.form = "step" THEN part.by ELSE 1

(* One turn of a loop, or its end; the minutes are expanded first. *)
Expand(f) ==
  /\ todo[f] # <<>> /\ (f = 2 => todo[1] = <<>>)
  /\ LET i == IF next = -1 THEN First(Part(f)) ELSE next IN
     IF i <= End(Part(f), f)
     THEN /\ expanded' = [expanded EXCEPT ![f] = @ \cup {i}]
          /\ next' = i + By(Part(f))
          /\ UNCHANGED todo
     ELSE /\ todo' = [todo EXCEPT ![f] = Tail(@)]
          /\ next' = -1
          /\ UNCHANGED expanded
  /\ UNCHANGED <<written, clock, looked, fired>>

Parsed == todo = << <<>>, <<>> >>

(* cronMatches: every field has the clock's value. *)
Matches(at) == at[2] \in expanded[1] /\ at[1] \in expanded[2]

(* The scheduler looks at most once a second, and fires once a minute.     *)
Look ==
  /\ Parsed
  /\ looked' = TRUE
  /\ fired' = IF Matches(clock) THEN fired \cup {clock} ELSE fired
  /\ UNCHANGED <<written, expanded, todo, next, clock>>

(* The clock goes on, looked at or not. *)
Pass ==
  /\ Parsed /\ clock # <<Hours, Minutes>>
  /\ clock' = IF clock[2] = Minutes THEN <<clock[1] + 1, 0>> ELSE <<clock[1], clock[2] + 1>>
  /\ looked' = FALSE
  /\ UNCHANGED <<written, expanded, todo, next, fired>>

Next == (\E f \in {1, 2} : Expand(f)) \/ Look \/ Pass

-----------------------------------------------------------------------------
(* What a part means, without the loop. *)
Means(part, v) ==
  CASE part.form = "all" -> TRUE
    [] part.form = "step" ->
         IF part.from = -1 THEN v % part.by = 0
         ELSE v >= part.from /\ (v - part.from) % part.by = 0
    [] part.form = "range" -> part.from <= v /\ v <= part.to
    [] part.form = "one" -> v = part.from

Meant(f, v) == \E i \in DOMAIN written[f] : Means(written[f][i], v)

(* The tick fires in the minutes its author wrote and in no other: those   *)
(* it fired in are meant, and a meant minute that was looked at was fired. *)
FiresAsWritten ==
  /\ \A at \in fired : Meant(1, at[2]) /\ Meant(2, at[1])
  /\ looked /\ Meant(1, clock[2]) /\ Meant(2, clock[1]) => clock \in fired
=============================================================================
