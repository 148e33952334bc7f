---------------------------- MODULE BehaviorGraph ----------------------------
(***************************************************************************)
(* behavior/dependencies and program/compose: the installed behaviors a    *)
(* program reaches through its imports are loaded, each by a run of `orb`, *)
(* level after level for the graph and one after another for composing.    *)
(*                                                                         *)
(* An import names a package and a behavior in it.  What a behavior        *)
(* imports is arbitrary, cycles included.                                  *)
(***************************************************************************)
EXTENDS Naturals, Sequences, FiniteSets

CONSTANTS Name,          \* behavior names
          Packages,      \* the discovered behavior packages, in order
          Holds          \* per package, the names installed in it

VARIABLES imports,       \* per package and name: the names it imports
          wanted,        \* what the program imports, as <<package, name>>
          graphOp,       \* "dependencies" or "compose"
          frontier,      \* what is to load, as <<package, name>>
          orbs,          \* names answered so far, with the package or "absent"
          batch,         \* the answers of this level so far
          loads,         \* how often `orb` was run for a name
          graphEnd       \* "no", "yes" or "failed"

graphVars == <<imports, wanted, graphOp, frontier, orbs, batch, loads, graphEnd>>

Spot == {s \in {Packages[i] : i \in DOMAIN Packages} \X Name : s[2] \in Holds[s[1]]}

(* installedBehaviorIndex: the first package that has the name. *)
Index(n) ==
  LET has == {i \in DOMAIN Packages : n \in Holds[Packages[i]]} IN
  IF has = {} THEN "absent" ELSE Packages[CHOOSE i \in has : \A j \in has : i <= j]

Found(n) == <<Index(n), n>>

Init ==
  /\ imports \in [Spot -> SUBSET Name]
  /\ wanted \in SUBSET Spot
  /\ graphOp \in {"dependencies", "compose"}
  /\ frontier = IF graphOp = "compose" THEN wanted ELSE {Found(s[2]) : s \in wanted}
  /\ orbs = <<>> /\ batch = <<>>
  /\ loads = [n \in Name |-> 0]
  /\ graphEnd = "no"

Put(f, n, v) == [m \in DOMAIN f \cup {n} |-> IF m = n THEN v ELSE f[m]]

(* What a level's answers import. *)
Imported(f) == UNION {imports[<<f[n], n>>] : n \in {m \in DOMAIN f : f[m] # "absent"}}

(* Mutant: what was loaded before is loaded again. *)
UnseenAll(found, known) == found

(* Only what no level loaded is loaded next. *)
Unseen(found, known) == found \ DOMAIN known

(* behaviorDependencies: the level's behaviors load side by side; a name   *)
(* no package has stays a leaf without a run of `orb`.                     *)
LoadBehavior(s) ==
  /\ graphOp = "dependencies" /\ graphEnd = "no"
  /\ s \in frontier /\ s[2] \notin DOMAIN batch
  /\ batch' = Put(batch, s[2], s[1])
  /\ loads' = IF s[1] = "absent" THEN loads ELSE [loads EXCEPT ![s[2]] = @ + 1]
  /\ UNCHANGED <<imports, wanted, graphOp, frontier, orbs, graphEnd>>

(* The level is in: its imports make the next, and none is the end.        *)
NextLevel ==
  LET known == [n \in DOMAIN orbs \cup DOMAIN batch |->
                  IF n \in DOMAIN batch THEN batch[n] ELSE orbs[n]]
      next == Unseen(Imported(batch), known)
  IN
  /\ graphOp = "dependencies" /\ graphEnd = "no"
  /\ DOMAIN batch = {s[2] : s \in frontier}
  /\ orbs' = known /\ batch' = <<>> /\ frontier' = {Found(n) : n \in next}
  /\ graphEnd' = IF next = {} THEN "yes" ELSE "no"
  /\ UNCHANGED <<imports, wanted, graphOp, loads>>

(* programCompose: the behaviors the programs import, one after the other, *)
(* kept by name alone: of two packages' behaviors of one name, the last.   *)
LoadSource(s) ==
  /\ graphOp = "compose" /\ graphEnd = "no" /\ s \in frontier
  /\ orbs' = Put(orbs, s[2], s[1])
  /\ loads' = [loads EXCEPT ![s[2]] = @ + 1]
  /\ frontier' = frontier \ {s}
  /\ UNCHANGED <<imports, wanted, graphOp, batch, graphEnd>>

(* importSource: the composer finds an import by its behavior's name.      *)
ComposeSources ==
  /\ graphOp = "compose" /\ graphEnd = "no" /\ frontier = {}
  /\ graphEnd' = "yes"
  /\ UNCHANGED <<imports, wanted, graphOp, frontier, orbs, batch, loads>>

(* One run of `orb` that fails fails the effect; the others' answers are   *)
(* dropped.                                                                *)
LoadFails ==
  /\ graphEnd = "no" /\ frontier # {}
  /\ graphEnd' = "failed"
  /\ UNCHANGED <<imports, wanted, graphOp, frontier, orbs, batch, loads>>

Next ==
  \/ \E s \in frontier : LoadBehavior(s) \/ LoadSource(s)
  \/ NextLevel
  \/ ComposeSources
  \/ LoadFails

-----------------------------------------------------------------------------
(* The names reached in at most Cardinality(Name) levels of imports. *)
Reached ==
  LET r[k \in 0..Cardinality(Name)] ==
        IF k = 0 THEN {s[2] : s \in wanted}
        ELSE r[k - 1] \cup UNION {imports[Found(n)] :
                                    n \in {m \in r[k - 1] : Index(m) # "absent"}}
  IN r[Cardinality(Name)]

(* The graph is whole: when it is answered it has every behavior the       *)
(* program reaches and nothing else, however the imports loop, and `orb`   *)
(* ran once for each, although levels load side by side and one behavior   *)
(* is imported from several.                                               *)
GraphIsWhole ==
  graphOp = "dependencies" =>
    /\ \A n \in Name : loads[n] <= 1
    /\ graphEnd = "yes" => DOMAIN orbs = Reached
=============================================================================
