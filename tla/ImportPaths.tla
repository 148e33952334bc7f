---------------------------- MODULE ImportPaths ----------------------------
(***************************************************************************)
(* What file an import names.  The filesystem loader and the HTTP loader   *)
(* resolve the same specifiers, each in its own code: a relative import    *)
(* from the importing file, or from the base; std and behavior imports by  *)
(* searching the registries of the configured packages in order.  What     *)
(* they resolve to is the key of their caches.                             *)
(*                                                                         *)
(* Source: entities/loader/external-loader.ts, http-loader.ts and the      *)
(* routing of unified-loader.ts.  A location is the sequence of names from *)
(* the root; the extension and the scheme are left out.                    *)
(***************************************************************************)
EXTENDS Integers, Sequences, SequencesExt, FiniteSetsExt

CONSTANTS
  Base,          \* the location of the base directory
  Alike,         \* names whose text begins with the base's last name
  Dir,           \* the names of directories below it
  File,          \* the names of files
  Package,       \* the prefixes of behavior packages
  MaxSteps,      \* how many directory steps an import takes
  AbsoluteBase   \* whether the HTTP loader's base is a URL of its own

VARIABLES
  import,      \* the specifier and the file it stands in
  registries,  \* root |-> the names its registry holds, in the order they are searched
  unreadable,  \* the roots whose manifest cannot be read
  fsKey, urlKey
importVars == <<import, registries, unreadable, fsKey, urlKey>>

Unresolved == <<"unresolved">>
Refused == <<"refused">>

Step == Dir \cup {"here", "up"}
Specifiers ==
  LET froms == {<<>>} \cup {Base \o d \o <<f>> : d \in {<<>>} \cup {<<x>> : x \in Dir}, f \in File}
      forms == {[form |-> "relative", path |-> s \o <<f>>] : s \in SeqOf(Step, MaxSteps), f \in File}
          \cup {[form |-> "bare", path |-> <<p, f>>] : p \in Package, f \in File}
          \cup {[form |-> "std", path |-> <<f>>] : f \in File}
  IN {[form |-> i.form, path |-> i.path, from |-> f] : i \in forms, f \in froms}

\* The packages searched, one root each, std's first.
PackageOf == SetToSeq(Package)
Roots == 1..Cardinality(Package)

TypeOK ==
  /\ import \in Specifiers
  /\ registries \in [Roots -> SUBSET File] /\ unreadable \subseteq Roots

Init ==
  /\ import \in Specifiers
  /\ registries \in [Roots -> SUBSET File] /\ unreadable \in SUBSET Roots
  /\ import.form = "relative" => (\A r \in Roots : registries[r] = {}) /\ unreadable = {}
  /\ import.form # "relative" => Len(import.from) <= Len(Base) + 1
  /\ fsKey = Unresolved /\ urlKey = Unresolved

(* path.resolve, path.join and URL: steps taken one after another; the     *)
(* root has no parent.                                                     *)
Walk(dir, steps) ==
  LET Take(at, s) == CASE s = "here" -> at
                       [] s = "up" -> IF at = <<>> THEN at ELSE Front(at)
                       [] OTHER -> Append(at, s)
  IN FoldLeft(Take, dir, steps)

\* A mutant: a relative import is resolved from the importing file as if it were a directory.
DirOfItself(from) == IF from = <<>> THEN Base ELSE from

\* The directory of the importing file; without one, the base.
DirOf(from) == IF from = <<>> THEN Base ELSE Front(from)

\* The location's text begins with the base's: so does that of a sibling of
\* the base whose name begins with the base's name.
Below(key) ==
  /\ Len(key) >= Len(Base)
  /\ SubSeq(key, 1, Len(Base) - 1) = Front(Base)
  /\ key[Len(Base)] \in {Last(Base)} \cup Alike

ResolveRelative(path, from) ==
  LET key == Walk(DirOf(from), path) IN IF Below(key) THEN key ELSE Refused

\* A base that is only a path joins as text: one step up is taken, the rest stays written out.
JoinText(dir, path) ==
  CASE Head(path) = "here" -> dir \o Tail(path)
    [] Head(path) = "up" -> (IF dir = <<>> THEN dir ELSE Front(dir)) \o Tail(path)
    [] OTHER -> dir \o path

ResolveUrl(path, from) ==
  IF AbsoluteBase THEN Walk(DirOf(from), path) ELSE JoinText(DirOf(from), path)

\* A mutant: the last registry that has the name answers.
LookupLast(name, roots) ==
  LET has == {r \in roots : name \in registries[r]}
  IN IF has = {} \/ roots \cap unreadable # {} THEN Refused ELSE <<"root", Max(has), name>>

\* The first root that has the name; a root whose manifest is unreadable ends the search there.
Lookup(name, roots) ==
  LET stops == {r \in roots : name \in registries[r] \/ r \in unreadable}
  IN IF stops = {} \/ Min(stops) \in unreadable THEN Refused ELSE <<"root", Min(stops), name>>

RootsOf(prefix) == {r \in Roots \ unreadable : PackageOf[r] = prefix}

\* A bare import that no configured package owns is relative.
ResolveBare(path, from) ==
  IF RootsOf(Head(path)) # {} THEN Lookup(Last(path), RootsOf(Head(path)))
                              ELSE ResolveRelative(<<"here">> \o path, from)

Resolve ==
  /\ fsKey = Unresolved
  /\ LET path == import.path
         from == import.from
     IN CASE import.form = "relative" ->
               fsKey' = ResolveRelative(path, from) /\ urlKey' = ResolveUrl(path, from)
          [] import.form = "bare" ->
               fsKey' = ResolveBare(path, from) /\ urlKey' = ResolveUrl(<<"here">> \o path, from)
          [] import.form = "std" ->
               fsKey' = Lookup(Last(path), Roots) /\ urlKey' = <<"std", Last(path)>>
  /\ UNCHANGED <<import, registries, unreadable>>

Next == Resolve

(* Where a walk through the directories ends, one step at a time: position *)
(* i of the walk is a directory of the tree, or the root again.            *)
Visited(dir, steps) ==
  LET at[i \in 0..Len(steps)] ==
        IF i = 0 THEN dir
        ELSE IF steps[i] = "up" THEN SubSeq(at[i-1], 1, Max({0, Len(at[i-1]) - 1}))
        ELSE IF steps[i] = "here" THEN at[i-1] ELSE at[i-1] \o <<steps[i]>>
  IN at[Len(steps)]

\* Both loaders take a relative import to the file it names from the place it
\* stands in, so that one file has one cache key however it is written; and
\* an import by package is the first configured root's that has it.
ImportNamesOneFile ==
  fsKey # Unresolved =>
    /\ import.form = "relative" =>
         LET file == Visited(IF import.from = <<>> THEN Base ELSE Front(import.from), import.path)
         IN urlKey = file /\ fsKey \in {file, Refused} /\ (Below(file) => fsKey = file)
    /\ import.form # "relative" /\ Head(fsKey) = "root" =>
         /\ Last(import.path) \in registries[fsKey[2]]
         /\ \A r \in 1..(fsKey[2] - 1) :
              Last(import.path) \in registries[r] =>
                import.form = "bare" /\ PackageOf[r] # Head(import.path)
=============================================================================
