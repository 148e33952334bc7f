------------------------------- MODULE Loader -------------------------------
(***************************************************************************)
(* The loaders of imported programs.  The unified loader sends an import   *)
(* to the filesystem loader or to the HTTP loader and keeps what either    *)
(* loads; each of the two keeps its own cache under it, and the filesystem *)
(* loader keeps where a package's lowered sources are.                     *)
(*                                                                         *)
(* The host is Node.js.  The content of an import is the number of times   *)
(* it was written, 0 being no content.                                     *)
(***************************************************************************)
EXTENDS Naturals, FiniteSets

CONSTANTS Load,          \* calls of load()
          Import,        \* specifiers: "local", "std", "scoped" or "url"
          OverHttp,      \* specifiers whose root is configured as a URL
          MaxEdits,      \* bound on the writes of one import
          MaxClears      \* bound on clearCache

Nothing == 0

VARIABLES fsLoader,      \* "absent", "importing", "ready"
          loads,         \* per call: where it stands and what it works on
          unified,       \* the unified loader's cache, per resolved path
          inner,         \* the caches of the two loaders, per resolved path
          mirror,        \* edits the lowered tree of the std package holds
          edits,         \* per import: how often it was edited
          floor,         \* per import: its edits at the last quiet clear
          clears

loaderVars == <<fsLoader, loads, unified, inner, mirror, edits, floor, clears>>

Via == {"http", "filesystem"}
Path == Via \X Import

Idle == [at |-> "idle", of |-> "none", via |-> "none", floor |-> Nothing,
         tree |-> Nothing, got |-> Nothing]

Init ==
  /\ fsLoader = "absent"
  /\ loads = [l \in Load |-> Idle]
  /\ unified = [p \in Path |-> Nothing]
  /\ inner = [p \in Path |-> Nothing]
  /\ mirror = Nothing
  /\ edits = [i \in Import |-> 1]
  /\ floor = [i \in Import |-> 1]
  /\ clears = 0

At(l, step) == loads[l].at = step
To(l, step) == loads' = [loads EXCEPT ![l].at = step]
Settled(l) == At(l, "idle") \/ At(l, "done")

-----------------------------------------------------------------------------
(* load() first sees to the filesystem loader.  The flag that it was tried *)
(* is set before the module is there: only the first call waits for it.    *)

Begin(l, i) ==
  /\ At(l, "idle")
  /\ fsLoader' = IF fsLoader = "absent" THEN "importing" ELSE fsLoader
  /\ loads' = [loads EXCEPT
       ![l] = [Idle EXCEPT !.at = IF fsLoader = "absent" THEN "importing" ELSE "resolving",
                           !.of = i, !.floor = floor[i]]]
  /\ UNCHANGED <<unified, inner, mirror, edits, floor, clears>>

Imported(l) ==
  /\ At(l, "importing")
  /\ fsLoader' = "ready"
  /\ To(l, "resolving")
  /\ UNCHANGED <<unified, inner, mirror, edits, floor, clears>>

(* getLoaderForPath, and the fall back to HTTP where there is no           *)
(* filesystem loader (yet).                                                *)
LoaderFor(i) ==
  IF i = "url" \/ i \in OverHttp \/ fsLoader # "ready" THEN "http" ELSE "filesystem"

(* A std import of a workspace package resolves in the lowered tree of its *)
(* sources, made once and kept until the caches are cleared.               *)
Mirrors(l, via) == loads[l].of = "std" /\ via = "filesystem"

Answered(l, c) ==
  loads' = [loads EXCEPT ![l] = [Idle EXCEPT !.at = "done", !.got = c, !.floor = loads[l].floor]]
Refused(l) == loads' = [loads EXCEPT ![l] = [Idle EXCEPT !.at = "done"]]

(* The filesystem loader refuses what has no root, no behavior of that     *)
(* name in any registry, or lies outside the root it resolved in.          *)
FsRefuses(i) == i # "url"

(* The HTTP loader has roots to miss, and nothing to be outside of.        *)
HttpRefuses(i) == i \in {"std", "scoped"}

(* What the loader under the unified one holds is kept by that one, too;   *)
(* else the file is read.                                                  *)
FsLoad(l) ==
  LET p == <<"filesystem", loads[l].of>> IN
  IF inner[p] # Nothing
  THEN Answered(l, inner[p]) /\ unified' = [unified EXCEPT ![p] = inner[p]]
  ELSE /\ loads' = [loads EXCEPT ![l].at = "reading", ![l].via = "filesystem", ![l].tree = mirror']
       /\ UNCHANGED unified

(* Likewise, and a request is sent under a timer. *)
HttpLoad(l) ==
  LET p == <<"http", loads[l].of>> IN
  IF inner[p] # Nothing
  THEN Answered(l, inner[p]) /\ unified' = [unified EXCEPT ![p] = inner[p]]
  ELSE /\ loads' = [loads EXCEPT ![l].at = "reading", ![l].via = "http"]
       /\ UNCHANGED unified

(* The import is resolved, or refused; then the unified cache is asked,    *)
(* and after it the loader.                                                *)
Resolve(l) ==
  LET i == loads[l].of
      via == LoaderFor(i)
      p == <<via, i>> IN
  /\ At(l, "resolving")
  /\ \/ /\ IF via = "http" THEN HttpRefuses(i) ELSE FsRefuses(i)
        /\ Refused(l)
        /\ UNCHANGED <<unified, mirror>>
     \/ /\ mirror' = IF Mirrors(l, via) /\ mirror = Nothing THEN edits[i] ELSE mirror
        /\ IF unified[p] # Nothing THEN Answered(l, unified[p]) /\ UNCHANGED unified
           ELSE IF via = "http" THEN HttpLoad(l) ELSE FsLoad(l)
  /\ UNCHANGED <<fsLoader, inner, edits, floor, clears>>

(* The file is read, or the response arrives, as it is at that moment.     *)
Read(l) ==
  LET i == loads[l].of IN
  /\ At(l, "reading")
  /\ loads' = [loads EXCEPT
       ![l].at = "read",
       ![l].got = IF Mirrors(l, loads[l].via) THEN loads[l].tree ELSE edits[i]]
  /\ UNCHANGED <<fsLoader, unified, inner, mirror, edits, floor, clears>>

(* What parses is kept, by the loader and by the unified one; the orbital  *)
(* that was asked for may still not be in it.                              *)
Parse(l) ==
  LET p == <<loads[l].via, loads[l].of>> IN
  /\ At(l, "read")
  /\ \/ Refused(l) /\ UNCHANGED <<unified, inner>>
     \/ /\ unified' = [unified EXCEPT ![p] = loads[l].got]
        /\ inner' = [inner EXCEPT ![p] = loads[l].got]
        /\ Answered(l, loads[l].got) \/ Refused(l)
  /\ UNCHANGED <<fsLoader, mirror, edits, floor, clears>>

(* A file that is not there; a response that is not ok. *)
Fail(l) ==
  /\ At(l, "reading")
  /\ Refused(l)
  /\ UNCHANGED <<fsLoader, unified, inner, mirror, edits, floor, clears>>

(* Mutant: no timer is set. *)
TimerNeverSet(l) == FALSE

(* The timer of a fetch runs until the body was read. *)
TimerRuns(l) == loads[l].via = "http"

TimeOut(l) ==
  /\ At(l, "reading") /\ TimerRuns(l)
  /\ Refused(l)
  /\ UNCHANGED <<fsLoader, unified, inner, mirror, edits, floor, clears>>

-----------------------------------------------------------------------------
Edit(i) ==
  /\ edits[i] < MaxEdits
  /\ edits' = [edits EXCEPT ![i] = @ + 1]
  /\ UNCHANGED <<fsLoader, loads, unified, inner, mirror, floor, clears>>

(* Mutant: only the unified cache is cleared. *)
InnerKept == inner

(* clearCache of the unified loader clears the loaders' caches and, of the *)
(* filesystem loader, the registry roots.                                  *)
InnerCleared == [p \in Path |-> Nothing]

(* Mutant: the loaders' caches are cleared, the registry roots stay. *)
MirrorKept == mirror

MirrorCleared == Nothing

ClearCache ==
  /\ clears < MaxClears
  /\ clears' = clears + 1
  /\ unified' = [p \in Path |-> Nothing]
  /\ inner' = InnerCleared
  /\ mirror' = MirrorCleared
  /\ floor' = IF \A l \in Load : Settled(l) THEN edits ELSE floor
  /\ UNCHANGED <<fsLoader, loads, edits>>

Next ==
  \/ \E l \in Load : \/ \E i \in Import : Begin(l, i)
                     \/ Imported(l) \/ Resolve(l) \/ Read(l)
                     \/ Parse(l) \/ Fail(l) \/ TimeOut(l)
  \/ \E i \in Import : Edit(i)
  \/ ClearCache

(* The process runs and the disk answers; a server need not, but its timer *)
(* fires.                                                                  *)
DiskAnswers(l) == At(l, "reading") /\ loads[l].via = "filesystem" /\ (Read(l) \/ Fail(l))

Fairness ==
  \A l \in Load :
    /\ WF_loaderVars(Imported(l)) /\ WF_loaderVars(Resolve(l)) /\ WF_loaderVars(Parse(l))
    /\ WF_loaderVars(DiskAnswers(l))
    /\ WF_loaderVars(TimeOut(l))

-----------------------------------------------------------------------------
(* The state has its types. *)
TypeOK ==
  /\ fsLoader \in {"absent", "importing", "ready"}
  /\ \A l \in Load : loads[l].at \in {"idle", "importing", "resolving", "reading", "read", "done"}
  /\ \A p \in Path : {unified[p], inner[p]} \subseteq 0..MaxEdits
  /\ mirror \in 0..MaxEdits

(* Clearing the caches is enough for an edit to be seen: what a load that  *)
(* begins after it is given is no older than the import was then, whatever *)
(* the four caches held - unless a load was under way during the clear.    *)
EditSeenAfterClear ==
  \A l \in Load : At(l, "done") /\ loads[l].got # Nothing => loads[l].got >= loads[l].floor

(* On a host with a filesystem, a local import is read from the disk.      *)
LocalFromDisk ==
  \A l \in Load : ~Settled(l) /\ ~At(l, "importing") /\ ~At(l, "resolving")
                  /\ loads[l].of = "local" => loads[l].via = "filesystem"

(* Every load is answered, also when the server never is heard of again.   *)
LoadSettles == \A l \in Load : ~At(l, "idle") ~> At(l, "done")
=============================================================================
