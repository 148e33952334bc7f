----------------------------- MODULE ServerReads -----------------------------
(***************************************************************************)
(* What the server runtime tells a reader of the app it runs, while a host *)
(* swaps that app for another (server/OrbitalServerRuntime.ts): the        *)
(* description of an orbital, the rows of an entity, the persona roster    *)
(* and the rows a reference names.  The registry, the resolved schema, the *)
(* kernel and the store of rows change at different moments of a swap, and *)
(* a read looks at two or three of them, with awaits in between.           *)
(*                                                                         *)
(* A value is the app it comes from, and the store the mock store, which a *)
(* swap empties and seeds.  The chain of swaps is the module               *)
(* Registration's: here one swap follows another, and a read that found no *)
(* orbital looks again before the next swap begins.                        *)
(***************************************************************************)
EXTENDS Naturals, FiniteSets

CONSTANTS App, None,
          Name,      \* names of orbitals, each with an entity of its own
          Has,       \* app |-> the orbitals it has
          Read,
          MaxSwaps   \* bound on the swaps

VARIABLES
  orbitals,  \* name |-> the app registered under it, or None
  store,     \* name |-> the app whose rows the entity of that orbital has
  resolved,  \* resolvedSchema
  kernel,    \* the kernel that is open: [app, nth]; app None when there is none
  swap,      \* the swap under way: [app, left]; app None when there is none
  swaps,     \* how many have begun
  whole,     \* the last of them has come to its end
  at,        \* read |-> where it stands
  seen,      \* read |-> what it looked at before its last await
  told       \* read |-> its answer

readVars == <<orbitals, store, resolved, kernel, swap, swaps, whole, at, seen, told>>
registry == <<orbitals, store, resolved, kernel, swap, swaps, whole>>

Step == {"idle", "describe", "rows", "viewer", "resolving", "roster", "over"}
Nothing == [app |-> None, nth |-> 0, rows |-> {}]
NoAnswer ==
  [answer |-> "none", of |-> None, states |-> None, rows |-> {}, during |-> None, whole |-> TRUE]
Answer == {"none", "notFound", "failed", "description", "rows", "page", "roster"}

TypeOK ==
  /\ {orbitals[n] : n \in Name} \cup {store[n] : n \in Name} \subseteq App \cup {None}
  /\ resolved \in App \cup {None}
  /\ kernel \in [app : App \cup {None}, nth : 0..MaxSwaps]
  /\ swap.app \in App \cup {None} /\ swap.left \subseteq Name
  /\ swaps \in 0..MaxSwaps /\ whole \in BOOLEAN
  /\ at \in [Read -> [step : Step, name : Name \cup {None}]]
  /\ \A r \in Read : told[r].answer \in Answer /\ told[r].of \in App \cup {None}

Init ==
  /\ orbitals = [n \in Name |-> None] /\ store = [n \in Name |-> None]
  /\ resolved = None /\ kernel = [app |-> None, nth |-> 0]
  /\ swap = [app |-> None, left |-> {}] /\ swaps = 0 /\ whole = TRUE
  /\ at = [r \in Read |-> [step |-> "idle", name |-> None]]
  /\ seen = [r \in Read |-> Nothing]
  /\ told = [r \in Read |-> NoAnswer]

Swapping == swap.app # None
-----------------------------------------------------------------------------
\* Mutant: the program changes, the kernel stays open until the next is.
KernelStays == kernel

\* unregisterAll() disposes the kernel, before anything of the next app is there.
KernelGone == [kernel EXCEPT !.app = None]

\* A reader that waits looks again as soon as the swap it awaited is over.
Waits(r) == at[r].step \in {"describe", "rows"}

\* unregisterAll() in the callback of a swap: the resolved schema stays.
BeginSwap(a) ==
  /\ ~Swapping /\ swaps < MaxSwaps
  /\ \A r \in Read : ~Waits(r)
  /\ swaps' = swaps + 1 /\ whole' = FALSE
  /\ swap' = [app |-> a, left |-> Has[a]]
  /\ orbitals' = [n \in Name |-> None] /\ store' = [n \in Name |-> None]
  /\ kernel' = KernelGone
  /\ UNCHANGED <<resolved, at, seen, told>>

\* registerOrbital: the orbital is in the map and its entity seeded.
RegisterOrbital(n) ==
  /\ n \in swap.left
  /\ swap' = [swap EXCEPT !.left = @ \ {n}]
  /\ orbitals' = [orbitals EXCEPT ![n] = swap.app]
  /\ store' = [store EXCEPT ![n] = swap.app]
  /\ UNCHANGED <<resolved, kernel, swaps, whole, at, seen, told>>

Opened == kernel.nth = swaps

OpenKernel ==
  /\ Swapping /\ swap.left = {} /\ ~Opened
  /\ kernel' = [app |-> swap.app, nth |-> swaps]
  /\ UNCHANGED <<orbitals, store, resolved, swap, swaps, whole, at, seen, told>>

\* doRegister() goes on: the await of openKernel() lets waiting readers in first.
StashResolved ==
  /\ Swapping /\ Opened
  /\ resolved' = swap.app /\ whole' = TRUE
  /\ swap' = [app |-> None, left |-> {}]
  /\ UNCHANGED <<orbitals, store, kernel, swaps, at, seen, told>>

\* A schema does not resolve, an orbital does not seed, the kernel refuses the
\* program, or it is open and refuses its catalogs.
FailSwap ==
  /\ Swapping
  /\ swap' = [app |-> None, left |-> {}]
  /\ UNCHANGED <<orbitals, store, resolved, kernel, swaps, whole, at, seen, told>>
-----------------------------------------------------------------------------
Begins(r, n, step) == at[r].step = "idle" /\ at' = [at EXCEPT ![r] = [step |-> step, name |-> n]]

Goes(r, step) == at' = [at EXCEPT ![r].step = step]

Tells(r, answer) == told' = [told EXCEPT ![r] = answer]

\* An answer is told in the middle of a swap, or of none, and after the last one
\* came to its end or failed.
Says(what, of, states, rows) ==
  [answer |-> what, of |-> of, states |-> states, rows |-> rows, during |-> swap.app, whole |-> whole]

Refused(why) == Says(why, None, None, {})

\* describeOrbital() after the lookup: the traits of the map, the states of the kernel.
Description(n) == Says("description", orbitals[n], kernel.app, {})

\* entityRows() after the lookup: the store's rows as they are.
EntityRows(n) == Says("rows", orbitals[n], None, {store[n]})

Answered(n, kind) ==
  IF orbitals[n] = None THEN Refused("notFound")
  ELSE IF kind = "describe" THEN Description(n) ELSE EntityRows(n)

\* Mutant: what is not there is answered as missing at once.
FoundAtOnce(n) == TRUE

\* resolveRegisteredOrbital(): a miss awaits the swap under way.
FoundOrOver(n) == orbitals[n] # None \/ ~Swapping

LookUp(r, n, kind) ==
  /\ IF FoundOrOver(n)
     THEN Begins(r, n, "over") /\ Tells(r, Answered(n, kind))
     ELSE Begins(r, n, kind) /\ UNCHANGED told
  /\ UNCHANGED <<registry, seen>>

LookAgain(r) ==
  /\ Waits(r) /\ ~Swapping
  /\ Tells(r, Answered(at[r].name, at[r].step)) /\ Goes(r, "over")
  /\ UNCHANGED <<registry, seen>>

\* POST /resolve-rows: viewerOf() reads the identity's rows, which is an await.
ViewerOf(r, n) ==
  /\ Begins(r, n, "viewer")
  /\ UNCHANGED <<registry, seen, told>>

\* The entity's owner, by the schema as it is now.
Owned(n) == resolved # None /\ n \in Has[resolved]

\* resolveRows(): an owner and a kernel to ask, which refuses an entity its program lacks.
ResolveRows(r) ==
  /\ at[r].step = "viewer"
  /\ IF Owned(at[r].name) /\ kernel.app # None /\ at[r].name \in Has[kernel.app]
     THEN /\ seen' = [seen EXCEPT ![r] = [app |-> resolved, nth |-> kernel.nth, rows |-> {}]]
          /\ Goes(r, "resolving")
          /\ UNCHANGED told
     ELSE Tells(r, Refused("failed")) /\ Goes(r, "over") /\ UNCHANGED seen
  /\ UNCHANGED registry

\* Mutant: an ask is answered, and the flight resumed, whatever became of the kernel.
SameKernelAnyway(r) == TRUE

\* A kernel that was disposed resumes nothing: its handle throws.
SameKernel(r) == kernel.app # None /\ kernel.nth = seen[r].nth

\* An ask of the kernel for rows, answered from the store.
AnswerRead(r) ==
  /\ at[r].step = "resolving" /\ seen[r].rows = {}
  /\ seen' = [seen EXCEPT ![r].rows = {store[at[r].name]}]
  /\ UNCHANGED <<registry, at, told>>

ResumeResolve(r) ==
  /\ at[r].step = "resolving" /\ seen[r].rows # {}
  /\ Goes(r, "over")
  /\ Tells(r, IF SameKernel(r)
              THEN Says("page", seen[r].app, kernel.app, seen[r].rows)
              ELSE Refused("failed"))
  /\ UNCHANGED <<registry, seen>>

\* getIdentityRoster(): the identity entity by the resolved schema, then its rows.
GetIdentityRoster(r, n) ==
  /\ Begins(r, n, "over")
  /\ IF Owned(n)
     THEN Tells(r, Says("roster", resolved, None, {store[n]}))
     ELSE Tells(r, Refused("roster"))
  /\ UNCHANGED <<registry, seen>>

Next ==
  \/ \E a \in App : BeginSwap(a)
  \/ \E n \in Name : RegisterOrbital(n)
  \/ OpenKernel \/ StashResolved \/ FailSwap
  \/ \E r \in Read, n \in Name :
       LookUp(r, n, "describe") \/ LookUp(r, n, "rows") \/ ViewerOf(r, n) \/ GetIdentityRoster(r, n)
  \/ \E r \in Read : LookAgain(r) \/ ResolveRows(r) \/ AnswerRead(r) \/ ResumeResolve(r)

Spec == Init /\ [][Next]_readVars

-----------------------------------------------------------------------------
(***************************************************************************)
(* The states of an orbital's description are of the app whose traits it   *)
(* lists, or there are none; the rows of an entity are of the app that     *)
(* declares it; and a page of a reference is resolved by one kernel from   *)
(* the rows of its own app, whatever was swapped between its asks.  The    *)
(* schema that names a reference's owner and the identity entity of a      *)
(* roster is stashed last, so it may still be the last app's: a roster is  *)
(* of its app's rows when no swap is under way and the last one ended well.*)
(***************************************************************************)
AnswersOfOneApp ==
  \A r \in Read :
    /\ told[r].answer = "description" => told[r].states \in {told[r].of, None}
    /\ told[r].answer = "rows" => told[r].rows = {told[r].of}
    /\ told[r].answer = "page" => told[r].rows = {told[r].states}
    /\ told[r].answer = "roster" /\ told[r].whole /\ told[r].of # None =>
         told[r].rows = {told[r].of}

(***************************************************************************)
(* The roster is of the registered app: the live rows of its identity      *)
(* entity (OrbitalServerRuntime.ts:1571-1572), or none.  No run has it: in *)
(* mid-swap the entity is the last app's and the rows are the next one's.  *)
(***************************************************************************)
RosterOfTheApp ==
  \A r \in Read : told[r].answer = "roster" => told[r].rows \subseteq {told[r].of, None}

(***************************************************************************)
(* A reader is told that an orbital is not there only when no swap is      *)
(* under way that could bring it.                                          *)
(***************************************************************************)
NotFoundMeansGone ==
  \A r \in Read : told[r].answer = "notFound" => told[r].during = None
=============================================================================
