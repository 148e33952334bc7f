---------------------------- MODULE Registration ----------------------------
(***************************************************************************)
(* How the server runtime changes the app it serves while dispatches       *)
(* arrive (OrbitalServerRuntime.ts).  A swap is unregisterAll, resolving   *)
(* the next schema, and register, bracketed by withRegistrationMutation.   *)
(* Mutations chain on one promise, registrationEpoch; a dispatch that      *)
(* finds no orbital awaits that promise and looks again.  Nothing obliges  *)
(* a host to bracket: it may call unregisterAll and register bare, at any  *)
(* moment, and the history variable loose tells when such a call mixed.    *)
(*                                                                         *)
(* Promise reactions run in the order they were registered: the dispatches *)
(* that await a link of the chain look again before the next swap begins.  *)
(* The event queue between the lookup and the evaluation is EventQueue's.  *)
(***************************************************************************)
EXTENDS Naturals, Sequences, FiniteSets

CONSTANTS
  Swap,      \* the bracketed swaps of a behaviour
  Nested,    \* the swaps whose callback opens a bracket of its own
  Plain,     \* the register() calls a host makes outside its brackets
  MaxLinks,  \* bound: the links a bare unregisterAll() may extend the chain to
  Dispatch,
  App,
  Orbitals,  \* the orbitals of an app, in the order register() takes them
  NoApp,     \* nothing registered under a name, or no kernel open
  NoName     \* a dispatch that did not arrive yet

Mutation == Swap \cup Plain
Name == UNION {{Orbitals[a][i] : i \in DOMAIN Orbitals[a]} : a \in App}

ASSUME RegistrationAssumption ==
  /\ MaxLinks \in Nat
  /\ Swap \cap Plain = {} /\ Nested \subseteq Swap
  /\ NoApp \notin App /\ NoName \notin Name
  /\ \A a \in App : Orbitals[a] \in Seq(Name)

\* Two apps of two orbitals each, which share the name of one: the instance of the runs.
SharedName == [a1 |-> <<"o1", "o2">>, a2 |-> <<"o2", "o3">>]

VARIABLES
  pc,        \* where a mutation is
  app,       \* the app it registers
  link,      \* its link of the epoch chain, 0 when it has none
  next,      \* which orbital of its app is registered next
  depth,     \* registrationMutationDepth
  issued,    \* how many links the chain has
  gates,     \* the links whose own gate was released
  orbitals,  \* name -> the app it was registered from
  engine,    \* the app kernelEngine was opened on
  loose,     \* history: an unbracketed call met a registry in use
  stage,     \* where a dispatch is
  target,    \* the orbital it is for
  awaits,    \* the link it awaits, 0 when it awaits none
  midSwap,   \* history: a swap was under way when it arrived
  outcome    \* how it was answered

mutations == <<pc, app, link, next, depth, issued, gates>>
registry == <<orbitals, engine, loose>>
dispatches == <<stage, target, awaits, midSwap, outcome>>
vars == <<mutations, registry, dispatches>>

PC == {"idle", "queued", "resolving", "registering", "done"}
Stage == {"idle", "waiting", "found", "answered"}
Outcome == {"none", "notFound", "noKernel", "evaluated"}

\* A mutation that may be changing the registry.
Body(m) == pc[m] \in {"resolving", "registering"}

\* Nothing is registered.
Empty == engine = NoApp /\ \A o \in Name : orbitals[o] = NoApp

\* Mutant: the chain's last gate is not awaited.
SettledOneEarly(k) == \A j \in 1 .. k - 1 : j \in gates

\* Every link chains on the one before: it settles when all gates up to it are open.
Settled(k) == \A j \in 1 .. k : j \in gates

Init ==
  /\ pc = [m \in Mutation |-> "idle"]
  /\ app = [m \in Mutation |-> NoApp]
  /\ link = [m \in Mutation |-> 0]
  /\ next = [m \in Mutation |-> 1]
  /\ depth = 0 /\ issued = 0 /\ gates = {}
  /\ orbitals = [o \in Name |-> NoApp] /\ engine = NoApp /\ loose = FALSE
  /\ stage = [d \in Dispatch |-> "idle"]
  /\ target = [d \in Dispatch |-> NoName]
  /\ awaits = [d \in Dispatch |-> 0]
  /\ midSwap = [d \in Dispatch |-> FALSE]
  /\ outcome = [d \in Dispatch |-> "none"]
-----------------------------------------------------------------------------
\* withRegistrationMutation, synchronously: the gate is published, depth counted.
Publish(b) ==
  /\ pc[b] = "idle"
  /\ pc' = [pc EXCEPT ![b] = "queued"]
  /\ issued' = issued + 1
  /\ link' = [link EXCEPT ![b] = issued + 1]
  /\ depth' = depth + 1
  /\ UNCHANGED <<app, next, gates, registry, dispatches>>

\* The promise a mutation chained on has settled, and its earlier reactions ran.
Turn(m) ==
  /\ Settled(link[m] - 1)
  /\ \A d \in Dispatch : stage[d] = "waiting" => awaits[d] >= link[m]

\* Mutant: unregisterAll forgets to clear the orbitals.
UnregisterEngineOnly ==
  /\ engine' = NoApp
  /\ UNCHANGED orbitals

\* unregisterAll, inside a bracket: nothing is chained.
UnregisterAll ==
  /\ orbitals' = [o \in Name |-> NoApp]
  /\ engine' = NoApp

\* unregisterAll outside a bracket, at any moment.  It leaves a marker on the
\* chain unless somebody's bracket is open.
UnregisterBare ==
  /\ UnregisterAll
  /\ loose' = (loose \/ \E m \in Mutation : Body(m))
  /\ IF depth = 0
     THEN /\ issued < MaxLinks
          /\ issued' = issued + 1
          /\ gates' = gates \cup {issued + 1}
     ELSE UNCHANGED <<issued, gates>>
  /\ UNCHANGED <<pc, app, link, next, depth, dispatches>>

\* The previous epoch is over: the callback unregisters and resolves its schema.
BeginSwap(b) ==
  /\ pc[b] = "queued" /\ Turn(b)
  /\ pc' = [pc EXCEPT ![b] = "resolving"]
  /\ UnregisterAll
  /\ UNCHANGED <<app, link, next, depth, issued, gates, loose, dispatches>>

\* The callback calls register() with what it resolved: inside a bracket it
\* registers at once.  A
\* nested bracket adds a link whose gate is open before anything can reach it.
RegisterInSwap(b) ==
  /\ pc[b] = "resolving"
  /\ depth > 0
  /\ pc' = [pc EXCEPT ![b] = "registering"]
  /\ \E a \in App : app' = [app EXCEPT ![b] = a]
  /\ IF b \in Nested
     THEN /\ issued' = issued + 1
          /\ gates' = gates \cup {issued + 1}
          /\ depth' = depth + 1
     ELSE UNCHANGED <<issued, gates, depth>>
  /\ UNCHANGED <<link, next, registry, dispatches>>

\* register() outside a bracket: chained on the epoch, or at once, and on no
\* link, while somebody's bracket is open.
Register(m) ==
  /\ pc[m] = "idle"
  /\ \E a \in App : app' = [app EXCEPT ![m] = a]
  /\ \/ /\ depth = 0
        /\ pc' = [pc EXCEPT ![m] = "queued"]
        /\ issued' = issued + 1
        /\ link' = [link EXCEPT ![m] = issued + 1]
        /\ UNCHANGED loose
     \/ /\ depth > 0
        /\ pc' = [pc EXCEPT ![m] = "registering"]
        /\ loose' = TRUE
        /\ UNCHANGED <<issued, link>>
  /\ UNCHANGED <<next, depth, gates, orbitals, engine, dispatches>>

\* Its turn: doRegister adds to whatever is registered.
BeginRegister(m) ==
  /\ pc[m] = "queued" /\ Turn(m)
  /\ pc' = [pc EXCEPT ![m] = "registering"]
  /\ loose' = (loose \/ ~Empty)
  /\ UNCHANGED <<app, link, next, depth, issued, gates, orbitals, engine, dispatches>>

\* registerOrbitalAsync: the orbital is in the map, then its seeding is awaited.
RegisterOrbital(m) ==
  /\ pc[m] = "registering"
  /\ next[m] <= Len(Orbitals[app[m]])
  /\ orbitals' = [orbitals EXCEPT ![Orbitals[app[m]][next[m]]] = app[m]]
  /\ next' = [next EXCEPT ![m] = @ + 1]
  /\ UNCHANGED <<pc, app, link, depth, issued, gates, engine, loose, dispatches>>

\* The finally of the bracket, or the end of a plain register()'s own promise: what
\* the call knew of its app goes with it.
Leave(m) ==
  /\ pc' = [pc EXCEPT ![m] = "done"]
  /\ app' = [app EXCEPT ![m] = NoApp]
  /\ next' = [next EXCEPT ![m] = 1]
  /\ gates' = gates \cup ({link[m]} \ {0})
  /\ depth' = IF m \in Plain THEN depth
              ELSE IF m \in Nested /\ pc[m] = "registering" THEN depth - 2 ELSE depth - 1

\* Mutant: the gate is released only after a swap that succeeded.
FailWedged(m) ==
  /\ Body(m)
  /\ pc' = [pc EXCEPT ![m] = "done"]
  /\ depth' = IF m \in Plain THEN depth
              ELSE IF m \in Nested /\ pc[m] = "registering" THEN depth - 2 ELSE depth - 1
  /\ UNCHANGED <<app, link, next, issued, gates, registry, dispatches>>

\* Resolving the schema, seeding an orbital or opening the kernel throws.
Fail(m) ==
  /\ Body(m)
  /\ Leave(m)
  /\ UNCHANGED <<link, issued, registry, dispatches>>

\* openKernel, the last thing doRegister awaits, and the mutation is over.
OpenKernel(m) ==
  /\ pc[m] = "registering"
  /\ next[m] > Len(Orbitals[app[m]])
  /\ engine' = app[m]
  /\ Leave(m)
  /\ UNCHANGED <<link, issued, orbitals, loose, dispatches>>
-----------------------------------------------------------------------------
\* Mutant: a dispatch awaits the mutation before the latest one.
AwaitedTooEarly == issued - 1

\* registrationEpoch: the last link of the chain.
Awaited == issued

\* Mutant: an orbital that is missing is answered as missing at once.
ArriveImpatient(d, o) ==
  /\ stage[d] = "idle"
  /\ target' = [target EXCEPT ![d] = o]
  /\ midSwap' = [midSwap EXCEPT ![d] = \E b \in Swap : Body(b)]
  /\ IF orbitals[o] # NoApp
     THEN stage' = [stage EXCEPT ![d] = "found"] /\ UNCHANGED outcome
     ELSE stage' = [stage EXCEPT ![d] = "answered"]
          /\ outcome' = [outcome EXCEPT ![d] = "notFound"]
  /\ UNCHANGED <<mutations, registry, awaits>>

\* processOrbitalEvent looks its orbital up: a miss awaits the epoch, if any.
Arrive(d, o) ==
  /\ stage[d] = "idle"
  /\ target' = [target EXCEPT ![d] = o]
  /\ midSwap' = [midSwap EXCEPT ![d] = \E b \in Swap : Body(b)]
  /\ \/ /\ orbitals[o] # NoApp
        /\ stage' = [stage EXCEPT ![d] = "found"]
        /\ UNCHANGED <<awaits, outcome>>
     \/ /\ orbitals[o] = NoApp /\ issued > 0
        /\ stage' = [stage EXCEPT ![d] = "waiting"]
        /\ awaits' = [awaits EXCEPT ![d] = Awaited]
        /\ UNCHANGED outcome
     \/ /\ orbitals[o] = NoApp /\ issued = 0
        /\ stage' = [stage EXCEPT ![d] = "answered"]
        /\ outcome' = [outcome EXCEPT ![d] = "notFound"]
        /\ UNCHANGED awaits
  /\ UNCHANGED <<mutations, registry>>

\* The epoch it awaited has settled, in success or failure: it looks again.
LookAgain(d) ==
  /\ stage[d] = "waiting"
  /\ Settled(awaits[d])
  /\ awaits' = [awaits EXCEPT ![d] = 0]
  /\ \/ /\ orbitals[target[d]] # NoApp
        /\ stage' = [stage EXCEPT ![d] = "found"]
        /\ UNCHANGED outcome
     \/ /\ orbitals[target[d]] = NoApp
        /\ stage' = [stage EXCEPT ![d] = "answered"]
        /\ outcome' = [outcome EXCEPT ![d] = "notFound"]
  /\ UNCHANGED <<mutations, registry, target, midSwap>>

\* The event queue reaches it: requireKernelEngine throws when none is open.
Evaluate(d) ==
  /\ stage[d] = "found"
  /\ stage' = [stage EXCEPT ![d] = "answered"]
  /\ outcome' = [outcome EXCEPT ![d] = IF engine = NoApp THEN "noKernel" ELSE "evaluated"]
  /\ UNCHANGED <<mutations, registry, target, awaits, midSwap>>

\* Every mutation and dispatch of the behaviour is over.
AllDone ==
  /\ \A b \in Swap : pc[b] = "done"
  /\ \A d \in Dispatch : stage[d] = "answered"
  /\ UNCHANGED vars

Next ==
  \/ \E b \in Swap : Publish(b) \/ BeginSwap(b) \/ RegisterInSwap(b)
  \/ \E p \in Plain : Register(p) \/ BeginRegister(p)
  \/ UnregisterBare
  \/ \E m \in Mutation : RegisterOrbital(m) \/ OpenKernel(m) \/ Fail(m)
  \/ \E d \in Dispatch : (\E o \in Name : Arrive(d, o)) \/ LookAgain(d) \/ Evaluate(d)
  \/ AllDone

Spec == Init /\ [][Next]_vars

(***************************************************************************)
(* A promise whose turn has come runs on, a resolve and a seeding settle.  *)
(* Nothing obliges a host to swap or a client to dispatch.                 *)
(***************************************************************************)
Fairness ==
  /\ \A b \in Swap : WF_vars(BeginSwap(b)) /\ WF_vars(RegisterInSwap(b))
  /\ \A p \in Plain : WF_vars(BeginRegister(p))
  /\ \A m \in Mutation : WF_vars(RegisterOrbital(m)) /\ WF_vars(OpenKernel(m))
  /\ \A d \in Dispatch : WF_vars(LookAgain(d)) /\ WF_vars(Evaluate(d))

FairSpec == Spec /\ Fairness
-----------------------------------------------------------------------------
TypeOK ==
  /\ pc \in [Mutation -> PC] /\ app \in [Mutation -> App \cup {NoApp}]
  /\ link \in [Mutation -> 0 .. issued] /\ next \in [Mutation -> Nat]
  /\ depth \in Nat /\ issued \in Nat /\ gates \subseteq 1 .. issued
  /\ orbitals \in [Name -> App \cup {NoApp}] /\ engine \in App \cup {NoApp}
  /\ loose \in BOOLEAN
  /\ stage \in [Dispatch -> Stage] /\ target \in [Dispatch -> Name \cup {NoName}]
  /\ awaits \in [Dispatch -> 0 .. issued]
  /\ midSwap \in [Dispatch -> BOOLEAN] /\ outcome \in [Dispatch -> Outcome]

(***************************************************************************)
(* The mutations of the chain serialize: two hosts that swap at once,      *)
(* nested brackets, failed swaps and plain register() calls included,      *)
(* never change the registry in turns.  Only a plain register() beside an  *)
(* open bracket is on no link, and runs beside the others.                 *)
(***************************************************************************)
MutationsSerialize ==
  \A m, n \in Mutation : Body(m) /\ Body(n) /\ link[m] # 0 /\ link[n] # 0 => m = n

(***************************************************************************)
(* As long as hosts bracket their swaps, the registry never mixes two apps *)
(* and the open kernel runs the app the registry lists, whole: also after  *)
(* a swap that failed half way.  What ends that is a bare unregisterAll    *)
(* inside somebody's mutation, or a plain register() that starts on top of *)
(* a registered app or beside an open bracket, and nothing else            *)
(* (registration-mutation-bracket.test.ts:174-193 pins the first).         *)
(***************************************************************************)
RegistryIsOneApp ==
  ~loose =>
    /\ \A o, p \in Name : orbitals[o] # NoApp /\ orbitals[p] # NoApp => orbitals[o] = orbitals[p]
    /\ engine # NoApp =>
         \A i \in DOMAIN Orbitals[engine] : orbitals[Orbitals[engine][i]] = engine

(***************************************************************************)
(* A dispatch is never told "Orbital not found" between the first and the  *)
(* last change of a mutation of the chain, bare clears or not.  It may be  *)
(* told so while a mutation that registers its orbital waits for its turn: *)
(* one that joined the chain after the dispatch began to wait is not       *)
(* awaited, though registration-swap-race.test.ts:26-29 has the event      *)
(* refused only when no mutation could produce the orbital.                *)
(***************************************************************************)
NoMissDuringMutation ==
  [][\A d \in Dispatch :
       outcome'[d] = "notFound" /\ outcome[d] # "notFound" =>
         \A m \in Mutation : Body(m) => link[m] = 0]_vars

(***************************************************************************)
(* A dispatch that awaited the epoch finds the completed app: its orbital  *)
(* and a kernel open on it, unless the swap failed or an unbracketed call  *)
(* mixed two apps.                                                         *)
(***************************************************************************)
WaiterFindsWholeApp ==
  [][\A d \in Dispatch :
       stage[d] = "waiting" /\ stage'[d] = "found" /\ ~loose =>
         \/ engine = orbitals[target[d]]
         \/ engine = NoApp /\ \A m \in Mutation : ~Body(m)]_vars

(***************************************************************************)
(* Every dispatch is answered and every mutation that joined the chain     *)
(* ends: no failed swap, bracket inside a bracket or unbracketed call      *)
(* wedges the epoch.                                                       *)
(***************************************************************************)
NothingWedges ==
  /\ \A d \in Dispatch : stage[d] \in {"waiting", "found"} ~> stage[d] = "answered"
  /\ \A m \in Mutation : pc[m] = "queued" ~> pc[m] = "done"

(***************************************************************************)
(* What the comment on withRegistrationMutation says of a dispatch that    *)
(* lands in the middle of a swap: it awaits the completed swap and then    *)
(* resolves against the new app, so it never meets a runtime with no       *)
(* kernel while that swap is still under way.                              *)
(***************************************************************************)
MidSwapDispatchWaits ==
  [][\A d \in Dispatch :
       outcome'[d] = "noKernel" /\ outcome[d] = "none" /\ midSwap[d] =>
         \A b \in Swap : ~Body(b)]_vars
=============================================================================
