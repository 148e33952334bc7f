-------------------------- MODULE RegistrationProofs --------------------------
(***************************************************************************)
(* Proofs about Registration for any swaps, nested swaps, apps, dispatches *)
(* and bound.                                                              *)
(*                                                                         *)
(* The argument: a mutation that is not over owns a link of the chain, its *)
(* gate closed (Chain), or is a plain register() that began beside an open *)
(* bracket.  One of the chain that changes the registry has all the gates  *)
(* before its own open, so there is one such mutation (OneBody).  While no *)
(* unbracketed call met a registry in use, every mutation under way is of  *)
(* the chain, and the registry is empty or partly its own app's            *)
(* (Progress).  A dispatch that waits awaits the link of the mutation      *)
(* under way or a later one (Waiting), hence none is when it looks again.  *)
(***************************************************************************)
EXTENDS Registration, TLAPS

Open(m) == pc[m] \in {"queued", "resolving", "registering"}
Types ==
  /\ pc \in [Mutation -> PC] /\ app \in [Mutation -> App \cup {NoApp}]
  /\ link \in [Mutation -> Nat] /\ next \in [Mutation -> Nat]
  /\ issued \in Nat /\ gates \subseteq 1 .. issued
  /\ orbitals \in [Name -> App \cup {NoApp}] /\ engine \in App \cup {NoApp}
  /\ loose \in BOOLEAN
  /\ stage \in [Dispatch -> Stage] /\ target \in [Dispatch -> Name \cup {NoName}]
  /\ awaits \in [Dispatch -> Nat] /\ outcome \in [Dispatch -> Outcome]

Owned ==
  \A m \in Mutation :
    /\ link[m] <= issued
    /\ pc[m] = "idle" => link[m] = 0
    /\ pc[m] = "queued" => link[m] # 0
    /\ Open(m) => link[m] \notin gates
    /\ Body(m) /\ link[m] # 0 => Settled(link[m] - 1)

\* A mutation knows its app when it registers: a plain register() from its call on.
Chosen ==
  \A m \in Mutation :
    pc[m] = "registering" \/ (pc[m] = "queued" /\ m \in Plain) => app[m] \in App

Distinct == \A m, n \in Mutation : m # n /\ link[m] # 0 => link[m] # link[n]

Chain == Owned /\ Distinct

\* While no unbracketed call met a registry in use, a mutation under way is of
\* the chain and finds the registry as it left it.
Progress ==
  /\ \A m \in Mutation : pc[m] \in {"idle", "queued", "resolving"} => next[m] = 1
  /\ ~loose => \A m \in Mutation :
       /\ Body(m) => link[m] # 0
       /\ pc[m] = "resolving" => Empty
       /\ pc[m] = "registering" =>
            /\ engine = NoApp
            /\ \A o \in Name : orbitals[o] \in {NoApp, app[m]}
            /\ next[m] >= 1
            /\ \A i \in 1 .. next[m] - 1 :
                 i \in DOMAIN Orbitals[app[m]] => orbitals[Orbitals[app[m]][i]] = app[m]

\* RegistryIsOneApp, and an open kernel's registry holds nothing else.
OneApp ==
  /\ RegistryIsOneApp
  /\ ~loose /\ engine # NoApp => \A o \in Name : orbitals[o] \in {NoApp, engine}

Waiting ==
  \A d \in Dispatch : stage[d] = "waiting" =>
    /\ target[d] \in Name
    /\ awaits[d] \in 1 .. issued
    /\ \A m \in Mutation : Body(m) => link[m] <= awaits[d]

IInv == Types /\ Chosen /\ Chain /\ Progress /\ OneApp /\ Waiting
-----------------------------------------------------------------------------
\* Type correctness of every step, by the shape of the assignments.
LEMMA TypeStep ==
  ASSUME RegistrationAssumption, Types, Chosen, Owned, [Next]_vars
  PROVE  Types'
<1> USE DEF Types, PC, Stage, Outcome, mutations, registry, dispatches
<1>a. (\A p \in Plain : p \in Mutation) /\ \A b \in Swap : b \in Mutation
  BY DEF Mutation
<1>1. ASSUME NEW b \in Swap, Publish(b) PROVE Types'
  BY <1>a, <1>1 DEF Publish
<1>2. ASSUME NEW b \in Swap, BeginSwap(b) PROVE Types'
  BY <1>a, <1>2 DEF BeginSwap, UnregisterAll
<1>3. ASSUME NEW b \in Swap, RegisterInSwap(b) PROVE Types'
  <2>1. issued' \in Nat /\ gates' \subseteq 1 .. issued'
    <3>1. CASE b \in Nested
      <4>1. issued' = issued + 1 /\ gates' = gates \cup {issued + 1}
        BY <1>3, <3>1 DEF RegisterInSwap
      <4> QED BY <4>1
    <3>2. CASE b \notin Nested
      BY <1>3, <3>2 DEF RegisterInSwap
    <3> QED BY <3>1, <3>2
  <2>2. pc' \in [Mutation -> PC]
    BY <1>a, <1>3 DEF RegisterInSwap
  <2> QED BY <1>3, <2>1, <2>2 DEF RegisterInSwap
<1>4. ASSUME NEW p \in Plain, Register(p) PROVE Types'
  <2>1. p \in Mutation /\ gates' = gates
    BY <1>a, <1>4 DEF Register
  <2>2. \/ issued' = issued + 1 /\ loose' = loose /\ link' = [link EXCEPT ![p] = issued + 1]
           /\ pc' = [pc EXCEPT ![p] = "queued"]
        \/ issued' = issued /\ loose' = TRUE /\ link' = link
           /\ pc' = [pc EXCEPT ![p] = "registering"]
    BY <1>4 DEF Register
  <2>3. app' \in [Mutation -> App \cup {NoApp}]
    BY <1>a, <1>4 DEF Register
  <2>4. issued' \in Nat /\ gates' \subseteq 1 .. issued'
    <3>1. issued' = issued \/ issued' = issued + 1
      BY ONLY <2>2
    <3>2. issued \in Nat /\ gates \subseteq 1 .. issued
      OBVIOUS
    <3> QED BY ONLY <2>1, <3>1, <3>2
  <2>5. loose' \in BOOLEAN
    BY <2>2
  <2>6. link' \in [Mutation -> Nat]
    <3>1. link' = link \/ link' = [link EXCEPT ![p] = issued + 1]
      BY <2>2
    <3>2. issued + 1 \in Nat
      OBVIOUS
    <3> QED BY <2>1, <3>1, <3>2
  <2>7. pc' \in [Mutation -> PC]
    <3>1. pc' = [pc EXCEPT ![p] = "queued"] \/ pc' = [pc EXCEPT ![p] = "registering"]
      BY <2>2
    <3> QED BY <2>1, <3>1
  <2> QED BY <1>4, <2>3, <2>4, <2>5, <2>6, <2>7 DEF Register
<1>5. ASSUME NEW p \in Plain, BeginRegister(p) PROVE Types'
  <2>1. loose' \in BOOLEAN
    BY <1>5 DEF BeginRegister
  <2> QED BY <1>a, <1>5, <2>1 DEF BeginRegister
<1>6. CASE UnregisterBare
  <2>1. loose' \in BOOLEAN
    BY <1>6 DEF UnregisterBare
  <2>2. issued' \in Nat /\ gates' \subseteq 1 .. issued'
    <3>1. CASE depth = 0
      <4>1. issued' = issued + 1 /\ gates' = gates \cup {issued + 1}
        BY <1>6, <3>1 DEF UnregisterBare
      <4> QED BY <4>1
    <3>2. CASE depth # 0
      BY <1>6, <3>2 DEF UnregisterBare
    <3> QED BY <3>1, <3>2
  <2> QED BY <1>6, <2>1, <2>2 DEF UnregisterBare, UnregisterAll
<1>7. ASSUME NEW m \in Mutation, RegisterOrbital(m) PROVE Types'
  <2>1. app[m] \in App
    BY <1>7 DEF RegisterOrbital, Chosen
  <2>2. orbitals' \in [Name -> App \cup {NoApp}]
    BY <1>7, <2>1 DEF RegisterOrbital
  <2> QED BY <1>7, <2>2 DEF RegisterOrbital
<1>8. ASSUME NEW m \in Mutation, OpenKernel(m) PROVE Types'
  <2>1. app[m] \in App /\ link[m] \in 0 .. issued
    BY <1>8 DEF OpenKernel, Chosen, Owned
  <2>2. gates' \subseteq 1 .. issued
    <3>1. gates' = gates \cup ({link[m]} \ {0})
      BY <1>8 DEF OpenKernel, Leave
    <3>2. ASSUME NEW k \in {link[m]} \ {0} PROVE k \in 1 .. issued
      BY <2>1, <3>2
    <3> QED BY <3>1, <3>2
  <2>3. pc' \in [Mutation -> PC]
    BY <1>8 DEF OpenKernel, Leave
  <2> QED BY <1>8, <2>1, <2>2, <2>3 DEF OpenKernel, Leave
<1>9. ASSUME NEW m \in Mutation, Fail(m) PROVE Types'
  <2>1. link[m] \in 0 .. issued
    BY <1>9 DEF Fail, Body, Owned, Open
  <2>2. gates' \subseteq 1 .. issued
    <3>1. gates' = gates \cup ({link[m]} \ {0})
      BY <1>9 DEF Fail, Leave
    <3>2. ASSUME NEW k \in {link[m]} \ {0} PROVE k \in 1 .. issued
      BY <2>1, <3>2
    <3> QED BY <3>1, <3>2
  <2>3. pc' \in [Mutation -> PC]
    BY <1>9 DEF Fail, Leave
  <2> QED BY <1>9, <2>2, <2>3 DEF Fail, Leave
<1>10. ASSUME NEW d \in Dispatch, NEW o \in Name, Arrive(d, o) PROVE Types'
  BY <1>10 DEF Arrive, Awaited
<1>11. ASSUME NEW d \in Dispatch, LookAgain(d) PROVE Types'
  BY <1>11 DEF LookAgain
<1>12. ASSUME NEW d \in Dispatch, Evaluate(d) PROVE Types'
  BY <1>12 DEF Evaluate
<1>13. CASE UNCHANGED vars
  BY <1>13 DEF vars
<1> QED
  BY <1>1, <1>2, <1>3, <1>4, <1>5, <1>6, <1>7, <1>8, <1>9, <1>10, <1>11, <1>12, <1>13
     DEF Next, AllDone

\* A mutation that begins to register, or is called to, is given its app.
LEMMA ChosenStep ==
  ASSUME RegistrationAssumption, Types, Chosen, [Next]_vars PROVE Chosen'
<1> USE DEF Types, mutations, registry, dispatches
<1>a. /\ \A p \in Plain : p \in Mutation
      /\ \A b \in Swap : b \in Mutation /\ b \notin Plain
  BY DEF RegistrationAssumption, Mutation
<1>1. ASSUME NEW b \in Swap, Publish(b) PROVE Chosen'
  BY <1>a, <1>1 DEF Publish, Chosen
<1>2. ASSUME NEW b \in Swap, BeginSwap(b) PROVE Chosen'
  BY <1>a, <1>2 DEF BeginSwap, Chosen
<1>3. ASSUME NEW b \in Swap, RegisterInSwap(b) PROVE Chosen'
  BY <1>a, <1>3 DEF RegisterInSwap, Chosen
<1>4. ASSUME NEW p \in Plain, Register(p) PROVE Chosen'
  BY <1>a, <1>4 DEF Register, Chosen
<1>5. ASSUME NEW p \in Plain, BeginRegister(p) PROVE Chosen'
  BY <1>a, <1>5 DEF BeginRegister, Chosen
<1>6. ASSUME NEW m \in Mutation, Fail(m) \/ OpenKernel(m) PROVE Chosen'
  BY <1>6 DEF Fail, OpenKernel, Leave, Chosen
<1>7. ASSUME UNCHANGED <<pc, app>> PROVE Chosen'
  BY <1>7 DEF Chosen
<1> QED
  BY <1>1, <1>2, <1>3, <1>4, <1>5, <1>6, <1>7
     DEF Next, AllDone, vars, UnregisterBare, RegisterOrbital, Arrive, LookAgain, Evaluate
-----------------------------------------------------------------------------
(***************************************************************************)
(* The things a step does to the chain, and that each keeps it in order.   *)
(***************************************************************************)
\* A mutation publishes a link of its own at the end of the chain.
Joins(m) ==
  /\ pc[m] = "idle"
  /\ pc' = [pc EXCEPT ![m] = "queued"]
  /\ issued' = issued + 1 /\ gates' = gates
  /\ link' = [link EXCEPT ![m] = issued + 1]

\* A plain register() beside an open bracket begins with no link of its own.
AtOnce(m) ==
  /\ pc[m] = "idle"
  /\ pc' = [pc EXCEPT ![m] = "registering"]
  /\ UNCHANGED <<issued, gates, link>>

\* A mutation's turn has come, or it goes on from unregistering to registering;
\* a nested bracket leaves an open link behind the last one.
GoesOn(m) ==
  /\ \/ pc[m] = "queued" /\ Settled(link[m] - 1)
     \/ pc[m] = "resolving"
  /\ \E p \in {"resolving", "registering"} : pc' = [pc EXCEPT ![m] = p]
  /\ \/ issued' = issued /\ gates' = gates
     \/ issued' = issued + 1 /\ gates' = gates \cup {issued + 1}
  /\ UNCHANGED link

\* A mutation is over and its gate is opened.
Ends(m) ==
  /\ Body(m)
  /\ pc' = [pc EXCEPT ![m] = "done"]
  /\ gates' = gates \cup ({link[m]} \ {0})
  /\ UNCHANGED <<link, issued>>

\* A bare unregisterAll leaves an open link.
Marks ==
  /\ issued' = issued + 1 /\ gates' = gates \cup {issued + 1}
  /\ UNCHANGED <<pc, link>>

ChainRests == UNCHANGED <<pc, link, issued, gates>>

\* A new link at the end of the chain (serialize, the publish) is nobody else's.
LEMMA JoinsKeepsChain ==
  ASSUME Types, Chain, NEW m \in Mutation, Joins(m) PROVE Chain'
<1> USE DEF Types, Chain, Joins
<1>1. Owned' BY DEF Owned, Open, Body, Settled
<1>2. Distinct' BY DEF Distinct, Owned
<1> QED BY <1>1, <1>2

\* One that begins at once is on no link.
LEMMA AtOnceKeepsChain ==
  ASSUME Types, Chain, NEW m \in Mutation, AtOnce(m) PROVE Chain'
<1> USE DEF Types, Chain, AtOnce
<1>1. Owned' BY DEF Owned, Open, Body, Settled
<1>2. Distinct' BY DEF Distinct
<1> QED BY <1>1, <1>2

\* Taking the turn moves no link, and opens no gate a mutation still waits on.
LEMMA GoesOnKeepsChain ==
  ASSUME Types, Chain, NEW m \in Mutation, GoesOn(m) PROVE Chain'
<1> USE DEF Types, Chain
<1>0. link[m] # 0 => Settled(link[m] - 1)
  BY DEF GoesOn, Owned, Body
<1>1. ASSUME NEW n \in Mutation
      PROVE  /\ link'[n] = link[n] /\ link[n] <= issued'
             /\ Open(n)' => Open(n)
             /\ pc'[n] = "idle" => pc[n] = "idle"
             /\ pc'[n] = "queued" => pc[n] = "queued"
             /\ Body(n)' /\ link[n] # 0 => Settled(link[n] - 1)
  BY <1>0 DEF GoesOn, Owned, Open, Body
<1>2. ASSUME NEW k \in Nat, Settled(k) PROVE Settled(k)'
  BY <1>2 DEF GoesOn, Settled
<1>3. ASSUME NEW n \in Mutation, link[n] \notin gates PROVE link[n] \notin gates'
  BY <1>3 DEF GoesOn, Owned
<1>4. ASSUME NEW n \in Mutation, Body(n)', link[n] # 0 PROVE Settled(link[n] - 1)'
  <2>1. link[n] - 1 \in Nat
    BY <1>1, <1>4 DEF Owned, Open, Body
  <2> QED BY <1>1, <1>2, <1>4, <2>1
<1>5. Owned'
  BY <1>1, <1>3, <1>4 DEF Owned, Open, Body, Settled
<1>6. Distinct' BY <1>1 DEF Distinct
<1> QED BY <1>5, <1>6

\* The gate a mutation opens when it ends is its own and no other's.
LEMMA EndsKeepsChain ==
  ASSUME Types, Chain, NEW m \in Mutation, Ends(m) PROVE Chain'
<1> USE DEF Types, Chain, Ends
<1>1. Owned'
  <2> SUFFICES ASSUME NEW n \in Mutation
               PROVE  /\ link[n] <= issued
                      /\ pc'[n] = "idle" => link[n] = 0
                      /\ pc'[n] = "queued" => link[n] # 0
                      /\ Open(n)' => link[n] \notin gates'
                      /\ Body(n)' /\ link[n] # 0 => Settled(link[n] - 1)'
    BY DEF Owned
  <2>1. CASE n = m
    BY <2>1 DEF Owned, Open, Body
  <2>2. CASE n # m
    <3>1. Open(n)' => Open(n) /\ (link[m] # 0 => link[n] # link[m])
      BY <2>2 DEF Open, Owned, Distinct
    <3>2. Settled(link[n] - 1) => Settled(link[n] - 1)'
      BY DEF Settled
    <3> QED BY <2>2, <3>1, <3>2 DEF Owned, Open, Body
  <2> QED BY <2>1, <2>2
<1>2. Distinct' BY DEF Distinct
<1> QED BY <1>1, <1>2

\* A bare unregisterAll leaves an open link that no mutation owns.
LEMMA MarksKeepsChain ==
  ASSUME Types, Chain, Marks PROVE Chain'
<1> USE DEF Types, Chain, Marks
<1>1. Owned' BY DEF Owned, Open, Body, Settled
<1>2. Distinct' BY DEF Distinct
<1> QED BY <1>1, <1>2

\* A step that leaves the chain alone keeps it in order.
LEMMA ChainRestsKeepsChain ==
  ASSUME Types, Chain, ChainRests PROVE Chain'
BY DEF Types, Chain, ChainRests, Owned, Distinct, Open, Body, Settled

\* Every step does one of these.
LEMMA StepOnChain ==
  ASSUME Types, [Next]_vars
  PROVE  \/ \E m \in Mutation : Joins(m) \/ AtOnce(m) \/ GoesOn(m) \/ Ends(m)
         \/ Marks \/ ChainRests
<1> DEFINE Does == \/ \E m \in Mutation : Joins(m) \/ AtOnce(m) \/ GoesOn(m) \/ Ends(m)
                   \/ Marks \/ ChainRests
<1> USE DEF mutations, registry, dispatches
<1>a. (\A p \in Plain : p \in Mutation) /\ \A b \in Swap : b \in Mutation
  BY DEF Mutation
<1>1. ASSUME NEW b \in Swap, Publish(b) PROVE Does
  BY <1>a, <1>1 DEF Publish, Joins
<1>2. ASSUME NEW b \in Swap, BeginSwap(b) PROVE Does
  BY <1>a, <1>2 DEF BeginSwap, Turn, GoesOn
<1>3. ASSUME NEW b \in Swap, RegisterInSwap(b) PROVE Does
  <2>1. \/ issued' = issued /\ gates' = gates
        \/ issued' = issued + 1 /\ gates' = gates \cup {issued + 1}
    BY <1>3 DEF RegisterInSwap
  <2>2. GoesOn(b)
    BY <1>3, <2>1 DEF RegisterInSwap, GoesOn
  <2> QED BY <1>a, <2>2
<1>4. ASSUME NEW p \in Plain, Register(p) PROVE Does
  BY <1>a, <1>4 DEF Register, Joins, AtOnce
<1>5. ASSUME NEW p \in Plain, BeginRegister(p) PROVE Does
  BY <1>a, <1>5 DEF BeginRegister, Turn, GoesOn
<1>6. CASE UnregisterBare
  BY <1>6 DEF UnregisterBare, Marks, ChainRests
<1>7. ASSUME NEW m \in Mutation, RegisterOrbital(m) PROVE Does
  BY <1>7 DEF RegisterOrbital, ChainRests
<1>8. ASSUME NEW m \in Mutation, OpenKernel(m) PROVE Does
  BY <1>8 DEF OpenKernel, Leave, Body, Ends
<1>9. ASSUME NEW m \in Mutation, Fail(m) PROVE Does
  BY <1>9 DEF Fail, Leave, Ends
<1>10. ASSUME NEW d \in Dispatch, NEW o \in Name, Arrive(d, o) PROVE Does
  BY <1>10 DEF Arrive, ChainRests
<1>11. ASSUME NEW d \in Dispatch, LookAgain(d) PROVE Does
  BY <1>11 DEF LookAgain, ChainRests
<1>12. ASSUME NEW d \in Dispatch, Evaluate(d) PROVE Does
  BY <1>12 DEF Evaluate, ChainRests
<1>13. CASE UNCHANGED vars
  BY <1>13 DEF vars, ChainRests
<1> QED
  BY <1>1, <1>2, <1>3, <1>4, <1>5, <1>6, <1>7, <1>8, <1>9, <1>10, <1>11, <1>12, <1>13
     DEF Next, AllDone

\* The chain of links and gates is in order after every step.
LEMMA ChainStep == ASSUME Types, Chain, [Next]_vars PROVE Chain'
BY StepOnChain, JoinsKeepsChain, AtOnceKeepsChain, GoesOnKeepsChain, EndsKeepsChain, MarksKeepsChain,
   ChainRestsKeepsChain
-----------------------------------------------------------------------------
\* Of two links of the chain one comes first, and its gate is the other's to await.
LEMMA OneTurn ==
  ASSUME Types, Chain, NEW m \in Mutation, NEW n \in Mutation, m # n, Open(m), Open(n),
         link[m] # 0, link[n] # 0
  PROVE  ~(Settled(link[m] - 1) /\ Settled(link[n] - 1))
<1> USE DEF Types, Chain
<1>1. link[m] \in 1 .. issued /\ link[n] \in 1 .. issued /\ link[m] # link[n]
  BY DEF Owned, Distinct
<1>2. link[m] \notin gates /\ link[n] \notin gates
  BY DEF Owned
<1>3. CASE link[m] < link[n]
  BY <1>1, <1>2, <1>3 DEF Settled
<1>4. CASE link[n] < link[m]
  BY <1>1, <1>2, <1>4 DEF Settled
<1> QED BY <1>1, <1>3, <1>4

\* Two mutations are never both in their bodies: one still waits for the other's gate.
LEMMA OneBody == ASSUME Types, Chain PROVE MutationsSerialize
BY OneTurn DEF MutationsSerialize, Chain, Owned, Body, Open

\* What a mutation in progress may find in the registry, step by step.
LEMMA ProgressStep ==
  ASSUME RegistrationAssumption, Types, Chosen, Chain, Progress, [Next]_vars
  PROVE  Progress'
<1> USE DEF mutations, registry, dispatches
<1>a. (\A p \in Plain : p \in Mutation) /\ \A b \in Swap : b \in Mutation
  BY DEF Mutation
<1>b. MutationsSerialize
  BY OneBody
<1>c. ASSUME ~loose, NEW m \in Mutation, Body(m), NEW n \in Mutation, n # m PROVE ~Body(n)
  BY <1>b, <1>c DEF MutationsSerialize, Progress
<1>d. ASSUME NEW m \in Mutation, pc[m] = "queued", Turn(m), ~loose, NEW n \in Mutation, n # m
      PROVE  ~Body(n)
  <2>1. Open(m) /\ link[m] # 0 /\ Settled(link[m] - 1)
    BY <1>d DEF Turn, Open, Chain, Owned
  <2>2. ASSUME Body(n) PROVE FALSE
    BY <1>d, <2>1, <2>2, OneTurn DEF Chain, Owned, Open, Body, Progress
  <2> QED BY <2>2
<1>1. ASSUME NEW b \in Swap, Publish(b) PROVE Progress'
  BY <1>a, <1>1 DEF Publish, Progress, Types, Empty, Body
<1>2. ASSUME NEW b \in Swap, BeginSwap(b) PROVE Progress'
  <2>1. b \in Mutation /\ link[b] # 0 /\ next[b] = 1
    BY <1>2, <1>a DEF BeginSwap, Chain, Owned, Progress
  <2>2. Empty' /\ pc' = [pc EXCEPT ![b] = "resolving"]
    BY <1>2 DEF BeginSwap, UnregisterAll, Empty
  <2>3. ~loose => \A m \in Mutation : m # b => ~Body(m)
    BY <1>2, <2>1, <1>d DEF BeginSwap
  <2> QED BY <1>2, <2>1, <2>2, <2>3 DEF BeginSwap, Progress, Types, Body
<1>3. ASSUME NEW b \in Swap, RegisterInSwap(b) PROVE Progress'
  BY <1>a, <1>3 DEF RegisterInSwap, Progress, Types, Empty, Body
<1>4. ASSUME NEW p \in Plain, Register(p) PROVE Progress'
  BY <1>a, <1>4 DEF Register, Progress, Types, Empty, Body
<1>5. ASSUME NEW p \in Plain, BeginRegister(p) PROVE Progress'
  <2>1. p \in Mutation /\ link[p] # 0 /\ next[p] = 1
    BY <1>5, <1>a DEF BeginRegister, Chain, Owned, Progress
  <2>2. pc' = [pc EXCEPT ![p] = "registering"] /\ (~loose' => ~loose /\ Empty)
    BY <1>5 DEF BeginRegister
  <2>3. ~loose => \A m \in Mutation : m # p => ~Body(m)
    BY <1>5, <2>1, <1>d DEF BeginRegister
  <2>4. UNCHANGED <<app, link, next, orbitals, engine>>
    BY <1>5 DEF BeginRegister
  <2> QED BY <2>1, <2>2, <2>3, <2>4 DEF Progress, Types, Body, Empty
<1>6. CASE UnregisterBare
  <2>1. ~loose' => \A m \in Mutation : ~Body(m)
    BY <1>6 DEF UnregisterBare
  <2>2. UNCHANGED <<pc, next>>
    BY <1>6 DEF UnregisterBare
  <2> QED BY <2>1, <2>2 DEF Progress, Body
<1>7. ASSUME NEW m \in Mutation, RegisterOrbital(m) PROVE Progress'
  <2> SUFFICES ASSUME ~loose PROVE Progress'
    BY <1>7 DEF RegisterOrbital, Progress, Types
  <2> DEFINE a == app[m]
             k == next[m]
  <2>1. Body(m) /\ a \in App /\ pc[m] = "registering"
    BY <1>7 DEF RegisterOrbital, Body, Chosen
  <2>3. \A n \in Mutation : n # m => ~Body(n)
    BY <2>1, <1>c
  <2>4. Orbitals[a] \in Seq(Name) /\ k \in Nat /\ k >= 1 /\ k \in DOMAIN Orbitals[a]
    BY <1>7, <2>1 DEF RegisterOrbital, RegistrationAssumption, Types, Progress
  <2>5. \A i \in DOMAIN Orbitals[a] : Orbitals[a][i] \in Name
    BY <2>4
  <2>6. orbitals' = [orbitals EXCEPT ![Orbitals[a][k]] = a] /\ next' = [next EXCEPT ![m] = k + 1]
        /\ UNCHANGED <<pc, app, link, issued, engine, loose>>
    BY <1>7 DEF RegisterOrbital
  <2>7. \A o \in Name : orbitals'[o] \in {NoApp, a}
    BY <2>1, <2>6 DEF Progress, Types
  <2>8. \A i \in 1 .. k : i \in DOMAIN Orbitals[a] => orbitals'[Orbitals[a][i]] = a
    <3> SUFFICES ASSUME NEW i \in 1 .. k, i \in DOMAIN Orbitals[a]
                 PROVE  orbitals'[Orbitals[a][i]] = a
      OBVIOUS
    <3>1. Orbitals[a][i] \in Name
      BY <2>5
    <3>2. i = k \/ orbitals[Orbitals[a][i]] = a
      BY <2>1, <2>4 DEF Progress
    <3> QED BY <2>6, <3>1, <3>2 DEF Types
  <2>9. next'[m] = k + 1 /\ \A n \in Mutation : n # m => next'[n] = next[n]
    BY <2>6 DEF Types
  <2>10. \A n \in Mutation : n # m => pc[n] \notin {"resolving", "registering"}
    BY <2>3 DEF Body
  <2> QED
    BY <2>1, <2>4, <2>6, <2>7, <2>8, <2>9, <2>10 DEF Progress, Types, Body
<1>8. ASSUME NEW m \in Mutation, OpenKernel(m) PROVE Progress'
  <2>1. ~loose => \A n \in Mutation : n # m => ~Body(n)
    BY <1>8, <1>c DEF OpenKernel, Body
  <2> QED BY <1>8, <2>1 DEF OpenKernel, Leave, Progress, Types, Body
<1>9. ASSUME NEW m \in Mutation, Fail(m) PROVE Progress'
  <2>1. ~loose => \A n \in Mutation : n # m => ~Body(n)
    BY <1>9, <1>c DEF Fail
  <2> QED BY <1>9, <2>1 DEF Fail, Leave, Progress, Types, Body
<1>10. ASSUME NEW d \in Dispatch, NEW o \in Name, Arrive(d, o) PROVE Progress'
  BY <1>10 DEF Arrive, Progress, Empty, Body
<1>11. ASSUME NEW d \in Dispatch, LookAgain(d) PROVE Progress'
  BY <1>11 DEF LookAgain, Progress, Empty, Body
<1>12. ASSUME NEW d \in Dispatch, Evaluate(d) PROVE Progress'
  BY <1>12 DEF Evaluate, Progress, Empty, Body
<1>13. CASE UNCHANGED vars
  BY <1>13 DEF vars, Progress, Empty, Body
<1> QED
  BY <1>1, <1>2, <1>3, <1>4, <1>5, <1>6, <1>7, <1>8, <1>9, <1>10, <1>11, <1>12, <1>13
     DEF Next, AllDone
-----------------------------------------------------------------------------
\* The registry and the open kernel stay of one app.
LEMMA OneAppStep ==
  ASSUME RegistrationAssumption, Types, Chosen, Progress, OneApp, [Next]_vars
  PROVE  OneApp'
<1> USE DEF mutations, registry, dispatches
<1>1. ASSUME Empty' PROVE OneApp'
  BY <1>1 DEF Empty, OneApp, RegistryIsOneApp
<1>2. ASSUME UNCHANGED <<orbitals, engine>>, loose => loose' PROVE OneApp'
  BY <1>2 DEF OneApp, RegistryIsOneApp
<1>3. ASSUME UnregisterAll PROVE OneApp'
  BY <1>1, <1>3 DEF UnregisterAll, Empty
<1>4. ASSUME NEW m \in Mutation, RegisterOrbital(m) PROVE OneApp'
  <2> SUFFICES ASSUME ~loose PROVE OneApp'
    BY <1>4 DEF RegisterOrbital, OneApp, RegistryIsOneApp
  <2>1. app[m] \in App /\ pc[m] = "registering"
    BY <1>4 DEF RegisterOrbital, Chosen
  <2>2. engine' = NoApp /\ \A o \in Name : orbitals'[o] \in {NoApp, app[m]}
    BY <1>4, <2>1 DEF RegisterOrbital, Progress, Types
  <2> QED BY <2>2 DEF OneApp, RegistryIsOneApp
<1>5. ASSUME NEW m \in Mutation, OpenKernel(m) PROVE OneApp'
  <2> SUFFICES ASSUME ~loose PROVE OneApp'
    BY <1>5 DEF OpenKernel, OneApp, RegistryIsOneApp
  <2>1. app[m] \in App /\ engine' = app[m] /\ orbitals' = orbitals
    BY <1>5 DEF OpenKernel, Chosen
  <2>2. \A o \in Name : orbitals[o] \in {NoApp, app[m]}
    BY <1>5 DEF OpenKernel, Progress
  <2>3. ASSUME NEW i \in DOMAIN Orbitals[app[m]]
        PROVE  orbitals[Orbitals[app[m]][i]] = app[m]
    <3>1. Orbitals[app[m]] \in Seq(Name)
      BY <2>1 DEF RegistrationAssumption
    <3>2. i \in 1 .. next[m] - 1
      BY <1>5, <3>1 DEF OpenKernel, Types
    <3> QED BY <1>5, <3>2 DEF OpenKernel, Progress
  <2> QED BY <2>1, <2>2, <2>3 DEF OneApp, RegistryIsOneApp
<1>6. ASSUME NEW b \in Swap, BeginSwap(b) PROVE OneApp'
  BY <1>3, <1>6 DEF BeginSwap
<1>7. CASE UnregisterBare
  BY <1>3, <1>7 DEF UnregisterBare
<1>8. ASSUME NEW p \in Plain, Register(p) \/ BeginRegister(p) PROVE OneApp'
  BY <1>2, <1>8 DEF Register, BeginRegister
<1> QED
  BY <1>2, <1>4, <1>5, <1>6, <1>7, <1>8
     DEF Next, AllDone, vars, Publish, RegisterInSwap, Fail, Arrive, LookAgain, Evaluate

\* A dispatch that waits awaits the mutation under way, or a later one.
LEMMA WaitingStep ==
  ASSUME RegistrationAssumption, Types, Chain, Progress, Waiting, [Next]_vars
  PROVE  Waiting'
<1> USE DEF mutations, registry, dispatches
<1>a. (\A p \in Plain : p \in Mutation) /\ \A b \in Swap : b \in Mutation
  BY DEF Mutation
<1>1. ASSUME UNCHANGED <<stage, target, awaits, link>>,
             issued' \in Nat /\ issued <= issued',
             \A m \in Mutation : Body(m)' => Body(m)
      PROVE  Waiting'
  BY <1>1 DEF Waiting, Types
<1>2. ASSUME NEW m \in Mutation, Turn(m), pc[m] = "queued",
             \E p \in {"resolving", "registering"} : pc' = [pc EXCEPT ![m] = p],
             UNCHANGED <<stage, target, awaits, link, issued>>
      PROVE  Waiting'
  <2>1. \A n \in Mutation : n # m /\ Body(n)' => Body(n)
    BY <1>2 DEF Body, Types
  <2>2. \A d \in Dispatch : stage[d] = "waiting" => link[m] <= awaits[d]
    BY <1>2 DEF Turn, Types
  <2> QED BY <1>2, <2>1, <2>2 DEF Waiting
<1>3. ASSUME NEW b \in Swap, BeginSwap(b) PROVE Waiting'
  BY <1>a, <1>2, <1>3 DEF BeginSwap
<1>4. ASSUME NEW p \in Plain, BeginRegister(p) PROVE Waiting'
  BY <1>a, <1>2, <1>4 DEF BeginRegister
<1>5. ASSUME NEW b \in Swap, Publish(b) PROVE Waiting'
  <2>1. \A m \in Mutation : link'[m] = IF m = b THEN issued + 1 ELSE link[m]
    BY <1>5, <1>a DEF Publish, Types
  <2>2. \A m \in Mutation : Body(m)' => Body(m) /\ m # b
    BY <1>5, <1>a DEF Publish, Body, Types
  <2> QED BY <1>5, <2>1, <2>2 DEF Publish, Waiting, Types
<1>6. ASSUME NEW p \in Plain, Register(p) PROVE Waiting'
  <2>1. CASE depth = 0
    <3>1. \A m \in Mutation : link'[m] = IF m = p THEN issued + 1 ELSE link[m]
      BY <1>6, <2>1, <1>a DEF Register, Types
    <3>2. \A m \in Mutation : Body(m)' => Body(m) /\ m # p
      BY <1>6, <2>1, <1>a DEF Register, Body, Types
    <3> QED BY <1>6, <2>1, <3>1, <3>2 DEF Register, Waiting, Types
  <2>2. CASE depth # 0
    <3>1. link' = link /\ link[p] = 0 /\ issued' = issued
      BY <1>6, <2>2, <1>a DEF Register, Chain, Owned
    <3>2. \A m \in Mutation : Body(m)' => Body(m) \/ m = p
      BY <1>6, <2>2, <1>a DEF Register, Body, Types
    <3> QED BY <1>6, <3>1, <3>2 DEF Register, Waiting, Types
  <2> QED BY <2>1, <2>2
<1>7. ASSUME NEW b \in Swap, RegisterInSwap(b) PROVE Waiting'
  <2>1. \A m \in Mutation : Body(m)' => Body(m)
    BY <1>7, <1>a DEF RegisterInSwap, Body, Types
  <2>2. issued' \in Nat /\ issued <= issued'
    BY <1>7 DEF RegisterInSwap, Types
  <2> QED BY <1>1, <1>7, <2>1, <2>2 DEF RegisterInSwap
<1>8. ASSUME NEW m \in Mutation, OpenKernel(m) \/ Fail(m) PROVE Waiting'
  <2>1. \A n \in Mutation : Body(n)' => Body(n)
    BY <1>8 DEF OpenKernel, Fail, Leave, Body, Types
  <2> QED BY <1>1, <1>8, <2>1 DEF OpenKernel, Fail, Leave, Types
<1>9. CASE UnregisterBare
  <2>1. issued' \in Nat /\ issued <= issued'
    BY <1>9 DEF UnregisterBare, Types
  <2> QED BY <1>1, <1>9, <2>1 DEF UnregisterBare, Body
<1>10. ASSUME NEW m \in Mutation, RegisterOrbital(m) PROVE Waiting'
  BY <1>1, <1>10 DEF RegisterOrbital, Body, Types
<1>11. ASSUME NEW d \in Dispatch, NEW o \in Name, Arrive(d, o) PROVE Waiting'
  <2>1. \A m \in Mutation : link[m] <= issued
    BY DEF Chain, Owned
  <2>2. \A e \in Dispatch : e # d => stage'[e] = stage[e] /\ target'[e] = target[e] /\ awaits'[e] = awaits[e]
    BY <1>11 DEF Arrive, Types
  <2>3. stage'[d] = "waiting" => target'[d] = o /\ awaits'[d] = issued /\ issued \in 1 .. issued
    BY <1>11 DEF Arrive, Awaited, Types
  <2>4. UNCHANGED <<pc, link, issued>>
    BY <1>11 DEF Arrive
  <2> QED BY <2>1, <2>2, <2>3, <2>4 DEF Waiting, Body
<1>12. ASSUME NEW d \in Dispatch, LookAgain(d) PROVE Waiting'
  <2>1. \A e \in Dispatch : stage'[e] = "waiting" => e # d /\ stage[e] = "waiting" /\ awaits'[e] = awaits[e]
    BY <1>12 DEF LookAgain, Types
  <2> QED BY <1>12, <2>1 DEF LookAgain, Waiting, Body
<1>13. ASSUME NEW d \in Dispatch, Evaluate(d) PROVE Waiting'
  <2>1. \A e \in Dispatch : stage'[e] = "waiting" => stage[e] = "waiting"
    BY <1>13 DEF Evaluate, Types
  <2> QED BY <1>13, <2>1 DEF Evaluate, Waiting, Body
<1>14. CASE UNCHANGED vars
  BY <1>14 DEF vars, Waiting, Body
<1> QED
  BY <1>3, <1>4, <1>5, <1>6, <1>7, <1>8, <1>9, <1>10, <1>11, <1>12, <1>13, <1>14
     DEF Next, AllDone
-----------------------------------------------------------------------------
\* The runtime starts with nothing registered and no mutation begun.
LEMMA InitInductive == ASSUME RegistrationAssumption, Init PROVE IInv
<1> USE DEF Init
<1>1. Types BY DEF Types, PC, Stage, Outcome
<1>2. Chain BY DEF Chain, Owned, Distinct, Open, Body
<1>3. Progress BY DEF Progress, Empty, Body
<1>4. OneApp BY DEF OneApp, RegistryIsOneApp
<1>5. Waiting BY DEF Waiting
<1>6. Chosen BY DEF Chosen
<1> QED BY <1>1, <1>2, <1>3, <1>4, <1>5, <1>6 DEF IInv

(***************************************************************************)
(* The invariant the arguments below rest on is inductive, for any swaps,  *)
(* nested or not, any apps and whatever step of a swap fails.              *)
(***************************************************************************)
THEOREM Inductive == Spec => []IInv
<1>1. Init => IInv
  BY InitInductive, RegistrationAssumption
<1>2. IInv /\ [Next]_vars => IInv'
  BY TypeStep, ChosenStep, ChainStep, ProgressStep, OneAppStep, WaitingStep, RegistrationAssumption
     DEF IInv, Chain
<1> QED BY <1>1, <1>2, PTL DEF Spec

(***************************************************************************)
(* withRegistrationMutation and register() serialize the mutations that    *)
(* join the chain: no two of them are ever between their first and their   *)
(* last change, whatever unbracketed calls a host makes beside them.       *)
(***************************************************************************)
THEOREM Serialized == Spec => []MutationsSerialize
<1>1. IInv => MutationsSerialize
  BY OneBody DEF IInv
<1> QED BY <1>1, Inductive, PTL

(***************************************************************************)
(* Until an unbracketed call meets a registry in use (a bare unregisterAll *)
(* inside a mutation, a plain register() over a registered app or beside   *)
(* an open bracket), the orbitals map lists one app, and a kernel is open  *)
(* only on an app that it lists whole, also after swaps that failed.       *)
(***************************************************************************)
THEOREM OneAppRegistered == Spec => []RegistryIsOneApp
<1>1. IInv => RegistryIsOneApp
  BY DEF IInv, OneApp
<1> QED BY <1>1, Inductive, PTL

\* When the epoch a dispatch awaits has settled, no mutation is under way.
LEMMA NobodyWhenSettled ==
  ASSUME Types, Chain, Waiting, NEW d \in Dispatch, LookAgain(d),
         NEW m \in Mutation, link[m] # 0
  PROVE  ~Body(m)
<1> SUFFICES ASSUME Body(m) PROVE FALSE
  OBVIOUS
<1>1. link[m] \in 1 .. awaits[d]
  BY DEF LookAgain, Waiting, Chain, Owned, Open, Body, Types
<1>2. link[m] \notin gates
  BY DEF Chain, Owned, Open, Body
<1> QED BY <1>1, <1>2 DEF LookAgain, Settled

(***************************************************************************)
(* processOrbitalEvent never answers "Orbital not found" while a mutation  *)
(* of the chain is between its first and its last change.                  *)
(***************************************************************************)
THEOREM NoMiss == Spec => NoMissDuringMutation
<1> DEFINE Miss == \A d \in Dispatch :
             outcome'[d] = "notFound" /\ outcome[d] # "notFound" =>
               \A m \in Mutation : Body(m) => link[m] = 0
<1>1. ASSUME IInv, Next PROVE Miss
  <2> SUFFICES ASSUME NEW d \in Dispatch, outcome'[d] = "notFound", outcome[d] # "notFound",
                      NEW m \in Mutation, Body(m), link[m] # 0
               PROVE  FALSE
    OBVIOUS
  <2> USE DEF IInv, mutations, registry, dispatches
  <2>1. ASSUME NEW e \in Dispatch, NEW o \in Name, Arrive(e, o) PROVE FALSE
    <3>1. e = d /\ issued = 0
      BY <1>1, <2>1 DEF Arrive, Types
    <3> QED BY <1>1, <2>1, <3>1 DEF Chain, Owned, Types
  <2>2. ASSUME NEW e \in Dispatch, LookAgain(e) PROVE FALSE
    BY <1>1, <2>2, NobodyWhenSettled
  <2>3. ASSUME NEW e \in Dispatch, Evaluate(e) PROVE FALSE
    BY <1>1, <2>3 DEF Evaluate, Types
  <2> QED
    BY <1>1, <2>1, <2>2, <2>3
       DEF Next, AllDone, vars, Publish, BeginSwap, RegisterInSwap, Register, BeginRegister,
           UnregisterBare, RegisterOrbital, OpenKernel, Fail
<1>2. IInv /\ [Next]_vars => [Miss]_vars
  BY <1>1
<1> QED BY <1>2, Inductive, PTL DEF Spec, NoMissDuringMutation

(***************************************************************************)
(* A dispatch that awaited the epoch finds its orbital in an app that is   *)
(* registered whole, or in one whose swap has failed, until an unbracketed *)
(* call meets a registry in use.                                           *)
(***************************************************************************)
THEOREM WaiterFinds == Spec => WaiterFindsWholeApp
<1> DEFINE Whole == \A d \in Dispatch :
             stage[d] = "waiting" /\ stage'[d] = "found" /\ ~loose =>
               \/ engine = orbitals[target[d]]
               \/ engine = NoApp /\ \A m \in Mutation : ~Body(m)
<1>1. ASSUME IInv, Next PROVE Whole
  <2> SUFFICES ASSUME NEW d \in Dispatch, stage[d] = "waiting", stage'[d] = "found", ~loose
               PROVE  \/ engine = orbitals[target[d]]
                      \/ engine = NoApp /\ \A m \in Mutation : ~Body(m)
    OBVIOUS
  <2> USE DEF IInv, mutations, registry, dispatches
  <2>1. LookAgain(d)
    <3>1. ASSUME NEW e \in Dispatch, NEW o \in Name, Arrive(e, o) PROVE FALSE
      BY <1>1, <3>1 DEF Arrive, Types
    <3>2. ASSUME NEW e \in Dispatch, LookAgain(e) PROVE e = d
      BY <1>1, <3>2 DEF LookAgain, Types
    <3>3. ASSUME NEW e \in Dispatch, Evaluate(e) PROVE FALSE
      BY <1>1, <3>3 DEF Evaluate, Types
    <3> QED
      BY <1>1, <3>1, <3>2, <3>3
         DEF Next, AllDone, vars, Publish, BeginSwap, RegisterInSwap, Register, BeginRegister,
             UnregisterBare, RegisterOrbital, OpenKernel, Fail
  <2>2. target[d] \in Name /\ orbitals[target[d]] # NoApp
    BY <1>1, <2>1 DEF LookAgain, Waiting, Types
  <2>3. \A m \in Mutation : ~Body(m)
    BY <1>1, <2>1, NobodyWhenSettled DEF Progress
  <2>4. engine # NoApp => orbitals[target[d]] = engine
    BY <1>1, <2>2 DEF OneApp
  <2> QED BY <2>3, <2>4
<1>2. IInv /\ [Next]_vars => [Whole]_vars
  BY <1>1
<1> QED BY <1>2, Inductive, PTL DEF Spec, WaiterFindsWholeApp
===============================================================================
