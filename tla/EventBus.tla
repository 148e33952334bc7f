------------------------------ MODULE EventBus ------------------------------
(***************************************************************************)
(* The events of a runtime, in two machines that share no state.           *)
(*                                                                         *)
(* The publish/subscribe bus (events/EventBus.ts): listeners run inside    *)
(* emit and may call the bus again, so an emit is a frame on a stack and   *)
(* the methods run between the deliveries of the frame on top.  A listener *)
(* set is an object: a handle returned by on() keeps the set it was added  *)
(* to, which need not be the one the table holds later.                    *)
(*                                                                         *)
(* Routing (events/identity/routing.ts, events/emit-stamp.ts): how an      *)
(* emitted event finds its listeners across a rename.  A listener scopes   *)
(* its source by ids where the schema carries them and by names where it   *)
(* does not; an emit is stamped with both.  A rename changes what the      *)
(* emitter stamps and leaves the names listeners hold as they are.         *)
(***************************************************************************)
EXTENDS Naturals, Sequences, SequencesExt

CONSTANTS Listener,      \* the callbacks
          MaxDepth,      \* maxDepth of the bus
          MaxSets,       \* bound on the listener sets ever created
          MaxCalls,      \* bound on the calls of on()
          MaxEmits,      \* bound on the emits
          StaleHandles   \* whether a handle may be used again, or after clear()

CONSTANTS Trait,         \* the traits, by id
          Orbital,       \* the orbitals, by id
          Name,          \* the names they can carry
          None,          \* an absent id or source
          Home,          \* the orbital of a trait
          MaxRenames

\* An event is delivered under its id key and under its name (eventRouteKey).
IdKey == "id"
NameKey == "name"
AnyKey == "*"
Key == {IdKey, NameKey, AnyKey}

VARIABLES table,    \* key -> the listener set it holds, 0 for none
          members,  \* set -> its listeners in insertion order
          made,     \* how many sets were created
          calls,    \* how often on() was called
          handles,  \* the unsubscribe functions that may still be called
          live,     \* history: the subscriptions nobody has ended
          stack,    \* the emits in progress
          emits     \* how many were made

busVars == <<table, members, made, calls, handles, live, stack, emits>>

VARIABLES traitName, orbitalName,  \* the current names
          listen,                  \* the one listener: what it holds, None before it is bound
          emitted,                 \* history: the last emit, and whether it matched
          renames

routeVars == <<traitName, orbitalName, listen, emitted, renames>>

Handle == [key : Key, set : 1 .. MaxSets, l : Listener]

TypeOK ==
  /\ table \in [Key -> 0 .. MaxSets]
  /\ members \in [1 .. MaxSets -> Seq(Listener)]
  /\ made \in 0 .. MaxSets /\ calls \in 0 .. MaxCalls
  /\ handles \subseteq Handle /\ live \subseteq Handle
  /\ \A i \in 1 .. Len(stack) : stack[i].phase \in {"first", "second", "any", "over"}
  /\ emits \in 0 .. MaxEmits

BusInit ==
  /\ table = [k \in Key |-> 0]
  /\ members = [s \in 1 .. MaxSets |-> <<>>]
  /\ made = 0 /\ calls = 0
  /\ handles = {} /\ live = {}
  /\ stack = <<>>
  /\ emits = 0

Top == stack[Len(stack)]

\* Code outside any emit, or the listener that is running, may call the bus.
CanCall == stack # <<>> => Top.running

Held(k) == IF table[k] = 0 THEN <<>> ELSE members[table[k]]

-----------------------------------------------------------------------------
\* on(): adds the listener to the set the table holds, or to a new one.
On(k, l) ==
  /\ CanCall
  /\ table[k] = 0 => made < MaxSets
  /\ calls < MaxCalls /\ calls' = calls + 1
  /\ LET s == IF table[k] = 0 THEN made + 1 ELSE table[k]
         h == [key |-> k, set |-> s, l |-> l]
     IN /\ table' = [table EXCEPT ![k] = s]
        /\ made' = IF table[k] = 0 THEN s ELSE made
        /\ members' = [members EXCEPT ![s] = IF l \in ToSet(@) THEN @ ELSE Append(@, l)]
        /\ handles' = handles \cup {h}
        /\ live' = live \cup {h}
  /\ UNCHANGED <<stack, emits>>

\* The frames stop owing a listener whose subscription has ended.
Forgiven(fs, gone) == [i \in 1 .. Len(fs) |-> [fs[i] EXCEPT !.owed = @ \ gone]]

\* Set.delete(): what is left keeps its order; a set has a listener once.
Without(s, l) ==
  IF l \in ToSet(s) THEN RemoveAt(s, CHOOSE i \in DOMAIN s : s[i] = l) ELSE s

\* Mutant: the listener stays in the set of a handle that is not the last.
UnsubscribeLast(h) ==
  /\ CanCall
  /\ LET rest == Without(members[h.set], h.l)
     IN /\ members' = [members EXCEPT ![h.set] = <<>>]
        /\ table' = [table EXCEPT ![h.key] = IF rest = <<>> THEN 0 ELSE @]
  /\ handles' = IF StaleHandles THEN handles ELSE handles \ {h}
  /\ live' = live \ {h}
  /\ stack' = Forgiven(stack, {h.l})
  /\ UNCHANGED <<made, calls, emits>>

\* The function on() returned: it empties its own set, and when that set is
\* empty it drops whatever set the table now holds for its key.
Unsubscribe(h) ==
  /\ CanCall
  /\ LET rest == Without(members[h.set], h.l)
     IN /\ members' = [members EXCEPT ![h.set] = rest]
        /\ table' = [table EXCEPT ![h.key] = IF rest = <<>> THEN 0 ELSE @]
  /\ handles' = IF StaleHandles THEN handles ELSE handles \ {h}
  /\ live' = live \ {h}
  /\ stack' = Forgiven(stack, {h.l})
  /\ UNCHANGED <<made, calls, emits>>

\* clear(): the table is emptied, the sets and the handles remain.
Clear ==
  /\ CanCall
  /\ live # {}
  /\ table' = [k \in Key |-> 0]
  /\ handles' = IF StaleHandles THEN handles ELSE {}
  /\ live' = {}
  /\ stack' = Forgiven(stack, Listener)
  /\ UNCHANGED <<members, made, calls, emits>>

\* emit(): both sets are looked up now, the first is copied now.
Emit(keyed) ==
  /\ CanCall
  /\ emits < MaxEmits /\ emits' = emits + 1
  /\ stack' = IF Len(stack) >= MaxDepth THEN stack
              ELSE Append(stack,
                     [phase |-> "first", running |-> FALSE,
                      rest |-> Held(IF keyed THEN IdKey ELSE NameKey),
                      later |-> IF keyed THEN table[NameKey] ELSE 0,
                      owed |-> {h.l : h \in {x \in live : keyed \/ x.key # IdKey}},
                      got |-> {}, twice |-> FALSE])
  /\ UNCHANGED <<table, members, made, calls, handles, live>>

SetTop(f) == stack' = [stack EXCEPT ![Len(stack)] = f]

\* Mutant: a listener under both keys is called under both.
HeardNever(f) == FALSE

\* A listener that this emit has already reached under the other key is skipped.
Heard(f) == f.phase \in {"first", "second"} /\ Head(f.rest) \in f.got

\* The next listener of the copy is called, unless the emit has reached it.
Deliver ==
  /\ stack # <<>> /\ ~Top.running /\ Top.rest # <<>>
  /\ LET f == Top IN
       SetTop(IF Heard(f) THEN [f EXCEPT !.rest = Tail(@)]
              ELSE [f EXCEPT !.rest = Tail(@), !.running = TRUE,
                             !.got = @ \cup {Head(f.rest)},
                             !.twice = @ \/ (f.phase # "any" /\ Head(f.rest) \in f.got)])
  /\ UNCHANGED <<table, members, made, calls, handles, live, emits>>

\* The listener returns, or throws: emit catches it either way.
Return ==
  /\ stack # <<>> /\ Top.running
  /\ SetTop([Top EXCEPT !.running = FALSE])
  /\ UNCHANGED <<table, members, made, calls, handles, live, emits>>

\* The next set is copied; the wildcard set is looked up only now.
Turn ==
  /\ stack # <<>> /\ ~Top.running /\ Top.rest = <<>>
  /\ \/ /\ Top.phase = "first"
        /\ SetTop([Top EXCEPT !.phase = "second",
                              !.rest = IF Top.later = 0 THEN <<>> ELSE members[Top.later]])
     \/ Top.phase = "second" /\ SetTop([Top EXCEPT !.phase = "any", !.rest = Held(AnyKey)])
     \/ Top.phase = "any" /\ SetTop([Top EXCEPT !.phase = "over"])
  /\ UNCHANGED <<table, members, made, calls, handles, live, emits>>

\* emit() returns to the listener that called it, or to the outside.
EndEmit ==
  /\ stack # <<>> /\ Top.phase = "over"
  /\ stack' = SubSeq(stack, 1, Len(stack) - 1)
  /\ UNCHANGED <<table, members, made, calls, handles, live, emits>>

BusNext ==
  \/ \E k \in Key, l \in Listener : On(k, l)
  \/ \E h \in handles : Unsubscribe(h)
  \/ Clear
  \/ \E keyed \in BOOLEAN : Emit(keyed)
  \/ Deliver \/ Return \/ Turn \/ EndEmit
-----------------------------------------------------------------------------
(***************************************************************************)
(* When an emit ends, it has called every listener that was subscribed     *)
(* under one of its keys from its start to its end ("Emit an event to all  *)
(* registered listeners"), whatever listeners did to the bus meanwhile.    *)
(***************************************************************************)
EverySubscriberHears ==
  \A i \in 1 .. Len(stack) : stack[i].phase = "over" => stack[i].owed \subseteq stack[i].got

\* A listener subscribed under both the id and the name of an event is called
\* once for it ("receives the event exactly once").
OnceUnderBothKeys == \A i \in 1 .. Len(stack) : ~stack[i].twice
-----------------------------------------------------------------------------
(* Routing *)

RouteInit ==
  /\ traitName \in {f \in [Trait -> Name] : \A s, t \in Trait : s # t => f[s] # f[t]}
  /\ orbitalName \in {f \in [Orbital -> Name] : \A o, p \in Orbital : o # p => f[o] # f[p]}
  /\ listen = None /\ emitted = None
  /\ renames = 0

\* stampEmitSource(): the names of now, and the ids where the schema has them.
Stamp(t, withIds) ==
  [orbital |-> orbitalName[Home[t]], trait |-> traitName[t],
   orbitalId |-> IF withIds THEN Home[t] ELSE None, traitId |-> IF withIds THEN t ELSE None]

\* parseListenSource() of a listens entry. An explicit source is taken as it
\* is; "E" and "*.E" accept any, "T.E" a trait here, "O.T.E" a trait there.
ParseListenSource(form, src) ==
  IF form = "explicit" THEN src
  ELSE [src EXCEPT !.kind = IF form = "T.E" THEN "trait"
                            ELSE IF form = "O.T.E" THEN "orbital" ELSE "any",
                   !.traitId = None, !.orbitalId = None]

\* Whether the matcher of a listen source compares ids.
ById(src) == \/ src.kind = "trait" /\ src.traitId # None
             \/ src.kind = "orbital" /\ src.orbitalId # None /\ src.traitId # None

SameNames(src, stamp) == stamp.orbital = src.orbital /\ stamp.trait = src.trait

\* Mutant: an id that does not match falls back to the names.
MatchesFuzzy(src, stamp) ==
  \/ src.kind = "any"
  \/ ById(src) /\ stamp.traitId = src.traitId
  \/ SameNames(src, stamp)

\* buildSourceMatcher(): ids only, or names only.
Matches(src, stamp) ==
  \/ src.kind = "any"
  \/ ById(src) /\ stamp.traitId = src.traitId
     /\ (src.kind = "orbital" => stamp.orbitalId = src.orbitalId)
  \/ ~ById(src) /\ SameNames(src, stamp)

\* eventRouteKey(): the key an emit is delivered under, beside the plain name.
EventRouteKey(withIds) == IF withIds THEN "id" ELSE "name"

\* A listener of trait t, in orbital o, is bound with the names of now. A
\* listen of a single trait is scoped to the listener's own orbital.
Bind(t, form, kind, withIds) ==
  /\ listen = None
  /\ listen' = [target |-> t, key |-> EventRouteKey(withIds),
                src |-> ParseListenSource(form,
                          [kind |-> kind, orbital |-> orbitalName[Home[t]], trait |-> traitName[t],
                           orbitalId |-> IF withIds THEN Home[t] ELSE None,
                           traitId |-> IF withIds THEN t ELSE None])]
  /\ UNCHANGED <<traitName, orbitalName, emitted, renames>>

\* A rename rewrites the node's own name; another node may take the old one.
RenameTrait(t, n) ==
  /\ renames < MaxRenames /\ renames' = renames + 1
  /\ \A s \in Trait : traitName[s] # n
  /\ traitName' = [traitName EXCEPT ![t] = n]
  /\ UNCHANGED <<orbitalName, listen, emitted>>

RenameOrbital(o, n) ==
  /\ renames < MaxRenames /\ renames' = renames + 1
  /\ \A p \in Orbital : orbitalName[p] # n
  /\ orbitalName' = [orbitalName EXCEPT ![o] = n]
  /\ UNCHANGED <<traitName, listen, emitted>>

\* An emit is delivered under its id key and its name, then matched.
EmitFrom(t, withIds) ==
  /\ listen # None
  /\ emitted' = [from |-> t, withIds |-> withIds,
                 hit |-> /\ listen.key \in {EventRouteKey(withIds), "name"}
                         /\ Matches(listen.src, Stamp(t, withIds))]
  /\ UNCHANGED <<traitName, orbitalName, listen, renames>>

RouteNext ==
  \/ \E t \in Trait, form \in {"explicit", "E", "*.E", "T.E", "O.T.E"},
        kind \in {"any", "trait", "orbital"}, withIds \in BOOLEAN : Bind(t, form, kind, withIds)
  \/ \E t \in Trait, n \in Name : RenameTrait(t, n)
  \/ \E o \in Orbital, n \in Name : RenameOrbital(o, n)
  \/ \E t \in Trait, withIds \in BOOLEAN : EmitFrom(t, withIds)
(***************************************************************************)
(* A listener bound by ids is reached by the stamped emits of the trait it *)
(* was bound to and by no other, whoever was renamed since, even when      *)
(* another trait took the name it holds ("exact-match, rename-proof").     *)
(***************************************************************************)
RenameProof ==
  (emitted # None /\ ById(listen.src) /\ emitted.withIds) =>
    (emitted.hit <=> emitted.from = listen.target)
=============================================================================
