---------------------------- MODULE ServerBridge ----------------------------
(***************************************************************************)
(* The bridge between a client's event bus and a server                    *)
(* (server/ServerBridge.ts): while it is connected the events its          *)
(* configuration selects are sent to one orbital or, one after the other,  *)
(* to all of them, and what the server emits comes back with a prefix.     *)
(* Nothing waits for a forward: several run at once.                       *)
(***************************************************************************)
EXTENDS Naturals, Sequences, FiniteSets, SequencesExt

CONSTANTS Orbital,     \* what the server lists
          MaxEvents,   \* bound on the events on the bus
          MaxConnects  \* bound on the calls of connect()

Class == {"app", "UI:", "BRIDGE:", "SERVER:"}
Event == 1 .. MaxEvents

VARIABLES pattern,    \* "list", "*" or "prefix": what the bridge forwards
          target,     \* the orbital events go to, or "broadcast"
          connected,
          subscribed, \* how many subscriptions of the bridge are on the bus
          class,      \* event -> its class, "none" before it is emitted
          flights,    \* the forwards under way: event, orbitals left, state
          reached,    \* history: event -> the orbitals that were sent it, in order
          counted,    \* history: the events that were counted as forwarded
          connects

bridgeVars == <<pattern, target, connected, subscribed, class, flights, reached, counted, connects>>

TypeOK ==
  /\ pattern \in {"list", "*", "prefix"} /\ target \in Orbital \cup {"broadcast"}
  /\ connected \in BOOLEAN /\ subscribed \in {0, 1}
  /\ class \in [Event -> Class \cup {"none"}]
  /\ \A f \in flights : f.e \in Event /\ f.left \in Seq(Orbital) /\ f.at \in {"listing", "sending"}
  /\ reached \in [Event -> Seq(Orbital)] /\ counted \subseteq Event
  /\ connects \in 0 .. MaxConnects

Init ==
  /\ pattern \in {"list", "*", "prefix"} /\ target \in Orbital \cup {"broadcast"}
  /\ connected = FALSE /\ subscribed = 0
  /\ class = [e \in Event |-> "none"]
  /\ flights = {} /\ reached = [e \in Event |-> <<>>] /\ counted = {}
  /\ connects = 0

-----------------------------------------------------------------------------
\* connect(): subscribes once, whatever the push side comes to.
Connect ==
  /\ connects < MaxConnects /\ connects' = connects + 1
  /\ connected' = TRUE
  /\ subscribed' = IF connected THEN subscribed ELSE subscribed + 1
  /\ UNCHANGED <<pattern, target, class, flights, reached, counted>>

\* Mutant: the subscriptions outlive the connection.
DisconnectKeepsListening ==
  /\ connected /\ connected' = FALSE
  /\ UNCHANGED <<pattern, target, subscribed, class, flights, reached, counted, connects>>

\* disconnect(): the subscriptions end; forwards under way go on.
Disconnect ==
  /\ connected /\ connected' = FALSE
  /\ subscribed' = 0
  /\ UNCHANGED <<pattern, target, class, flights, reached, counted, connects>>

\* The filter of setupEventForwarding(). "*" spares the events of the page and
\* of the bridge; a list or a prefix names events of the program.
Selected(c) == IF pattern = "*" THEN c \notin {"UI:", "BRIDGE:"} ELSE c = "app"

\* The forwards an event of a class starts, one for each subscription.
Forwards(e, c) ==
  IF subscribed = 0 \/ ~Selected(c) THEN {}
  ELSE {[e |-> e, nth |-> i, at |-> IF target = "broadcast" THEN "listing" ELSE "sending",
         left |-> IF target = "broadcast" THEN <<>> ELSE <<target>>] : i \in 1 .. subscribed}

Unemitted == {e \in Event : class[e] = "none"}

\* Something emits on the client's bus.
Emit(c) ==
  /\ Unemitted # {}
  /\ LET e == CHOOSE x \in Unemitted : \A y \in Unemitted : x <= y
     IN class' = [class EXCEPT ![e] = c] /\ flights' = flights \cup Forwards(e, c)
  /\ UNCHANGED <<pattern, target, connected, subscribed, reached, counted, connects>>

\* fetchOrbitals() answers with the orbitals in some order.
List(f) ==
  /\ f.at = "listing"
  /\ \E order \in SeqOf(Orbital, Cardinality(Orbital)) :
       /\ IsInjective(order) /\ ToSet(order) = Orbital
       /\ flights' = (flights \ {f}) \cup {[f EXCEPT !.at = "sending", !.left = order]}
  /\ UNCHANGED <<pattern, target, connected, subscribed, class, reached, counted, connects>>

\* One orbital answers; what it emitted is on the bus before the next is sent.
SendToOrbital(f, answersWithEvent) ==
  /\ f.at = "sending" /\ f.left # <<>>
  /\ reached' = [reached EXCEPT ![f.e] = Append(@, Head(f.left))]
  /\ LET moved == (flights \ {f}) \cup {[f EXCEPT !.left = Tail(@)]} IN
       IF answersWithEvent /\ Unemitted # {}
       THEN LET e == CHOOSE x \in Unemitted : \A y \in Unemitted : x <= y
            IN class' = [class EXCEPT ![e] = "SERVER:"] /\ flights' = moved \cup Forwards(e, "SERVER:")
       ELSE flights' = moved /\ UNCHANGED class
  /\ UNCHANGED <<pattern, target, connected, subscribed, counted, connects>>

\* All orbitals have answered.
Count(f) ==
  /\ f.at = "sending" /\ f.left = <<>>
  /\ flights' = flights \ {f}
  /\ counted' = counted \cup {f.e}
  /\ UNCHANGED <<pattern, target, connected, subscribed, class, reached, connects>>

\* Mutant: an event is counted although a request of it failed.
FailCounted(f) ==
  /\ f.at = "listing" \/ f.left # <<>>
  /\ flights' = flights \ {f}
  /\ counted' = counted \cup {f.e}
  /\ UNCHANGED <<pattern, target, connected, subscribed, class, reached, connects>>

\* A request fails: the orbitals after it are not sent the event.
Fail(f) ==
  /\ f.at = "listing" \/ f.left # <<>>
  /\ flights' = flights \ {f}
  /\ UNCHANGED <<pattern, target, connected, subscribed, class, reached, counted, connects>>

Next ==
  \/ Connect \/ Disconnect
  \/ \E c \in Class : Emit(c)
  \/ \E f \in flights : \/ List(f) \/ Count(f) \/ Fail(f)
                        \/ \E b \in BOOLEAN : SendToOrbital(f, b)
-----------------------------------------------------------------------------
(***************************************************************************)
(* However often the bridge connects and disconnects while forwards are    *)
(* under way, an orbital is sent an event once at most, and an event that  *)
(* counts as forwarded was sent to its target or to every orbital.         *)
(***************************************************************************)
ForwardedOnceToAll ==
  /\ \A e \in Event : IsInjective(reached[e])
  /\ \A e \in counted :
       ToSet(reached[e]) = (IF target = "broadcast" THEN Orbital ELSE {target})
=============================================================================
