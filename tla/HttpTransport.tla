---------------------------- MODULE HttpTransport ----------------------------
(***************************************************************************)
(* The HTTP transport of a view (createHttpTransport): it registers an app *)
(* with a server, sends events to its orbitals and takes the app down, each*)
(* by a request of its own.  Requests may overtake each other, be lost, or *)
(* be answered with what is no answer.                                     *)
(*                                                                         *)
(* The apps all have an orbital of the same name, so only the behavior an  *)
(* event names tells them apart.                                           *)
(***************************************************************************)
EXTENDS Naturals, FiniteSets

CONSTANTS View,          \* views, each with a transport
          App,           \* apps a view may register
          None,          \* no behavior
          MaxPosts       \* bound on the requests of one view

VARIABLES behavior,      \* per view: the behavior its events are addressed to
          asked,         \* per view: the app it last asked to register
          posts,         \* requests on their way to the server
          posted,        \* per view: how many it sent
          served,        \* apps the server has
          told,          \* per view: what its last register came to
          reached        \* <<app the view asked for, app the event reached>>

httpVars == <<behavior, asked, posts, posted, served, told, reached>>

Init ==
  /\ behavior = [v \in View |-> None] /\ asked = [v \in View |-> None]
  /\ posts = {} /\ posted = [v \in View |-> 0]
  /\ served = {}
  /\ told = [v \in View |-> "nothing"]
  /\ reached = {}

(* jsonPost: headers are made, a large body is compressed, and the request *)
(* goes out; it names what it named when it was asked for.                 *)
Post(v, r) ==
  /\ posted[v] < MaxPosts
  /\ posted' = [posted EXCEPT ![v] = @ + 1]
  /\ posts' = posts \cup {[from |-> v, nr |-> posted[v], kind |-> r.kind,
                           app |-> r.app, behavior |-> r.behavior]}

(* The behavior is the schema's before anything was heard of the server.   *)
Register(v, a) ==
  /\ Post(v, [kind |-> "register", app |-> a, behavior |-> a])
  /\ behavior' = [behavior EXCEPT ![v] = a]
  /\ asked' = [asked EXCEPT ![v] = a]
  /\ UNCHANGED <<served, told, reached>>

(* The answer of a register: malformed or none at all is no success.       *)
Registered(r) ==
  /\ r.kind = "register"
  /\ served' \in {served, served \cup {r.app}}
  /\ told' = [told EXCEPT ![r.from] =
                IF r.app \in served' THEN "success" ELSE "failure"]
  /\ UNCHANGED reached

Lost(r) ==
  /\ told' = IF r.kind = "register" THEN [told EXCEPT ![r.from] = "failure"] ELSE told
  /\ UNCHANGED <<served, reached>>

(* unregister takes everything down; a failure of it is ignored, and the   *)
(* view goes on addressing what it had.                                    *)
Unregister(v) ==
  /\ Post(v, [kind |-> "unregister", app |-> None, behavior |-> None])
  /\ UNCHANGED <<behavior, asked, served, told, reached>>

Unregistered(r) ==
  /\ r.kind = "unregister"
  /\ served' = {}
  /\ UNCHANGED <<told, reached>>

(* Mutant: an event is not addressed to a behavior. *)
AddressedToNone(v, own) == own

(* The request's own behavior, or that of the schema registered last.      *)
Addressed(v, own) == IF own = None THEN behavior[v] ELSE own

Send(v, own) ==
  /\ Post(v, [kind |-> "send", app |-> IF own = None THEN asked[v] ELSE own,
              behavior |-> Addressed(v, own)])
  /\ UNCHANGED <<behavior, asked, served, told, reached>>

(* The server: an event with a behavior goes to it or is refused, one      *)
(* without goes to an orbital of that name.                                *)
Dispatched(r) ==
  LET fits == IF r.behavior = None THEN served ELSE served \cap {r.behavior} IN
  /\ r.kind = "send"
  /\ IF fits = {} THEN UNCHANGED reached
     ELSE \E a \in fits : reached' = reached \cup {<<r.app, a>>}
  /\ UNCHANGED <<served, told>>

Arrive ==
  \E r \in posts :
    /\ posts' = posts \ {r}
    /\ Registered(r) \/ Unregistered(r) \/ Dispatched(r) \/ Lost(r)
    /\ UNCHANGED <<behavior, asked, posted>>

Next ==
  \/ \E v \in View :
       \/ Unregister(v)
       \/ \E a \in App : Register(v, a)
       \/ \E own \in App \cup {None} : Send(v, own)
  \/ Arrive

-----------------------------------------------------------------------------
(* An event reaches the app it was meant for or none: the one its view     *)
(* last asked for when it sent it (or the one it names itself), and never  *)
(* the orbital of the same name of another app, whatever overtakes what.   *)
ReachesItsOwnApp == \A p \in reached : p[1] = None \/ p[1] = p[2]
=============================================================================
