---------------------------- MODULE ServerRouter ----------------------------
(***************************************************************************)
(* The HTTP surface of the server runtime and its scheduled ticks          *)
(* (server/OrbitalServerRuntime.ts router, publishKernelResponse,          *)
(* setupTicks; server/sse.ts; evaluation/declared-input-dispatch.ts and    *)
(* inbound-dispatch.ts): an event or an input of a client, answered at     *)
(* once or as a stream of server-sent events, and the tick handles that    *)
(* each registration sets up.  The queue is the module EventQueue and the  *)
(* chain of registrations the module Registration; here both are a         *)
(* sequence and a phase.                                                   *)
(***************************************************************************)
EXTENDS Naturals, Sequences, SequencesExt, FiniteSets

CONSTANTS App, None,
          Tick,        \* <<app, tick>>: the ticks the apps declare
          Unparsable,  \* the ticks whose interval is no number, cron or duration
          Inbound,     \* the apps in which the event is an inbound hook's
          Request,
          MaxMutations

VARIABLES
  registered,  \* the apps whose orbitals are in the map
  resolved,    \* the schema the routes look at
  kernel,      \* the app the kernel runs
  phase,       \* what registration is under way: <<>>, or <<step, app>>
  handles,     \* the tick handles that run: <<generation, tick>>
  bindings,    \* those the runtime can stop
  queue,       \* the requests and ticks behind the event queue
  at,          \* request |-> where it stands
  emits,       \* request |-> the emits of its turn
  bus,         \* what the event bus published, in order
  frames,      \* request |-> the frames of its stream
  mutations

routerVars == <<registered, resolved, kernel, phase, handles, bindings, queue, at,
                emits, bus, frames, mutations>>
apps == <<registered, resolved, kernel, phase, handles, bindings, mutations>>

Kind == {"input", "event", "stream", "hook"}
Frame == {<<"complete">>, <<"error">>, <<"done">>} \cup (Request \X {1, 2})

TypeOK ==
  /\ registered \subseteq App /\ {resolved, kernel} \subseteq App \cup {None}
  /\ phase = <<>> \/ phase \in {"orbitals", "ticks", "kernel"} \X App
  /\ handles \subseteq (0..MaxMutations) \X Tick /\ bindings \subseteq handles
  /\ queue \in Seq(Request \cup Tick)
  /\ at \in [Request -> {<<"idle">>} \cup ({"view", "look", "queued", "over"} \X Kind)]
  /\ emits \in [Request -> 0..2] /\ bus \in Seq(Request \X {1, 2})
  /\ \A r \in Request : frames[r] \in Seq(Frame)
  /\ mutations \in 0..MaxMutations

Init ==
  /\ registered = {} /\ resolved = None /\ kernel = None /\ phase = <<>>
  /\ handles = {} /\ bindings = {} /\ queue = <<>>
  /\ at = [r \in Request |-> <<"idle">>]
  /\ emits = [r \in Request |-> 0] /\ bus = <<>>
  /\ frames = [r \in Request |-> <<>>] /\ mutations = 0
-----------------------------------------------------------------------------
\* unregisterAll(): the resolved schema stays.
UnregisterAll ==
  /\ registered # {} /\ phase = <<>>
  /\ registered' = {} /\ kernel' = None
  /\ handles' = handles \ bindings /\ bindings' = {}
  /\ UNCHANGED <<resolved, phase, mutations, queue, at, emits, bus, frames>>

BeginRegister(a) ==
  /\ phase = <<>> /\ mutations < MaxMutations
  /\ mutations' = mutations + 1
  /\ phase' = <<"orbitals", a>>
  /\ UNCHANGED <<registered, resolved, kernel, handles, bindings, queue, at, emits, bus, frames>>

RegisterOrbitals ==
  /\ phase # <<>> /\ phase[1] = "orbitals"
  /\ registered' = registered \cup {phase[2]}
  /\ \/ phase' = <<"ticks", phase[2]>>
     \/ phase' = <<>>                       \* the seeding of an orbital fails
  /\ UNCHANGED <<resolved, kernel, handles, bindings, mutations, queue, at, emits, bus, frames>>

\* A mutant: a new set of ticks is bound without stopping the last.
CleanupTicksForgets == handles

CleanupTicks == handles \ bindings

\* setupTicks(): in the order of the map, up to one whose interval does not parse.
SetupTicks ==
  /\ phase # <<>> /\ phase[1] = "ticks"
  /\ LET declared == {t \in Tick : t[1] \in registered}
         bad == declared \cap Unparsable
     IN \E bound \in SUBSET (declared \ bad) :
          /\ bad = {} => bound = declared
          /\ bindings' = {<<mutations, t>> : t \in bound}
          /\ phase' = IF bad = {} THEN <<"kernel", phase[2]>> ELSE <<>>
  /\ handles' = CleanupTicks \cup bindings'
  /\ UNCHANGED <<registered, resolved, kernel, mutations, queue, at, emits, bus, frames>>

OpenKernel ==
  /\ phase # <<>> /\ phase[1] = "kernel"
  /\ phase' = <<>>
  /\ \/ kernel' = phase[2] /\ resolved' = phase[2]
     \/ UNCHANGED <<kernel, resolved>>      \* the kernel refuses the program
  /\ UNCHANGED <<registered, handles, bindings, mutations, queue, at, emits, bus, frames>>

\* executeTick(): a dispatch like any other, of an orbital that may be gone.
Fire(h) ==
  /\ h \in handles /\ h[2] \notin Range(queue)
  /\ queue' = Append(queue, h[2])
  /\ UNCHANGED <<apps, at, emits, bus, frames>>
-----------------------------------------------------------------------------
\* refuseInboundOnly(): of an event, with no wait before it.
Arrive(r, kind) ==
  /\ at[r] = <<"idle">>
  /\ at' = [at EXCEPT ![r] =
       IF kind # "input" /\ ((kind = "hook") # (resolved \in Inbound))
       THEN <<"over", kind>>
       ELSE IF kind = "hook" THEN <<"look", kind>> ELSE <<"view", kind>>]
  /\ UNCHANGED <<apps, queue, emits, bus, frames>>

\* The frames that end a stream.
Ended(r, last) == [frames EXCEPT ![r] = IF at[r][2] = "stream" THEN @ \o <<<<last>>, <<"done">>>> ELSE @]

\* viewerOf() reads the identity's rows, which may fail; then an input is
\* looked up among those the resolved schema declares.
Viewed(r, ok) ==
  /\ at[r][1] = "view"
  /\ at' = [at EXCEPT ![r] =
       <<IF ok /\ (at[r][2] = "input" => resolved # None) THEN "look" ELSE "over", at[r][2]>>]
  /\ frames' = IF ok THEN frames ELSE Ended(r, "error")
  /\ UNCHANGED <<apps, queue, emits, bus>>

\* processOrbitalEvent() up to the queue; an orbital that is not there is an answer.
Look(r) ==
  /\ at[r][1] = "look"
  /\ registered = {} => phase = <<>>
  /\ at' = [at EXCEPT ![r] = <<IF registered = {} THEN "over" ELSE "queued", at[r][2]>>]
  /\ queue' = IF registered = {} THEN queue ELSE Append(queue, r)
  /\ frames' = IF registered = {} THEN Ended(r, "complete") ELSE frames
  /\ UNCHANGED <<apps, emits, bus>>

\* publishKernelResponse(): every emit goes to the bus and then to the stream.
Publish(r, n) == [k \in 1..n |-> <<r, k>>]

\* A mutant: only what the turn did last goes to the stream.
PushedLastOnly(r, n) == IF n = 0 THEN <<>> ELSE <<<<r, n>>>>

Pushed(r, n) == Publish(r, n)

Turn(n) ==
  /\ queue # <<>> /\ Head(queue) \in Request
  /\ LET r == Head(queue) IN
     /\ queue' = Tail(queue)
     /\ at' = [at EXCEPT ![r] = <<"over", at[r][2]>>]
     /\ IF kernel = None
        THEN n = 0 /\ frames' = Ended(r, "error") /\ UNCHANGED <<emits, bus>>
        ELSE /\ emits' = [emits EXCEPT ![r] = n]
             /\ bus' = bus \o Publish(r, n)
             /\ frames' = [frames EXCEPT ![r] =
                  IF at[r][2] = "stream" THEN @ \o Pushed(r, n) \o <<<<"complete">>, <<"done">>>> ELSE @]
  /\ UNCHANGED apps

TurnOfTick ==
  /\ queue # <<>> /\ Head(queue) \in Tick
  /\ queue' = Tail(queue)
  /\ UNCHANGED <<apps, at, emits, bus, frames>>

Next ==
  \/ UnregisterAll \/ RegisterOrbitals \/ SetupTicks \/ OpenKernel \/ TurnOfTick
  \/ \E a \in App : BeginRegister(a)
  \/ \E h \in handles : Fire(h)
  \/ \E r \in Request : Look(r) \/ (\E k \in Kind : Arrive(r, k)) \/ \E ok \in BOOLEAN : Viewed(r, ok)
  \/ \E n \in 0..2 : Turn(n)
-----------------------------------------------------------------------------
(***************************************************************************)
(* Whatever registrations follow one another, merge, or fail half way, no  *)
(* tick of the runtime runs on two handles, and none outlives the app that *)
(* declared it (OrbitalServerRuntime.ts:1099-1211, 1247-1250).             *)
(***************************************************************************)
TicksRunOnce ==
  /\ \A h, i \in handles : h[2] = i[2] => h = i
  /\ \A h \in handles : h[2][1] \in registered

(***************************************************************************)
(* A stream tells its own turn and all of it, in the order in which the    *)
(* bus told it, and then how it came out, once, and nothing after that;    *)
(* what the turns of others publish meanwhile is not in it.                *)
(***************************************************************************)
StreamsTellTheirTurn ==
  \A r \in Request :
    IF at[r][1] = "over" /\ at[r][2] = "stream" /\ frames[r] # <<>>
    THEN \E first \in 0..Len(bus), n \in 0..2, last \in {"complete", "error"} :
           /\ first + n <= Len(bus)
           /\ \A i \in 1..Len(bus) : bus[i][1] = r <=> i \in (first + 1)..(first + n)
           /\ frames[r] = [i \in 1..n |-> bus[first + i]] \o <<<<last>>, <<"done">>>>
    ELSE frames[r] = <<>>
=============================================================================
