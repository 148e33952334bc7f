--------------------------- MODULE ServerSession ---------------------------
(***************************************************************************)
(* What the server runtime remembers of its clients between their requests *)
(* (server/OrbitalServerRuntime.ts): who has which trait mounted, what the *)
(* kernel was told of it, so that it can pause the ticks of the others,    *)
(* and the tick states that wait to be relayed to the other tabs.  The     *)
(* queue itself is the module EventQueue; here it is a sequence.           *)
(***************************************************************************)
EXTENDS Naturals, Sequences, SequencesExt, FiniteSets

CONSTANTS Client,       \* the clients, an anonymous one among them
          Trait,        \* the traits of the program
          MaxRequests,  \* bound on the requests
          MaxSwaps,     \* bound on the times the program is replaced
          LateMounts    \* whether a client may disconnect with a request under way

VARIABLES mountedBy,   \* trait -> the clients that have it mounted
          kernel,      \* whether a kernel is open
          told,        \* the traits the kernel was last told are mounted
          received,    \* the requests that look up their orbital
          queue,       \* the requests behind the event queue, in order
          gone,        \* the clients that disconnected
          waiting,     \* <<client, trait>> -> the tick state waiting for relay, 0 for none
          timer,       \* whether the relay timer runs
          ran,         \* how many requests were evaluated
          requests, swaps

sessionVars == <<mountedBy, kernel, told, received, queue, gone, waiting, timer, ran, requests, swaps>>

Kind == {"mount", "unmount", "tick"}
Req == [n : 1 .. MaxRequests, client : Client, kind : Kind, traits : SUBSET Trait]

TypeOK ==
  /\ mountedBy \in [Trait -> SUBSET Client]
  /\ kernel \in BOOLEAN /\ told \subseteq Trait
  /\ received \subseteq Req /\ queue \in Seq(Req) /\ gone \subseteq Client
  /\ waiting \in [Client \X Trait -> 0 .. MaxRequests] /\ timer \in BOOLEAN
  /\ ran \in 0 .. MaxRequests
  /\ requests \in 0 .. MaxRequests /\ swaps \in 0 .. MaxSwaps

Init ==
  /\ mountedBy = [t \in Trait |-> {}]
  /\ kernel = TRUE /\ told = {}
  /\ received = {} /\ queue = <<>> /\ gone = {}
  /\ waiting = [k \in Client \X Trait |-> 0]
  /\ timer = FALSE /\ ran = 0
  /\ requests = 0 /\ swaps = 0

Mounted(m) == {t \in Trait : m[t] # {}}

-----------------------------------------------------------------------------
\* A client sends a lifecycle event or a mount batch, $UNMOUNT, or a
\* tick-stamped event of one trait. Other events leave all this alone.
Request(c, kind, traits) ==
  /\ requests < MaxRequests /\ requests' = requests + 1
  /\ c \notin gone
  /\ received' = received \cup {[n |-> requests + 1, client |-> c, kind |-> kind, traits |-> traits]}
  /\ UNCHANGED <<mountedBy, kernel, told, queue, gone, waiting, timer, ran, swaps>>

\* recordMount() and syncTickMount().
RecordMount(r, mounted) ==
  /\ mountedBy' = [t \in Trait |-> IF t \notin r.traits THEN mountedBy[t]
                                   ELSE IF mounted THEN mountedBy[t] \cup {r.client}
                                   ELSE mountedBy[t] \ {r.client}]
  /\ told' = IF kernel THEN Mounted(mountedBy') ELSE told

\* processOrbitalEvent() after its lookup: not found, released, or queued.
Proceed(r) ==
  /\ r \in received
  /\ received' = received \ {r}
  /\ \/ ~kernel /\ UNCHANGED <<mountedBy, told, queue>>
     \/ kernel /\ r.kind = "unmount" /\ RecordMount(r, FALSE) /\ UNCHANGED queue
     \/ kernel /\ r.kind = "mount" /\ RecordMount(r, TRUE) /\ queue' = Append(queue, r)
     \/ kernel /\ r.kind = "tick" /\ queue' = Append(queue, r) /\ UNCHANGED <<mountedBy, told>>
  /\ UNCHANGED <<kernel, gone, waiting, timer, ran, requests, swaps>>

\* Mutant: the timer is started once and never again.
QueueTickRelayUntimed(r, n) ==
  /\ waiting' = [k \in Client \X Trait |->
       IF k[1] = r.client /\ k[2] \in r.traits THEN n ELSE waiting[k]]
  /\ timer' = (timer \/ n = 1)

\* queueTickRelay(): the newest state of a client's event waits, the timer runs.
QueueTickRelay(r, n) ==
  /\ waiting' = [k \in Client \X Trait |->
       IF k[1] = r.client /\ k[2] \in r.traits THEN n ELSE waiting[k]]
  /\ timer' = TRUE

\* The request at the head of the queue is evaluated, or fails in the kernel.
Evaluate(fails) ==
  /\ queue # <<>>
  /\ queue' = Tail(queue)
  /\ ran' = ran + 1
  /\ IF Head(queue).kind = "tick" /\ ~fails THEN QueueTickRelay(Head(queue), ran + 1)
     ELSE UNCHANGED <<waiting, timer>>
  /\ UNCHANGED <<mountedBy, kernel, told, received, gone, requests, swaps>>

\* flushTickRelay(): what waits is handed to the sink; a round with nothing to
\* do ends the timer.
FlushTickRelay ==
  /\ timer
  /\ IF \A k \in Client \X Trait : waiting[k] = 0
     THEN timer' = FALSE /\ UNCHANGED waiting
     ELSE /\ waiting' = [k \in Client \X Trait |-> 0]
          /\ UNCHANGED timer
  /\ UNCHANGED <<mountedBy, kernel, told, received, queue, gone, ran, requests, swaps>>

\* releaseClient() when the client's stream ends.
ReleaseClient(c) ==
  /\ c \notin gone /\ gone' = gone \cup {c}
  /\ LateMounts \/ ~\E r \in received : r.client = c
  /\ mountedBy' = [t \in Trait |-> mountedBy[t] \ {c}]
  /\ told' = IF kernel THEN Mounted(mountedBy') ELSE told
  /\ UNCHANGED <<kernel, received, queue, waiting, timer, ran, requests, swaps>>

\* unregisterAll(): the kernel is disposed and the mounts are forgotten; what
\* waits for relay is not.
UnregisterAll ==
  /\ kernel
  /\ swaps < MaxSwaps /\ swaps' = swaps + 1
  /\ kernel' = FALSE
  /\ mountedBy' = [t \in Trait |-> {}]
  /\ UNCHANGED <<told, received, queue, gone, waiting, timer, ran, requests>>

\* Mutant: a kernel opened anew is not told.
OpenKernelUntold ==
  /\ kernel' = TRUE /\ told' = {}
  /\ UNCHANGED <<mountedBy, received, queue, gone, waiting, timer, ran, requests, swaps>>

\* openKernel(), when a program is registered or registered again without an
\* unregister: a new kernel knows nothing until it is told what is mounted.
OpenKernel ==
  /\ swaps < MaxSwaps \/ ~kernel
  /\ kernel' = TRUE /\ told' = Mounted(mountedBy)
  /\ swaps' = IF kernel THEN swaps + 1 ELSE swaps
  /\ UNCHANGED <<mountedBy, received, queue, gone, waiting, timer, ran, requests>>

Next ==
  \/ \E c \in Client, kind \in Kind, t \in Trait : Request(c, kind, {t})
  \/ \E c \in Client, kind \in {"mount", "unmount"} : Request(c, kind, Trait)
  \/ \E r \in received : Proceed(r)
  \/ \E fails \in BOOLEAN : Evaluate(fails)
  \/ FlushTickRelay
  \/ \E c \in Client : ReleaseClient(c)
  \/ UnregisterAll \/ OpenKernel

Fairness == WF_sessionVars(FlushTickRelay)
-----------------------------------------------------------------------------
(***************************************************************************)
(* Whatever clients mount, release or drop and however often the program   *)
(* is replaced meanwhile, an open kernel pauses the ticks of exactly the   *)
(* traits that nobody has mounted.                                         *)
(***************************************************************************)
KernelKnowsMounts == kernel => told = Mounted(mountedBy)

(***************************************************************************)
(* A tick state that was evaluated is relayed to the other tabs, or one of *)
(* the same client and event that is newer: the timer that a round without *)
(* work ended is started again.                                            *)
(***************************************************************************)
TickStateRelayed ==
  \A k \in Client \X Trait : waiting[k] # 0 ~> waiting[k] = 0

(***************************************************************************)
(* A disconnected client holds no mount ("Drop every mount a disconnected  *)
(* client held, so its traits' mount-scoped ticks pause").                 *)
(***************************************************************************)
GoneHoldsNothing == \A t \in Trait : mountedBy[t] \cap gone = {}
=============================================================================
