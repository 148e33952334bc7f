------------------------------ MODULE FifoLock ------------------------------
(***************************************************************************)
(* What the server runtime's event queue promises: a lock granted to one   *)
(* holder at a time, in the order the tickets were drawn.  Nothing here is *)
(* about promises, dispatches or the kernel; EventQueue implements it.     *)
(***************************************************************************)
EXTENDS Naturals

VARIABLES
  issued,   \* how many tickets were drawn
  waiting,  \* the tickets drawn and not granted yet
  holder    \* the ticket that holds the lock: a set of at most one

vars == <<issued, waiting, holder>>

Init ==
  /\ issued = 0
  /\ waiting = {}
  /\ holder = {}

Draw ==
  /\ issued' = issued + 1
  /\ waiting' = waiting \cup {issued + 1}
  /\ UNCHANGED holder

\* Only the oldest waiting ticket is granted, and only when the lock is free.
Grant ==
  /\ holder = {}
  /\ \E t \in waiting :
       /\ \A u \in waiting : t <= u
       /\ holder' = {t}
       /\ waiting' = waiting \ {t}
  /\ UNCHANGED issued

Release ==
  /\ holder # {}
  /\ holder' = {}
  /\ UNCHANGED <<issued, waiting>>

Next == Draw \/ Grant \/ Release

Spec == Init /\ [][Next]_vars
=============================================================================
