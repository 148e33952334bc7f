------------------------------- MODULE OsHost -------------------------------
(***************************************************************************)
(* The operating-system port of one program: a child process, the pipe its *)
(* output comes through, and the asks that wait for its exit or its bytes. *)
(* An ask is answered in place, or deferred: it then waits in the          *)
(* background and its outcome goes to `deliver` under its key, unless the  *)
(* key is cancelled first.                                                 *)
(***************************************************************************)
EXTENDS Naturals, Sequences

CONSTANTS Ask,         \* the asks for the child's exit or for its output
          Key,         \* keys of deferred asks
          InPlace,     \* not a key: the ask is answered in place
          MaxBytes,    \* bound on the bytes the child writes
          HighWater,   \* PIPE_HIGH_WATER, in bytes
          KeyReuse     \* whether a cancelled key may be asked under again

VARIABLES child,       \* "none", "running", "exited": the process
          table,       \* whether `children` still holds it
          pipe,        \* bytes written and not yet read by the host
          shut,        \* the child closed its end
          source,      \* the ByteSource: held bytes, paused, ended
          turns,       \* the reads of the source, in turn
          asks,        \* per ask: where it stands, and what it was answered
          order,       \* the reads, in the order they were asked
          live,        \* keys whose completion is still wanted
          delivered,   \* completions handed over: key and ask
          cancelled,   \* asks whose key was cancelled
          open         \* the port has not been closed

osVars == <<child, table, pipe, shut, source, turns, asks, order, live,
            delivered, cancelled, open>>

Idle == [at |-> "idle", op |-> "none", key |-> InPlace, got |-> <<>>, answer |-> "none"]

Init ==
  /\ child = "none" /\ table = FALSE /\ pipe = <<>> /\ shut = FALSE
  /\ source = [held |-> <<>>, paused |-> FALSE, ended |-> FALSE, wrote |-> 0]
  /\ turns = <<>>
  /\ asks = [a \in Ask |-> Idle]
  /\ order = <<>>
  /\ live = {} /\ delivered = {} /\ cancelled = {}
  /\ open = TRUE

At(a, step) == asks[a].at = step

(* os/spawn with its output piped; one that does not start leaves nothing. *)
Spawn ==
  /\ child = "none" /\ open
  /\ child' = "running" /\ table' = TRUE
  /\ UNCHANGED <<pipe, shut, source, turns, asks, order, live, delivered, cancelled, open>>

-----------------------------------------------------------------------------
(* The child and its pipe. *)

ChildWrites ==
  /\ child = "running" /\ ~shut /\ source.wrote < MaxBytes
  /\ pipe' = Append(pipe, source.wrote + 1)
  /\ source' = [source EXCEPT !.wrote = @ + 1]
  /\ UNCHANGED <<child, table, shut, turns, asks, order, live, delivered, cancelled, open>>

ChildExits ==
  /\ child = "running"
  /\ child' = "exited" /\ shut' = TRUE
  /\ UNCHANGED <<table, pipe, source, turns, asks, order, live, delivered, cancelled, open>>

(* 'data': a chunk of what is in the pipe; a full buffer pauses the stream. *)
Chunk ==
  /\ pipe # <<>> /\ ~source.paused /\ ~source.ended
  /\ \E n \in 1..Len(pipe) :
       LET held == source.held \o SubSeq(pipe, 1, n) IN
       /\ source' = [source EXCEPT !.held = held, !.paused = Len(held) > HighWater]
       /\ pipe' = SubSeq(pipe, n + 1, Len(pipe))
  /\ UNCHANGED <<child, table, shut, turns, asks, order, live, delivered, cancelled, open>>

(* 'end', once everything was read from the pipe. *)
End ==
  /\ shut /\ pipe = <<>> /\ ~source.paused /\ ~source.ended
  /\ source' = [source EXCEPT !.ended = TRUE]
  /\ UNCHANGED <<child, table, pipe, shut, turns, asks, order, live, delivered, cancelled, open>>

-----------------------------------------------------------------------------
(* Asking.  Both checks fail in place: a process that is not in the table, *)
(* a descriptor that is not open, a key that has a completion pending.     *)

MayBegin(a, k) ==
  k \in Key => /\ k \notin live
               /\ ~KeyReuse => \A b \in Ask \ {a} : ~At(b, "idle") => asks[b].key # k

Begin(k) == live' = IF k = InPlace THEN live ELSE live \cup {k}

AskWait(a, k) ==
  /\ At(a, "idle") /\ open /\ table /\ MayBegin(a, k)
  /\ asks' = [asks EXCEPT ![a] = [Idle EXCEPT !.at = "waiting", !.op = "wait", !.key = k]]
  /\ Begin(k)
  /\ UNCHANGED <<child, table, pipe, shut, source, turns, order, delivered, cancelled, open>>

(* ByteSource.take: behind the reads that have not ended. *)
TakeTurn(a) == Append(turns, a)

AskRead(a, k) ==
  /\ At(a, "idle") /\ open /\ child # "none" /\ MayBegin(a, k)
  /\ asks' = [asks EXCEPT ![a] = [Idle EXCEPT !.at = "reading", !.op = "read", !.key = k]]
  /\ turns' = TakeTurn(a)
  /\ order' = Append(order, a)
  /\ Begin(k)
  /\ UNCHANGED <<child, table, pipe, shut, source, delivered, cancelled, open>>

(* Mutant: a read does not wait for the reads before it. *)
MayTakeAnyTurn == {turns[i] : i \in DOMAIN turns}

(* The reads that may look at the buffer: the first in turn. *)
MayTake == IF turns = <<>> THEN {} ELSE {turns[1]}

(* Mutant: a read that makes room does not let the stream go on. *)
SlicedHoldingBack(n) ==
  [source EXCEPT !.held = SubSeq(@, n + 1, Len(@))]

(* slice: at most what is wanted of what is held; below the mark the       *)
(* stream goes on.                                                         *)
Sliced(n) ==
  LET rest == SubSeq(source.held, n + 1, Len(source.held)) IN
  [source EXCEPT !.held = rest, !.paused = @ /\ Len(rest) > HighWater]

Take(a) ==
  /\ a \in MayTake
  /\ \/ \E n \in 1..Len(source.held) :
          /\ source' = Sliced(n)
          /\ asks' = [asks EXCEPT ![a].at = "ready", ![a].got = SubSeq(source.held, 1, n)]
     \/ /\ source.held = <<>> /\ source.ended
        /\ asks' = [asks EXCEPT ![a].at = "ready"]
        /\ UNCHANGED source
  /\ turns' = Tail(turns)
  /\ UNCHANGED <<child, table, pipe, shut, order, live, delivered, cancelled, open>>

(* The exit wakes everyone who waits for it. *)
ExitSeen(a) ==
  /\ At(a, "waiting") /\ child = "exited"
  /\ asks' = [asks EXCEPT ![a].at = "ready"]
  /\ UNCHANGED <<child, table, pipe, shut, source, turns, order, live, delivered, cancelled, open>>

-----------------------------------------------------------------------------
(* Finishing.  The right to deliver is claimed first; only then is the     *)
(* answer built, which for a wait takes the process out of the table.      *)

Claims(a) == asks[a].key = InPlace \/ asks[a].key \in live

(* Mutant: the answer is built before the right to deliver is claimed. *)
ReapsUnclaimed(a) == asks[a].op = "wait"

Reaps(a) == asks[a].op = "wait" /\ Claims(a)

Finish(a) ==
  /\ At(a, "ready")
  /\ table' = (table /\ ~Reaps(a))
  /\ asks' = [asks EXCEPT ![a].at = "done",
                          ![a].answer = IF ~Claims(a) THEN "none"
                                        ELSE IF asks[a].op = "wait" /\ ~table THEN "closed"
                                        ELSE "ok"]
  /\ IF asks[a].key # InPlace /\ Claims(a)
     THEN /\ live' = live \ {asks[a].key}
          /\ delivered' = delivered \cup {[key |-> asks[a].key, ask |-> a]}
     ELSE UNCHANGED <<live, delivered>>
  /\ UNCHANGED <<child, pipe, shut, source, turns, order, cancelled, open>>

(* cancel: the outcome of whoever waits under the key is not wanted. *)
Cancel(k) ==
  /\ k \in live
  /\ live' = live \ {k}
  /\ cancelled' = cancelled \cup
       {a \in Ask : /\ asks[a].at \in {"waiting", "reading", "ready"}
                    /\ asks[a].key = k}
  /\ UNCHANGED <<child, table, pipe, shut, source, turns, asks, order, delivered, open>>

(* close: nothing is wanted any more, the child is killed, the descriptors *)
(* are closed - a read that waits sees the end.                            *)
Close ==
  /\ open
  /\ open' = FALSE
  /\ live' = {} /\ table' = FALSE
  /\ child' = IF child = "running" THEN "exited" ELSE child
  /\ shut' = TRUE /\ pipe' = <<>>
  /\ source' = [source EXCEPT !.ended = TRUE]
  /\ UNCHANGED <<turns, asks, order, delivered, cancelled>>

Next ==
  \/ Spawn \/ ChildWrites \/ ChildExits \/ Chunk \/ End
  \/ \E a \in Ask :
       \/ \E k \in Key \cup {InPlace} : AskWait(a, k) \/ AskRead(a, k)
       \/ Take(a) \/ ExitSeen(a) \/ Finish(a)
  \/ \E k \in Key : Cancel(k)
  \/ Close

(* The streams flow and callbacks run; the child need not ever exit. *)
Fairness ==
  /\ WF_osVars(Chunk) /\ WF_osVars(End)
  /\ \A a \in Ask : WF_osVars(Take(a)) /\ WF_osVars(ExitSeen(a)) /\ WF_osVars(Finish(a))

-----------------------------------------------------------------------------
(* The state has its types. *)
TypeOK ==
  /\ child \in {"none", "running", "exited"} /\ table \in BOOLEAN
  /\ pipe \in Seq(1..MaxBytes) /\ source.held \in Seq(1..MaxBytes)
  /\ turns \in Seq(Ask) /\ order \in Seq(Ask)
  /\ live \subseteq Key /\ cancelled \subseteq Ask
  /\ \A a \in Ask : asks[a].at \in {"idle", "waiting", "reading", "ready", "done"}

(* The bytes the child wrote after the first `from` of them, up to `to`.    *)
Bytes(from, to) == [i \in 1..(to - from) |-> from + i]

(* Reads share the stream in turn: what the child wrote is cut in the order *)
(* the reads were asked - one that has not ended has nothing yet - and what *)
(* comes after the last cut is held or still in the pipe.                  *)
BytesInOrder ==
  open => \E cut \in [0..Len(order) -> 0..source.wrote] :
    /\ cut[0] = 0
    /\ \A i \in 1..Len(order) : /\ cut[i - 1] <= cut[i]
                                /\ asks[order[i]].got = Bytes(cut[i - 1], cut[i])
    /\ source.held \o pipe = Bytes(cut[Len(order)], source.wrote)

(* The exit is told: a process that was taken out of the table while the   *)
(* port is open was reaped by an ask that was answered with its exit - a   *)
(* cancelled wait does not swallow it - and by one only.                   *)
ExitIsTold ==
  LET told == {a \in Ask : At(a, "done") /\ asks[a].op = "wait" /\ asks[a].answer = "ok"} IN
  /\ open /\ child # "none" /\ ~table => told # {}
  /\ \A a, b \in told : a = b

(* An ask whose key was cancelled is never delivered. *)
CancelledNeverDelivers ==
  \A d \in delivered : d.ask \notin cancelled

(* Once the child has closed its end, no read waits for ever: neither the  *)
(* high-water mark nor the reads before it hold it back.                   *)
ReadsEnd == shut ~> turns = <<>>
=============================================================================
