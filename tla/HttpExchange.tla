---------------------------- MODULE HttpExchange ----------------------------
(***************************************************************************)
(* One `http` effect (src/src/kernel/http-exchange.ts).  The kernel's      *)
(* driver asks, runHttpCall answers and resumes it.  The caller may cancel *)
(* at any await, or inside the callback that takes a framed event; the     *)
(* request's own timeout may fire at any await.  The kernel's choice of    *)
(* asks, the resolver, the server and the body are external.               *)
(***************************************************************************)
EXTENDS Naturals

CONSTANTS MaxAsks,   \* asks of one driver
          MaxChunks, \* timer chunks of a delay, and body chunks of a reply
          MaxEvents  \* framed events of one chunk

VARIABLES at,       \* the await the call is at
          ask,      \* the ask being answered
          answer,   \* the last answer the driver was resumed with
          driver,   \* is a driver state of the kernel outstanding
          aborted,  \* the caller's signal
          timer,    \* the request's timeout: "none", "armed" or "fired"
          left,     \* chunks of the delay, or of the body, still to come
          frames,   \* events of the chunk at hand not handed over yet
          reader,   \* the lock on the body
          asks,     \* asks so far
          sent,     \* requests that left this host
          heard     \* events onEvent was given

vars == <<at, ask, answer, driver, aborted, timer, left, frames, reader, asks, sent, heard>>

Asks == {"local", "http", "httpStream", "beacon"}
Places == {"start", "step", "local", "delay", "kernel", "lookup", "fetch", "body",
           "publish", "delivery", "done", "thrown"}
Answers == {"none", "local", "reply", "refused", "failed", "timedOut"}

TypeOK ==
    /\ at \in Places
    /\ ask \in Asks \cup {"none"}
    /\ answer \in Answers
    /\ driver \in BOOLEAN /\ aborted \in BOOLEAN
    /\ timer \in {"none", "armed", "fired"}
    /\ left \in 0..MaxChunks /\ frames \in 0..MaxEvents
    /\ reader \in {"none", "open", "completed", "cancelled"}
    /\ asks \in 0..MaxAsks /\ sent \in 0..MaxAsks
    /\ heard \in 0..(MaxAsks * (MaxChunks + 1) * MaxEvents)

Init ==
    /\ at = "start" /\ ask = "none" /\ answer = "none"
    /\ driver = FALSE /\ aborted = FALSE /\ timer = "none"
    /\ left = 0 /\ frames = 0 /\ reader = "none"
    /\ asks = 0 /\ sent = 0 /\ heard = 0

Ended == at \in {"done", "thrown"}

-----------------------------------------------------------------------------
(* The driver loop. *)

Start ==
    /\ at = "start"
    /\ at' = "step" /\ driver' = TRUE
    /\ UNCHANGED <<ask, answer, aborted, timer, left, frames, reader, asks, sent, heard>>

(* The driver asks; the timeout of the request, if it has one, starts in dispatch. *)
KernelAsks ==
    /\ at = "step" /\ asks < MaxAsks
    /\ asks' = asks + 1
    /\ reader' = "none"
    /\ \E a \in Asks :
          /\ ask' = a
          /\ \/ a = "local" /\ at' = "local" /\ left' = 0
             \/ a = "http" /\ at' = "delay" /\ left' \in 0..MaxChunks
             \/ a = "httpStream" /\ at' = "kernel" /\ left' = 0
             \/ a = "beacon" /\ at' = "delivery" /\ left' = 0
    /\ IF ask' = "beacon" /\ ~aborted THEN sent' = sent + 1 ELSE sent' = sent
    /\ UNCHANGED <<answer, driver, aborted, timer, frames, heard>>

KernelDone ==
    /\ at = "step"
    /\ at' = "done" /\ driver' = FALSE
    /\ UNCHANGED <<ask, answer, aborted, timer, left, frames, reader, asks, sent, heard>>

(* The driver is resumed with the answer. *)
Resume(a) ==
    /\ at' = "step" /\ answer' = a
    /\ timer' = "none" /\ left' = 0 /\ frames' = 0
    /\ UNCHANGED <<ask, driver, aborted, asks>>

(* Mutant: the driver is only dropped when it finishes. *)
ThrowsKeeping ==
    /\ at' = "thrown" /\ timer' = "none" /\ left' = 0 /\ frames' = 0
    /\ reader' = IF reader = "open" THEN "cancelled" ELSE reader
    /\ UNCHANGED <<ask, answer, driver, aborted, asks, sent, heard>>

(* answerAsk, or the resumption, threw: the driver is dropped. *)
Throws ==
    /\ at' = "thrown" /\ driver' = FALSE
    /\ timer' = "none" /\ left' = 0 /\ frames' = 0
    /\ reader' = IF reader = "open" THEN "cancelled" ELSE reader
    /\ UNCHANGED <<ask, answer, aborted, asks, sent, heard>>

ResumeThrows == at \in {"local", "delivery"} /\ Throws

(* A secret, a draw or an OAuth ask: an error of the port is an answer too, and the cancel is not looked at. *)
LocalAnswers == at = "local" /\ Resume("local") /\ UNCHANGED <<reader, sent, heard>>

-----------------------------------------------------------------------------
(* One request. *)

Gone == aborted \/ timer = "fired"

(* The catch of dispatch: a cancel rejects, a timeout and any other error are outcomes. *)
CatchAs(a) ==
    IF aborted THEN Throws
    ELSE /\ Resume(IF timer = "fired" THEN "timedOut" ELSE a)
         /\ reader' = IF reader = "open" THEN "cancelled" ELSE reader
         /\ UNCHANGED <<sent, heard>>

(* Mutant: the delay waits for one slice more than it has. *)
DelayPassesOnceMore ==
    /\ at = "delay"
    /\ IF aborted THEN Throws
       ELSE /\ IF left >= 0 THEN at' = at /\ left' = left - 1 ELSE at' = "kernel" /\ left' = left
            /\ UNCHANGED <<ask, answer, driver, aborted, timer, frames, reader, asks, sent, heard>>

DelayPasses ==
    /\ at = "delay"
    /\ IF aborted THEN Throws
       ELSE /\ IF left > 0 THEN at' = at /\ left' = left - 1 ELSE at' = "kernel" /\ left' = left
            /\ UNCHANGED <<ask, answer, driver, aborted, timer, frames, reader, asks, sent, heard>>

(* dispatch, once it has the kernel: a bad URL is refused, otherwise the timeout is armed. *)
Dispatch ==
    /\ at = "kernel"
    /\ \/ aborted /\ Throws
       \/ ~aborted /\ Resume("refused") /\ UNCHANGED <<reader, sent, heard>>
       \/ /\ ~aborted
          /\ at' = "lookup" /\ timer' \in {"none", "armed"}
          /\ UNCHANGED <<ask, answer, driver, aborted, left, frames, reader, asks, sent, heard>>

Send ==
    /\ at' = "fetch" /\ sent' = sent + 1
    /\ UNCHANGED <<ask, answer, driver, aborted, timer, left, frames, reader, asks, heard>>

LookupSettles ==
    /\ at = "lookup"
    /\ \/ CatchAs("failed")
       \/ ~Gone /\ Resume("refused") /\ UNCHANGED <<reader, sent, heard>>
       \/ ~Gone /\ Send

FetchSettles ==
    /\ at = "fetch"
    /\ \/ CatchAs("failed")
       \/ /\ ~Gone
          /\ at' = "body" /\ left' \in 0..MaxChunks
          /\ reader' = IF ask = "httpStream" THEN "open" ELSE "none"
          /\ UNCHANGED <<ask, answer, driver, aborted, timer, frames, asks, sent, heard>>

(* The whole body of a plain request, or its failure. *)
BodySettles ==
    /\ at = "body" /\ ask = "http"
    /\ \/ CatchAs("failed")
       \/ ~Gone /\ Resume("reply") /\ UNCHANGED <<reader, sent, heard>>

(* A chunk of a stream, the end of the stream counting as the last one, with the events framed from it. *)
ChunkArrives ==
    /\ at = "body" /\ ask = "httpStream"
    /\ \/ CatchAs("failed")
       \/ /\ ~Gone
          /\ frames' \in 0..MaxEvents
          /\ at' = "publish"
          /\ UNCHANGED <<ask, answer, driver, aborted, timer, left, reader, asks, sent, heard>>

(* Mutant: the signal is looked at once per chunk. *)
PublishUnchecked ==
    /\ at = "publish" /\ frames > 0
    /\ frames' = frames - 1 /\ heard' = heard + 1
    /\ aborted' \in BOOLEAN
    /\ UNCHANGED <<at, ask, answer, driver, timer, left, reader, asks, sent>>

(* One event at a time: onEvent may cancel the call, so every event is checked again. *)
Publish ==
    /\ at = "publish" /\ frames > 0
    /\ IF aborted THEN Throws
       ELSE /\ frames' = frames - 1 /\ heard' = heard + 1
            /\ aborted' \in BOOLEAN
            /\ UNCHANGED <<at, ask, answer, driver, timer, left, reader, asks, sent>>

ChunkDone ==
    /\ at = "publish" /\ frames = 0
    /\ \/ /\ left > 0
          /\ at' = "body" /\ left' = left - 1
          /\ UNCHANGED <<ask, answer, driver, aborted, timer, frames, reader, asks, sent, heard>>
       \/ left = 0 /\ aborted /\ Throws
       \/ /\ left = 0 /\ ~aborted
          /\ Resume("reply") /\ reader' = "completed"
          /\ UNCHANGED <<sent, heard>>

(* Mutant: the wait for the beacon does not listen to the cancel. *)
DeliverySettlesOnly ==
    /\ at = "delivery" /\ ~aborted
    /\ \E a \in {"reply", "failed"} : Resume(a) /\ UNCHANGED <<reader, sent, heard>>

(* A beacon is never taken back: a cancel ends the wait only. *)
DeliverySettles ==
    /\ at = "delivery"
    /\ IF aborted THEN Throws
       ELSE \E a \in {"reply", "failed"} : Resume(a) /\ UNCHANGED <<reader, sent, heard>>

-----------------------------------------------------------------------------
Cancel ==
    /\ ~aborted /\ ~Ended
    /\ at \notin {"step", "publish"}
    /\ aborted' = TRUE
    /\ UNCHANGED <<at, ask, answer, driver, timer, left, frames, reader, asks, sent, heard>>

TimeoutFires ==
    /\ timer = "armed" /\ at # "publish"
    /\ timer' = "fired"
    /\ UNCHANGED <<at, ask, answer, driver, aborted, left, frames, reader, asks, sent, heard>>

Finished == Ended /\ UNCHANGED vars

Work ==
    \/ Start \/ KernelAsks \/ KernelDone \/ LocalAnswers \/ DelayPasses \/ Dispatch
    \/ LookupSettles \/ FetchSettles \/ BodySettles \/ ChunkArrives \/ Publish \/ ChunkDone
    \/ DeliverySettles

Next == Work \/ ResumeThrows \/ Cancel \/ TimeoutFires \/ Finished

(* Promises settle once their signal fired, and the kernel's driver answers; a server may stay silent for ever. *)
Progresses == Start \/ KernelAsks \/ KernelDone \/ LocalAnswers \/ DelayPasses \/ Dispatch \/ Publish \/ ChunkDone
GivesUp == Gone /\ (LookupSettles \/ FetchSettles \/ BodySettles \/ ChunkArrives \/ DeliverySettles)

Fairness == WF_vars(Progresses) /\ WF_vars(GivesUp)

-----------------------------------------------------------------------------
(* A cancelled or timed-out request neither leaves this host nor hands its caller one more event, whichever await *)
(* or callback the cancel fell into; and a cancel is never reported as a timeout. *)
QuietAfterCancel ==
    [][/\ Gone /\ timer' = timer => sent' = sent /\ heard' = heard
       /\ aborted => answer' = answer \/ at = "local"]_vars

(* However the call ends, no driver state stays in the kernel and no body stays locked. *)
NothingLeftOpen == Ended => ~driver /\ reader # "open"

(* A cancelled call ends, and so does a request whose timeout fired. *)
CancelEnds == (aborted ~> Ended) /\ (timer = "fired" ~> timer # "fired")
=============================================================================
