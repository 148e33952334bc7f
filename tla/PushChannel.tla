---------------------------- MODULE PushChannel ----------------------------
(***************************************************************************)
(* The push channel of the HTTP event transport (server/EventTransport.ts):*)
(* one EventSource per address, shared by its subscribers, opened with a   *)
(* ticket that serves once, reopened after the last frame the tab applied. *)
(* The server at the other end is external: it numbers the frames of a tab *)
(* within one boot and replays them when a connection asks to resume.      *)
(***************************************************************************)
EXTENDS Naturals, Sequences, SequencesExt

CONSTANTS Subscriber,   \* what the pages of one tab subscribe
          MaxChannels,  \* bound on the channels ever made
          MaxFrames,    \* bound on the frames of one boot
          MaxFaults,    \* bound on broken connections, lost tickets and restarts
          TicketsFail   \* whether minting a ticket may fail

Channel == 1 .. MaxChannels

VARIABLES key,      \* the channel the registry holds for the address, 0 for none
          phase,    \* channel -> what its EventSource is at
          subs,     \* channel -> its subscribers
          transit,  \* channel -> the frames on the way to it, in order
          last,     \* the last frame the tab applied
          boot, sent, \* the server: its boot, and how many frames it numbered
          heard,    \* subscriber -> the frames it was given since it subscribed
          faults

pushVars == <<key, phase, subs, transit, last, boot, sent, heard, faults>>

NoFrame == [boot |-> 0, n |-> 0]
Frame == [boot : 0 .. MaxFaults, n : 0 .. MaxFrames]

TypeOK ==
  /\ key \in 0 .. MaxChannels
  /\ phase \in [Channel -> {"none", "minting", "open", "broken", "dead", "closed"}]
  /\ subs \in [Channel -> SUBSET Subscriber]
  /\ transit \in [Channel -> Seq(Frame)]
  /\ last \in Frame
  /\ boot \in 0 .. MaxFaults /\ sent \in 0 .. MaxFrames /\ faults \in 0 .. MaxFaults
  /\ heard \in [Subscriber -> Seq(Frame)]

Init ==
  /\ key = 0
  /\ phase = [c \in Channel |-> "none"]
  /\ subs = [c \in Channel |-> {}]
  /\ transit = [c \in Channel |-> <<>>]
  /\ last = NoFrame
  /\ boot = 0 /\ sent = 0
  /\ heard = [s \in Subscriber |-> <<>>]
  /\ faults = 0

-----------------------------------------------------------------------------
\* acquirePushChannel(): joins the channel of the address, or makes it.
Subscribe(s) ==
  /\ \A c \in Channel : s \notin subs[c]
  /\ \E c \in Channel :
        /\ IF key # 0 THEN c = key
           ELSE phase[c] = "none" /\ \A b \in 1 .. c - 1 : phase[b] # "none"
        /\ key' = c
        /\ phase' = [phase EXCEPT ![c] = IF key = 0 THEN "minting" ELSE @]
        /\ subs' = [subs EXCEPT ![c] = @ \cup {s}]
  /\ heard' = [heard EXCEPT ![s] = <<>>]
  /\ UNCHANGED <<transit, last, boot, sent, faults>>

\* The function subscribe() returned: the last subscriber closes the channel.
\* A ticket that is being minted meanwhile is found closed when it arrives.
Unsubscribe(c, s) ==
  /\ s \in subs[c]
  /\ subs' = [subs EXCEPT ![c] = @ \ {s}]
  /\ IF subs[c] = {s}
     THEN /\ phase' = [phase EXCEPT ![c] = "closed"]
          /\ transit' = [transit EXCEPT ![c] = <<>>]
          /\ key' = 0
     ELSE UNCHANGED <<phase, transit, key>>
  /\ UNCHANGED <<last, boot, sent, heard, faults>>

\* The frames of this boot after the first n of them.
FramesAfter(n) == [i \in 1 .. sent - n |-> [boot |-> boot, n |-> n + i]]

\* Mutant: a reopened channel does not say where it was.
OpenAfresh(c) ==
  /\ phase[c] = "minting"
  /\ phase' = [phase EXCEPT ![c] = "open"]
  /\ UNCHANGED <<key, subs, transit, last, boot, sent, heard, faults>>

\* The ticket arrived: the stream is opened "since" the last frame applied. The
\* server may go back further than asked; frames of another boot are lost.
Open(c) ==
  /\ phase[c] = "minting"
  /\ phase' = [phase EXCEPT ![c] = "open"]
  /\ \/ /\ last # NoFrame /\ last.boot = boot
        /\ \E from \in 0 .. last.n : transit' = [transit EXCEPT ![c] = FramesAfter(from)]
     \/ /\ last = NoFrame \/ last.boot # boot
        /\ UNCHANGED transit
  /\ UNCHANGED <<key, subs, last, boot, sent, heard, faults>>

\* resolveUrl() throws: open() logs it and returns.
TicketFails(c) ==
  /\ TicketsFail
  /\ phase[c] = "minting"
  /\ phase' = [phase EXCEPT ![c] = "dead"]
  /\ UNCHANGED <<key, subs, transit, last, boot, sent, heard, faults>>

\* A connection breaks; the browser's own retry is refused, its ticket is spent.
Break(c) ==
  /\ phase[c] = "open"
  /\ faults < MaxFaults /\ faults' = faults + 1
  /\ phase' = [phase EXCEPT ![c] = "broken"]
  /\ transit' = [transit EXCEPT ![c] = <<>>]
  /\ UNCHANGED <<key, subs, last, boot, sent, heard>>

\* Mutant: the timer after a broken connection is forgotten.
ReopenNever(c) == FALSE /\ UNCHANGED pushVars

\* onerror's timer, REOPEN_DELAY_MS later.
Reopen(c) ==
  /\ phase[c] = "broken"
  /\ phase' = [phase EXCEPT ![c] = "minting"]
  /\ UNCHANGED <<key, subs, transit, last, boot, sent, heard, faults>>

\* The server numbers a frame for the tab and writes it to its connections.
Push ==
  /\ sent < MaxFrames /\ sent' = sent + 1
  /\ transit' = [c \in Channel |->
        IF phase[c] = "open" THEN Append(transit[c], [boot |-> boot, n |-> sent + 1])
        ELSE transit[c]]
  /\ UNCHANGED <<key, phase, subs, last, boot, heard, faults>>

\* The server restarts: it numbers from one again under another boot.
Restart ==
  /\ faults < MaxFaults /\ faults' = faults + 1
  /\ boot' = boot + 1 /\ sent' = 0
  /\ phase' = [c \in Channel |-> IF phase[c] = "open" THEN "broken" ELSE phase[c]]
  /\ transit' = [c \in Channel |-> <<>>]
  /\ UNCHANGED <<key, subs, last, heard>>

\* Mutant: only the very last frame counts as applied.
AppliedLastOnly(f) == f = last

\* A frame the tab has applied already, on this connection or an earlier one.
Applied(f) == last.boot = f.boot /\ f.n <= last.n

\* onmessage: a replay is dropped, another frame goes to every subscriber.
Deliver(c) ==
  /\ phase[c] = "open" /\ transit[c] # <<>>
  /\ LET f == Head(transit[c]) IN
       /\ transit' = [transit EXCEPT ![c] = Tail(@)]
       /\ IF Applied(f) THEN UNCHANGED <<last, heard>>
          ELSE /\ last' = f
               /\ heard' = [s \in Subscriber |->
                    IF s \in subs[c] THEN Append(heard[s], f) ELSE heard[s]]
  /\ UNCHANGED <<key, phase, subs, boot, sent, faults>>

Next ==
  \/ \E s \in Subscriber : Subscribe(s)
  \/ \E c \in Channel, s \in Subscriber : Unsubscribe(c, s)
  \/ \E c \in Channel : \/ Open(c) \/ TicketFails(c) \/ Break(c) \/ Reopen(c) \/ Deliver(c)
  \/ Push
  \/ Restart

\* The browser answers requests, fires timers and hands over what arrived.
Fairness == \A c \in Channel : /\ WF_pushVars(Open(c))
                               /\ WF_pushVars(Reopen(c))
                               /\ WF_pushVars(Deliver(c))
-----------------------------------------------------------------------------
(***************************************************************************)
(* Across breaks, replays and restarts a subscriber is given the frames of *)
(* one boot in the server's numbering, none twice and none left out between*)
(* the first and the last it was given ("a reopened channel resumes after  *)
(* it and drops replays").                                                 *)
(***************************************************************************)
FramesInSequence ==
  \A s \in Subscriber : \A i \in 1 .. Len(heard[s]) - 1 :
    heard[s][i + 1].boot = heard[s][i].boot => heard[s][i + 1].n = heard[s][i].n + 1

(***************************************************************************)
(* A broken channel does not stay broken: it is open again, closed by its  *)
(* last subscriber, or given up because no ticket could be minted, which   *)
(* is the one case in which its subscribers wait for good.                 *)
(***************************************************************************)
ChannelSettles ==
  \A c \in Channel : phase[c] = "broken" ~> phase[c] \in {"open", "closed", "dead"}
=============================================================================
