-------------------------------- MODULE OsNet --------------------------------
(***************************************************************************)
(* The sockets of a program on a Node host (kernel/os-node-net.ts): a name *)
(* is checked with the grants, resolved, and its addresses tried one after *)
(* the other; a datagram socket keeps what arrives in an inbox from which  *)
(* several receivers may wait to take.  The resolver, the peers and the    *)
(* clock are the environment.                                              *)
(***************************************************************************)
EXTENDS Naturals, Sequences, SequencesExt, FiniteSets

CONSTANTS Ask,            \* the connects; a datagram's send goes the same way
          Receiver,       \* the reads of the datagram socket
          Name, Granted,  \* the host names, and those the program may reach
          Address, Public,
          Literal,        \* the names that are addresses themselves
          MaxDatagrams

VARIABLES
  at,         \* ask |-> where it stands
  left,       \* ask |-> the addresses it has yet to try
  name,       \* ask |-> the name it asked for
  contacted,  \* <<name, address>>: what was connected or sent to
  opened,     \* the asks whose socket the operating system holds open
  socks,      \* those in the program's table of sockets
  inbox, came,  \* the datagrams that wait, and how many came
  recv,       \* receiver |-> where it stands
  wake,       \* whom the next datagram wakes: {} or one receiver
  late,       \* the receivers whose deadline has passed
  failure     \* whether the datagram socket failed
netVars == <<at, left, name, contacted, opened, socks, inbox, came, recv, wake, late, failure>>
asks == <<at, left, name, contacted, opened, socks>>
datagrams == <<inbox, came, recv, wake, late, failure>>

TypeOK ==
  /\ at \in [Ask -> {"idle", "resolving", "trying", "under way", "over", "failed"}]
  /\ \A a \in Ask : left[a] \in Seq(Address)
  /\ name \in [Ask -> Name] /\ contacted \subseteq Name \X Address
  /\ opened \cup socks \subseteq Ask
  /\ inbox \in Seq(1..MaxDatagrams) /\ came \in 0..MaxDatagrams
  /\ recv \in [Receiver -> {"idle", "asked", "parked", "over", "again", "failed"}]
  /\ wake \cup late \subseteq Receiver /\ failure \in BOOLEAN

Init ==
  /\ at = [a \in Ask |-> "idle"] /\ left = [a \in Ask |-> <<>>]
  /\ name = [a \in Ask |-> CHOOSE n \in Name : TRUE]
  /\ contacted = {} /\ opened = {} /\ socks = {}
  /\ inbox = <<>> /\ came = 0
  /\ recv = [r \in Receiver |-> "idle"]
  /\ wake = {} /\ late = {} /\ failure = FALSE
-----------------------------------------------------------------------------
\* checkGrant(), then the name is resolved, or taken for the address it is.
AskFor(a, n) ==
  /\ at[a] = "idle"
  /\ name' = [name EXCEPT ![a] = n]
  /\ at' = [at EXCEPT ![a] = IF n \notin Granted THEN "failed"
                             ELSE IF n \in Literal THEN "trying" ELSE "resolving"]
  /\ left' = [left EXCEPT ![a] = IF n \in Literal THEN <<n>> ELSE <<>>]
  /\ UNCHANGED <<contacted, opened, socks, datagrams>>

\* A mutant: the name is let through when its first address is public.
LetsThroughFirst(found) == found[1] \in Public

LetsThrough(found) == Range(found) \subseteq Public

\* outbound(): the resolver fails, finds nothing, or finds addresses.
Outbound(a, found) ==
  /\ at[a] = "resolving"
  /\ IF found # <<>> /\ LetsThrough(found)
     THEN at' = [at EXCEPT ![a] = "trying"] /\ left' = [left EXCEPT ![a] = found]
     ELSE at' = [at EXCEPT ![a] = "failed"] /\ UNCHANGED left
  /\ UNCHANGED <<name, contacted, opened, socks, datagrams>>

\* The next address of tcpConnect() or sendto(); none is left: the last error.
Try(a) ==
  /\ at[a] = "trying"
  /\ IF left[a] = <<>>
     THEN at' = [at EXCEPT ![a] = "failed"] /\ UNCHANGED <<left, contacted, opened>>
     ELSE /\ at' = [at EXCEPT ![a] = "under way"]
          /\ left' = [left EXCEPT ![a] = Tail(@)]
          /\ contacted' = contacted \cup {<<name[a], Head(left[a])>>}
          /\ opened' = opened \cup {a}
  /\ UNCHANGED <<name, socks, datagrams>>

\* A mutant: a connect that runs out of time leaves its socket to connect.
DestroyedNever(a) == opened

Destroyed(a) == opened \ {a}

\* connectOnce(): connected, refused, or out of time.
ConnectOnce(a) ==
  /\ at[a] = "under way"
  /\ \/ /\ at' = [at EXCEPT ![a] = "over"]
        /\ socks' = socks \cup {a} /\ UNCHANGED opened
     \/ /\ at' = [at EXCEPT ![a] = "trying"]
        /\ opened' = Destroyed(a) /\ UNCHANGED socks
  /\ UNCHANGED <<left, name, contacted, datagrams>>

\* os/close of a socket in the table.
CloseOwned(a) ==
  /\ a \in socks
  /\ socks' = socks \ {a} /\ opened' = opened \ {a}
  /\ UNCHANGED <<at, left, name, contacted, datagrams>>
\* The peer ends the connection: the socket stays in the table.
PeerCloses(a) ==
  /\ a \in socks \cap opened
  /\ opened' = opened \ {a}
  /\ UNCHANGED <<at, left, name, contacted, socks, datagrams>>
-----------------------------------------------------------------------------
Recvfrom(r) ==
  /\ recv[r] = "idle" /\ recv' = [recv EXCEPT ![r] = "asked"]
  /\ UNCHANGED <<asks, inbox, came, wake, late, failure>>

\* A mutant: the deadline is looked at before the inbox.
TakesUnlessLate(r) == inbox # <<>> /\ r \notin late

Takes(r) == inbox # <<>>

\* One round of nextDatagram(): take, fail, give up, or park under wake, from
\* where it may push another receiver, which its own timer alone wakes then.
NextDatagram(r) ==
  /\ recv[r] = "asked"
  /\ inbox' = IF Takes(r) THEN Tail(inbox) ELSE inbox
  /\ recv' = [recv EXCEPT ![r] =
       IF Takes(r) THEN "over" ELSE IF failure THEN "failed"
       ELSE IF r \in late THEN "again" ELSE "parked"]
  /\ wake' = IF recv'[r] = "parked" THEN {r} ELSE wake
  /\ UNCHANGED <<asks, came, late, failure>>

Woken == [r \in Receiver |-> IF r \in wake /\ recv[r] = "parked" THEN "asked" ELSE recv[r]]

Message ==
  /\ came < MaxDatagrams /\ ~failure
  /\ came' = came + 1 /\ inbox' = Append(inbox, came')
  /\ recv' = Woken
  /\ UNCHANGED <<asks, wake, late, failure>>

SocketFails ==
  /\ ~failure /\ failure' = TRUE
  /\ recv' = Woken
  /\ UNCHANGED <<asks, inbox, came, wake, late>>

Deadline(r) ==
  /\ recv[r] \in {"asked", "parked"} /\ r \notin late
  /\ late' = late \cup {r}
  /\ recv' = [recv EXCEPT ![r] = "asked"]
  /\ UNCHANGED <<asks, inbox, came, wake, failure>>

Next ==
  \/ \E a \in Ask : (\E n \in Name : AskFor(a, n)) \/ Try(a) \/ ConnectOnce(a) \/ CloseOwned(a) \/ PeerCloses(a)
                    \/ \E found \in SeqOf(Address, 2) : Outbound(a, found)
  \/ \E r \in Receiver : Recvfrom(r) \/ NextDatagram(r) \/ Deadline(r)
  \/ Message \/ SocketFails
-----------------------------------------------------------------------------
(***************************************************************************)
(* Nothing is connected or sent to under a name that is not granted, nor,  *)
(* under a host name, to an address that is not public, whatever mixture   *)
(* of addresses the resolver answers and however many were tried; and the  *)
(* operating system holds no socket open that neither a connect under way  *)
(* nor the program's table knows (os-node-net.ts:1-8, 101-108, 159-194).   *)
(***************************************************************************)
OnlyGrantedSockets ==
  /\ \A c \in contacted : c[1] \in Granted /\ (c[2] \in Public \/ c[1] \in Literal)
  /\ opened \subseteq socks \cup {a \in Ask : at[a] = "under way"}

(***************************************************************************)
(* A receiver is told that nothing came in time only when nothing waits in *)
(* the inbox, and that the socket failed only when what came before is     *)
(* taken, though another receiver took its place under wake.               *)
(***************************************************************************)
NobodyMissesWhatCame ==
  [][\A r \in Receiver :
       recv'[r] \in {"again", "failed"} /\ recv[r] = "asked" => inbox = <<>>]_netVars
=============================================================================
