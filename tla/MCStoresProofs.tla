--------------------------- MODULE MCStoresProofs ---------------------------
(***************************************************************************)
(* Proofs about what a host keeps, reads and lets through for its          *)
(* programs, for every size of the parts that MCStores is given: its rows, *)
(* names, calls, tenants, files, sockets and sessions.                     *)
(*                                                                         *)
(* Every part has an invariant of its own (CredInv, SecretInv, ScopeInv,   *)
(* ChromeInv, FileInv, NetInv, DeviceInv, TreeInv), kept by each of its    *)
(* steps.  One part runs in a behaviour and the others rest, each in one   *)
(* of its states: together they are an invariant of the whole (StoresInv). *)
(* OAuth on the host is OAuthPortProofs' business, whose theorems hold of  *)
(* the behaviours here since each of them is one of its own.               *)
(***************************************************************************)
EXTENDS MCStores, FiniteSetTheorems, WellFoundedInduction, TLAPS

\* A set of naturals that is not empty has a least member.
LEMMA MinNat ==
  ASSUME NEW T \in SUBSET Nat, T # {}
  PROVE  \E x \in T : \A y \in T : x <= y
<1>1. IsWellFoundedOn(OpToRel(<, Nat), Nat)
  BY Zenon, NatLessThanWellFounded
<1>2. PICK x \in T : \A y \in T : ~ (<<y, x>> \in OpToRel(<, Nat))
  BY <1>1, WFMin, Zenon
<1>3. \A y \in T : ~(y < x)
  BY <1>2 DEF OpToRel
<1> QED BY <1>3

-----------------------------------------------------------------------------
(* The credential rows (host/credentials/store.ts) *)

\* A row as it may stand in the store, and a call as it may stand.
CredRow == [name : Credentials \cup {"-"}, value : Nat, key : Creds!Keys \cup {"other", "-"},
            stamp : Creds!Keys \cup {"none", "-"}]
CredCall == [kind : {"none", "set", "remove", "warm", "rotate"}, at : Creds!Places,
             name : Credentials \cup {"-"}, id : 0..MaxRows, value : Nat,
             seen : SUBSET [id : Creds!Ids, row : CredRow], unread : Nat]

\* A row is under the current key and says so.
Fresh(row) == row.key = "current" /\ row.stamp = "current"

\* What a rotation has left: each row that is not fresh is still in its list, as
\* it stands, or was counted as unreadable.
RotationInv == \A o \in Changes : credOps[o].kind = "rotate" =>
  /\ credOps[o].at = "next" =>
       \A i \in Creds!Stored : \/ Fresh(credRows[i])
                               \/ [id |-> i, row |-> credRows[i]] \in credOps[o].seen
                               \/ credOps[o].unread > 0
  /\ credOps[o].at \in {"load", "loading", "over"} /\ credOps[o].unread = 0 =>
       \A i \in Creds!Stored : Fresh(credRows[i])

CredTyped ==
  /\ credRows \in [Creds!Ids -> CredRow]
  /\ credCache \in [Credentials -> [id : 0..MaxRows, value : Nat]]
  /\ credOps \in [Changes -> CredCall]
  /\ credWrites \in Nat
  /\ \A o \in Changes :
       /\ credOps[o].kind = "rotate" => credOps[o].at \in {"list", "next", "load", "loading", "over", "failed"}
       /\ credOps[o].at \in {"list", "next"} => credOps[o].kind = "rotate"
       /\ credOps[o].at \in {"cipher", "sent", "landed"} => credOps[o].kind \in {"set", "remove"}
       /\ credOps[o].kind \in {"set", "remove"} => credOps[o].name \in Credentials

CredInv == CredTyped /\ RotationInv

\* Each name has a row that is its own.
LEMMA RowOfFacts == Creds!RowOf \in [1..Cardinality(Credentials) -> Credentials]
                    /\ Cardinality(Credentials) \in Nat
<1>1. Cardinality(Credentials) \in Nat /\ ExistsBijection(1..Cardinality(Credentials), Credentials)
  BY StoresAssumption, FS_CardinalityType
<1>2. \E f \in [1..Cardinality(Credentials) -> Credentials] :
        \A n \in Credentials : \E i \in DOMAIN f : f[i] = n
  BY <1>1 DEF ExistsBijection, Bijection, Surjection
<1> QED BY <1>1, <1>2 DEF Creds!RowOf, Creds!Cardinality, Cardinality

\* The rows the deployments before this one left.
LEMMA CredInit == ASSUME Creds!Init PROVE CredInv
<1> USE StoresAssumption DEF Creds!Init
<1>1. credRows \in [Creds!Ids -> CredRow]
  <2>1. PICK left \in [Credentials -> Creds!Left] :
          credRows = [i \in Creds!Ids |->
            IF i \in DOMAIN Creds!RowOf
            THEN [name |-> Creds!RowOf[i], value |-> i, key |-> left[Creds!RowOf[i]].key,
                  stamp |-> left[Creds!RowOf[i]].stamp]
            ELSE Creds!NoRow]
    OBVIOUS
  <2> SUFFICES ASSUME NEW i \in Creds!Ids PROVE credRows[i] \in CredRow
    BY <2>1
  <2>2. CASE i \in DOMAIN Creds!RowOf
    <3>1. Creds!RowOf[i] \in Credentials
      BY <2>2, RowOfFacts
    <3>2. left[Creds!RowOf[i]] \in Creds!Left
      BY <3>1
    <3> QED BY <2>1, <2>2, <3>1, <3>2 DEF Creds!Left, CredRow, Creds!Keys, Creds!Ids
  <2>3. CASE i \notin DOMAIN Creds!RowOf
    BY <2>1, <2>3 DEF Creds!NoRow, CredRow
  <2> QED BY <2>2, <2>3
<1>2. credOps = [o \in Changes |-> Creds!Idle] /\ Creds!Idle \in CredCall
      /\ Creds!Idle.kind = "none" /\ Creds!Idle.at = "new"
  BY DEF Creds!Idle, CredCall, Creds!Places
<1>3. credCache \in [Credentials -> [id : 0..MaxRows, value : Nat]] /\ credWrites \in Nat
  BY DEF Creds!NoEntry
<1> QED BY <1>1, <1>2, <1>3 DEF CredInv, CredTyped, RotationInv

\* Whoever else writes a row writes it under the current key, or takes it away.
LEMMA RotationKept ==
  ASSUME CredInv, CredTyped', NEW o \in Changes,
         \A i \in Creds!Ids : credRows'[i] \in {credRows[i], Creds!NoRow} \/ Fresh(credRows'[i]),
         \A p \in Changes \ {o} : credOps'[p] = credOps[p],
         credOps'[o].kind # "rotate"
  PROVE  RotationInv'
BY DEF CredInv, RotationInv, Creds!Stored, Fresh

\* The next of the rows a call has listed is one of them.
LEMMA FirstFacts ==
  ASSUME NEW seen \in SUBSET [id : Creds!Ids, row : CredRow], seen # {}
  PROVE  Creds!FirstOf(seen) \in seen
<1> DEFINE T == {s.id : s \in seen}
<1>1. T \in SUBSET Nat /\ T # {}
  BY DEF Creds!Ids
<1>2. \E x \in T : \A y \in T : x <= y
  <2> HIDE DEF T
  <2> QED BY <1>1, MinNat
<1>3. \E s \in seen : \A t \in seen : s.id <= t.id
  BY <1>2
<1> QED BY <1>3 DEF Creds!FirstOf

\* A call of the store begins.
LEMMA CredBegin ==
  ASSUME CredInv, NEW o \in Changes, NEW kind, NEW name, NEW place, Creds!Begin(o, kind, name, place),
         \/ kind \in {"set", "remove"} /\ name \in Credentials /\ place = "cipher"
         \/ kind = "warm" /\ name = "-" /\ place = "load"
         \/ kind = "rotate" /\ name = "-" /\ place = "list"
  PROVE  CredInv'
<1> DEFINE at == IF Creds!Warms(kind) THEN "load" ELSE place
           call == [Creds!Idle EXCEPT !.kind = kind, !.name = name, !.at = at]
<1>1. /\ credOps' = [credOps EXCEPT ![o] = call]
      /\ credCache' = credCache \/ credCache' = [n \in Credentials |-> Creds!NoEntry]
      /\ credRows' = credRows /\ credWrites' = credWrites
  BY DEF Creds!Begin
<1>2. /\ call \in CredCall /\ call.kind = kind /\ call.name = name /\ call.at = at
      /\ kind = "rotate" => at = "list"
      /\ kind # "rotate" => at \in {"cipher", "load"}
      /\ at = "cipher" => kind \in {"set", "remove"}
      /\ kind \in {"set", "remove"} => name \in Credentials
  <2>1. at \in {"load", "cipher", "list"} /\ kind \in {"set", "remove", "warm", "rotate"}
    BY DEF Creds!Warms
  <2>2. Creds!Idle \in CredCall
    BY StoresAssumption DEF Creds!Idle, CredCall, Creds!Places
  <2>3. PICK idle \in CredCall : idle = Creds!Idle
    BY <2>2
  <2>4. call \in CredCall /\ call.kind = kind /\ call.name = name /\ call.at = at
    <3>1. at \in Creds!Places
      BY <2>1 DEF Creds!Places
    <3>2. name \in Credentials \cup {"-"}
      OBVIOUS
    <3>3. call = [idle EXCEPT !.kind = kind, !.name = name, !.at = at]
      BY <2>3
    <3> HIDE DEF at, call
    <3> QED BY <2>1, <3>1, <3>2, <3>3 DEF CredCall
  <2> QED BY <2>4 DEF Creds!Warms
<1> HIDE DEF call, at
<1>3. /\ credOps' \in [Changes -> CredCall] /\ credOps'[o] = call
      /\ \A p \in Changes \ {o} : credOps'[p] = credOps[p]
  BY <1>1, <1>2 DEF CredInv, CredTyped
<1>4. credCache' \in [Credentials -> [id : 0..MaxRows, value : Nat]]
  BY <1>1, StoresAssumption DEF CredInv, CredTyped, Creds!NoEntry
<1>5. CredTyped'
  BY <1>1, <1>2, <1>3, <1>4 DEF CredInv, CredTyped
<1>6. RotationInv'
  BY <1>1, <1>2, <1>3 DEF CredInv, RotationInv, Creds!Stored
<1> QED BY <1>5, <1>6 DEF CredInv

\* A call goes on to another place of its own kind.
LEMMA CredGoes ==
  ASSUME CredInv, NEW o \in Changes, NEW place \in Creds!Places, Creds!Go(o, place),
         credRows' = credRows, credWrites' = credWrites,
         credCache' \in [Credentials -> [id : 0..MaxRows, value : Nat]],
         credOps[o].kind = "rotate" => place \in {"load", "loading", "over"}
           /\ (credOps[o].at = "next" => credOps[o].seen = {})
           /\ credOps[o].at \in {"next", "load", "loading", "over"},
         place \in {"cipher", "sent", "landed"} => credOps[o].kind \in {"set", "remove"},
         place \notin {"list", "next"}
  PROVE  CredInv'
<1>0. PICK c \in CredCall : c = credOps[o]
  BY DEF CredInv, CredTyped
<1> DEFINE call == [c EXCEPT !.at = place]
<1>1. /\ credOps' = [credOps EXCEPT ![o] = call]
      /\ DOMAIN credOps = Changes /\ credOps \in [Changes -> CredCall]
  BY <1>0 DEF Creds!Go, CredInv, CredTyped
<1>2. /\ call \in CredCall
      /\ call.at = place /\ call.kind = c.kind /\ call.seen = c.seen
      /\ call.unread = c.unread /\ call.name = c.name
  BY DEF CredCall
<1> HIDE DEF call
<1>21. /\ credOps' \in [Changes -> CredCall]
       /\ credOps'[o] = call
       /\ \A p \in Changes \ {o} : credOps'[p] = credOps[p]
  BY <1>1, <1>2
<1>22. /\ credOps'[o].at = place
       /\ credOps'[o].kind = credOps[o].kind /\ credOps'[o].seen = credOps[o].seen
       /\ credOps'[o].unread = credOps[o].unread /\ credOps'[o].name = credOps[o].name
  BY <1>0, <1>2, <1>21
<1>3. CredTyped'
  BY <1>21, <1>22 DEF CredInv, CredTyped
<1>4. RotationInv'
  <2> SUFFICES ASSUME NEW p \in Changes, credOps'[p].kind = "rotate"
               PROVE  /\ credOps'[p].at = "next" =>
                           \A i \in Creds!Stored' :
                              \/ Fresh(credRows'[i])
                              \/ [id |-> i, row |-> credRows'[i]] \in credOps'[p].seen
                              \/ credOps'[p].unread > 0
                      /\ credOps'[p].at \in {"load", "loading", "over"} /\ credOps'[p].unread = 0 =>
                           \A i \in Creds!Stored' : Fresh(credRows'[i])
    BY DEF RotationInv
  <2>1. Creds!Stored' = Creds!Stored
    BY DEF Creds!Stored
  <2>2. CASE p # o
    BY <1>21, <2>1, <2>2 DEF CredInv, RotationInv
  <2>3. CASE p = o
    <3>1. credOps[o].kind = "rotate" /\ credOps'[o].at = place
          /\ place \in {"load", "loading", "over"}
      BY <1>22, <2>3
    <3>2. ASSUME credOps[o].unread = 0, NEW i \in Creds!Stored
          PROVE  Fresh(credRows[i])
      <4>1. CASE credOps[o].at = "next"
        <5>1. credOps[o].seen = {} /\ ~(credOps[o].unread > 0)
          BY <3>1, <3>2, <4>1
        <5>2. \/ Fresh(credRows[i]) \/ credOps[o].unread > 0
              \/ [id |-> i, row |-> credRows[i]] \in credOps[o].seen
          BY <3>1, <3>2, <4>1 DEF CredInv, RotationInv
        <5> QED BY <5>1, <5>2
      <4>2. CASE credOps[o].at \in {"load", "loading", "over"}
        BY <3>1, <3>2, <4>2 DEF CredInv, RotationInv
      <4> QED BY <3>1, <4>1, <4>2
    <3> QED BY <1>22, <2>1, <2>3, <3>1, <3>2
  <2> QED BY <2>2, <2>3
<1> QED BY <1>3, <1>4 DEF CredInv

\* warm() lists the rows, then enters one after the other.
LEMMA CredWarm ==
  ASSUME CredInv, NEW o \in Changes, Creds!ListForWarm(o) \/ Creds!LoadRow(o)
  PROVE  CredInv'
<1>1. /\ credOps[o].at \in {"load", "loading"}
      /\ credRows' = credRows /\ credWrites' = credWrites
  BY DEF Creds!ListForWarm, Creds!LoadRow
<1>2. /\ credOps' \in [Changes -> CredCall]
      /\ credCache' \in [Credentials -> [id : 0..MaxRows, value : Nat]]
      /\ \A p \in Changes \ {o} : credOps'[p] = credOps[p]
      /\ credOps'[o].kind = credOps[o].kind /\ credOps'[o].at = "loading"
      /\ credOps'[o].unread = credOps[o].unread /\ credOps'[o].name = credOps[o].name
  <2>1. CASE Creds!ListForWarm(o)
    <3>1. Creds!Snapshot \in SUBSET [id : Creds!Ids, row : CredRow]
      BY DEF Creds!Snapshot, Creds!Stored, CredInv, CredTyped
    <3>2. credOps' = [credOps EXCEPT ![o].seen = Creds!Snapshot, ![o].at = "loading"]
          /\ credCache' = credCache
      BY <2>1 DEF Creds!ListForWarm
    <3>3. /\ credOps'[o] = [credOps[o] EXCEPT !.seen = Creds!Snapshot, !.at = "loading"]
          /\ \A p \in Changes \ {o} : credOps'[p] = credOps[p]
          /\ DOMAIN credOps' = Changes /\ credOps' = [p \in Changes |-> credOps'[p]]
      BY <3>2 DEF CredInv, CredTyped
    <3>4. /\ credOps'[o] \in CredCall
          /\ credOps'[o].kind = credOps[o].kind /\ credOps'[o].at = "loading"
          /\ credOps'[o].unread = credOps[o].unread /\ credOps'[o].name = credOps[o].name
      <4>1. credOps[o] \in CredCall
        BY DEF CredInv, CredTyped
      <4>2. credOps'[o] = [credOps[o] EXCEPT !.seen = Creds!Snapshot, !.at = "loading"]
        BY <3>3
      <4> HIDE DEF Creds!Snapshot
      <4> QED BY <3>1, <4>1, <4>2 DEF CredCall, Creds!Places
    <3> QED BY <3>2, <3>3, <3>4 DEF CredInv, CredTyped
  <2>2. CASE Creds!LoadRow(o)
    <3> DEFINE s == Creds!FirstOf(credOps[o].seen)
    <3>1. /\ credOps' = [credOps EXCEPT ![o].seen = @ \ {s}] /\ credOps[o].at = "loading"
          /\ credCache' = IF Creds!Readable(s.row)
                          THEN [credCache EXCEPT ![s.row.name] = [id |-> s.id, value |-> s.row.value]]
                          ELSE credCache
      BY <2>2 DEF Creds!LoadRow
    <3>2. s \in [id : Creds!Ids, row : CredRow]
      BY <2>2, FirstFacts DEF Creds!LoadRow, CredInv, CredTyped, CredCall
    <3> HIDE DEF s
    <3>3. /\ credOps' \in [Changes -> CredCall]
          /\ \A p \in Changes \ {o} : credOps'[p] = credOps[p]
          /\ credOps'[o].kind = credOps[o].kind /\ credOps'[o].at = "loading"
          /\ credOps'[o].unread = credOps[o].unread /\ credOps'[o].name = credOps[o].name
      BY <3>1 DEF CredInv, CredTyped, CredCall
    <3>4. credCache' \in [Credentials -> [id : 0..MaxRows, value : Nat]]
      <4>1. /\ s.id \in 0..MaxRows /\ s.row.value \in Nat
        BY <3>2, StoresAssumption DEF CredRow, Creds!Ids
      <4>2. [id |-> s.id, value |-> s.row.value] \in [id : 0..MaxRows, value : Nat]
        BY <4>1
      <4> QED BY <3>1, <4>2 DEF CredInv, CredTyped
    <3> QED BY <3>3, <3>4
  <2> QED BY <2>1, <2>2
<1>3. CredTyped'
  BY <1>1, <1>2 DEF CredInv, CredTyped
<1>4. RotationInv'
  BY <1>1, <1>2 DEF CredInv, RotationInv, Creds!Stored
<1> QED BY <1>3, <1>4 DEF CredInv

\* set() and remove() look the name up, and drop it or enter it when they are done.
LEMMA CredLookUp ==
  ASSUME CredInv, NEW o \in Changes, Creds!LookUp(o)
  PROVE  CredInv'
<1>1. /\ credOps[o].at = "cipher" /\ credRows' = credRows /\ credCache' = credCache
      /\ credOps[o].kind \in {"set", "remove"} /\ credOps[o].name \in Credentials
  BY DEF Creds!LookUp, CredInv, CredTyped
<1>2. PICK e \in [id : 0..MaxRows, value : Nat] : e = credCache[credOps[o].name]
  BY <1>1 DEF CredInv, CredTyped
<1>3. PICK c \in CredCall : c = credOps[o]
  BY DEF CredInv, CredTyped
<1>4. \E call \in CredCall : /\ credOps' = [credOps EXCEPT ![o] = call]
                             /\ call.kind = c.kind /\ call.name = c.name
                             /\ call.at \in {"over", "sent"}
  <2>1. CASE c.kind = "remove"
    <3> DEFINE call == [c EXCEPT !.id = e.id, !.at = IF e = Creds!NoEntry THEN "over" ELSE "sent"]
    <3>1. credOps' = [credOps EXCEPT ![o] = call]
      BY <1>2, <1>3, <2>1 DEF Creds!LookUp, CredInv, CredTyped
    <3>2. call \in CredCall /\ call.kind = c.kind /\ call.name = c.name /\ call.at \in {"over", "sent"}
      BY DEF CredCall, Creds!Places
    <3> QED BY <3>1, <3>2
  <2>2. CASE c.kind # "remove"
    <3> DEFINE call == [c EXCEPT !.id = e.id, !.value = credWrites + 1, !.at = "sent"]
    <3>1. credOps' = [credOps EXCEPT ![o] = call]
      BY <1>2, <1>3, <2>2 DEF Creds!LookUp, CredInv, CredTyped
    <3>2. call \in CredCall /\ call.kind = c.kind /\ call.name = c.name /\ call.at \in {"over", "sent"}
      <4>1. PICK n \in Nat : n = credWrites + 1
        BY DEF CredInv, CredTyped
      <4>2. call = [c EXCEPT !.id = e.id, !.value = n, !.at = "sent"] /\ e.id \in 0..MaxRows
        BY <4>1
      <4> HIDE DEF call
      <4> QED BY <4>2 DEF CredCall, Creds!Places
    <3> QED BY <3>1, <3>2
  <2> QED BY <2>1, <2>2
<1>5. credWrites' \in Nat
  BY DEF Creds!LookUp, CredInv, CredTyped
<1>6. /\ credOps' \in [Changes -> CredCall]
      /\ credOps'[o].kind \in {"set", "remove"} /\ credOps'[o].name \in Credentials
      /\ credOps'[o].at \in {"over", "sent"}
      /\ \A p \in Changes \ {o} : credOps'[p] = credOps[p]
  BY <1>1, <1>3, <1>4 DEF CredInv, CredTyped
<1>7. CredTyped'
  BY <1>1, <1>5, <1>6 DEF CredInv, CredTyped
<1>8. RotationInv'
  BY <1>1, <1>6, <1>7, RotationKept
<1> QED BY <1>7, <1>8 DEF CredInv

\* Every row set() writes is under the current key.
LEMMA SealedFacts ==
  ASSUME NEW name \in Credentials \cup {"-"}, NEW value \in Nat
  PROVE  Creds!Sealed(name, value) \in CredRow /\ Fresh(Creds!Sealed(name, value))
BY DEF Creds!Sealed, CredRow, Fresh, Creds!Keys

\* The adapter takes the row, or the row is gone.
LEMMA CredWrite ==
  ASSUME CredInv, NEW o \in Changes, Creds!Create(o) \/ Creds!Update(o) \/ Creds!Delete(o)
  PROVE  CredInv'
<1>1. PICK c \in CredCall : c = credOps[o]
  BY DEF CredInv, CredTyped
<1>2. /\ c.at = "sent" /\ c.kind \in {"set", "remove"} /\ c.name \in Credentials
      /\ credCache' = credCache /\ credWrites' = credWrites
  BY <1>1 DEF Creds!Create, Creds!Update, Creds!Delete, CredInv, CredTyped
<1> DEFINE row == Creds!Sealed(c.name, c.value)
<1>3. row \in CredRow /\ Fresh(row) /\ Creds!NoRow \in CredRow
  BY <1>2, SealedFacts DEF CredCall, Creds!NoRow, CredRow
<1>4. /\ \/ credRows' = credRows
         \/ \E i : credRows' = [credRows EXCEPT ![i] = row]
         \/ \E i : credRows' = [credRows EXCEPT ![i] = Creds!NoRow]
      /\ \E call \in CredCall : /\ credOps' = [credOps EXCEPT ![o] = call]
                                /\ call.kind = c.kind /\ call.name = c.name
                                /\ call.at \in {"landed", "failed"}
  <2> DEFINE landed == [c EXCEPT !.at = "landed"]
             failed == [c EXCEPT !.at = "failed"]
  <2>1. /\ landed \in CredCall /\ failed \in CredCall
        /\ landed.kind = c.kind /\ failed.kind = c.kind /\ landed.name = c.name /\ failed.name = c.name
        /\ landed.at = "landed" /\ failed.at = "failed"
    BY DEF CredCall, Creds!Places
  <2>2. ASSUME Creds!Go(o, "landed") PROVE credOps' = [credOps EXCEPT ![o] = landed]
    BY <1>1, <2>2 DEF Creds!Go, CredInv, CredTyped
  <2>3. ASSUME Creds!Go(o, "failed") PROVE credOps' = [credOps EXCEPT ![o] = failed]
    BY <1>1, <2>3 DEF Creds!Go, CredInv, CredTyped
  <2>4. CASE Creds!Create(o)
    <3>1. PICK i \in Creds!Ids : /\ credRows' = [credRows EXCEPT ![i] = row]
                                 /\ credOps' = [credOps EXCEPT ![o].id = i, ![o].at = "landed"]
      BY <1>1, <2>4 DEF Creds!Create
    <3> DEFINE call == [c EXCEPT !.id = i, !.at = "landed"]
    <3>2. credOps' = [credOps EXCEPT ![o] = call]
      BY <1>1, <3>1 DEF CredInv, CredTyped
    <3>3. call \in CredCall /\ call.kind = c.kind /\ call.name = c.name /\ call.at = "landed"
      <4>1. PICK n \in 0..MaxRows : n = i
        BY StoresAssumption DEF Creds!Ids
      <4>2. call = [c EXCEPT !.id = n, !.at = "landed"]
        BY <4>1
      <4> HIDE DEF call
      <4> QED BY <4>2 DEF CredCall, Creds!Places
    <3> QED BY <3>1, <3>2, <3>3
  <2>5. CASE Creds!Update(o)
    <3> HIDE DEF landed, failed
    <3>1. \/ credRows' = [credRows EXCEPT ![c.id] = row] /\ Creds!Go(o, "landed")
          \/ credRows' = credRows /\ Creds!Go(o, "failed")
      BY <1>1, <2>5 DEF Creds!Update
    <3> HIDE DEF row
    <3> QED BY <2>1, <2>2, <2>3, <3>1
  <2>6. CASE Creds!Delete(o)
    <3> HIDE DEF landed, failed
    <3>1. credRows' = [credRows EXCEPT ![c.id] = Creds!NoRow] /\ Creds!Go(o, "landed")
      BY <1>1, <2>6 DEF Creds!Delete
    <3> QED BY <2>1, <2>2, <3>1
  <2> QED BY <2>4, <2>5, <2>6
<1> HIDE DEF row
<1>5. /\ credOps' \in [Changes -> CredCall]
      /\ credOps'[o].kind \in {"set", "remove"} /\ credOps'[o].name \in Credentials
      /\ credOps'[o].at \in {"landed", "failed"}
      /\ \A p \in Changes \ {o} : credOps'[p] = credOps[p]
  BY <1>2, <1>4 DEF CredInv, CredTyped
<1>6. /\ credRows' \in [Creds!Ids -> CredRow]
      /\ \A i \in Creds!Ids : credRows'[i] \in {credRows[i], Creds!NoRow} \/ Fresh(credRows'[i])
  BY <1>3, <1>4 DEF CredInv, CredTyped
<1>7. CredTyped'
  BY <1>2, <1>5, <1>6 DEF CredInv, CredTyped
<1>8. RotationInv'
  BY <1>5, <1>6, <1>7, RotationKept
<1> QED BY <1>7, <1>8 DEF CredInv

\* set() and remove() enter what they did.
LEMMA CredSettle ==
  ASSUME CredInv, NEW o \in Changes, Creds!Settle(o)
  PROVE  CredInv'
<1>1. PICK c \in CredCall : c = credOps[o]
  BY DEF CredInv, CredTyped
<1>2. /\ c.at = "landed" /\ c.kind \in {"set", "remove"} /\ Creds!Go(o, "over")
      /\ credRows' = credRows /\ credWrites' = credWrites
      /\ credCache' = [credCache EXCEPT ![c.name] =
           IF c.kind = "set" THEN [id |-> c.id, value |-> c.value] ELSE Creds!NoEntry]
  BY <1>1 DEF Creds!Settle
<1>3. /\ [id |-> c.id, value |-> c.value] \in [id : 0..MaxRows, value : Nat]
      /\ Creds!NoEntry \in [id : 0..MaxRows, value : Nat]
  BY StoresAssumption DEF CredCall, Creds!NoEntry
<1>4. credCache' \in [Credentials -> [id : 0..MaxRows, value : Nat]]
  BY <1>2, <1>3 DEF CredInv, CredTyped
<1>5. "over" \in Creds!Places
  BY DEF Creds!Places
<1> QED BY <1>1, <1>2, <1>4, <1>5, CredGoes

\* rotate() lists the rows.
LEMMA CredList ==
  ASSUME CredInv, NEW o \in Changes, Creds!ListForRotate(o)
  PROVE  CredInv'
<1>1. PICK c \in CredCall : c = credOps[o]
  BY DEF CredInv, CredTyped
<1>2. Creds!Snapshot \in SUBSET [id : Creds!Ids, row : CredRow]
  BY DEF Creds!Snapshot, Creds!Stored, CredInv, CredTyped
<1> DEFINE call == [c EXCEPT !.seen = Creds!Snapshot, !.at = "next"]
<1>3. /\ call \in CredCall /\ call.kind = c.kind /\ call.at = "next" /\ call.name = c.name
      /\ call.seen = Creds!Snapshot
  <2> HIDE DEF Creds!Snapshot
  <2> QED BY <1>2 DEF CredCall, Creds!Places
<1>4. /\ c.at = "list" /\ credOps' = [credOps EXCEPT ![o] = call]
      /\ credRows' = credRows /\ credWrites' = credWrites /\ credCache' = credCache
  BY <1>1 DEF Creds!ListForRotate, CredInv, CredTyped
<1> HIDE DEF call
<1>5. /\ credOps' \in [Changes -> CredCall] /\ credOps'[o] = call
      /\ \A p \in Changes \ {o} : credOps'[p] = credOps[p]
  BY <1>3, <1>4 DEF CredInv, CredTyped
<1>6. c.kind = "rotate"
  BY <1>1, <1>4 DEF CredInv, CredTyped
<1>7. CredTyped'
  BY <1>3, <1>4, <1>5, <1>6 DEF CredInv, CredTyped
<1>8. RotationInv'
  <2>1. \A i \in Creds!Stored : [id |-> i, row |-> credRows[i]] \in call.seen
    BY <1>3 DEF Creds!Snapshot
  <2>2. Creds!Stored' = Creds!Stored
    BY <1>4 DEF Creds!Stored
  <2> QED BY <1>3, <1>4, <1>5, <2>1, <2>2 DEF CredInv, RotationInv
<1> QED BY <1>7, <1>8 DEF CredInv

\* rotate() comes to the next row: it counts it, leaves it, or seals it again.
LEMMA CredRotate ==
  ASSUME CredInv, NEW o \in Changes, Creds!RotateRow(o)
  PROVE  CredInv'
<1>1. PICK c \in CredCall : c = credOps[o]
  BY DEF CredInv, CredTyped
<1>2. PICK s \in c.seen : s = Creds!FirstOf(c.seen)
  <2>1. c.seen \in SUBSET [id : Creds!Ids, row : CredRow] /\ c.seen # {}
    BY <1>1 DEF Creds!RotateRow, CredCall
  <2> QED BY <2>1, FirstFacts
<1>3. s \in [id : Creds!Ids, row : CredRow] /\ s.id \in Creds!Ids /\ s.row \in CredRow
  BY DEF CredCall
<1>4. /\ c.at = "next" /\ c.kind = "rotate"
      /\ credCache' = credCache /\ credWrites' = credWrites
  BY <1>1 DEF Creds!RotateRow, CredInv, CredTyped
<1>5. ASSUME NEW call \in CredCall, credOps' = [credOps EXCEPT ![o] = call],
             call.kind = "rotate", call.name = c.name, call.at = "next",
             call.seen = c.seen \ {s}, call.unread >= c.unread,
             credRows' \in [Creds!Ids -> CredRow],
             \A i \in Creds!Ids : credRows'[i] \in {credRows[i], Creds!NoRow} \/ Fresh(credRows'[i]),
             credRows[s.id] = s.row => Fresh(credRows'[s.id]) \/ call.unread > 0
      PROVE  CredInv'
  <2>1. /\ credOps' \in [Changes -> CredCall] /\ credOps'[o] = call
        /\ \A p \in Changes \ {o} : credOps'[p] = credOps[p]
    BY <1>5 DEF CredInv, CredTyped
  <2>2. CredTyped'
    BY <1>1, <1>4, <1>5, <2>1 DEF CredInv, CredTyped
  <2>3. Creds!Stored' \subseteq Creds!Ids /\ \A i \in Creds!Stored' : i \in Creds!Stored \/ Fresh(credRows'[i])
    BY <1>5 DEF Creds!Stored
  <2>4. ASSUME NEW i \in Creds!Stored'
        PROVE  \/ Fresh(credRows'[i]) \/ call.unread > 0
               \/ [id |-> i, row |-> credRows'[i]] \in call.seen
    <3>1. CASE Fresh(credRows'[i])
      BY <3>1
    <3>2. CASE ~Fresh(credRows'[i])
      <4>1. credRows'[i] = credRows[i] /\ i \in Creds!Stored
        BY <1>5, <2>3, <2>4, <3>2 DEF Creds!Stored
      <4>2. Fresh(credRows[i]) \/ [id |-> i, row |-> credRows[i]] \in c.seen \/ c.unread > 0
        BY <1>1, <1>4, <4>1 DEF CredInv, RotationInv
      <4>3. ASSUME c.unread > 0 PROVE call.unread > 0
        BY <1>5, <4>3 DEF CredCall
      <4>4. ASSUME [id |-> i, row |-> credRows[i]] = s PROVE call.unread > 0
        <5>1. s.id = i /\ s.row = credRows[i]
          BY <4>4
        <5> QED BY <1>5, <3>2, <4>1, <5>1
      <4> QED BY <1>5, <3>2, <4>1, <4>2, <4>3, <4>4
    <3> QED BY <3>1, <3>2
  <2>5. \A p \in Changes \ {o} : credOps'[p].kind = "rotate" =>
          /\ credOps'[p].at = "next" =>
               \A i \in Creds!Stored' : \/ Fresh(credRows'[i])
                                        \/ [id |-> i, row |-> credRows'[i]] \in credOps'[p].seen
                                        \/ credOps'[p].unread > 0
          /\ credOps'[p].at \in {"load", "loading", "over"} /\ credOps'[p].unread = 0 =>
               \A i \in Creds!Stored' : Fresh(credRows'[i])
    BY <1>5, <2>1, <2>3 DEF CredInv, RotationInv, Creds!Stored
  <2>6. RotationInv'
    BY <1>5, <2>1, <2>4, <2>5 DEF RotationInv
  <2> QED BY <2>2, <2>6 DEF CredInv
<1>6. ASSUME NEW call, call = [c EXCEPT !.seen = @ \ {s}],
             credOps' = [credOps EXCEPT ![o] = call],
             credRows' \in [Creds!Ids -> CredRow],
             \A i \in Creds!Ids : credRows'[i] \in {credRows[i], Creds!NoRow} \/ Fresh(credRows'[i]),
             credRows[s.id] = s.row => Fresh(credRows'[s.id])
      PROVE  CredInv'
  <2>1. /\ call \in CredCall /\ call.kind = c.kind /\ call.name = c.name /\ call.at = c.at
        /\ call.seen = c.seen \ {s} /\ call.unread = c.unread
    BY <1>6 DEF CredCall
  <2>2. c.unread >= c.unread
    BY DEF CredCall
  <2> QED BY <1>4, <1>5, <1>6, <2>1, <2>2
<1>7. c.unread \in Nat /\ credRows \in [Creds!Ids -> CredRow] /\ DOMAIN credOps = Changes
  BY DEF CredCall, CredInv, CredTyped
<1>8. CASE ~Creds!Readable(s.row)
  <2>1. /\ credOps' = [credOps EXCEPT ![o].seen = @ \ {s}, ![o].unread = @ + 1]
        /\ credRows' = credRows
    BY <1>1, <1>2, <1>8 DEF Creds!RotateRow
  <2> DEFINE call == [c EXCEPT !.seen = @ \ {s}, !.unread = @ + 1]
  <2>2. credOps' = [credOps EXCEPT ![o] = call]
    BY <1>1, <1>7, <2>1
  <2>3. /\ call \in CredCall /\ call.kind = c.kind /\ call.name = c.name /\ call.at = c.at
        /\ call.seen = c.seen \ {s} /\ call.unread = c.unread + 1
    <3>1. PICK n \in Nat : n = c.unread + 1
      BY <1>7
    <3>2. PICK left \in SUBSET [id : Creds!Ids, row : CredRow] : left = c.seen \ {s}
      BY DEF CredCall
    <3>3. call = [c EXCEPT !.seen = left, !.unread = n]
      BY <3>1, <3>2
    <3> HIDE DEF call
    <3> QED BY <3>1, <3>2, <3>3 DEF CredCall
  <2>4. call.unread >= c.unread /\ call.unread > 0
    BY <1>7, <2>3
  <2> HIDE DEF call
  <2> QED BY <1>4, <1>5, <1>7, <2>1, <2>2, <2>3, <2>4
<1>9. CASE Creds!Readable(s.row) /\ Creds!Skips(s.row)
  <2>1. /\ credOps' = [credOps EXCEPT ![o].seen = @ \ {s}, ![o].unread = @ + 0]
        /\ credRows' = credRows
    BY <1>1, <1>2, <1>9 DEF Creds!RotateRow
  <2>2. credOps'[o] = [c EXCEPT !.seen = @ \ {s}, !.unread = @ + 0]
    BY <1>1, <1>7, <2>1
  <2>3. c.unread + 0 = c.unread
    BY <1>7
  <2>4. credOps'[o] = [c EXCEPT !.seen = @ \ {s}]
    BY <2>2, <2>3 DEF CredCall
  <2>5. credOps' = [credOps EXCEPT ![o] = credOps'[o]]
    BY <1>1, <1>7, <2>1
  <2>6. Fresh(s.row)
    BY <1>9 DEF Creds!Skips, Creds!Readable, Fresh
  <2> QED BY <1>6, <1>7, <2>1, <2>4, <2>5, <2>6
<1>10. CASE Creds!Readable(s.row) /\ ~Creds!Skips(s.row) /\ s.id \in Creds!Stored
  <2>1. /\ credOps' = [credOps EXCEPT ![o].seen = @ \ {s}]
        /\ credRows' = [credRows EXCEPT ![s.id] = Creds!Rotated(s.row)]
    BY <1>1, <1>2, <1>10 DEF Creds!RotateRow
  <2>2. credOps' = [credOps EXCEPT ![o] = [c EXCEPT !.seen = @ \ {s}]]
    BY <1>1, <1>7, <2>1
  <2>3. Creds!Rotated(s.row) \in CredRow /\ Fresh(Creds!Rotated(s.row))
    <3>1. PICK r \in CredRow : r = s.row
      BY <1>3
    <3>2. CASE r.stamp = "none" /\ r.key = "current"
      BY <3>1, <3>2 DEF Creds!Rotated, Fresh, CredRow, Creds!Keys
    <3>3. CASE ~(r.stamp = "none" /\ r.key = "current")
      <4>1. Creds!Rotated(r) = Creds!Sealed(r.name, r.value)
        BY <3>3 DEF Creds!Rotated
      <4> QED BY <3>1, <4>1, SealedFacts DEF CredRow
    <3> QED BY <3>2, <3>3
  <2>4. /\ credRows' \in [Creds!Ids -> CredRow] /\ Fresh(credRows'[s.id])
        /\ \A i \in Creds!Ids \ {s.id} : credRows'[i] = credRows[i]
    BY <1>3, <1>7, <2>1, <2>3
  <2> QED BY <1>6, <1>7, <2>2, <2>4
<1>11. CASE Creds!Readable(s.row) /\ ~Creds!Skips(s.row) /\ s.id \notin Creds!Stored
  <2>1. Creds!Go(o, "failed") /\ credRows' = credRows
    BY <1>1, <1>2, <1>11 DEF Creds!RotateRow
  <2> DEFINE call == [c EXCEPT !.at = "failed"]
  <2>2. call \in CredCall /\ call.kind = "rotate" /\ call.name = c.name /\ call.at = "failed"
    BY <1>4 DEF CredCall, Creds!Places
  <2>3. credOps' = [credOps EXCEPT ![o] = call]
    BY <1>1, <2>1 DEF Creds!Go, CredInv, CredTyped
  <2> HIDE DEF call
  <2>4. CredTyped'
    BY <1>4, <2>1, <2>2, <2>3 DEF CredInv, CredTyped
  <2>5. RotationInv'
    BY <2>1, <2>2, <2>3 DEF CredInv, CredTyped, RotationInv, Creds!Stored
  <2> QED BY <2>4, <2>5 DEF CredInv
<1> QED BY <1>8, <1>9, <1>10, <1>11

\* A warm-up ends, a rotation begins to fill the cache again, a call loads a row or lists them.
LEMMA CredOn ==
  ASSUME CredInv, NEW o \in Changes, Creds!WarmDone(o) \/ Creds!RotateDone(o)
  PROVE  CredInv'
<1>1. CASE Creds!WarmDone(o)
  <2> DEFINE place == IF credOps[o].kind \in {"set", "remove"} THEN "cipher" ELSE "over"
  <2>1. /\ credOps[o].at = "loading" /\ Creds!Go(o, place)
        /\ credRows' = credRows /\ credWrites' = credWrites /\ credCache' = credCache
    BY <1>1 DEF Creds!WarmDone
  <2>2. /\ place \in Creds!Places /\ place \in {"cipher", "over"}
        /\ place = "cipher" => credOps[o].kind \in {"set", "remove"}
        /\ credOps[o].kind = "rotate" => place = "over"
    BY DEF Creds!Places
  <2>3. credCache' \in [Credentials -> [id : 0..MaxRows, value : Nat]]
    BY <2>1 DEF CredInv, CredTyped
  <2> HIDE DEF place
  <2> QED BY <2>1, <2>2, <2>3, CredGoes
<1>2. CASE Creds!RotateDone(o)
  <2>1. /\ credOps[o].at = "next" /\ credOps[o].seen = {} /\ Creds!Go(o, "load")
        /\ credRows' = credRows /\ credWrites' = credWrites
        /\ credCache' = [n \in Credentials |-> Creds!NoEntry]
    BY <1>2 DEF Creds!RotateDone
  <2>2. credCache' \in [Credentials -> [id : 0..MaxRows, value : Nat]]
    BY <2>1, StoresAssumption DEF Creds!NoEntry
  <2>3. "load" \in Creds!Places
    BY DEF Creds!Places
  <2> QED BY <2>1, <2>2, <2>3, CredGoes
<1> QED BY <1>1, <1>2

\* Whoever was cut off is gone; whoever was over stays so.
LEMMA CredCrash == ASSUME CredInv, Creds!Crash PROVE CredInv'
<1> DEFINE gone == [Creds!Idle EXCEPT !.at = "failed"]
<1>1. gone \in CredCall /\ gone.kind = "none" /\ gone.at = "failed"
  <2>1. Creds!Idle \in CredCall /\ Creds!Idle.kind = "none"
    BY StoresAssumption DEF Creds!Idle, CredCall, Creds!Places
  <2>2. PICK idle \in CredCall : idle = Creds!Idle
    BY <2>1
  <2> QED BY <2>1, <2>2 DEF CredCall, Creds!Places
<1> HIDE DEF gone
<1>2. /\ credOps' = [o \in Changes |-> IF credOps[o].at \in {"new", "over", "failed"} THEN credOps[o] ELSE gone]
      /\ credCache' = [n \in Credentials |-> Creds!NoEntry]
      /\ credRows' = credRows /\ credWrites' = credWrites
  BY DEF Creds!Crash, gone
<1>3. /\ credOps' \in [Changes -> CredCall]
      /\ \A o \in Changes : credOps'[o] = credOps[o] \/ credOps'[o] = gone
  BY <1>1, <1>2 DEF CredInv, CredTyped
<1>4. credCache' \in [Credentials -> [id : 0..MaxRows, value : Nat]]
  BY <1>2, StoresAssumption DEF Creds!NoEntry
<1>5. CredTyped'
  BY <1>1, <1>2, <1>3, <1>4 DEF CredInv, CredTyped
<1>6. RotationInv'
  BY <1>1, <1>2, <1>3 DEF CredInv, RotationInv, Creds!Stored
<1> QED BY <1>5, <1>6 DEF CredInv

\* Whatever the store does, a rotation leaves behind what it should.
LEMMA CredStep == ASSUME CredInv, Creds!Next \/ UNCHANGED credVars PROVE CredInv'
<1>1. ASSUME NEW o \in Changes, Creds!BeginSet(o) \/ Creds!BeginRemove(o) \/ Creds!BeginWarm(o) \/ Creds!BeginRotate(o)
      PROVE  CredInv'
  BY <1>1, CredBegin DEF Creds!BeginSet, Creds!BeginRemove, Creds!BeginWarm, Creds!BeginRotate
<1>2. CASE Creds!Finished \/ UNCHANGED credVars
  BY <1>2 DEF Creds!Finished, credVars, Creds!credVars, CredInv, CredTyped, RotationInv, Creds!Stored
<1> QED BY <1>1, <1>2, CredWarm, CredOn, CredLookUp, CredWrite, CredSettle, CredList, CredRotate,
           CredCrash DEF Creds!Next

\* A rotation that counted no unreadable row left every row fresh.
LEMMA CredSafe == ASSUME CredInv PROVE Creds!RotationLeavesNoOldKey
BY DEF CredInv, RotationInv, Creds!RotationLeavesNoOldKey, Fresh

\* Whatever is done to a row leaves it as it was, takes it away or seals it freshly.
LEMMA CredRowsGo ==
  ASSUME CredInv, Creds!Next \/ UNCHANGED credVars
  PROVE  \A i \in Creds!Ids : credRows'[i] \in {credRows[i], Creds!NoRow} \/ Fresh(credRows'[i])
<1>1. credRows \in [Creds!Ids -> CredRow]
  BY DEF CredInv, CredTyped
<1>2. CASE credRows' = credRows
  BY <1>2
<1>3. ASSUME NEW o \in Changes, Creds!Create(o) \/ Creds!Update(o) \/ Creds!Delete(o), credRows' # credRows
      PROVE  \E at, row : /\ credRows' = [credRows EXCEPT ![at] = row]
                          /\ row = Creds!NoRow \/ Fresh(row)
  <2> DEFINE row == Creds!Sealed(credOps[o].name, credOps[o].value)
  <2>1. Fresh(row)
    BY DEF Creds!Sealed, Fresh
  <2> HIDE DEF row
  <2>2. \E at : credRows' = [credRows EXCEPT ![at] = row] \/ credRows' = [credRows EXCEPT ![at] = Creds!NoRow]
    BY <1>3 DEF Creds!Create, Creds!Update, Creds!Delete, row
  <2> QED BY <2>1, <2>2
<1>4. ASSUME NEW o \in Changes, Creds!RotateRow(o), credRows' # credRows
      PROVE  \E at, row : /\ credRows' = [credRows EXCEPT ![at] = row]
                          /\ row = Creds!NoRow \/ Fresh(row)
  <2>1. PICK s : s = Creds!FirstOf(credOps[o].seen)
    OBVIOUS
  <2>2. /\ credOps[o].seen # {} /\ credOps[o].at = "next"
        /\ credRows' = [credRows EXCEPT ![s.id] = Creds!Rotated(s.row)]
    BY <1>4, <2>1 DEF Creds!RotateRow
  <2>3. s \in credOps[o].seen /\ credOps[o].seen \in SUBSET [id : Creds!Ids, row : CredRow]
    <3>1. credOps[o].seen \in SUBSET [id : Creds!Ids, row : CredRow]
      BY DEF CredInv, CredTyped, CredCall
    <3> QED BY <2>1, <2>2, <3>1, FirstFacts
  <2>4. PICK r \in CredRow : r = s.row
    BY <2>3
  <2>5. Fresh(Creds!Rotated(r))
    BY DEF Creds!Rotated, Creds!Sealed, Fresh, CredRow
  <2> QED BY <2>2, <2>4, <2>5
<1>5. ASSUME NEW o \in Changes,
             \/ \E kind, name, place : Creds!Begin(o, kind, name, place)
             \/ Creds!ListForWarm(o) \/ Creds!LoadRow(o) \/ Creds!WarmDone(o) \/ Creds!LookUp(o) \/ Creds!Settle(o)
             \/ Creds!ListForRotate(o) \/ Creds!RotateDone(o)
      PROVE  credRows' = credRows
  <2>1. ASSUME NEW kind, NEW name, NEW place, Creds!Begin(o, kind, name, place) PROVE credRows' = credRows
    BY <2>1 DEF Creds!Begin
  <2>2. CASE Creds!ListForWarm(o) \/ Creds!LoadRow(o) \/ Creds!WarmDone(o)
    BY <2>2 DEF Creds!ListForWarm, Creds!LoadRow, Creds!WarmDone
  <2>3. CASE Creds!LookUp(o)
    BY <2>3 DEF Creds!LookUp
  <2>4. CASE Creds!Settle(o) \/ Creds!ListForRotate(o) \/ Creds!RotateDone(o)
    BY <2>4 DEF Creds!Settle, Creds!ListForRotate, Creds!RotateDone
  <2> QED BY <1>5, <2>1, <2>2, <2>3, <2>4
<1>7. ASSUME NEW o \in Changes, Creds!BeginSet(o) \/ Creds!BeginRemove(o) \/ Creds!BeginWarm(o) \/ Creds!BeginRotate(o)
      PROVE  \E kind, name, place : Creds!Begin(o, kind, name, place)
  <2>1. CASE Creds!BeginSet(o) \/ Creds!BeginRemove(o)
    BY <2>1 DEF Creds!BeginSet, Creds!BeginRemove
  <2>2. CASE Creds!BeginWarm(o) \/ Creds!BeginRotate(o)
    BY <2>2 DEF Creds!BeginWarm, Creds!BeginRotate
  <2> QED BY <1>7, <2>1, <2>2
<1>8. CASE Creds!Crash \/ Creds!Finished \/ UNCHANGED credVars
  BY <1>2, <1>8 DEF Creds!Crash, Creds!Finished, Creds!credVars, credVars
<1>6. CASE \E at, row : /\ credRows' = [credRows EXCEPT ![at] = row]
                        /\ row = Creds!NoRow \/ Fresh(row)
  BY <1>1, <1>6
<1> QED BY <1>2, <1>3, <1>4, <1>5, <1>6, <1>7, <1>8 DEF Creds!Next

\* No row that a held key opened becomes unreadable.
LEMMA CredReadable ==
  ASSUME CredInv, Creds!Next \/ UNCHANGED credVars, NEW i \in Creds!Ids, Creds!Readable(credRows[i])
  PROVE  credRows'[i] = Creds!NoRow \/ Creds!Readable(credRows'[i])
<1>1. Fresh(credRows'[i]) => Creds!Readable(credRows'[i])
  BY DEF Fresh, Creds!Readable, Creds!Keys
<1> QED BY <1>1, CredRowsGo

-----------------------------------------------------------------------------
(* The minted secrets (kernel/http-exchange.ts) over the credential store *)

SecretEntry == [row : Nat, value : Nat \ {0}]
SecretPlaces == {"idle", "store", "resolve", "over", "row", "landed", "list", "load", "listOld", "reseal"}
SecretKinds == {"none", "get", "set", "take", "rotate", "persist", "forget", "warm", "reseal"}

SecretTyped ==
  /\ secretRows \in SUBSET SecretEntry /\ secretCached \in SecretEntry \cup {Secret!NoEntry}
  /\ secretMinted \in Nat /\ secretMade \in Nat /\ secretRotated \in Nat
  /\ secretOrderly \in BOOLEAN
  /\ secretKind \in [SecretOps -> SecretKinds] /\ secretAt \in [SecretOps -> SecretPlaces]
  /\ secretCarried \in [SecretOps -> SUBSET SecretEntry]
  /\ secretFloor \in [SecretOps -> Nat] /\ secretAnswer \in [SecretOps -> Nat]

\* A value as new as the rotations that were over when anyone began, and as the last.
SecretGood(v) == v >= secretRotated /\ \A o \in SecretOps : v >= secretFloor[o]

\* Every value that may be answered is, and none is minted while a rotation writes.
SecretValues ==
  /\ secretRotated <= secretMade /\ \A o \in SecretOps : secretFloor[o] <= secretMade
  /\ Secret!Rotating => secretMinted = 0
  /\ secretMinted # 0 => SecretGood(secretMinted)
  /\ secretCached # Secret!NoEntry => SecretGood(secretCached.value)
  /\ \A e \in secretRows : SecretGood(e.value) /\ e.value <= secretMade

\* The cache knows the one row there is.
SecretSynced == secretRows = {secretCached} \ {Secret!NoEntry}

\* What a call in the store holds and what the cache knows meanwhile.
SecretPhase(o) ==
  /\ secretAt[o] \in {"row", "listOld", "reseal"} => SecretSynced
  /\ secretAt[o] = "row" /\ secretKind[o] = "forget" => secretCarried[o] = {secretCached}
  /\ secretAt[o] = "landed" /\ Secret!Rotates(o) => secretRows = secretCarried[o] /\ secretCarried[o] # {}
  /\ secretAt[o] = "landed" /\ secretKind[o] = "forget" => secretRows = {}
  /\ secretAt[o] = "list" => secretCached = Secret!NoEntry
  /\ secretAt[o] = "load" => IF secretCarried[o] = {} THEN SecretSynced ELSE secretCarried[o] = secretRows
  /\ secretAt[o] = "reseal" => secretCarried[o] \subseteq secretRows

\* One call is in the store at a time, and with none in it the cache knows the row.
SecretPhases ==
  /\ \A a, b \in SecretOps : secretAt[a] \in Secret!InStore /\ secretAt[b] \in Secret!InStore => a = b
  /\ ~Secret!StoreBusy => SecretSynced
  /\ \A e, f \in secretRows : e = f
  /\ \A o \in SecretOps : SecretPhase(o)

\* Who has not answered has no answer, and an answer is no older than it may be.
SecretAnswers == \A o \in SecretOps :
  /\ secretAt[o] # "over" => secretAnswer[o] = 0
  /\ secretAnswer[o] # 0 => secretAnswer[o] >= secretFloor[o]

SecretSound == SecretValues /\ SecretPhases /\ SecretAnswers

\* What every reader is owed, as long as the calls of the store did not overlap.
SecretInv == SecretTyped /\ (secretOrderly => SecretSound)

\* It holds of the first state.
LEMMA SecretInit == ASSUME Secret!Init PROVE SecretInv
<1>1. secretCached = [row |-> 1, value |-> 1] /\ secretCached # Secret!NoEntry /\ secretRows = {secretCached}
  BY DEF Secret!Init, Secret!NoEntry
<1>2. SecretTyped
  BY <1>1 DEF Secret!Init, SecretTyped, SecretEntry, SecretPlaces, SecretKinds
<1>3. SecretValues
  BY <1>1 DEF Secret!Init, SecretValues, SecretGood, Secret!Rotating
<1>4. SecretPhases
  BY <1>1 DEF Secret!Init, SecretPhases, SecretPhase, SecretSynced, Secret!InStore
<1>5. SecretAnswers
  BY DEF Secret!Init, SecretAnswers
<1> QED BY <1>1, <1>2, <1>3, <1>4, <1>5 DEF SecretInv, SecretSound

\* Its values have their types at every step.
LEMMA SecretTypes == ASSUME SecretTyped, Secret!Next \/ UNCHANGED secretVars PROVE SecretTyped'
<1> USE DEF SecretTyped
<1>1. /\ {"store", "resolve", "over", "row", "landed", "list", "load", "listOld", "reseal"} \subseteq SecretPlaces
      /\ "warm" \in SecretKinds /\ "reseal" \in SecretKinds
  BY DEF SecretPlaces, SecretKinds
<1>2. ASSUME NEW o \in SecretOps, NEW place \in SecretPlaces, NEW holds \in SUBSET SecretEntry,
             Secret!Goes(o, place, holds)
      PROVE  /\ secretAt' \in [SecretOps -> SecretPlaces]
             /\ secretCarried' \in [SecretOps -> SUBSET SecretEntry]
  BY <1>2 DEF Secret!Goes
<1>3. CASE Secret!Expire \/ UNCHANGED secretVars
  BY <1>3 DEF Secret!Expire, secretVars
<1>4. ASSUME NEW o \in SecretOps, NEW k \in SecretKinds, Secret!Begin(o, k) PROVE SecretTyped'
  BY <1>1, <1>2, <1>4 DEF Secret!Begin
<1>5. ASSUME NEW o \in SecretOps, Secret!Get(o) \/ Secret!Resolve(o) \/ Secret!Take(o) PROVE SecretTyped'
  <2>1. secretCached.value \in Nat
    BY DEF SecretEntry, Secret!NoEntry
  <2>2. CASE Secret!Get(o)
    BY <1>1, <1>2, <2>2 DEF Secret!Get, Secret!Over
  <2>3. CASE Secret!Resolve(o)
    BY <1>1, <1>2, <2>1, <2>3 DEF Secret!Resolve, Secret!Over
  <2>4. CASE Secret!Take(o)
    BY <1>1, <1>2, <2>4 DEF Secret!Take, Secret!Over
  <2> QED BY <1>5, <2>2, <2>3, <2>4
<1>6. ASSUME NEW o \in SecretOps, NEW lasts \in BOOLEAN, Secret!Set(o, lasts) PROVE SecretTyped'
  BY <1>1, <1>2, <1>6 DEF Secret!Set, Secret!Over
<1>7. ASSUME NEW o \in SecretOps, Secret!RotateClears(o) PROVE SecretTyped'
  <2>1. secretOrderly' \in BOOLEAN
    BY <1>7, Zenon DEF Secret!RotateClears, Secret!EntersStore
  <2> QED BY <1>1, <1>2, <1>7, <2>1 DEF Secret!RotateClears, Secret!Over, Secret!EntersStore, Secret!Cleared
<1>8. ASSUME NEW o \in SecretOps, Secret!RotateWrites(o) PROVE SecretTyped'
  <2>1. secretMade' = secretMade + 1 /\ secretMade' \in Nat \ {0}
    BY <1>8 DEF Secret!RotateWrites
  <2>2. PICK new : /\ new = [row |-> IF secretCached = Secret!NoEntry THEN secretMade' ELSE secretCached.row,
                             value |-> secretMade']
                   /\ secretRows' = Secret!Without(new.row) \cup {new}
                   /\ Secret!Goes(o, "landed", {new})
    BY <1>8 DEF Secret!RotateWrites
  <2>3. new \in SecretEntry
    BY <2>1, <2>2 DEF SecretEntry
  <2>4. secretRows' \in SUBSET SecretEntry
    BY <2>2, <2>3 DEF Secret!Without
  <2>5. UNCHANGED <<secretCached, secretMinted, secretRotated, secretKind, secretFloor, secretAnswer, secretOrderly>>
    BY <1>8 DEF Secret!RotateWrites
  <2>6. secretAt' \in [SecretOps -> SecretPlaces] /\ secretCarried' \in [SecretOps -> SUBSET SecretEntry]
    BY <1>1, <1>2, <2>2, <2>3
  <2> QED BY <2>1, <2>4, <2>5, <2>6
<1>9. ASSUME NEW o \in SecretOps, Secret!RotateEnds(o) PROVE SecretTyped'
  BY <1>1, <1>2, <1>9 DEF Secret!RotateEnds, Secret!Over, SecretEntry
<1>10. ASSUME NEW o \in SecretOps, Secret!ForgetClears(o) \/ Secret!ForgetRemoves(o) \/ Secret!ForgetEnds(o)
       PROVE  SecretTyped'
  <2>1. CASE Secret!ForgetClears(o)
    <3>1. secretOrderly' \in BOOLEAN
      BY <2>1, Zenon DEF Secret!ForgetClears, Secret!EntersStore
    <3> QED BY <1>1, <1>2, <2>1, <3>1 DEF Secret!ForgetClears, Secret!Over, Secret!EntersStore
  <2>2. CASE Secret!ForgetRemoves(o)
    BY <1>1, <1>2, <2>2 DEF Secret!ForgetRemoves
  <2>3. CASE Secret!ForgetEnds(o)
    BY <1>1, <1>2, <2>3 DEF Secret!ForgetEnds, Secret!Over
  <2> QED BY <1>10, <2>1, <2>2, <2>3
<1>11. ASSUME NEW o \in SecretOps, Secret!Warm(o) \/ Secret!Reseal(o) \/ Secret!StoreFails(o) PROVE SecretTyped'
  <2>1. secretOrderly' \in BOOLEAN
    BY <1>11, Zenon DEF Secret!Warm, Secret!Reseal, Secret!StoreFails, Secret!EntersStore
  <2>2. CASE Secret!Warm(o)
    BY <1>1, <1>2, <2>1, <2>2 DEF Secret!Warm, Secret!EntersStore
  <2>3. CASE Secret!Reseal(o)
    BY <1>1, <1>2, <2>1, <2>3 DEF Secret!Reseal, Secret!EntersStore
  <2>4. CASE Secret!StoreFails(o)
    BY <1>1, <1>2, <2>1, <2>4 DEF Secret!StoreFails, Secret!Over
  <2> QED BY <1>11, <2>2, <2>3, <2>4
<1>12. ASSUME NEW o \in SecretOps, Secret!WarmLists(o) \/ Secret!WarmEnds(o) \/ Secret!ResealLists(o) \/ Secret!ResealWarms(o)
       PROVE  SecretTyped'
  <2>1. CASE Secret!WarmLists(o)
    BY <1>1, <1>2, <2>1 DEF Secret!WarmLists
  <2>2. CASE Secret!WarmEnds(o)
    BY <1>1, <1>2, <2>2 DEF Secret!WarmEnds, Secret!Over
  <2>3. CASE Secret!ResealLists(o)
    BY <1>1, <1>2, <2>3 DEF Secret!ResealLists
  <2>4. CASE Secret!ResealWarms(o)
    BY <1>1, <1>2, <2>4 DEF Secret!ResealWarms
  <2> QED BY <1>12, <2>1, <2>2, <2>3, <2>4
<1>13. ASSUME NEW o \in SecretOps, NEW e \in secretCarried[o], Secret!WarmOpens(o, e) \/ Secret!ResealRow(o, e)
       PROVE  SecretTyped'
  <2>1. e \in SecretEntry /\ secretCarried[o] \ {e} \in SUBSET SecretEntry
    BY <1>13
  <2>2. CASE Secret!WarmOpens(o, e)
    BY <1>1, <1>2, <2>1, <2>2 DEF Secret!WarmOpens
  <2>3. CASE Secret!ResealRow(o, e)
    BY <1>1, <1>2, <2>1, <2>3 DEF Secret!ResealRow, Secret!Without
  <2> QED BY <1>13, <2>2, <2>3
<1> HIDE DEF SecretTyped
<1>14. {"get", "set", "take", "rotate", "persist", "forget", "warm", "reseal"} \subseteq SecretKinds
  BY DEF SecretKinds
<1> QED BY <1>3, <1>4, <1>5, <1>6, <1>7, <1>8, <1>9, <1>10, <1>11, <1>12, <1>13, <1>14 DEF Secret!Next

\* One operation stays outside the store, where nothing changes.
LEMMA SecretOutside ==
  ASSUME SecretTyped, SecretPhases, NEW o \in SecretOps, NEW place \in SecretPlaces \ Secret!InStore,
         secretAt[o] \notin Secret!InStore, Secret!Goes(o, place, {}),
         \A p \in SecretOps : p # o => secretKind'[p] = secretKind[p],
         UNCHANGED <<secretRows, secretCached>>
  PROVE  SecretPhases'
<1>1. /\ secretAt'[o] = place
      /\ \A p \in SecretOps : p # o => secretAt'[p] = secretAt[p] /\ secretCarried'[p] = secretCarried[p]
  BY DEF Secret!Goes, SecretTyped
<1>2. SecretSynced' <=> SecretSynced
  BY DEF SecretSynced
<1>3. ASSUME NEW p \in SecretOps PROVE SecretPhase(p)'
  <2>1. CASE p = o
    BY <1>1, <2>1 DEF SecretPhase, Secret!InStore
  <2>2. CASE p # o
    <3>1. SecretPhase(p) /\ secretKind'[p] = secretKind[p]
      BY <2>2 DEF SecretPhases
    <3> QED BY <1>1, <1>2, <2>2, <3>1 DEF SecretPhase, Secret!Rotates
  <2> QED BY <2>1, <2>2
<1>4. ~Secret!StoreBusy' => ~Secret!StoreBusy
  BY <1>1 DEF Secret!StoreBusy
<1> QED BY <1>1, <1>2, <1>3, <1>4 DEF SecretPhases

\* One call enters the store, goes on in it or leaves it, with no other in it.
LEMMA SecretInside ==
  ASSUME SecretTyped, SecretPhases, NEW o \in SecretOps, NEW place \in SecretPlaces,
         NEW holds \in SUBSET SecretEntry,
         secretAt[o] \in Secret!InStore \/ ~Secret!StoreBusy, Secret!Goes(o, place, holds),
         \A e, f \in secretRows' : e = f,
         place \notin Secret!InStore => SecretSynced', SecretPhase(o)'
  PROVE  SecretPhases'
<1>1. /\ secretAt'[o] = place
      /\ \A p \in SecretOps : p # o => secretAt'[p] = secretAt[p]
  BY DEF Secret!Goes, SecretTyped
<1>2. \A p \in SecretOps : p # o => secretAt'[p] \notin Secret!InStore
  BY <1>1 DEF SecretPhases, Secret!StoreBusy
<1>3. \A p \in SecretOps : p # o => SecretPhase(p)'
  BY <1>2 DEF SecretPhase, Secret!InStore
<1> QED BY <1>1, <1>2, <1>3 DEF SecretPhases, Secret!StoreBusy

\* Whoever steps without an answer has none.
LEMMA SecretUnanswered ==
  ASSUME SecretTyped, SecretAnswers, NEW o \in SecretOps, NEW place \in SecretPlaces, NEW holds,
         Secret!Goes(o, place, holds), secretAt[o] # "over",
         UNCHANGED <<secretFloor, secretAnswer>>
  PROVE  SecretAnswers'
BY DEF Secret!Goes, SecretTyped, SecretAnswers

\* What the operations of the secret do outside the store.
LEMMA SecretOperations ==
  ASSUME SecretTyped, SecretSound, NEW o \in SecretOps, NEW k \in SecretKinds, NEW lasts \in BOOLEAN,
         Secret!Begin(o, k) \/ Secret!Get(o) \/ Secret!Resolve(o) \/ Secret!Set(o, lasts) \/ Secret!Take(o)
  PROVE  SecretSound'
<1>1. /\ {"store", "resolve", "over"} \subseteq SecretPlaces \ Secret!InStore
      /\ "idle" \notin Secret!InStore
  BY DEF SecretPlaces, Secret!InStore
<1>2. CASE Secret!Begin(o, k)
  <2>1. SecretPhases'
    BY <1>1, <1>2, SecretOutside DEF Secret!Begin, SecretSound, SecretTyped
  <2>2. SecretAnswers'
    BY <1>2 DEF Secret!Begin, Secret!Goes, SecretSound, SecretAnswers, SecretTyped
  <2>3. Secret!Rotating' => Secret!Rotating
    BY <1>2 DEF Secret!Begin, Secret!Goes, Secret!Rotating, Secret!Rotates, SecretTyped
  <2>4. \A v \in Nat : SecretGood(v) => SecretGood(v)'
    BY <1>2 DEF Secret!Begin, SecretGood, SecretTyped
  <2>5. secretCached # Secret!NoEntry => secretCached.value \in Nat
    BY DEF SecretTyped, SecretEntry
  <2>6. \A e \in secretRows : e.value \in Nat
    BY DEF SecretTyped, SecretEntry
  <2>7. secretRotated' <= secretMade' /\ \A p \in SecretOps : secretFloor'[p] <= secretMade'
    BY <1>2 DEF Secret!Begin, SecretSound, SecretValues, SecretTyped
  <2>8. UNCHANGED <<secretRows, secretCached, secretMinted, secretMade>>
    BY <1>2 DEF Secret!Begin
  <2>9. SecretValues'
    BY <2>3, <2>4, <2>5, <2>6, <2>7, <2>8 DEF SecretSound, SecretValues, SecretTyped
  <2> QED BY <2>1, <2>2, <2>9 DEF SecretSound
<1>3. ASSUME NEW place \in {"resolve", "over"}, Secret!Goes(o, place, {}), secretAt[o] \in {"store", "resolve"},
             UNCHANGED <<secretRows, secretCached, secretKind, secretFloor, secretRotated>>,
             secretMade' \in Nat, secretMade' >= secretMade, secretMinted' \in Nat,
             secretMinted' # 0 => SecretGood(secretMinted'),
             Secret!Rotating => secretMinted' = 0,
             \/ UNCHANGED secretAnswer
             \/ \E v \in Nat : /\ secretAnswer' = [secretAnswer EXCEPT ![o] = v]
                             /\ place = "over" /\ (v # 0 => SecretGood(v))
      PROVE  SecretSound'
  <2>1. SecretPhases'
    BY <1>1, <1>3, SecretOutside DEF Secret!InStore, SecretSound
  <2>2. SecretAnswers'
    BY <1>3 DEF Secret!Goes, SecretSound, SecretAnswers, SecretGood, SecretTyped
  <2>3. Secret!Rotating' => Secret!Rotating
    BY <1>3 DEF Secret!Goes, Secret!Rotating, Secret!Rotates, SecretTyped
  <2>4. \A v \in Nat : SecretGood(v)' <=> SecretGood(v)
    BY <1>3 DEF SecretGood
  <2>5. /\ secretCached # Secret!NoEntry => secretCached.value \in Nat
        /\ \A e \in secretRows : e.value \in Nat
    BY DEF SecretTyped, SecretEntry
  <2>6. /\ secretRotated' <= secretMade' /\ \A p \in SecretOps : secretFloor'[p] <= secretMade'
        /\ \A e \in secretRows : e.value <= secretMade'
    BY <1>3, <2>5 DEF SecretSound, SecretValues, SecretTyped
  <2>7. SecretValues'
    BY <1>3, <2>3, <2>4, <2>5, <2>6 DEF SecretSound, SecretValues
  <2> QED BY <2>1, <2>2, <2>7 DEF SecretSound
<1>4. /\ secretMinted # 0 => SecretGood(secretMinted)
      /\ Secret!Rotating => secretMinted = 0
      /\ secretCached.value # 0 => SecretGood(secretCached.value)
      /\ secretCached.value \in Nat
  BY DEF SecretSound, SecretValues, SecretTyped, SecretEntry, Secret!NoEntry
<1>5. secretMade \in Nat /\ secretMade >= secretMade /\ secretMinted \in Nat
  BY DEF SecretTyped
<1>6. CASE Secret!Get(o)
  <2>1. /\ secretAt[o] = "store"
        /\ UNCHANGED <<secretRows, secretCached, secretKind, secretFloor, secretRotated, secretMade>>
    BY <1>6 DEF Secret!Get, Secret!Arrives
  <2>2. CASE Secret!Valid
    <3>1. /\ Secret!Goes(o, "over", {}) /\ secretAnswer' = [secretAnswer EXCEPT ![o] = secretMinted]
          /\ UNCHANGED secretMinted
      BY <1>6, <2>2 DEF Secret!Get, Secret!Over
    <3> QED BY <1>3, <1>4, <1>5, <2>1, <3>1
  <2>3. CASE ~Secret!Valid
    <3>1. Secret!Goes(o, "resolve", {}) /\ UNCHANGED secretAnswer /\ secretMinted' = 0
      BY <1>6, <2>3 DEF Secret!Get
    <3> QED BY <1>3, <1>5, <2>1, <3>1
  <2> QED BY <2>2, <2>3
<1>7. CASE Secret!Resolve(o)
  <2>1. /\ secretAt[o] = "resolve" /\ Secret!Goes(o, "over", {})
        /\ secretAnswer' = [secretAnswer EXCEPT ![o] = secretCached.value]
        /\ UNCHANGED <<secretRows, secretCached, secretKind, secretFloor, secretRotated, secretMade, secretMinted>>
    BY <1>7 DEF Secret!Resolve, Secret!Over
  <2> QED BY <1>3, <1>4, <1>5, <2>1
<1>8. CASE Secret!Set(o, lasts)
  <2>1. /\ secretAt[o] = "store" /\ Secret!Goes(o, "over", {}) /\ ~Secret!Rotating
        /\ UNCHANGED <<secretRows, secretCached, secretKind, secretFloor, secretRotated, secretAnswer>>
        /\ \/ secretMade' = secretMade + 1 /\ secretMinted' = secretMade'
           \/ secretMade' = secretMade /\ secretMinted' = 0
    BY <1>8 DEF Secret!Set, Secret!Arrives, Secret!Over
  <2>2. secretMade + 1 \in Nat /\ secretMade + 1 >= secretMade /\ SecretGood(secretMade + 1)
    BY DEF SecretSound, SecretValues, SecretGood, SecretTyped
  <2>3. CASE secretMade' = secretMade + 1 /\ secretMinted' = secretMade'
    BY <1>3, <2>1, <2>2, <2>3
  <2>4. CASE secretMade' = secretMade /\ secretMinted' = 0
    BY <1>3, <1>5, <2>1, <2>4
  <2> QED BY <2>1, <2>3, <2>4
<1>9. CASE Secret!Take(o)
  <2>1. /\ secretAt[o] = "store" /\ Secret!Goes(o, "over", {}) /\ secretMinted' = 0
        /\ secretAnswer' = [secretAnswer EXCEPT ![o] = IF Secret!Valid THEN secretMinted ELSE 0]
        /\ UNCHANGED <<secretRows, secretCached, secretKind, secretFloor, secretRotated, secretMade>>
    BY <1>9 DEF Secret!Take, Secret!Arrives, Secret!Over
  <2>2. PICK v \in Nat : v = (IF Secret!Valid THEN secretMinted ELSE 0) /\ (v # 0 => SecretGood(v))
    BY <1>4, <1>5
  <2> QED BY <1>3, <1>5, <2>1, <2>2
<1> QED BY <1>2, <1>6, <1>7, <1>8, <1>9

\* The values do not change, while one call goes on in the store or leaves it.
LEMMA SecretValuesStay ==
  ASSUME SecretTyped, SecretValues,
         UNCHANGED <<secretRows, secretMade, secretFloor, secretRotated>>,
         secretCached' \in {secretCached, Secret!NoEntry} \cup secretRows,
         \/ UNCHANGED secretMinted /\ (Secret!Rotating' => Secret!Rotating)
         \/ secretMinted' = 0
  PROVE  SecretValues'
<1>1. \A v \in Nat : SecretGood(v)' <=> SecretGood(v)
  BY DEF SecretGood
<1>2. /\ secretCached # Secret!NoEntry => secretCached.value \in Nat
      /\ \A e \in secretRows : e.value \in Nat
  BY DEF SecretTyped, SecretEntry
<1>3. (secretCached # Secret!NoEntry => SecretGood(secretCached.value))'
  BY <1>1, <1>2 DEF SecretValues
<1>4. (secretMinted # 0 => SecretGood(secretMinted))'
  BY <1>1 DEF SecretValues, SecretTyped
<1> QED BY <1>1, <1>2, <1>3, <1>4 DEF SecretValues

\* A rotation of the secret: it clears what is minted, writes the row and caches it.
LEMMA SecretRotates ==
  ASSUME SecretTyped, SecretSound, NEW o \in SecretOps,
         Secret!RotateClears(o) \/ Secret!RotateWrites(o) \/ Secret!RotateEnds(o), secretOrderly'
  PROVE  SecretSound'
<1>1. CASE Secret!RotateClears(o)
  <2>1. /\ secretAt[o] = "store" /\ Secret!Rotates(o)
        /\ UNCHANGED <<secretRows, secretCached, secretMade, secretKind, secretFloor, secretAnswer, secretRotated>>
    BY <1>1 DEF Secret!RotateClears
  <2>2. CASE secretKind[o] = "rotate" /\ secretCached = Secret!NoEntry
    <3>1. Secret!Goes(o, "over", {}) /\ UNCHANGED secretMinted
      BY <1>1, <2>2 DEF Secret!RotateClears, Secret!Over
    <3>2. SecretPhases' /\ SecretAnswers'
      BY <2>1, <3>1, SecretOutside, SecretUnanswered DEF SecretSound, SecretPlaces, Secret!InStore
    <3>3. Secret!Rotating' => Secret!Rotating
      BY <2>1, <3>1 DEF Secret!Goes, Secret!Rotating, Secret!Rotates, SecretTyped
    <3> QED BY <2>1, <3>1, <3>2, <3>3, SecretValuesStay DEF SecretSound
  <2>3. CASE ~(secretKind[o] = "rotate" /\ secretCached = Secret!NoEntry)
    <3>1. Secret!Goes(o, "row", {}) /\ secretMinted' = 0 /\ ~Secret!StoreBusy
      BY <1>1, <2>3 DEF Secret!RotateClears, Secret!EntersStore, Secret!Cleared
    <3>2. SecretAnswers'
      BY <2>1, <3>1, SecretUnanswered DEF SecretSound, SecretPlaces
    <3>3. SecretValues'
      BY <2>1, <3>1, SecretValuesStay DEF SecretSound
    <3>4. SecretSynced' /\ secretAt'[o] = "row" /\ secretKind'[o] # "forget"
      BY <2>1, <3>1 DEF SecretSound, SecretPhases, SecretSynced, Secret!Goes, Secret!Rotates, SecretTyped
    <3>5. SecretPhase(o)'
      BY <3>4 DEF SecretPhase
    <3>6. \A e, f \in secretRows' : e = f
      BY <2>1 DEF SecretSound, SecretPhases
    <3>7. SecretPhases'
      BY <2>1, <3>1, <3>4, <3>5, <3>6, SecretInside DEF SecretSound, SecretPlaces
    <3> QED BY <3>2, <3>3, <3>7 DEF SecretSound
  <2> QED BY <2>2, <2>3
<1>2. CASE Secret!RotateWrites(o)
  <2>1. /\ secretAt[o] = "row" /\ Secret!Rotates(o) /\ secretMade' = secretMade + 1
        /\ UNCHANGED <<secretCached, secretMinted, secretKind, secretFloor, secretAnswer, secretRotated>>
    BY <1>2 DEF Secret!RotateWrites
  <2>2. PICK new : /\ new = [row |-> IF secretCached = Secret!NoEntry THEN secretMade' ELSE secretCached.row,
                             value |-> secretMade']
                   /\ secretRows' = Secret!Without(new.row) \cup {new}
                   /\ Secret!Goes(o, "landed", {new})
    BY <1>2 DEF Secret!RotateWrites
  <2>3. new.value = secretMade + 1 /\ new \in SecretEntry
        /\ (secretCached # Secret!NoEntry => new.row = secretCached.row)
    BY <2>1, <2>2 DEF SecretEntry, SecretTyped
  <2>4. secretRows' = {new}
    <3>1. SecretSynced
      BY <2>1 DEF SecretSound, SecretPhases, SecretPhase
    <3>2. Secret!Without(new.row) = {}
      BY <2>3, <3>1 DEF Secret!Without, SecretSynced
    <3> QED BY <2>2, <3>2
  <2>5. SecretAnswers'
    BY <2>1, <2>2, SecretUnanswered DEF SecretSound, SecretPlaces
  <2>6. /\ secretAt'[o] = "landed" /\ secretKind'[o] # "forget" /\ secretCarried'[o] = {new}
    BY <2>1, <2>2 DEF Secret!Goes, Secret!Rotates, SecretTyped
  <2>7. SecretPhase(o)'
    BY <2>4, <2>6 DEF SecretPhase
  <2>8. SecretPhases'
    BY <2>1, <2>2, <2>3, <2>4, <2>7, SecretInside DEF SecretSound, SecretPlaces, Secret!InStore
  <2>9. SecretValues'
    <3>1. Secret!Rotating /\ secretMinted' = 0
      BY <2>1 DEF Secret!Rotating, SecretSound, SecretValues
    <3>2. /\ secretRotated' <= secretMade' /\ \A p \in SecretOps : secretFloor'[p] <= secretMade'
          /\ SecretGood(new.value)' /\ new.value <= secretMade'
      BY <2>1, <2>3 DEF SecretSound, SecretValues, SecretGood, SecretTyped
    <3>3. (secretCached # Secret!NoEntry => SecretGood(secretCached.value))'
      BY <2>1 DEF SecretSound, SecretValues, SecretGood
    <3> QED BY <2>4, <3>1, <3>2, <3>3 DEF SecretValues
  <2> QED BY <2>5, <2>8, <2>9 DEF SecretSound
<1>3. CASE Secret!RotateEnds(o)
  <2>1. PICK new \in secretCarried[o] : secretCached' = new /\ secretRotated' = new.value
    BY <1>3 DEF Secret!RotateEnds
  <2>2. /\ secretAt[o] = "landed" /\ Secret!Rotates(o) /\ Secret!Goes(o, "over", {})
        /\ UNCHANGED <<secretRows, secretMinted, secretMade, secretKind, secretFloor, secretAnswer>>
    BY <1>3 DEF Secret!RotateEnds, Secret!Over
  <2>3. new \in secretRows /\ \A e \in secretRows : e = new
    BY <2>1, <2>2 DEF SecretSound, SecretPhases, SecretPhase
  <2>4. new \in SecretEntry /\ new # Secret!NoEntry
    BY <2>3 DEF SecretTyped, SecretEntry, Secret!NoEntry
  <2>5. SecretSynced'
    BY <2>1, <2>2, <2>3, <2>4 DEF SecretSynced
  <2>6. secretAt'[o] = "over"
    BY <2>2 DEF Secret!Goes, SecretTyped
  <2>7. SecretPhase(o)'
    BY <2>6 DEF SecretPhase
  <2>8. SecretPhases'
    BY <2>2, <2>3, <2>5, <2>7, SecretInside DEF SecretSound, SecretPlaces, Secret!InStore
  <2>9. SecretAnswers'
    BY <2>2, SecretUnanswered DEF SecretSound, SecretPlaces
  <2>10. SecretValues'
    <3>1. Secret!Rotating /\ secretMinted' = 0
      BY <2>2 DEF Secret!Rotating, SecretSound, SecretValues
    <3>2. /\ SecretGood(new.value)' /\ new.value <= secretMade' /\ secretRotated' <= secretMade'
          /\ \A p \in SecretOps : secretFloor'[p] <= secretMade'
      BY <2>1, <2>2, <2>3, <2>4 DEF SecretSound, SecretValues, SecretGood, SecretTyped, SecretEntry
    <3> QED BY <2>1, <2>2, <2>3, <3>1, <3>2 DEF SecretValues
  <2> QED BY <2>8, <2>9, <2>10 DEF SecretSound
<1> QED BY <1>1, <1>2, <1>3

\* A secret is forgotten: the row the cache knows is removed, and then the cache cleared.
LEMMA SecretForgets ==
  ASSUME SecretTyped, SecretSound, NEW o \in SecretOps,
         Secret!ForgetClears(o) \/ Secret!ForgetRemoves(o) \/ Secret!ForgetEnds(o), secretOrderly'
  PROVE  SecretSound'
<1>1. CASE Secret!ForgetClears(o)
  <2>1. /\ secretAt[o] = "store" /\ secretKind[o] = "forget" /\ secretMinted' = 0
        /\ UNCHANGED <<secretRows, secretCached, secretMade, secretKind, secretFloor, secretAnswer, secretRotated>>
    BY <1>1 DEF Secret!ForgetClears, Secret!Arrives
  <2>2. SecretValues'
    BY <2>1, SecretValuesStay DEF SecretSound
  <2>3. CASE secretCached = Secret!NoEntry
    <3>1. Secret!Goes(o, "over", {})
      BY <1>1, <2>3 DEF Secret!ForgetClears, Secret!Over
    <3> QED BY <2>1, <2>2, <3>1, SecretOutside, SecretUnanswered DEF SecretSound, SecretPlaces, Secret!InStore
  <2>4. CASE secretCached # Secret!NoEntry
    <3>1. Secret!Goes(o, "row", {secretCached}) /\ ~Secret!StoreBusy
      BY <1>1, <2>4 DEF Secret!ForgetClears, Secret!EntersStore
    <3>2. SecretAnswers'
      BY <2>1, <3>1, SecretUnanswered DEF SecretSound, SecretPlaces
    <3>3. SecretSynced' /\ secretAt'[o] = "row" /\ secretCarried'[o] = {secretCached'}
      BY <2>1, <3>1 DEF SecretSound, SecretPhases, SecretSynced, Secret!Goes, SecretTyped
    <3>4. SecretPhase(o)'
      BY <3>3 DEF SecretPhase
    <3>5. {secretCached} \in SUBSET SecretEntry
      BY <2>4 DEF SecretTyped
    <3>6. SecretPhases'
      BY <2>1, <3>1, <3>3, <3>4, <3>5, SecretInside DEF SecretSound, SecretPhases, SecretPlaces
    <3> QED BY <2>2, <3>2, <3>6 DEF SecretSound
  <2> QED BY <2>3, <2>4
<1>2. CASE Secret!ForgetRemoves(o)
  <2>1. /\ secretAt[o] = "row" /\ secretKind[o] = "forget" /\ Secret!Goes(o, "landed", {})
        /\ secretRows' = {e \in secretRows : \A k \in secretCarried[o] : e.row # k.row}
        /\ UNCHANGED <<secretCached, secretMinted, secretMade, secretKind, secretFloor, secretAnswer, secretRotated>>
    BY <1>2 DEF Secret!ForgetRemoves
  <2>2. secretRows' = {}
    <3>1. SecretSynced /\ secretCarried[o] = {secretCached}
      BY <2>1 DEF SecretSound, SecretPhases, SecretPhase
    <3> QED BY <2>1, <3>1 DEF SecretSynced
  <2>3. secretAt'[o] = "landed" /\ ~Secret!Rotates(o)'
    BY <2>1 DEF Secret!Goes, Secret!Rotates, SecretTyped
  <2>4. SecretPhase(o)'
    BY <2>2, <2>3 DEF SecretPhase
  <2>5. SecretPhases'
    BY <2>1, <2>2, <2>4, SecretInside DEF SecretSound, SecretPlaces, Secret!InStore
  <2>6. SecretAnswers'
    BY <2>1, SecretUnanswered DEF SecretSound, SecretPlaces
  <2>7. Secret!Rotating' => Secret!Rotating
    BY <2>1 DEF Secret!Goes, Secret!Rotating, Secret!Rotates, SecretTyped
  <2>8. SecretValues'
    BY <2>1, <2>2, <2>7 DEF SecretSound, SecretValues, SecretGood
  <2> QED BY <2>5, <2>6, <2>8 DEF SecretSound
<1>3. CASE Secret!ForgetEnds(o)
  <2>1. /\ secretAt[o] = "landed" /\ secretKind[o] = "forget" /\ Secret!Goes(o, "over", {})
        /\ secretCached' = Secret!NoEntry /\ secretRotated' = 0
        /\ UNCHANGED <<secretRows, secretMinted, secretMade, secretKind, secretFloor, secretAnswer>>
    BY <1>3 DEF Secret!ForgetEnds, Secret!Over
  <2>2. secretRows' = {}
    BY <2>1 DEF SecretSound, SecretPhases, SecretPhase
  <2>3. SecretSynced'
    BY <2>1, <2>2 DEF SecretSynced
  <2>4. secretAt'[o] = "over"
    BY <2>1 DEF Secret!Goes, SecretTyped
  <2>5. SecretPhase(o)'
    BY <2>4 DEF SecretPhase
  <2>6. SecretPhases'
    BY <2>1, <2>2, <2>3, <2>5, SecretInside DEF SecretSound, SecretPlaces, Secret!InStore
  <2>7. SecretAnswers'
    BY <2>1, SecretUnanswered DEF SecretSound, SecretPlaces
  <2>8. Secret!Rotating' => Secret!Rotating
    BY <2>1 DEF Secret!Goes, Secret!Rotating, Secret!Rotates, SecretTyped
  <2>9. SecretValues'
    BY <2>1, <2>2, <2>8 DEF SecretSound, SecretValues, SecretGood, SecretTyped
  <2> QED BY <2>6, <2>7, <2>9 DEF SecretSound
<1> QED BY <1>1, <1>2, <1>3

\* The store is warmed, or its rows sealed anew, alone in it: the row comes back
\* as it was.
LEMMA SecretWarms ==
  ASSUME SecretTyped, SecretSound, NEW o \in SecretOps,
         \/ Secret!Warm(o) \/ Secret!Reseal(o) \/ Secret!WarmLists(o) \/ Secret!WarmEnds(o)
         \/ Secret!ResealLists(o) \/ Secret!ResealWarms(o) \/ Secret!StoreFails(o)
         \/ \E e \in secretCarried[o] : Secret!WarmOpens(o, e) \/ Secret!ResealRow(o, e),
         secretOrderly'
  PROVE  SecretSound'
<1>1. ASSUME NEW place \in SecretPlaces, NEW holds \in SUBSET SecretEntry, Secret!Goes(o, place, holds),
             place \notin {"row", "landed"},
             secretAt[o] \in Secret!InStore \/ (secretAt[o] = "idle" /\ ~Secret!StoreBusy),
             \A p \in SecretOps : p # o => secretKind'[p] = secretKind[p],
             UNCHANGED <<secretRows, secretMinted, secretMade, secretFloor, secretAnswer, secretRotated>>,
             secretCached' \in {secretCached, Secret!NoEntry} \cup secretRows,
             place \in {"over", "listOld", "reseal"} => SecretSynced',
             place = "list" => secretCached' = Secret!NoEntry,
             place = "load" => IF holds = {} THEN SecretSynced' ELSE holds = secretRows,
             place = "reseal" => holds \subseteq secretRows,
             place \in Secret!InStore \cup {"over"}
      PROVE  SecretSound'
  <2>1. /\ secretAt'[o] = place /\ secretCarried'[o] = holds
        /\ \A p \in SecretOps : p # o => secretAt'[p] = secretAt[p]
    BY <1>1 DEF Secret!Goes, SecretTyped
  <2>2. SecretPhase(o)'
    BY <1>1, <2>1 DEF SecretPhase
  <2>3. \A e, f \in secretRows' : e = f
    BY <1>1 DEF SecretSound, SecretPhases
  <2>4. SecretPhases'
    BY <1>1, <2>2, <2>3, SecretInside DEF SecretSound
  <2>5. SecretAnswers'
    BY <1>1, SecretUnanswered DEF SecretSound, Secret!InStore
  <2>6. Secret!Rotating' => Secret!Rotating
    BY <1>1, <2>1 DEF Secret!Rotating, Secret!Rotates
  <2>7. SecretValues'
    BY <1>1, <2>6, SecretValuesStay DEF SecretSound
  <2> QED BY <2>4, <2>5, <2>7 DEF SecretSound
<1>2. SecretPhase(o)
  BY DEF SecretSound, SecretPhases
<1>3. {} \in SUBSET SecretEntry /\ secretRows \in SUBSET SecretEntry
  BY DEF SecretTyped
<1>4. CASE Secret!Warm(o)
  BY <1>1, <1>3, <1>4 DEF Secret!Warm, Secret!EntersStore, SecretPlaces, Secret!InStore, SecretTyped
<1>5. CASE Secret!Reseal(o)
  <2>1. SecretSynced' /\ ~Secret!StoreBusy
    BY <1>5 DEF Secret!Reseal, Secret!EntersStore, SecretSound, SecretPhases, SecretSynced
  <2> QED BY <1>1, <1>3, <1>5, <2>1 DEF Secret!Reseal, Secret!EntersStore, SecretPlaces, Secret!InStore, SecretTyped
<1>6. CASE Secret!WarmLists(o)
  <2>1. secretRows = {} => SecretSynced'
    BY <1>2, <1>6 DEF Secret!WarmLists, SecretPhase, SecretSynced
  <2> QED BY <1>1, <1>3, <1>6, <2>1 DEF Secret!WarmLists, SecretPlaces, Secret!InStore
<1>7. CASE Secret!WarmEnds(o)
  <2>1. SecretSynced'
    BY <1>2, <1>7 DEF Secret!WarmEnds, SecretPhase, SecretSynced
  <2> QED BY <1>1, <1>3, <1>7, <2>1 DEF Secret!WarmEnds, Secret!Over, SecretPlaces, Secret!InStore
<1>8. CASE Secret!ResealLists(o)
  <2>1. SecretSynced'
    BY <1>2, <1>8 DEF Secret!ResealLists, SecretPhase, SecretSynced
  <2>2. PICK holds \in SUBSET SecretEntry : holds = {e \in secretRows : e.row \in secretOldKey}
    BY <1>3
  <2> QED BY <1>1, <1>8, <2>1, <2>2 DEF Secret!ResealLists, SecretPlaces, Secret!InStore
<1>9. CASE Secret!ResealWarms(o)
  BY <1>1, <1>3, <1>9 DEF Secret!ResealWarms, SecretPlaces, Secret!InStore
<1>10. CASE Secret!StoreFails(o)
  <2>1. secretAt[o] \in {"row", "listOld", "reseal"}
    BY <1>10 DEF Secret!StoreFails, Secret!InStore
  <2>2. SecretSynced'
    BY <1>2, <1>10, <2>1 DEF Secret!StoreFails, SecretPhase, SecretSynced
  <2> QED BY <1>1, <1>3, <1>10, <2>1, <2>2 DEF Secret!StoreFails, Secret!Over, SecretPlaces, Secret!InStore
<1>11. ASSUME NEW e \in secretCarried[o], Secret!WarmOpens(o, e) PROVE SecretSound'
  <2>1. secretCarried[o] = secretRows /\ secretRows = {e}
    BY <1>2, <1>11 DEF Secret!WarmOpens, SecretPhase, SecretSound, SecretPhases
  <2>2. e # Secret!NoEntry
    BY <2>1 DEF SecretTyped, SecretEntry, Secret!NoEntry
  <2>3. SecretSynced'
    BY <1>11, <2>1, <2>2 DEF Secret!WarmOpens, SecretSynced
  <2> QED BY <1>1, <1>3, <1>11, <2>1, <2>3 DEF Secret!WarmOpens, SecretPlaces, Secret!InStore
<1>12. ASSUME NEW e \in secretCarried[o], Secret!ResealRow(o, e) PROVE SecretSound'
  <2>1. secretRows = {e} /\ SecretSynced /\ secretCarried[o] \subseteq secretRows
    BY <1>2, <1>12 DEF Secret!ResealRow, SecretPhase, SecretSound, SecretPhases
  <2>2. secretRows' = secretRows
    BY <1>12, <2>1 DEF Secret!ResealRow, Secret!Without
  <2>3. SecretSynced'
    BY <1>12, <2>1, <2>2 DEF Secret!ResealRow, SecretSynced
  <2>4. secretCarried[o] \ {e} \in SUBSET SecretEntry
    BY <1>3, <2>1
  <2> QED BY <1>1, <1>12, <2>1, <2>2, <2>3, <2>4 DEF Secret!ResealRow, SecretPlaces, Secret!InStore
<1> QED BY <1>4, <1>5, <1>6, <1>7, <1>8, <1>9, <1>10, <1>11, <1>12

\* Each operation, at its awaits and after them, beside the store's own calls.
LEMMA SecretStep == ASSUME SecretInv, Secret!Next \/ UNCHANGED secretVars PROVE SecretInv'
<1>1. SecretTyped'
  BY SecretTypes DEF SecretInv
<1>2. ASSUME secretOrderly' PROVE secretOrderly /\ SecretTyped /\ SecretSound
  <2>1. secretOrderly
    BY <1>2, Zenon DEF Secret!Next, secretVars, Secret!Expire, Secret!Begin, Secret!Get, Secret!Resolve, Secret!Set,
       Secret!Take, Secret!RotateClears, Secret!RotateWrites, Secret!RotateEnds, Secret!ForgetClears,
       Secret!ForgetRemoves, Secret!ForgetEnds, Secret!Warm, Secret!Reseal, Secret!WarmLists, Secret!WarmEnds,
       Secret!ResealLists, Secret!ResealWarms, Secret!WarmOpens, Secret!ResealRow, Secret!StoreFails,
       Secret!EntersStore
  <2> QED BY <2>1 DEF SecretInv
<1>3. ASSUME secretOrderly' PROVE SecretSound'
  <2>1. CASE Secret!Expire \/ UNCHANGED secretVars
    <3>1. UNCHANGED <<secretRows, secretCached, secretMinted, secretMade, secretKind, secretAt, secretCarried,
                      secretFloor, secretAnswer, secretRotated>>
      BY <2>1 DEF Secret!Expire, secretVars
    <3>2. SecretPhases'
      BY <1>2, <1>3, <3>1 DEF SecretSound, SecretPhases, SecretPhase, SecretSynced, Secret!StoreBusy, Secret!Rotates
    <3>3. SecretValues'
      BY <1>2, <1>3, <3>1 DEF SecretSound, SecretValues, SecretGood, Secret!Rotating, Secret!Rotates
    <3> QED BY <1>2, <1>3, <3>1, <3>2, <3>3 DEF SecretSound, SecretAnswers
  <2>2. CASE Secret!Next
    <3>1. {"get", "set", "take", "rotate", "persist", "forget", "warm", "reseal"} \subseteq SecretKinds
      BY DEF SecretKinds
    <3> QED BY <1>2, <1>3, <2>1, <2>2, <3>1, SecretOperations, SecretRotates, SecretForgets, SecretWarms
         DEF Secret!Next
  <2> QED BY <2>1, <2>2
<1> QED BY <1>1, <1>3 DEF SecretInv

\* Whoever is answered after a rotation is given a value no older than it.
LEMMA SecretSafe == ASSUME SecretInv PROVE Secret!RotationIsSeen
BY DEF SecretInv, SecretSound, SecretAnswers, Secret!RotationIsSeen

-----------------------------------------------------------------------------
(* The credentials of a piece of work *)

ScopeBoot == [of : Nat, at : {"plan", "copy", "serve", "failed"}, left : SUBSET Scope!Name, knew : BOOLEAN]

\* Every store holds what its own wrote, nobody runs while the host copies its
\* environment, the store has what is not left to copy, and when it knew its rows
\* as the boot began it lacks what is left.
ScopeInv ==
  /\ scopeScope \in [Works -> Tenants \cup {None}]
  /\ scopeInstalled \in {None, Host} /\ scopeStoreOnly \in BOOLEAN
  /\ scopeEnv \in SUBSET Scope!Name
  /\ scopeBoot \in ScopeBoot /\ scopeWarmed \in SUBSET Scope!Stores
  /\ scopeOnTurn # None => scopeOnTurn \in Works /\ scopeBoot.at = "serve"
  /\ scopeValues \in [Scope!Stores -> [Scope!Name -> {None, Host, Seeded} \cup Tenants]]
  /\ \A n \in Scope!Name : /\ \A t \in Tenants : scopeValues[t][n] \in {None, t}
                           /\ scopeValues[Host][n] \in {None, Host, Seeded}
  /\ scopeBoot.at = "copy" =>
       /\ scopeBoot.left \in SUBSET scopeEnv
       /\ \A n \in scopeEnv : n \notin scopeBoot.left => scopeValues[Host][n] # None
       /\ scopeBoot.knew => \A n \in scopeBoot.left : scopeValues[Host][n] = None
  /\ scopeBoot.at = "plan" /\ scopeBoot.knew => Host \in scopeWarmed
  /\ \A s \in scopeSeen : s.work \in Works
  /\ Scope!CredentialsAreOnesOwn

\* Nothing is stored or seen at first.
LEMMA ScopeInit == ASSUME Scope!Init, scopeScope \in FirstScopes PROVE ScopeInv
<1>1. scopeBoot \in ScopeBoot /\ scopeBoot.at = "plan"
  BY DEF Scope!Init, ScopeBoot
<1> QED BY <1>1, StoresAssumption DEF Scope!Init, ScopeInv, Scope!Stores, Scope!CredentialsAreOnesOwn

\* What a store resolves is its own, and without one there is nothing.
LEMMA StoredOwn ==
  ASSUME ScopeInv, NEW n \in Scope!Name
  PROVE  /\ \A t \in Tenants : Scope!Stored(t, n) \in {None, t}
         /\ Scope!Stored(Host, n) \in {None, Host, Seeded}
         /\ Scope!Stored(None, n) = None
BY StoresAssumption DEF ScopeInv, Scope!Stored, Scope!Stores

\* What is resolved is one's own.
LEMMA ResolvedOwn ==
  ASSUME ScopeInv, NEW n \in Scope!Name, NEW viewer \in BOOLEAN, scopeOnTurn # None
  PROVE  LET v == Scope!Resolved(n, viewer) IN
         IF scopeScope[scopeOnTurn] # None THEN v \in {scopeScope[scopeOnTurn], None}
         ELSE v \notin Tenants /\ (v = Env => ~viewer /\ (scopeStoreOnly => n = "setting"))
BY StoredOwn, StoresAssumption DEF ScopeInv, Scope!Resolved, Scope!TenantScope, Scope!FromEnv

\* The store a piece of work asks is its own, or the host's when it was run without one.
LEMMA EffectiveOwn ==
  ASSUME ScopeInv, scopeOnTurn # None
  PROVE  /\ Scope!Effective \in Scope!Stores \cup {None}
         /\ scopeScope[scopeOnTurn] # None => Scope!Effective = scopeScope[scopeOnTurn]
         /\ scopeScope[scopeOnTurn] = None => Scope!Effective \in {None, Host}
BY StoresAssumption DEF ScopeInv, Scope!Effective, Scope!TenantScope, Scope!Stores

\* No ask, boot or copy gives one the credentials of another.
LEMMA ScopeStep == ASSUME ScopeInv, Scope!Next \/ UNCHANGED scopeVars PROVE ScopeInv'
<1> USE DEF Scope!setup
<1>1. CASE UNCHANGED scopeVars
  BY <1>1 DEF scopeVars, ScopeInv, Scope!CredentialsAreOnesOwn
<1>2. ASSUME NEW w \in Works, Scope!Run(w) PROVE ScopeInv'
  BY <1>2 DEF Scope!Run, ScopeInv, Scope!CredentialsAreOnesOwn
<1>3. CASE Scope!PlanSeed
  <2>1. /\ scopeOnTurn = None /\ scopeOnTurn' = None /\ scopeBoot.at = "plan"
        /\ UNCHANGED <<scopeInstalled, scopeStoreOnly, scopeScope, scopeEnv, scopeValues, scopeWarmed, scopeSeen>>
    BY <1>3 DEF Scope!PlanSeed
  <2>2. PICK lacking \in SUBSET scopeEnv : lacking = {n \in scopeEnv : Scope!Stored(Host, n) = None}
    OBVIOUS
  <2>3. \/ scopeBoot' = [scopeBoot EXCEPT !.at = "copy", !.left = lacking]
        \/ scopeBoot' = [scopeBoot EXCEPT !.at = "serve"]
    BY <1>3, <2>2 DEF Scope!PlanSeed, Scope!Lacks
  <2>4. scopeBoot \in ScopeBoot /\ lacking \in SUBSET Scope!Name /\ scopeEnv \in SUBSET Scope!Name
    BY <2>2 DEF ScopeInv
  <2>5. scopeBoot' \in ScopeBoot /\ scopeBoot'.at \in {"copy", "serve"} /\ scopeBoot'.knew = scopeBoot.knew
    BY ONLY <2>3, <2>4 DEF ScopeBoot
  <2>6. scopeBoot'.at = "copy" => scopeBoot'.left = lacking
    BY ONLY <2>3, <2>4 DEF ScopeBoot
  <2>7. scopeBoot.knew => \A n \in Scope!Name : Scope!Stored(Host, n) = scopeValues[Host][n]
    BY <2>1 DEF Scope!Stored, ScopeInv
  <2>8. scopeBoot'.at = "copy" =>
          /\ scopeBoot'.left \in SUBSET scopeEnv
          /\ \A n \in scopeEnv : n \notin scopeBoot'.left => scopeValues[Host][n] # None
          /\ scopeBoot'.knew => \A n \in scopeBoot'.left : scopeValues[Host][n] = None
    <3>1. \A n \in scopeEnv : n \notin lacking => scopeValues[Host][n] # None
      <4> SUFFICES ASSUME NEW n \in scopeEnv, n \notin lacking PROVE scopeValues[Host][n] # None
        OBVIOUS
      <4>1. n \in Scope!Name /\ Scope!Stored(Host, n) # None
        BY <2>2, <2>4
      <4> QED BY <4>1 DEF Scope!Stored
    <3>2. ASSUME scopeBoot.knew, NEW n \in lacking PROVE scopeValues[Host][n] = None
      <4>1. n \in Scope!Name /\ Scope!Stored(Host, n) = None
        BY <2>2, <2>4
      <4> QED BY <2>7, <3>2, <4>1
    <3>3. scopeBoot'.at = "copy" => scopeBoot'.left = lacking /\ (scopeBoot'.knew => scopeBoot.knew)
      BY <2>5, <2>6
    <3>4. lacking \in SUBSET scopeEnv
      OBVIOUS
    <3> QED BY ONLY <3>1, <3>2, <3>3, <3>4
  <2> QED BY <2>1, <2>5, <2>8 DEF ScopeInv, Scope!CredentialsAreOnesOwn
<1>4. CASE Scope!Booted
  BY <1>4 DEF Scope!Booted, ScopeInv, ScopeBoot, Scope!CredentialsAreOnesOwn
<1>5. CASE Scope!Reboot
  <2>1. /\ scopeOnTurn' = None /\ scopeBoot'.at = "plan" /\ scopeWarmed' \in SUBSET Scope!Stores
        /\ UNCHANGED <<scopeInstalled, scopeStoreOnly, scopeScope, scopeEnv, scopeValues, scopeSeen>>
    BY <1>5 DEF Scope!Reboot
  <2>2. scopeBoot' = [of |-> scopeBoot.of + 1, at |-> "plan", left |-> {}, knew |-> Host \in scopeWarmed']
    BY <1>5 DEF Scope!Reboot
  <2>3. scopeBoot.of + 1 \in Nat
    BY DEF ScopeInv, ScopeBoot
  <2>4. scopeBoot' \in ScopeBoot /\ (scopeBoot'.knew => Host \in scopeWarmed')
    <3>1. scopeBoot' \in ScopeBoot
      BY ONLY <2>2, <2>3 DEF ScopeBoot
    <3>2. scopeBoot'.knew => Host \in scopeWarmed'
      BY ONLY <2>2
    <3> QED BY <3>1, <3>2
  <2> QED BY <2>1, <2>4 DEF ScopeInv, Scope!CredentialsAreOnesOwn
<1>6. ASSUME NEW n \in Scope!Name, Scope!CopyRow(n) PROVE ScopeInv'
  BY <1>6, StoresAssumption DEF Scope!CopyRow, ScopeInv, ScopeBoot, Scope!CredentialsAreOnesOwn, Scope!Stores
<1>7. ASSUME NEW n \in Scope!Name, Scope!ReadCredential(n) PROVE ScopeInv'
  <2>1. LET v == Scope!Stored(Scope!Effective, n) IN
        IF scopeScope[scopeOnTurn] # None THEN v \in {scopeScope[scopeOnTurn], None}
        ELSE v \notin Tenants /\ v # Env
    BY <1>7, EffectiveOwn, StoredOwn, StoresAssumption DEF Scope!ReadCredential, ScopeInv
  <2> QED BY <1>7, <2>1 DEF Scope!ReadCredential, Scope!Awaits, ScopeInv, Scope!CredentialsAreOnesOwn
<1>8. ASSUME NEW n \in Scope!Name, Scope!WriteCredential(n) PROVE ScopeInv'
  <2>1. scopeOnTurn \in Works /\ scopeBoot.at = "serve" /\ scopeOnTurn' = None
    BY <1>8 DEF Scope!WriteCredential, Scope!Awaits, ScopeInv
  <2>2. /\ scopeValues' \in [Scope!Stores -> [Scope!Name -> {None, Host, Seeded} \cup Tenants]]
        /\ \A m \in Scope!Name : /\ \A t \in Tenants : scopeValues'[t][m] \in {None, t}
                                 /\ scopeValues'[Host][m] \in {None, Host, Seeded}
    BY <1>8, EffectiveOwn, StoresAssumption DEF Scope!WriteCredential, ScopeInv, Scope!Stores
  <2> QED BY <1>8, <2>1, <2>2 DEF Scope!WriteCredential, ScopeInv, Scope!CredentialsAreOnesOwn
<1>9. ASSUME NEW n \in Scope!Name, Scope!RemoveCredential(n) PROVE ScopeInv'
  <2>1. scopeOnTurn \in Works /\ scopeBoot.at = "serve" /\ scopeOnTurn' = None
    BY <1>9 DEF Scope!RemoveCredential, Scope!Awaits, ScopeInv
  <2>2. /\ scopeValues' \in [Scope!Stores -> [Scope!Name -> {None, Host, Seeded} \cup Tenants]]
        /\ \A m \in Scope!Name : /\ \A t \in Tenants : scopeValues'[t][m] \in {None, t}
                                 /\ scopeValues'[Host][m] \in {None, Host, Seeded}
    BY <1>9, EffectiveOwn, StoresAssumption DEF Scope!RemoveCredential, ScopeInv, Scope!Stores
  <2> QED BY <1>9, <2>1, <2>2 DEF Scope!RemoveCredential, ScopeInv, Scope!CredentialsAreOnesOwn
<1>10. ASSUME NEW n \in Scope!Name, NEW viewer \in BOOLEAN, Scope!Resolve(n, viewer) PROVE ScopeInv'
  <2>1. scopeOnTurn # None /\ scopeOnTurn \in Works
    BY <1>10 DEF Scope!Resolve, ScopeInv
  <2> QED BY <1>10, <2>1, ResolvedOwn DEF Scope!Resolve, Scope!Awaits, ScopeInv, Scope!CredentialsAreOnesOwn
<1> HIDE DEF Scope!setup
<1> QED BY <1>1, <1>2, <1>3, <1>4, <1>5, <1>6, <1>7, <1>8, <1>9, <1>10 DEF Scope!Next

\* A boot of a store that knows its rows writes over none, and none is over before the
\* store has it all.
LEMMA ScopeSeeds ==
  ASSUME ScopeInv, Scope!Next \/ UNCHANGED scopeVars
  PROVE  /\ scopeOnTurn = None /\ scopeBoot.knew => \A n \in Scope!Name : scopeValues[Host][n] \in {None, scopeValues'[Host][n]}
         /\ scopeBoot.at = "copy" /\ scopeBoot'.at = "serve" =>
              \A n \in scopeEnv : scopeValues'[Host][n] # None
<1> USE DEF Scope!setup
<1>1. CASE UNCHANGED scopeVars
  BY <1>1 DEF scopeVars, ScopeInv
<1>2. ASSUME NEW n \in Scope!Name, Scope!CopyRow(n)
      PROVE  /\ scopeBoot.knew => \A m \in Scope!Name : scopeValues[Host][m] \in {None, scopeValues'[Host][m]}
             /\ scopeBoot'.at # "serve"
  BY <1>2 DEF Scope!CopyRow, ScopeInv, ScopeBoot, Scope!Stores
<1>3. CASE Scope!PlanSeed \/ Scope!Reboot \/ (\E w \in Works : Scope!Run(w))
  BY <1>3 DEF Scope!PlanSeed, Scope!Reboot, Scope!Run, ScopeInv, ScopeBoot
<1>4. CASE Scope!Booted
  BY <1>4 DEF Scope!Booted, ScopeInv
<1>5. ASSUME NEW n \in Scope!Name, Scope!ReadCredential(n) \/ Scope!WriteCredential(n) \/ Scope!RemoveCredential(n)
                 \/ \E viewer \in BOOLEAN : Scope!Resolve(n, viewer)
      PROVE  scopeOnTurn # None /\ scopeBoot.at = "serve"
  BY <1>5 DEF Scope!ReadCredential, Scope!WriteCredential, Scope!RemoveCredential, Scope!Resolve, ScopeInv
<1> HIDE DEF Scope!setup
<1> QED BY <1>1, <1>2, <1>3, <1>4, <1>5 DEF Scope!Next

-----------------------------------------------------------------------------
(* The credential rows of a browser profile (host/chrome/credentials.ts) *)

Worker == "worker"
ChromeAt == [in : {Worker, "none"}, is : {"idle", "queued", "read", "over", "lost"},
             kind : Chrome!Kind, of : ChromeOps]
ChromeRuns(o) == chromeAt[o].is \in {"queued", "read"} /\ chromeAt[o].kind # "list"

ChromeTyped ==
  /\ chromeMasterKey \in Nat /\ chromeMinted \in Nat
  /\ chromeOpening \in [{Worker} -> {"closed", "minting", "saving", "open"}]
  /\ chromeKeys \in [{Worker} -> Nat]
  /\ chromeRows \in SUBSET (ChromeOps \X Nat)
  /\ chromeQueue \in [{Worker} -> SUBSET ChromeOps]
  /\ chromeAt \in [ChromeOps -> ChromeAt]
  /\ chromeHeld \in [ChromeOps -> SUBSET (ChromeOps \X Nat)]
  /\ chromeBefore \in [ChromeOps -> SUBSET ChromeOps]

\* The worker seals with the key in the storage, and there is no row before there is a key.
KeyInv ==
  /\ chromeOpening[Worker] = "open" => chromeKeys[Worker] = chromeMasterKey /\ chromeMasterKey # 0
  /\ chromeOpening[Worker] \in {"minting", "saving"} => chromeMasterKey = 0
  /\ chromeOpening[Worker] = "saving" => chromeKeys[Worker] # 0
  /\ chromeMasterKey = 0 => chromeRows = {}
  /\ \A r \in chromeRows : r[2] = chromeMasterKey

\* The changes under way stand in one order, and the one that has read the rows
\* read them as they are.
OrderInv ==
  /\ \A o \in ChromeOps :
       /\ chromeAt[o].is # "idle" => chromeAt[o].in = Worker
       /\ chromeAt[o].is \in {"queued", "read"} => chromeOpening[Worker] = "open"
       /\ chromeAt[o].is = "read" /\ chromeAt[o].kind # "list" =>
            /\ chromeHeld[o] = chromeRows
            /\ chromeBefore[o] \cap chromeQueue[Worker] = {}
       /\ chromeAt[o].is # "idle" /\ chromeAt[o].kind = "delete" =>
            chromeAt[chromeAt[o].of].is = "over" /\ chromeAt[chromeAt[o].of].kind = "create"
       /\ \A p \in chromeBefore[o] : chromeAt[p].is # "idle"
  /\ chromeQueue[Worker] = {o \in ChromeOps : ChromeRuns(o)}
  /\ \A o, p \in ChromeOps : ChromeRuns(o) /\ ChromeRuns(p) /\ o # p =>
       o \in chromeBefore[p] \/ p \in chromeBefore[o]

ChromeInv == ChromeTyped /\ KeyInv /\ OrderInv /\ Chrome!NoChangeLost

\* No row is read or changed at first.
LEMMA ChromeInit == ASSUME Chrome!Init PROVE ChromeInv
BY DEF Chrome!Init, ChromeInv, ChromeTyped, KeyInv, OrderInv, ChromeRuns, Worker, ChromeAt, Chrome!Kind,
       Chrome!NoChangeLost, Chrome!Stored, Chrome!Over

\* The master key is read or minted.
LEMMA ChromeOpens ==
  ASSUME ChromeInv, Chrome!Open(Worker) \/ Chrome!Mint(Worker) \/ Chrome!SaveKey(Worker)
  PROVE  ChromeInv'
<1>1. ChromeTyped' /\ KeyInv'
  BY DEF ChromeInv, ChromeTyped, KeyInv, OrderInv, Chrome!Open, Chrome!Mint, Chrome!SaveKey, Chrome!Saved
<1>2. OrderInv'
  BY DEF ChromeInv, ChromeTyped, OrderInv, ChromeRuns, Chrome!Open, Chrome!Mint, Chrome!SaveKey
<1>3. Chrome!NoChangeLost'
  BY DEF ChromeInv, ChromeTyped, KeyInv, Chrome!NoChangeLost, Chrome!Stored, Chrome!Over,
         Chrome!Open, Chrome!Mint, Chrome!SaveKey
<1> QED BY <1>1, <1>2, <1>3 DEF ChromeInv

\* A call asks for the rows, and waits its turn.
LEMMA ChromeAsk ==
  ASSUME ChromeInv, NEW o \in ChromeOps, NEW of \in ChromeOps, NEW k \in Chrome!Kind, Chrome!Ask(Worker, o, k, of)
  PROVE  ChromeInv'
<1> DEFINE new == [in |-> Worker, is |-> "queued", kind |-> k, of |-> of]
<1>1. /\ new \in ChromeAt /\ new.in = Worker /\ new.is = "queued" /\ new.kind = k /\ new.of = of
  BY DEF ChromeAt
<1>2. /\ chromeAt[o].is = "idle" /\ chromeOpening[Worker] = "open"
      /\ chromeAt' = [chromeAt EXCEPT ![o] = new]
      /\ chromeBefore' = [chromeBefore EXCEPT ![o] = chromeQueue[Worker]]
      /\ chromeQueue' = IF k = "list" THEN chromeQueue ELSE [chromeQueue EXCEPT ![Worker] = @ \cup {o}]
      /\ UNCHANGED <<chromeMasterKey, chromeMinted, chromeOpening, chromeKeys, chromeRows, chromeHeld>>
  BY DEF Chrome!Ask, Chrome!opening_
<1>3. k = "delete" => chromeAt[of].is = "over" /\ chromeAt[of].kind = "create"
  BY DEF Chrome!Ask, ChromeInv, Chrome!NoChangeLost, Chrome!Over
<1> HIDE DEF new
<1>4. ChromeTyped' /\ KeyInv'
  BY <1>1, <1>2 DEF ChromeInv, ChromeTyped, KeyInv
<1>5. /\ chromeAt'[o] = new /\ \A p \in ChromeOps \ {o} : chromeAt'[p] = chromeAt[p]
      /\ chromeBefore'[o] = chromeQueue[Worker]
      /\ \A p \in ChromeOps \ {o} : chromeBefore'[p] = chromeBefore[p]
      /\ chromeQueue'[Worker] = IF k = "list" THEN chromeQueue[Worker] ELSE chromeQueue[Worker] \cup {o}
  BY <1>1, <1>2 DEF ChromeInv, ChromeTyped
<1>6. \A p \in ChromeOps : ChromeRuns(p)' <=> ChromeRuns(p) \/ (p = o /\ k # "list")
  BY <1>1, <1>2, <1>5 DEF ChromeRuns
<1>7. /\ chromeQueue'[Worker] = {p \in ChromeOps : ChromeRuns(p)'}
      /\ \A p, q \in ChromeOps : ChromeRuns(p)' /\ ChromeRuns(q)' /\ p # q =>
           p \in chromeBefore'[q] \/ q \in chromeBefore'[p]
  BY <1>5, <1>6 DEF ChromeInv, OrderInv
<1>8. \A p \in ChromeOps :
        /\ chromeAt'[p].is # "idle" => chromeAt'[p].in = Worker
        /\ chromeAt'[p].is \in {"queued", "read"} => chromeOpening'[Worker] = "open"
        /\ chromeAt'[p].is = "read" /\ chromeAt'[p].kind # "list" =>
             /\ chromeHeld'[p] = chromeRows'
             /\ chromeBefore'[p] \cap chromeQueue'[Worker] = {}
        /\ chromeAt'[p].is # "idle" /\ chromeAt'[p].kind = "delete" =>
             chromeAt'[chromeAt'[p].of].is = "over" /\ chromeAt'[chromeAt'[p].of].kind = "create"
        /\ \A q \in chromeBefore'[p] : chromeAt'[q].is # "idle"
  <2> SUFFICES ASSUME NEW p \in ChromeOps
               PROVE  /\ chromeAt'[p].is # "idle" => chromeAt'[p].in = Worker
                      /\ chromeAt'[p].is \in {"queued", "read"} => chromeOpening'[Worker] = "open"
                      /\ chromeAt'[p].is = "read" /\ chromeAt'[p].kind # "list" =>
                           /\ chromeHeld'[p] = chromeRows'
                           /\ chromeBefore'[p] \cap chromeQueue'[Worker] = {}
                      /\ chromeAt'[p].is # "idle" /\ chromeAt'[p].kind = "delete" =>
                           chromeAt'[chromeAt'[p].of].is = "over" /\ chromeAt'[chromeAt'[p].of].kind = "create"
                      /\ \A q \in chromeBefore'[p] : chromeAt'[q].is # "idle"
    OBVIOUS
  <2>1. CASE p = o
    <3>1. k = "delete" => of # o
      BY <1>2, <1>3
    <3>2. \A q \in chromeQueue[Worker] : q \in ChromeOps \ {o} /\ chromeAt[q].is # "idle"
      BY <1>2 DEF ChromeInv, OrderInv, ChromeRuns
    <3> QED BY <1>1, <1>2, <1>3, <1>5, <2>1, <3>1, <3>2
  <2>2. CASE p # o
    <3>1. chromeAt'[p] = chromeAt[p] /\ chromeBefore'[p] = chromeBefore[p]
      BY <1>5, <2>2
    <3>2. /\ chromeAt[p].is # "idle" /\ chromeAt[p].kind = "delete" =>
               /\ chromeAt[p].of \in ChromeOps \ {o}
               /\ chromeAt[chromeAt[p].of].is = "over" /\ chromeAt[chromeAt[p].of].kind = "create"
      BY <1>2 DEF ChromeInv, ChromeTyped, ChromeAt, OrderInv
    <3>3. o \notin chromeBefore[p] /\ \A q \in chromeBefore[p] : q \in ChromeOps \ {o} /\ chromeAt[q].is # "idle"
      BY <1>2 DEF ChromeInv, ChromeTyped, OrderInv
    <3> QED BY <1>2, <1>5, <3>1, <3>2, <3>3 DEF ChromeInv, OrderInv
  <2> QED BY <2>1, <2>2
<1>9. OrderInv'
  BY <1>7, <1>8 DEF OrderInv
<1>10. Chrome!NoChangeLost'
  BY <1>1, <1>2, <1>5 DEF ChromeInv, ChromeTyped, Chrome!NoChangeLost, Chrome!Stored, Chrome!Over
<1> QED BY <1>4, <1>9, <1>10 DEF ChromeInv

\* A change or a list comes to its turn.
LEMMA ChromeRead ==
  ASSUME ChromeInv, NEW o \in ChromeOps, Chrome!Read(Worker, o)
  PROVE  ChromeInv'
<1>1. PICK a \in ChromeAt : a = chromeAt[o]
  BY DEF ChromeInv, ChromeTyped
<1> DEFINE new == [a EXCEPT !.is = "read"]
<1>2. /\ new \in ChromeAt /\ new.in = a.in /\ new.is = "read" /\ new.kind = a.kind /\ new.of = a.of
  BY DEF ChromeAt
<1>3. /\ a.is = "queued"
      /\ chromeAt' = [chromeAt EXCEPT ![o] = new]
      /\ chromeHeld' = [chromeHeld EXCEPT ![o] = chromeRows]
      /\ chromeBefore[o] \cap chromeQueue[Worker] = {}
      /\ UNCHANGED <<chromeMasterKey, chromeMinted, chromeOpening, chromeKeys, chromeRows, chromeQueue, chromeBefore>>
  BY <1>1 DEF Chrome!Read, Chrome!opening_, Chrome!MyTurn, ChromeInv, ChromeTyped
<1> HIDE DEF new
<1>4. ChromeTyped' /\ KeyInv'
  BY <1>2, <1>3 DEF ChromeInv, ChromeTyped, KeyInv
<1>5. /\ chromeAt'[o] = new /\ \A p \in ChromeOps \ {o} : chromeAt'[p] = chromeAt[p]
      /\ chromeHeld'[o] = chromeRows /\ \A p \in ChromeOps \ {o} : chromeHeld'[p] = chromeHeld[p]
  BY <1>2, <1>3 DEF ChromeInv, ChromeTyped
<1>6. \A p \in ChromeOps : /\ ChromeRuns(p)' <=> ChromeRuns(p)
                           /\ chromeAt'[p].in = chromeAt[p].in /\ chromeAt'[p].kind = chromeAt[p].kind
                           /\ chromeAt'[p].of = chromeAt[p].of
                           /\ chromeAt'[p].is = "idle" <=> chromeAt[p].is = "idle"
                           /\ chromeAt'[p].is = "over" <=> chromeAt[p].is = "over"
                           /\ chromeAt'[p].is \in {"queued", "read"} => chromeAt[p].is \in {"queued", "read"}
                           /\ p # o => chromeAt'[p].is = chromeAt[p].is
  BY <1>1, <1>2, <1>3, <1>5 DEF ChromeRuns
<1>7. \A p \in ChromeOps : chromeAt[p].of \in ChromeOps
  BY DEF ChromeInv, ChromeTyped, ChromeAt
<1>8. OrderInv'
  BY <1>3, <1>5, <1>6, <1>7 DEF ChromeInv, ChromeTyped, OrderInv
<1>9. Chrome!NoChangeLost'
  BY <1>3, <1>6 DEF ChromeInv, Chrome!NoChangeLost, Chrome!Stored, Chrome!Over
<1> QED BY <1>4, <1>8, <1>9 DEF ChromeInv

\* The storage takes the changed rows, or refuses.
LEMMA ChromeWrite ==
  ASSUME ChromeInv, NEW o \in ChromeOps, NEW ok \in BOOLEAN, Chrome!Write(Worker, o, ok)
  PROVE  ChromeInv'
<1>1. PICK a \in ChromeAt : a = chromeAt[o]
  BY DEF ChromeInv, ChromeTyped
<1> DEFINE new == [a EXCEPT !.is = IF ok THEN "over" ELSE "lost"]
<1>2. /\ new \in ChromeAt /\ new.in = a.in /\ new.is = (IF ok THEN "over" ELSE "lost")
      /\ new.kind = a.kind /\ new.of = a.of
  BY DEF ChromeAt
<1>3. /\ a.is = "read" /\ a.in = Worker
      /\ chromeAt' = [chromeAt EXCEPT ![o] = new]
      /\ \E kept \in {chromeHeld[o], {}} : chromeHeld' = [chromeHeld EXCEPT ![o] = kept]
      /\ UNCHANGED <<chromeMasterKey, chromeMinted, chromeOpening, chromeKeys, chromeBefore>>
      /\ IF a.kind = "list" THEN UNCHANGED <<chromeRows, chromeQueue>>
         ELSE /\ chromeRows' = IF ok THEN Chrome!Changed(Worker, o) ELSE chromeRows
              /\ chromeQueue' = [chromeQueue EXCEPT ![Worker] = @ \ {o}]
  BY <1>1 DEF Chrome!Write, Chrome!opening_, ChromeInv, ChromeTyped
<1> HIDE DEF new
<1>4. /\ chromeOpening[Worker] = "open" /\ chromeKeys[Worker] = chromeMasterKey /\ chromeMasterKey \in Nat \ {0}
      /\ a.kind # "list" => chromeHeld[o] = chromeRows
      /\ a.kind = "delete" => a.of \in ChromeOps /\ chromeAt[a.of].is = "over" /\ chromeAt[a.of].kind = "create"
  BY <1>1, <1>3 DEF ChromeInv, ChromeTyped, ChromeAt, OrderInv, KeyInv
<1>5. /\ chromeAt'[o] = new /\ \A p \in ChromeOps \ {o} : chromeAt'[p] = chromeAt[p]
      /\ \A p \in ChromeOps \ {o} : chromeHeld'[p] = chromeHeld[p]
      /\ chromeQueue'[Worker] = IF a.kind = "list" THEN chromeQueue[Worker] ELSE chromeQueue[Worker] \ {o}
  BY <1>2, <1>3 DEF ChromeInv, ChromeTyped
<1>6. chromeRows' = IF a.kind = "list" \/ ~ok THEN chromeRows
                    ELSE IF a.kind = "create" THEN chromeRows \cup {<<o, chromeMasterKey>>}
                    ELSE {r \in chromeRows : r[1] # a.of}
  BY <1>1, <1>3, <1>4 DEF Chrome!Changed
<1>7. ChromeTyped'
  <2>1. chromeRows' \in SUBSET (ChromeOps \X Nat)
    BY <1>4, <1>6 DEF ChromeInv, ChromeTyped
  <2>2. chromeAt' \in [ChromeOps -> ChromeAt]
    BY <1>2, <1>3 DEF ChromeInv, ChromeTyped
  <2>3. chromeHeld' \in [ChromeOps -> SUBSET (ChromeOps \X Nat)]
    BY <1>3 DEF ChromeInv, ChromeTyped
  <2>4. chromeQueue' \in [{Worker} -> SUBSET ChromeOps]
    BY <1>3 DEF ChromeInv, ChromeTyped
  <2> QED BY <1>3, <2>1, <2>2, <2>3, <2>4 DEF ChromeInv, ChromeTyped
<1>8. KeyInv'
  BY <1>3, <1>4, <1>6 DEF ChromeInv, KeyInv
<1>9. \A p \in ChromeOps : ChromeRuns(p)' <=> ChromeRuns(p) /\ p # o
  BY <1>1, <1>2, <1>3, <1>5 DEF ChromeRuns
<1>10. \A p \in ChromeOps \ {o} : chromeAt[p].is = "read" /\ chromeAt[p].kind # "list" => a.kind = "list"
  <2> SUFFICES ASSUME NEW p \in ChromeOps \ {o}, chromeAt[p].is = "read", chromeAt[p].kind # "list",
                      a.kind # "list"
               PROVE  FALSE
    OBVIOUS
  <2>1. ChromeRuns(o) /\ ChromeRuns(p) /\ o \in chromeQueue[Worker] /\ p \in chromeQueue[Worker]
    BY <1>1, <1>3 DEF ChromeRuns, ChromeInv, OrderInv
  <2>2. chromeBefore[o] \cap chromeQueue[Worker] = {} /\ chromeBefore[p] \cap chromeQueue[Worker] = {}
    BY <1>1, <1>3 DEF ChromeInv, OrderInv
  <2> QED BY <2>1, <2>2 DEF ChromeInv, OrderInv
<1>11. \A p \in ChromeOps :
         /\ chromeAt'[p].is # "idle" => chromeAt'[p].in = Worker
         /\ chromeAt'[p].is \in {"queued", "read"} => chromeOpening'[Worker] = "open"
         /\ chromeAt'[p].is = "read" /\ chromeAt'[p].kind # "list" =>
              /\ chromeHeld'[p] = chromeRows'
              /\ chromeBefore'[p] \cap chromeQueue'[Worker] = {}
         /\ \A q \in chromeBefore'[p] : chromeAt'[q].is # "idle"
  <2> SUFFICES ASSUME NEW p \in ChromeOps
               PROVE  /\ chromeAt'[p].is # "idle" => chromeAt'[p].in = Worker
                      /\ chromeAt'[p].is \in {"queued", "read"} => chromeOpening'[Worker] = "open"
                      /\ chromeAt'[p].is = "read" /\ chromeAt'[p].kind # "list" =>
                           /\ chromeHeld'[p] = chromeRows'
                           /\ chromeBefore'[p] \cap chromeQueue'[Worker] = {}
                      /\ \A q \in chromeBefore'[p] : chromeAt'[q].is # "idle"
    OBVIOUS
  <2>1. \A q \in chromeBefore'[p] : q \in ChromeOps /\ chromeAt[q].is # "idle"
    BY <1>3 DEF ChromeInv, ChromeTyped, OrderInv
  <2>2. \A q \in chromeBefore'[p] : chromeAt'[q].is # "idle"
    BY <1>2, <1>5, <2>1
  <2>3. CASE p = o
    BY <1>2, <1>3, <1>5, <2>2, <2>3
  <2>4. CASE p # o
    <3>1. chromeAt'[p] = chromeAt[p] /\ chromeHeld'[p] = chromeHeld[p]
      BY <1>5, <2>4
    <3>2. chromeAt[p].is = "read" /\ chromeAt[p].kind # "list" => chromeRows' = chromeRows
      BY <1>6, <1>10, <2>4
    <3> QED BY <1>3, <1>5, <2>2, <3>1, <3>2 DEF ChromeInv, OrderInv
  <2> QED BY <2>3, <2>4
<1>12. \A p \in ChromeOps : chromeAt'[p].is # "idle" /\ chromeAt'[p].kind = "delete" =>
         chromeAt'[chromeAt'[p].of].is = "over" /\ chromeAt'[chromeAt'[p].of].kind = "create"
  <2> SUFFICES ASSUME NEW p \in ChromeOps, chromeAt'[p].is # "idle", chromeAt'[p].kind = "delete"
               PROVE  chromeAt'[chromeAt'[p].of].is = "over" /\ chromeAt'[chromeAt'[p].of].kind = "create"
    OBVIOUS
  <2>1. chromeAt[p].is # "idle" /\ chromeAt[p].kind = "delete" /\ chromeAt'[p].of = chromeAt[p].of
    BY <1>1, <1>2, <1>3, <1>5
  <2>2. /\ chromeAt[p].of \in ChromeOps
        /\ chromeAt[chromeAt[p].of].is = "over" /\ chromeAt[chromeAt[p].of].kind = "create"
    BY <2>1 DEF ChromeInv, ChromeTyped, ChromeAt, OrderInv
  <2>3. chromeAt[p].of # o
    BY <1>1, <1>3, <2>2
  <2> QED BY <1>5, <2>1, <2>2, <2>3
<1>13. /\ chromeQueue'[Worker] = {p \in ChromeOps : ChromeRuns(p)'}
       /\ \A p, q \in ChromeOps : ChromeRuns(p)' /\ ChromeRuns(q)' /\ p # q =>
            p \in chromeBefore'[q] \/ q \in chromeBefore'[p]
  <2>1. a.kind = "list" => ~ChromeRuns(o)
    BY <1>1 DEF ChromeRuns
  <2> QED BY <1>3, <1>5, <1>9, <2>1 DEF ChromeInv, OrderInv
<1>14. OrderInv'
  BY <1>11, <1>12, <1>13 DEF OrderInv
<1>15. Chrome!NoChangeLost'
  <2>1. Chrome!Stored = Chrome!Over("create") \ {chromeAt[p].of : p \in Chrome!Over("delete")}
    BY DEF ChromeInv, Chrome!NoChangeLost
  <2>2. \A r \in chromeRows' : r[2] = chromeMasterKey'
    BY <1>3, <1>6, <1>8 DEF KeyInv
  <2>3. \A p \in ChromeOps \ {o} : chromeAt'[p] = chromeAt[p]
    BY <1>5
  <2>4. CASE a.kind = "list" \/ ~ok
    <3>1. chromeRows' = chromeRows
      BY <1>6, <2>4
    <3>2. Chrome!Over("create")' = Chrome!Over("create") /\ Chrome!Over("delete")' = Chrome!Over("delete")
      BY <1>1, <1>2, <1>3, <1>5, <2>4 DEF Chrome!Over
    <3>3. o \notin Chrome!Over("delete")
      BY <1>1, <1>3 DEF Chrome!Over
    <3>4. \A p \in Chrome!Over("delete") : chromeAt'[p].of = chromeAt[p].of
      BY <1>5, <3>3 DEF Chrome!Over
    <3> QED BY <2>1, <2>2, <3>1, <3>2, <3>4 DEF Chrome!NoChangeLost, Chrome!Stored
  <2>5. CASE a.kind = "create" /\ ok
    <3>1. Chrome!Stored' = Chrome!Stored \cup {o}
      <4> DEFINE row == <<o, chromeMasterKey>>
      <4>1. row[1] = o /\ chromeRows' = chromeRows \cup {row}
        BY <1>6, <2>5
      <4> HIDE DEF row
      <4> QED BY <4>1 DEF Chrome!Stored
    <3>2. /\ Chrome!Over("create")' = Chrome!Over("create") \cup {o}
          /\ Chrome!Over("delete")' = Chrome!Over("delete")
      BY <1>1, <1>2, <1>3, <1>5, <2>5 DEF Chrome!Over
    <3>3. \A p \in Chrome!Over("delete") : chromeAt'[p].of = chromeAt[p].of /\ chromeAt[p].of # o
      BY <1>1, <1>3, <1>5 DEF Chrome!Over, ChromeInv, OrderInv
    <3> QED BY <2>1, <2>2, <3>1, <3>2, <3>3 DEF Chrome!NoChangeLost
  <2>6. CASE a.kind = "delete" /\ ok
    <3>1. Chrome!Stored' = Chrome!Stored \ {a.of}
      BY <1>6, <2>6 DEF Chrome!Stored
    <3>2. /\ Chrome!Over("create")' = Chrome!Over("create")
          /\ Chrome!Over("delete")' = Chrome!Over("delete") \cup {o}
      BY <1>1, <1>2, <1>3, <1>5, <2>6 DEF Chrome!Over
    <3>3. chromeAt'[o].of = a.of /\ \A p \in Chrome!Over("delete") : chromeAt'[p].of = chromeAt[p].of
      BY <1>1, <1>2, <1>3, <1>5 DEF Chrome!Over
    <3> QED BY <2>1, <2>2, <3>1, <3>2, <3>3 DEF Chrome!NoChangeLost
  <2> QED BY <2>4, <2>5, <2>6 DEF ChromeAt, Chrome!Kind
<1> QED BY <1>7, <1>8, <1>14, <1>15 DEF ChromeInv

\* The browser stops the worker.
LEMMA ChromeRestart == ASSUME ChromeInv, Chrome!Restart(Worker) PROVE ChromeInv'
<1>1. \A o \in ChromeOps : chromeAt[o] \in ChromeAt
  BY DEF ChromeInv, ChromeTyped
<1>2. /\ chromeAt' = [o \in ChromeOps |-> IF Chrome!Running(Worker, o) THEN [chromeAt[o] EXCEPT !.is = "lost"] ELSE chromeAt[o]]
      /\ chromeHeld' = [o \in ChromeOps |-> IF Chrome!Running(Worker, o) THEN {} ELSE chromeHeld[o]]
      /\ chromeOpening' = [chromeOpening EXCEPT ![Worker] = "closed"]
      /\ chromeKeys' = [chromeKeys EXCEPT ![Worker] = 0]
      /\ chromeQueue' = [chromeQueue EXCEPT ![Worker] = {}]
      /\ UNCHANGED <<chromeMasterKey, chromeMinted, chromeRows, chromeBefore>>
  BY DEF Chrome!Restart
<1>3. ASSUME NEW o \in ChromeOps
      PROVE  /\ chromeAt'[o] \in ChromeAt
             /\ chromeAt'[o].in = chromeAt[o].in /\ chromeAt'[o].kind = chromeAt[o].kind
             /\ chromeAt'[o].of = chromeAt[o].of
             /\ chromeAt'[o].is = IF chromeAt[o].is \in {"queued", "read"} THEN "lost" ELSE chromeAt[o].is
  <2>1. PICK a \in ChromeAt : a = chromeAt[o]
    BY <1>1
  <2>2. Chrome!Running(Worker, o) <=> a.is \in {"queued", "read"}
    BY <2>1 DEF Chrome!Running, ChromeInv, OrderInv
  <2>3. CASE Chrome!Running(Worker, o)
    <3>1. chromeAt'[o] = [a EXCEPT !.is = "lost"]
      BY <1>2, <2>1, <2>3
    <3> QED BY <2>1, <2>2, <2>3, <3>1 DEF ChromeAt
  <2>4. CASE ~Chrome!Running(Worker, o)
    BY <1>2, <2>1, <2>2, <2>4
  <2> QED BY <2>3, <2>4
<1>4. ChromeTyped'
  <2>1. chromeAt' \in [ChromeOps -> ChromeAt]
    BY <1>2, <1>3
  <2>2. chromeHeld' \in [ChromeOps -> SUBSET (ChromeOps \X Nat)]
    BY <1>2 DEF ChromeInv, ChromeTyped
  <2> QED BY <1>2, <2>1, <2>2 DEF ChromeInv, ChromeTyped
<1>5. KeyInv'
  BY <1>2 DEF ChromeInv, ChromeTyped, KeyInv
<1>6. /\ chromeQueue'[Worker] = {}
      /\ \A o \in ChromeOps : ~ChromeRuns(o)' /\ chromeAt'[o].is \notin {"queued", "read"}
  <2>1. chromeQueue'[Worker] = {}
    BY <1>2 DEF ChromeInv, ChromeTyped
  <2>2. \A o \in ChromeOps : chromeAt'[o].is \notin {"queued", "read"}
    BY <1>3
  <2> QED BY <2>1, <2>2 DEF ChromeRuns
<1>7. \A o \in ChromeOps : chromeAt'[o].is # "idle" /\ chromeAt'[o].kind = "delete" =>
         chromeAt'[chromeAt'[o].of].is = "over" /\ chromeAt'[chromeAt'[o].of].kind = "create"
  BY <1>3 DEF ChromeInv, OrderInv, ChromeAt
<1>8. \A o \in ChromeOps : \A p \in chromeBefore'[o] : chromeAt'[p].is # "idle"
  BY <1>2, <1>3 DEF ChromeInv, ChromeTyped, OrderInv
<1>9. \A o \in ChromeOps : chromeAt'[o].is # "idle" => chromeAt'[o].in = Worker
  BY <1>3 DEF ChromeInv, OrderInv
<1>10. OrderInv'
  BY <1>6, <1>7, <1>8, <1>9 DEF OrderInv
<1>11. Chrome!NoChangeLost'
  <2>1. Chrome!Over("create")' = Chrome!Over("create") /\ Chrome!Over("delete")' = Chrome!Over("delete")
    BY <1>3 DEF Chrome!Over
  <2>2. \A o \in Chrome!Over("delete") : chromeAt'[o].of = chromeAt[o].of
    BY <1>3 DEF Chrome!Over
  <2>3. {chromeAt'[o].of : o \in Chrome!Over("delete")} = {chromeAt[o].of : o \in Chrome!Over("delete")}
    BY <2>2
  <2>4. Chrome!Stored' = Chrome!Stored /\ chromeRows' = chromeRows /\ chromeMasterKey' = chromeMasterKey
    BY <1>2 DEF Chrome!Stored
  <2> QED BY <2>1, <2>3, <2>4 DEF ChromeInv, Chrome!NoChangeLost
<1> QED BY <1>4, <1>5, <1>10, <1>11 DEF ChromeInv

\* Every step of the profile keeps what its changes are made from.
LEMMA ChromeStep == ASSUME ChromeInv, Chrome!Next \/ UNCHANGED chromeVars PROVE ChromeInv'
<1>1. CASE UNCHANGED chromeVars
  BY <1>1 DEF chromeVars, ChromeInv, ChromeTyped, KeyInv, OrderInv, ChromeRuns, Chrome!NoChangeLost,
              Chrome!Stored, Chrome!Over
<1>2. Worker = "worker"
  BY DEF Worker
<1> QED BY <1>1, <1>2, ChromeOpens, ChromeAsk, ChromeRead, ChromeWrite, ChromeRestart DEF Chrome!Next

-----------------------------------------------------------------------------
(* The sessions of the on-device model *)

\* A base that is not ready is awaited by whoever will be told of it, and only
\* prompts hold sessions.
DeviceInv ==
  /\ deviceAt \in [Prompts -> {"idle", "awaiting", "cloning", "prompting", "settled"}]
  /\ deviceAborted \subseteq Prompts
  /\ deviceSessions \subseteq {c \in Prompts : deviceAt[c] = "prompting"}
  /\ \E n \in Nat : /\ deviceBases \in [1..n -> {"creating", "ready", "failed"}]
                    /\ deviceBase \in 0..n
                    /\ deviceUsing \in [Prompts -> 0..n]
  /\ deviceBase # 0 /\ deviceBases[deviceBase] # "ready" =>
       \E c \in Prompts : deviceAt[c] = "awaiting" /\ deviceUsing[c] = deviceBase

\* There is no base session at first.
LEMMA DeviceInit == ASSUME Device!Init PROVE DeviceInv
<1>1. deviceBases \in [1..0 -> {"creating", "ready", "failed"}] /\ deviceBase \in 0..0
      /\ deviceUsing \in [Prompts -> 0..0]
  BY DEF Device!Init
<1> QED BY <1>1 DEF Device!Init, DeviceInv

\* A prompt begins, joins the base that is awaited, or makes one.
LEMMA DevicePrompt == ASSUME DeviceInv, NEW c \in Prompts, Device!Prompt(c) PROVE DeviceInv'
<1>1. PICK n \in Nat : /\ deviceBases \in [1..n -> {"creating", "ready", "failed"}]
                       /\ deviceBase \in 0..n /\ deviceUsing \in [Prompts -> 0..n]
  BY DEF DeviceInv
<1>2. Device!Cardinality(DOMAIN deviceBases) = n
  <2>1. Cardinality(1..n) = n
    BY <1>1, FS_Interval
  <2> QED BY <1>1, <2>1 DEF Device!Cardinality, Cardinality
<1>3. PICK m \in Nat : m = n + 1
  BY <1>1
<1>4. /\ deviceAt[c] = "idle"
      /\ deviceAt' = [deviceAt EXCEPT ![c] = "awaiting"]
      /\ deviceUsing' = [deviceUsing EXCEPT ![c] = deviceBase']
      /\ deviceAborted' = deviceAborted /\ deviceSessions' = deviceSessions
      /\ IF deviceBase # 0 THEN deviceBase' = deviceBase /\ deviceBases' = deviceBases
         ELSE /\ deviceBase' = m
              /\ deviceBases' = [k \in 1..m |-> IF k = m THEN "creating" ELSE deviceBases[k]]
  BY <1>2, <1>3 DEF Device!Prompt
<1>5. CASE deviceBase # 0
  BY <1>1, <1>4, <1>5 DEF DeviceInv
<1>6. CASE deviceBase = 0
  <2>1. deviceBases' \in [1..m -> {"creating", "ready", "failed"}] /\ deviceBase' \in 0..m
    BY <1>1, <1>3, <1>4, <1>6
  <2>2. deviceUsing' \in [Prompts -> 0..m]
    BY <1>1, <1>3, <1>4, <1>6
  <2> QED BY <1>1, <1>3, <1>4, <1>6, <2>1, <2>2 DEF DeviceInv
<1> QED BY <1>5, <1>6

\* Every step keeps it.
LEMMA DeviceStep == ASSUME DeviceInv, Device!Next \/ UNCHANGED deviceVars PROVE DeviceInv'
<1>1. CASE UNCHANGED deviceVars
  BY <1>1 DEF deviceVars, DeviceInv
<1>2. ASSUME NEW c \in Prompts, Device!Refuse(c) \/ Device!EndPrompt(c) \/ Device!Abort(c) PROVE DeviceInv'
  BY <1>2 DEF DeviceInv, Device!Refuse, Device!EndPrompt, Device!Abort, Device!Destroyed
<1>3. ASSUME NEW c \in Prompts, Device!AwaitBase(c) PROVE DeviceInv'
  BY <1>3 DEF DeviceInv, Device!AwaitBase, Device!GiveUpBase
<1>4. ASSUME NEW c \in Prompts, Device!Clone(c) PROVE DeviceInv'
  <2>1. /\ deviceAt[c] = "cloning" /\ deviceAborted' = deviceAborted /\ deviceUsing' = deviceUsing
        /\ deviceBases' = deviceBases /\ (deviceBase' = deviceBase \/ deviceBase' = 0)
    BY <1>4 DEF Device!Clone, Device!GiveUpBase
  <2>2. \E n \in Nat : /\ deviceBases' \in [1..n -> {"creating", "ready", "failed"}]
                       /\ deviceBase' \in 0..n
                       /\ deviceUsing' \in [Prompts -> 0..n]
    BY <2>1 DEF DeviceInv
  <2>3. CASE deviceAt' = [deviceAt EXCEPT ![c] = "settled"]
             /\ (deviceSessions' = deviceSessions \/ deviceSessions' = deviceSessions \ {c})
    BY <2>1, <2>2, <2>3 DEF DeviceInv
  <2>4. CASE deviceAt' = [deviceAt EXCEPT ![c] = "prompting"] /\ deviceSessions' = deviceSessions \cup {c}
    BY <2>1, <2>2, <2>4 DEF DeviceInv
  <2> QED BY <1>4, <2>3, <2>4 DEF Device!Clone, Device!Destroyed
<1>5. ASSUME NEW k \in DOMAIN deviceBases, NEW o \in {"ready", "failed"}, Device!Created(k, o) PROVE DeviceInv'
  BY <1>5 DEF DeviceInv, Device!Created
<1> QED BY <1>1, <1>2, <1>3, <1>4, <1>5, DevicePrompt DEF Device!Next

\* No session stays of what was given up.
LEMMA DeviceSafe == ASSUME DeviceInv PROVE Device!NothingStaleOfTheModel
BY DEF DeviceInv, Device!NothingStaleOfTheModel
-----------------------------------------------------------------------------
(* The sockets of a program *)

\* Whoever tries addresses was granted the name, and they are public or the name itself.
NetInv ==
  /\ netAt \in [Connects -> {"idle", "resolving", "trying", "under way", "over", "failed"}]
  /\ netName \in [Connects -> Hosts \cup {CHOOSE n \in Hosts : TRUE}]
  /\ DOMAIN netLeft = Connects
  /\ \A a \in Connects :
       /\ netLeft[a] \in Seq(Hosts \cup Addresses)
       /\ netAt[a] \in {"resolving", "trying", "under way"} => netName[a] \in GrantedHosts
       /\ netName[a] \in LiteralHosts \/ \A i \in DOMAIN netLeft[a] : netLeft[a][i] \in PublicAddresses
       /\ netAt[a] = "idle" => netLeft[a] = <<>>
  /\ netRecv \in [Receivers -> {"idle", "asked", "parked", "over", "again", "failed"}]
  /\ Net!OnlyGrantedSockets

\* No socket is open at first.
LEMMA NetInit == ASSUME Net!Init PROVE NetInv
<1>1. <<>> \in Seq(Hosts \cup Addresses) /\ DOMAIN <<>> = {}
  OBVIOUS
<1> QED BY <1>1 DEF Net!Init, NetInv, Net!OnlyGrantedSockets

\* The rest of a list of addresses is one.
LEMMA NetTail ==
  ASSUME NEW S, NEW s \in Seq(S), s # <<>>
  PROVE  /\ Tail(s) \in Seq(S) /\ Head(s) = s[1] /\ 1 \in DOMAIN s
         /\ \A i \in DOMAIN Tail(s) : i + 1 \in DOMAIN s /\ Tail(s)[i] = s[i + 1]
OBVIOUS

\* Every open socket was granted.
LEMMA NetSafe == ASSUME NetInv PROVE Net!OnlyGrantedSockets
BY DEF NetInv

\* Every step of the sockets keeps it.
LEMMA NetStep == ASSUME NetInv, Net!Next \/ UNCHANGED netVars PROVE NetInv'
<1> USE DEF Net!datagrams, Net!asks
<1>1. CASE UNCHANGED netVars
  BY <1>1 DEF netVars, NetInv, Net!OnlyGrantedSockets
<1>2. ASSUME NEW a \in Connects, NEW n \in Hosts, Net!AskFor(a, n) PROVE NetInv'
  <2>1. netLeft' = [netLeft EXCEPT ![a] = IF n \in LiteralHosts THEN <<n>> ELSE <<>>]
    BY <1>2 DEF Net!AskFor
  <2>2. <<n>> \in Seq(Hosts \cup Addresses) /\ <<>> \in Seq(Hosts \cup Addresses) /\ DOMAIN <<>> = {}
    OBVIOUS
  <2>3. \A b \in Connects : netLeft'[b] \in Seq(Hosts \cup Addresses)
    BY <2>1, <2>2 DEF NetInv
  <2> QED BY <1>2, <2>1, <2>2, <2>3 DEF Net!AskFor, NetInv, Net!OnlyGrantedSockets
<1>3. ASSUME NEW a \in Connects, NEW found \in Net!SeqOf(Addresses, 2), Net!Outbound(a, found) PROVE NetInv'
  <2>1. found \in Seq(Addresses) /\ found \in Seq(Hosts \cup Addresses)
    <3>1. PICK m \in 0..2 : found \in [1..m -> Addresses]
      BY DEF Net!SeqOf
    <3>2. m \in Nat /\ found \in [1..m -> Hosts \cup Addresses]
      BY <3>1
    <3> QED BY <3>1, <3>2
  <2>2. Net!LetsThrough(found) => \A i \in DOMAIN found : found[i] \in PublicAddresses
    BY DEF Net!LetsThrough, Net!Range
  <2>3. /\ netAt[a] = "resolving" /\ netName[a] \in GrantedHosts
        /\ netName' = netName /\ netContacted' = netContacted /\ netOpened' = netOpened
        /\ netSocks' = netSocks /\ netRecv' = netRecv
    BY <1>3 DEF Net!Outbound, NetInv
  <2>4. CASE found # <<>> /\ Net!LetsThrough(found)
    <3>1. netAt' = [netAt EXCEPT ![a] = "trying"] /\ netLeft' = [netLeft EXCEPT ![a] = found]
      BY <1>3, <2>4 DEF Net!Outbound
    <3>2. netAt' \in [Connects -> {"idle", "resolving", "trying", "under way", "over", "failed"}]
          /\ netAt'[a] = "trying" /\ (\A b \in Connects \ {a} : netAt'[b] = netAt[b])
      BY <3>1 DEF NetInv
    <3>3. DOMAIN netLeft' = Connects /\ netLeft'[a] = found
          /\ (\A b \in Connects \ {a} : netLeft'[b] = netLeft[b])
      BY <3>1 DEF NetInv
    <3>4. Net!OnlyGrantedSockets'
      BY <2>3, <3>2 DEF NetInv, Net!OnlyGrantedSockets
    <3> QED BY <2>1, <2>2, <2>3, <2>4, <3>2, <3>3, <3>4 DEF NetInv
  <2>5. CASE ~(found # <<>> /\ Net!LetsThrough(found))
    <3>1. netAt' = [netAt EXCEPT ![a] = "failed"] /\ netLeft' = netLeft
      BY <1>3, <2>5 DEF Net!Outbound
    <3>2. netAt' \in [Connects -> {"idle", "resolving", "trying", "under way", "over", "failed"}]
          /\ netAt'[a] = "failed" /\ (\A b \in Connects \ {a} : netAt'[b] = netAt[b])
      BY <3>1 DEF NetInv
    <3>3. Net!OnlyGrantedSockets'
      BY <2>3, <3>2 DEF NetInv, Net!OnlyGrantedSockets
    <3> QED BY <2>3, <3>1, <3>2, <3>3 DEF NetInv
  <2> QED BY <2>4, <2>5
<1>4. ASSUME NEW a \in Connects, Net!Try(a) PROVE NetInv'
  <2>1. CASE netLeft[a] = <<>>
    BY <1>4, <2>1 DEF Net!Try, NetInv, Net!OnlyGrantedSockets
  <2>2. CASE netLeft[a] # <<>>
    <3> DEFINE s == netLeft[a]
    <3>1. /\ Tail(s) \in Seq(Hosts \cup Addresses) /\ Head(s) = s[1] /\ 1 \in DOMAIN s
          /\ \A i \in DOMAIN Tail(s) : i + 1 \in DOMAIN s /\ Tail(s)[i] = s[i + 1]
      BY <2>2, NetTail DEF NetInv
    <3>2. /\ netAt[a] = "trying"
          /\ netAt' = [netAt EXCEPT ![a] = "under way"]
          /\ netLeft' = [netLeft EXCEPT ![a] = Tail(s)]
          /\ netContacted' = netContacted \cup {<<netName[a], s[1]>>}
          /\ netOpened' = netOpened \cup {a}
          /\ netName' = netName /\ netSocks' = netSocks /\ netRecv' = netRecv
      BY <1>4, <2>2, <3>1 DEF Net!Try
    <3> DEFINE t == Tail(s)
    <3>3. \A i \in DOMAIN t : netName[a] \in LiteralHosts \/ t[i] \in PublicAddresses
      BY <3>1 DEF NetInv
    <3>4. netName[a] \in GrantedHosts /\ (s[1] \in PublicAddresses \/ netName[a] \in LiteralHosts)
      BY <3>1, <3>2 DEF NetInv
    <3> HIDE DEF s, t
    <3>5. \A c \in netContacted' : c[1] \in GrantedHosts /\ (c[2] \in PublicAddresses \/ c[1] \in LiteralHosts)
      <4> DEFINE pair == <<netName[a], s[1]>>
      <4>1. pair[1] = netName[a] /\ pair[2] = s[1] /\ netContacted' = netContacted \cup {pair}
        BY <3>2
      <4> HIDE DEF pair
      <4> QED BY <3>4, <4>1 DEF NetInv, Net!OnlyGrantedSockets
    <3>6. netOpened' \subseteq netSocks' \cup {b \in Connects : netAt'[b] = "under way"}
      <4>1. netAt'[a] = "under way" /\ (\A b \in Connects \ {a} : netAt'[b] = netAt[b])
        BY <3>2 DEF NetInv
      <4>2. netOpened \subseteq netSocks \cup {b \in Connects : netAt[b] = "under way"}
        BY DEF NetInv, Net!OnlyGrantedSockets
      <4>3. netOpened' = netOpened \cup {a} /\ netSocks' = netSocks
        BY <3>2
      <4> QED BY <4>1, <4>2, <4>3
    <3>7. netLeft' = [netLeft EXCEPT ![a] = t] /\ t \in Seq(Hosts \cup Addresses)
      BY <3>1, <3>2 DEF t
    <3>8. Net!OnlyGrantedSockets'
      BY <3>5, <3>6 DEF Net!OnlyGrantedSockets
    <3>9. ASSUME NEW b \in Connects
          PROVE  /\ netLeft'[b] \in Seq(Hosts \cup Addresses)
                 /\ netAt'[b] \in {"resolving", "trying", "under way"} => netName'[b] \in GrantedHosts
                 /\ netName'[b] \in LiteralHosts \/ \A i \in DOMAIN netLeft'[b] : netLeft'[b][i] \in PublicAddresses
                 /\ netAt'[b] = "idle" => netLeft'[b] = <<>>
      <4>1. CASE b = a
        <5>1. netLeft'[a] = t /\ netAt'[a] = "under way" /\ netName'[a] = netName[a]
          BY <3>2, <3>7 DEF NetInv
        <5> QED BY <3>3, <3>4, <3>7, <4>1, <5>1
      <4>2. CASE b # a
        <5>1. netLeft'[b] = netLeft[b] /\ netAt'[b] = netAt[b] /\ netName'[b] = netName[b]
          BY <3>2, <3>7, <4>2 DEF NetInv
        <5> QED BY <5>1 DEF NetInv
      <4> QED BY <4>1, <4>2
    <3>10. /\ netAt' \in [Connects -> {"idle", "resolving", "trying", "under way", "over", "failed"}]
           /\ DOMAIN netLeft' = Connects
      BY <3>2, <3>7 DEF NetInv
    <3> QED BY <3>2, <3>8, <3>9, <3>10 DEF NetInv
  <2> QED BY <2>1, <2>2
<1>5. ASSUME NEW a \in Connects, Net!ConnectOnce(a) \/ Net!CloseOwned(a) \/ Net!PeerCloses(a) PROVE NetInv'
  BY <1>5 DEF Net!ConnectOnce, Net!CloseOwned, Net!PeerCloses, Net!Destroyed, NetInv, Net!OnlyGrantedSockets
<1>6. ASSUME NEW r \in Receivers, Net!Recvfrom(r) \/ Net!NextDatagram(r) \/ Net!Deadline(r) PROVE NetInv'
  <2>1. netRecv' \in [Receivers -> {"idle", "asked", "parked", "over", "again", "failed"}]
    BY <1>6 DEF Net!Recvfrom, Net!NextDatagram, Net!Deadline, NetInv
  <2>2. UNCHANGED <<netAt, netLeft, netName, netContacted, netOpened, netSocks>>
    BY <1>6 DEF Net!Recvfrom, Net!NextDatagram, Net!Deadline
  <2> QED BY <2>1, <2>2 DEF NetInv, Net!OnlyGrantedSockets
<1>7. CASE Net!Message \/ Net!SocketFails
  <2>1. netRecv' \in [Receivers -> {"idle", "asked", "parked", "over", "again", "failed"}]
    BY <1>7 DEF Net!Message, Net!SocketFails, Net!Woken, NetInv
  <2>2. UNCHANGED <<netAt, netLeft, netName, netContacted, netOpened, netSocks>>
    BY <1>7 DEF Net!Message, Net!SocketFails
  <2> QED BY <2>1, <2>2 DEF NetInv, Net!OnlyGrantedSockets
<1> HIDE DEF Net!datagrams, Net!asks
<1> QED BY <1>1, <1>2, <1>3, <1>4, <1>5, <1>6, <1>7 DEF Net!Next

\* Who is told that nothing came, or that the socket failed, found the inbox empty.
LEMMA NetTold ==
  ASSUME NetInv, Net!Next \/ UNCHANGED netVars, NEW r \in Receivers,
         netRecv'[r] \in {"again", "failed"}, netRecv[r] = "asked"
  PROVE  netInbox = <<>>
<1> USE DEF Net!datagrams, Net!asks
<1>1. ~ UNCHANGED netRecv
  OBVIOUS
<1>2. ASSUME NEW s \in Receivers, Net!Recvfrom(s) \/ Net!Deadline(s) PROVE FALSE
  BY <1>2 DEF Net!Recvfrom, Net!Deadline, NetInv
<1>3. ASSUME NEW s \in Receivers, Net!NextDatagram(s) PROVE netInbox = <<>>
  BY <1>3 DEF Net!NextDatagram, Net!Takes, NetInv
<1>4. CASE Net!Message \/ Net!SocketFails
  BY <1>4 DEF Net!Message, Net!SocketFails, Net!Woken, NetInv
<1>5. ASSUME NEW a \in Connects, \/ \E n \in Hosts : Net!AskFor(a, n)
                                 \/ Net!Try(a) \/ Net!ConnectOnce(a) \/ Net!CloseOwned(a) \/ Net!PeerCloses(a)
                                 \/ \E found \in Net!SeqOf(Addresses, 2) : Net!Outbound(a, found)
      PROVE  netRecv' = netRecv
  BY <1>5 DEF Net!AskFor, Net!Try, Net!ConnectOnce, Net!CloseOwned, Net!PeerCloses, Net!Outbound
<1> HIDE DEF Net!datagrams, Net!asks
<1> QED BY <1>1, <1>2, <1>3, <1>4, <1>5 DEF Net!Next, netVars

-----------------------------------------------------------------------------
(* The descriptors of the operating-system host *)

FileAsk == [at : {"idle", "running", "done", "failed"}, fd : Fds \cup {CHOOSE f \in Fds : TRUE},
            left : Int, did : Seq(Int), start : Int]
FileFd == [position : Int, append : BOOLEAN]

\* One transfer runs on a descriptor, which stands where that one has come to;
\* a descriptor that is closed is not opened again.
FileInv ==
  /\ fileSize \in Int
  /\ fileFds \in [Fds -> FileFd]
  /\ fileAsks \in [Transfers -> FileAsk]
  /\ \A a \in Transfers :
       /\ fileAsks[a].at = "idle" => fileAsks[a].did = <<>>
       /\ fileAsks[a].at # "idle" => fileAsks[a].fd \in Fds
       /\ fileAsks[a].at = "running" =>
            /\ \A b \in Transfers : fileAsks[b].at = "running" /\ fileAsks[b].fd = fileAsks[a].fd => a = b
            /\ (fileFds[fileAsks[a].fd].position >= 0
                 /\ ~(a \in Writes /\ fileFds[fileAsks[a].fd].append)) =>
                 fileFds[fileAsks[a].fd].position = fileAsks[a].start + Len(fileAsks[a].did)
  /\ Files!TransfersAreConsecutive

\* No descriptor is open at first.
LEMMA FileInit == ASSUME Files!FileInit PROVE FileInv
<1>1. Files!Unasked \in FileAsk /\ Files!Unasked.at = "idle" /\ Files!Unasked.did = <<>>
  BY DEF Files!Unasked, FileAsk
<1>2. /\ fileSize \in Int /\ fileFds = [f \in Fds |-> [position |-> -1, append |-> FALSE]]
      /\ fileAsks = [a \in Transfers |-> Files!Unasked]
  BY DEF Files!FileInit
<1>3. fileFds \in [Fds -> FileFd]
  BY <1>2 DEF FileFd
<1>4. \A a \in Transfers : DOMAIN fileAsks[a].did = {}
  BY <1>1, <1>2
<1>5. Files!TransfersAreConsecutive
  BY <1>4 DEF Files!TransfersAreConsecutive
<1> QED BY <1>1, <1>2, <1>3, <1>5 DEF FileInv

\* A descriptor is opened, moved or closed while no transfer runs on it, or closed.
LEMMA FileMoves ==
  ASSUME FileInv, NEW f \in Fds, NEW row \in FileFd, fileFds' = [fileFds EXCEPT ![f] = row],
         fileAsks' = fileAsks, fileSize' \in Int,
         \/ row.position = -1
         \/ \A a \in Transfers : fileAsks[a].at # "idle" => fileAsks[a].fd # f
         \/ /\ row.append = fileFds[f].append /\ fileFds[f].position >= 0
            /\ \A a \in Transfers : fileAsks[a].at = "running" => fileAsks[a].fd # f
  PROVE  FileInv'
<1>1. /\ fileFds' \in [Fds -> FileFd] /\ fileFds'[f] = row
      /\ \A g \in Fds \ {f} : fileFds'[g] = fileFds[g]
  BY DEF FileInv
<1>2. \A a \in Transfers : fileAsks[a].at = "idle" => DOMAIN fileAsks[a].did = {}
  BY DEF FileInv
<1>3. Files!TransfersAreConsecutive'
  BY <1>1, <1>2 DEF FileInv, Files!TransfersAreConsecutive
<1>4. \A a \in Transfers :
        (/\ fileAsks[a].at = "running" /\ fileFds'[fileAsks[a].fd].position >= 0
         /\ ~(a \in Writes /\ fileFds'[fileAsks[a].fd].append)) =>
             fileFds'[fileAsks[a].fd].position = fileAsks[a].start + Len(fileAsks[a].did)
  <2> SUFFICES ASSUME NEW a \in Transfers, fileAsks[a].at = "running"
               PROVE  (fileFds'[fileAsks[a].fd].position >= 0
                        /\ ~(a \in Writes /\ fileFds'[fileAsks[a].fd].append)) =>
                      fileFds'[fileAsks[a].fd].position = fileAsks[a].start + Len(fileAsks[a].did)
    OBVIOUS
  <2>1. CASE fileAsks[a].fd = f
    BY <1>1, <2>1
  <2>2. CASE fileAsks[a].fd # f
    BY <1>1, <2>2 DEF FileInv
  <2> QED BY <2>1, <2>2
<1> QED BY <1>1, <1>3, <1>4 DEF FileInv

\* What a list that has grown by one holds.
LEMMA AppendFacts ==
  ASSUME NEW S, NEW s \in Seq(S), NEW e \in S
  PROVE  /\ Append(s, e) \in Seq(S) /\ Len(s) \in Nat /\ Len(Append(s, e)) = Len(s) + 1
         /\ \A i \in DOMAIN Append(s, e) :
              \/ i \in DOMAIN s /\ Append(s, e)[i] = s[i]
              \/ i = Len(s) + 1 /\ Append(s, e)[i] = e
OBVIOUS

\* A transfer goes one place on: a chunk is read, or written in part.
LEMMA FileGoes ==
  ASSUME FileInv, NEW a \in Transfers, NEW f \in Fds, f = fileAsks[a].fd, NEW place \in Int,
         fileAsks[a].at = "running",
         fileAsks' = [fileAsks EXCEPT ![a].left = @ - 1, ![a].did = Append(@, place)],
         fileSize' \in Int,
         IF a \in Writes /\ fileFds[f].append THEN fileFds' = fileFds
         ELSE place = fileFds[f].position /\ fileFds' = Files!Advanced(f, 1),
         fileFds[f].position >= 0
  PROVE  FileInv'
<1>1. PICK c \in FileAsk : c = fileAsks[a]
  BY DEF FileInv
<1>2. PICK row \in FileFd : row = fileFds[f]
  BY DEF FileInv
<1>3. PICK n \in Int : n = c.left - 1
  BY DEF FileAsk
<1>0. c.did \in Seq(Int)
  BY DEF FileAsk
<1>4. PICK d \in Seq(Int) : d = Append(c.did, place)
  BY <1>0, AppendFacts
<1>5. /\ Len(d) = Len(c.did) + 1 /\ Len(c.did) \in Nat
      /\ \A i \in DOMAIN d : \/ i \in DOMAIN c.did /\ d[i] = c.did[i]
                             \/ i = Len(c.did) + 1 /\ d[i] = place
  <2>1. /\ Len(Append(c.did, place)) = Len(c.did) + 1 /\ Len(c.did) \in Nat
        /\ \A i \in DOMAIN Append(c.did, place) :
             \/ i \in DOMAIN c.did /\ Append(c.did, place)[i] = c.did[i]
             \/ i = Len(c.did) + 1 /\ Append(c.did, place)[i] = place
    BY <1>0, AppendFacts, Zenon
  <2> QED BY <1>4, <2>1, Zenon
<1> DEFINE new == [c EXCEPT !.left = n, !.did = d]
<1>6. /\ new \in FileAsk /\ new.at = "running" /\ new.fd = f /\ new.did = d /\ new.start = c.start
  BY <1>1 DEF FileAsk
<1>7. fileAsks' = [fileAsks EXCEPT ![a] = new]
  BY <1>1, <1>3, <1>4 DEF FileInv
<1> HIDE DEF new
<1>8. /\ fileAsks' \in [Transfers -> FileAsk] /\ fileAsks'[a] = new
      /\ \A b \in Transfers \ {a} : fileAsks'[b] = fileAsks[b]
  BY <1>6, <1>7 DEF FileInv
<1>9. \E to \in FileFd : /\ fileFds' = [fileFds EXCEPT ![f] = to]
                         /\ to.append = row.append
                         /\ IF a \in Writes /\ row.append THEN to = row
                            ELSE place = row.position /\ to.position = row.position + 1
  <2>1. CASE a \in Writes /\ row.append
    BY <1>2, <2>1 DEF FileInv
  <2>2. CASE ~(a \in Writes /\ row.append)
    <3>1. PICK m \in Int : m = row.position + 1
      BY DEF FileFd
    <3> DEFINE to == [row EXCEPT !.position = m]
    <3>2. to \in FileFd /\ to.append = row.append /\ to.position = m
      BY DEF FileFd
    <3>3. fileFds' = [fileFds EXCEPT ![f] = to] /\ place = row.position
      BY <1>2, <2>2, <3>1 DEF FileInv, Files!Advanced
    <3> HIDE DEF to
    <3> QED BY <2>2, <3>1, <3>2, <3>3
  <2> QED BY <2>1, <2>2
<1>10. /\ fileFds' \in [Fds -> FileFd] /\ fileFds'[f].append = row.append
       /\ \A g \in Fds \ {f} : fileFds'[g] = fileFds[g]
       /\ ~(a \in Writes /\ row.append) => place = row.position /\ fileFds'[f].position = row.position + 1
       /\ a \in Writes /\ row.append => fileFds'[f] = row
  BY <1>9 DEF FileInv
<1>11. \A b \in Transfers \ {a} : fileAsks[b].at = "running" => fileAsks[b].fd \in Fds \ {f}
  BY DEF FileInv
<1>12. ~(a \in Writes /\ row.append) =>
         /\ row.position = c.start + Len(c.did)
         /\ \A i \in DOMAIN c.did : c.did[i] = c.start + i - 1
  BY <1>1, <1>2 DEF FileInv, Files!TransfersAreConsecutive
<1>13. c.start \in Int /\ row.position \in Int
  BY DEF FileAsk, FileFd
<1>14. Files!TransfersAreConsecutive'
  <2> SUFFICES ASSUME NEW b \in Transfers, fileFds'[fileAsks'[b].fd].position >= 0,
                      ~(b \in Writes /\ fileFds'[fileAsks'[b].fd].append),
                      NEW i \in DOMAIN fileAsks'[b].did
               PROVE  fileAsks'[b].did[i] = fileAsks'[b].start + i - 1
    BY DEF Files!TransfersAreConsecutive
  <2>1. CASE b = a
    <3>1. ~(a \in Writes /\ row.append)
      BY <1>6, <1>8, <1>10, <2>1
    <3>2. place = c.start + Len(c.did)
      BY <1>10, <1>12, <3>1
    <3>3. i \in DOMAIN d /\ fileAsks'[b].did[i] = d[i] /\ fileAsks'[b].start = c.start
      BY <1>6, <1>8, <2>1
    <3>4. CASE i \in DOMAIN c.did /\ d[i] = c.did[i]
      BY <1>12, <3>1, <3>3, <3>4
    <3>5. CASE i = Len(c.did) + 1 /\ d[i] = place
      <4>1. fileAsks'[b].did[i] = c.start + Len(c.did) /\ fileAsks'[b].start = c.start
        BY <3>2, <3>3, <3>5
      <4>2. \A x \in Int, l \in Nat : x + l = x + (l + 1) - 1
        OBVIOUS
      <4> QED BY <1>5, <1>13, <3>5, <4>1, <4>2
    <3> QED BY <1>5, <3>3, <3>4, <3>5
  <2>2. CASE b # a
    <3>1. fileAsks'[b] = fileAsks[b] /\ fileAsks[b].at # "idle" /\ fileAsks[b].fd \in Fds
      BY <1>8, <2>2 DEF FileInv
    <3>2. fileFds'[fileAsks[b].fd].append = fileFds[fileAsks[b].fd].append
      BY <1>2, <1>10, <3>1
    <3>3. fileFds[fileAsks[b].fd].position >= 0
      BY <1>2, <1>10, <3>1
    <3>4. ~(b \in Writes /\ fileFds[fileAsks[b].fd].append) /\ i \in DOMAIN fileAsks[b].did
      BY <3>1, <3>2
    <3>5. fileAsks[b].did[i] = fileAsks[b].start + i - 1
      BY <3>3, <3>4 DEF FileInv, Files!TransfersAreConsecutive
    <3> QED BY <3>1, <3>5
  <2> QED BY <2>1, <2>2
<1>15. ASSUME NEW b \in Transfers
       PROVE  /\ fileAsks'[b].at = "idle" => fileAsks'[b].did = <<>>
              /\ fileAsks'[b].at # "idle" => fileAsks'[b].fd \in Fds
              /\ fileAsks'[b].at = "running" =>
                   /\ \A e \in Transfers : fileAsks'[e].at = "running" /\ fileAsks'[e].fd = fileAsks'[b].fd => b = e
                   /\ (fileFds'[fileAsks'[b].fd].position >= 0
                        /\ ~(b \in Writes /\ fileFds'[fileAsks'[b].fd].append)) =>
                        fileFds'[fileAsks'[b].fd].position = fileAsks'[b].start + Len(fileAsks'[b].did)
  <2>1. CASE b = a
    <3>1. \A e \in Transfers : fileAsks'[e].at = "running" /\ fileAsks'[e].fd = f => a = e
      BY <1>8, <1>11
    <3>2. ~(a \in Writes /\ row.append) => fileFds'[f].position = c.start + Len(d)
      BY <1>5, <1>10, <1>12, <1>13
    <3> QED BY <1>6, <1>8, <1>10, <2>1, <3>1, <3>2
  <2>2. CASE b # a
    <3>1. fileAsks'[b] = fileAsks[b]
      BY <1>8, <2>2
    <3>2. fileAsks[b].at = "running" => fileAsks[b].fd \in Fds \ {f} /\ fileFds'[fileAsks[b].fd] = fileFds[fileAsks[b].fd]
      BY <1>10, <1>11, <2>2
    <3>3. \A e \in Transfers : fileAsks[b].at = "running" /\ fileAsks'[e].at = "running"
                               /\ fileAsks'[e].fd = fileAsks[b].fd => b = e
      BY <1>6, <1>8, <1>11, <2>2 DEF FileInv
    <3> QED BY <3>1, <3>2, <3>3 DEF FileInv
  <2> QED BY <2>1, <2>2
<1> QED BY <1>8, <1>10, <1>14, <1>15 DEF FileInv

\* A transfer is over or fails: it stands where it stood.
LEMMA FileEnds ==
  ASSUME FileInv, NEW a \in Transfers, Files!End(a) \/ Files!Fail(a)
  PROVE  FileInv'
<1>1. PICK c \in FileAsk : c = fileAsks[a]
  BY DEF FileInv
<1>2. c.at = "running" /\ c.fd \in Fds /\ fileSize' = fileSize /\ fileSize \in Int
  BY <1>1 DEF FileInv, Files!End, Files!Fail
<1>3. PICK place \in {"done", "failed"} : fileAsks' = [fileAsks EXCEPT ![a].at = place]
  BY DEF Files!End, Files!Fail
<1> DEFINE new == [c EXCEPT !.at = place]
<1>4. /\ new \in FileAsk /\ new.at = place /\ new.fd = c.fd /\ new.did = c.did /\ new.start = c.start
      /\ fileAsks' = [fileAsks EXCEPT ![a] = new]
  BY <1>1, <1>3 DEF FileAsk, FileInv
<1> HIDE DEF new
<1>5. /\ fileAsks' \in [Transfers -> FileAsk] /\ fileAsks'[a] = new
      /\ \A b \in Transfers \ {a} : fileAsks'[b] = fileAsks[b]
  BY <1>4 DEF FileInv
<1>6. PICK row \in FileFd : row = fileFds[c.fd]
  BY <1>2 DEF FileInv
<1>7. \E to \in FileFd : /\ fileFds' = [fileFds EXCEPT ![c.fd] = to] /\ to.append = row.append
                         /\ to # row => a \in Writes /\ row.append /\ row.position >= 0
  <2>1. CASE fileFds' = fileFds
    BY <1>6, <2>1 DEF FileInv
  <2>2. CASE fileFds' # fileFds
    <3>1. a \in Writes /\ row.append /\ row.position >= 0
      BY <1>1, <1>6, <2>2 DEF Files!End, Files!Fail
    <3> DEFINE to == [row EXCEPT !.position = fileSize]
    <3>2. to \in FileFd /\ to.append = row.append
      BY <1>2 DEF FileFd
    <3>3. fileFds' = [fileFds EXCEPT ![c.fd] = to]
      BY <1>1, <1>6, <2>2 DEF Files!End, Files!Fail, FileInv
    <3> HIDE DEF to
    <3> QED BY <3>1, <3>2, <3>3
  <2> QED BY <2>1, <2>2
<1>8. /\ fileFds' \in [Fds -> FileFd] /\ \A g \in Fds : fileFds'[g].append = fileFds[g].append
      /\ \A g \in Fds \ {c.fd} : fileFds'[g] = fileFds[g]
      /\ fileFds'[c.fd] # row => a \in Writes /\ row.append /\ row.position >= 0
  BY <1>2, <1>6, <1>7 DEF FileInv
<1>9. \A b \in Transfers \ {a} : fileAsks[b].at = "running" => fileAsks[b].fd \in Fds \ {c.fd}
  BY <1>1, <1>2 DEF FileInv
<1>10. Files!TransfersAreConsecutive'
  <2> SUFFICES ASSUME NEW b \in Transfers, fileFds'[fileAsks'[b].fd].position >= 0,
                      ~(b \in Writes /\ fileFds'[fileAsks'[b].fd].append),
                      NEW i \in DOMAIN fileAsks'[b].did
               PROVE  fileAsks'[b].did[i] = fileAsks'[b].start + i - 1
    BY DEF Files!TransfersAreConsecutive
  <2>1. fileAsks'[b].did = fileAsks[b].did /\ fileAsks'[b].fd = fileAsks[b].fd /\ fileAsks'[b].start = fileAsks[b].start
    BY <1>1, <1>4, <1>5
  <2>2. fileAsks[b].fd \in Fds
    <3>1. fileAsks[b].at = "idle" => DOMAIN fileAsks[b].did = {}
      BY DEF FileInv
    <3> QED BY <2>1, <3>1 DEF FileInv
  <2>3. fileFds[fileAsks[b].fd].position >= 0 /\ ~(b \in Writes /\ fileFds[fileAsks[b].fd].append)
    BY <1>6, <1>8, <2>1, <2>2
  <2> QED BY <2>1, <2>3 DEF FileInv, Files!TransfersAreConsecutive
<1>11. ASSUME NEW b \in Transfers
       PROVE  /\ fileAsks'[b].at = "idle" => fileAsks'[b].did = <<>>
              /\ fileAsks'[b].at # "idle" => fileAsks'[b].fd \in Fds
              /\ fileAsks'[b].at = "running" =>
                   /\ \A e \in Transfers : fileAsks'[e].at = "running" /\ fileAsks'[e].fd = fileAsks'[b].fd => b = e
                   /\ (fileFds'[fileAsks'[b].fd].position >= 0
                        /\ ~(b \in Writes /\ fileFds'[fileAsks'[b].fd].append)) =>
                        fileFds'[fileAsks'[b].fd].position = fileAsks'[b].start + Len(fileAsks'[b].did)
  <2>1. CASE b = a
    BY <1>2, <1>4, <1>5, <2>1
  <2>2. CASE b # a
    <3>1. fileAsks'[b] = fileAsks[b]
      BY <1>5, <2>2
    <3>2. fileAsks[b].at = "running" => fileFds'[fileAsks[b].fd] = fileFds[fileAsks[b].fd]
      BY <1>8, <1>9, <2>2
    <3>3. \A e \in Transfers : fileAsks[b].at = "running" /\ fileAsks'[e].at = "running"
                               /\ fileAsks'[e].fd = fileAsks[b].fd => b = e
      BY <1>4, <1>5, <2>2 DEF FileInv
    <3> QED BY <3>1, <3>2, <3>3 DEF FileInv
  <2> QED BY <2>1, <2>2
<1> QED BY <1>2, <1>5, <1>8, <1>10, <1>11 DEF FileInv

\* A transfer starts where its descriptor stands.
LEMMA FileStart ==
  ASSUME FileInv, NEW a \in Transfers, NEW f \in Fds, NEW n \in 1..2, Files!Start(a, f, n)
  PROVE  FileInv'
<1> DEFINE new == [at |-> "running", fd |-> f, left |-> n, did |-> <<>>, start |-> fileFds[f].position]
<1>1. fileFds[f].position \in Int /\ <<>> \in Seq(Int) /\ Len(<<>>) = 0 /\ DOMAIN <<>> = {}
  BY DEF FileInv, FileFd
<1>2. /\ new \in FileAsk /\ new.at = "running" /\ new.fd = f /\ new.did = <<>> /\ new.start = fileFds[f].position
  BY <1>1 DEF FileAsk
<1>3. /\ fileAsks' = [fileAsks EXCEPT ![a] = new] /\ fileFds' = fileFds /\ fileSize' = fileSize
      /\ fileFds[f].position >= 0 /\ fileAsks[a].at = "idle"
      /\ \A b \in Transfers : ~(fileAsks[b].at = "running" /\ fileAsks[b].fd = f)
  BY DEF Files!Start, Files!Free, Files!Running
<1> HIDE DEF new
<1>4. /\ fileAsks' \in [Transfers -> FileAsk] /\ fileAsks'[a] = new
      /\ \A b \in Transfers \ {a} : fileAsks'[b] = fileAsks[b]
  BY <1>2, <1>3 DEF FileInv
<1>5. Files!TransfersAreConsecutive'
  BY <1>1, <1>2, <1>3, <1>4 DEF FileInv, Files!TransfersAreConsecutive
<1>6. ASSUME NEW b \in Transfers
      PROVE  /\ fileAsks'[b].at = "idle" => fileAsks'[b].did = <<>>
             /\ fileAsks'[b].at # "idle" => fileAsks'[b].fd \in Fds
             /\ fileAsks'[b].at = "running" =>
                  /\ \A e \in Transfers : fileAsks'[e].at = "running" /\ fileAsks'[e].fd = fileAsks'[b].fd => b = e
                  /\ (fileFds'[fileAsks'[b].fd].position >= 0
                       /\ ~(b \in Writes /\ fileFds'[fileAsks'[b].fd].append)) =>
                       fileFds'[fileAsks'[b].fd].position = fileAsks'[b].start + Len(fileAsks'[b].did)
  <2>1. CASE b = a
    BY <1>1, <1>2, <1>3, <1>4, <2>1
  <2>2. CASE b # a
    <3>1. fileAsks'[b] = fileAsks[b]
      BY <1>4, <2>2
    <3>2. \A e \in Transfers : fileAsks[b].at = "running" /\ fileAsks'[e].at = "running"
                               /\ fileAsks'[e].fd = fileAsks[b].fd => b = e
      BY <1>2, <1>3, <1>4, <2>2 DEF FileInv
    <3> QED BY <1>3, <3>1, <3>2 DEF FileInv
  <2> QED BY <2>1, <2>2
<1> QED BY <1>3, <1>4, <1>5, <1>6 DEF FileInv

\* A chunk covers the place after the last one.
LEMMA FileChunk ==
  ASSUME FileInv, NEW a \in Transfers, Files!ReadChunk(a) \/ Files!WriteChunk(a)
  PROVE  FileInv'
<1>1. /\ fileAsks[a].at = "running" /\ fileAsks[a].fd \in Fds
      /\ fileFds[fileAsks[a].fd].position >= 0
  BY DEF Files!ReadChunk, Files!WriteChunk, FileInv
<1>2. PICK f \in Fds : f = fileAsks[a].fd
  BY <1>1
<1>3. fileFds[f].position \in Int /\ fileSize \in Int
  BY DEF FileInv, FileFd
<1>4. PICK place \in Int :
        /\ fileAsks' = [fileAsks EXCEPT ![a].left = @ - 1, ![a].did = Append(@, place)]
        /\ fileSize' \in Int
        /\ IF a \in Writes /\ fileFds[f].append THEN fileFds' = fileFds
           ELSE place = fileFds[f].position /\ fileFds' = Files!Advanced(f, 1)
  <2>1. CASE Files!ReadChunk(a)
    BY <1>2, <1>3, <2>1 DEF Files!ReadChunk
  <2>2. CASE Files!WriteChunk(a) /\ fileFds[f].append
    <3>1. fileAsks' = [fileAsks EXCEPT ![a].left = @ - 1, ![a].did = Append(@, fileSize)] /\ fileFds' = fileFds
      BY <1>2, <2>2 DEF Files!WriteChunk
    <3>2. fileSize' = IF fileSize < fileSize THEN fileSize ELSE fileSize + 1
      BY <1>2, <2>2 DEF Files!WriteChunk
    <3>3. a \in Writes
      BY <2>2 DEF Files!WriteChunk
    <3>4. fileSize' \in Int
      BY <1>3, <3>2
    <3> QED BY <1>3, <2>2, <3>1, <3>3, <3>4
  <2>3. CASE Files!WriteChunk(a) /\ ~fileFds[f].append
    <3> DEFINE place == fileFds[f].position
    <3>1. /\ fileAsks' = [fileAsks EXCEPT ![a].left = @ - 1, ![a].did = Append(@, place)]
          /\ fileFds' = Files!Advanced(f, 1)
      BY <1>2, <2>3 DEF Files!WriteChunk
    <3>2. fileSize' = IF place < fileSize THEN fileSize ELSE place + 1
      BY <1>2, <2>3 DEF Files!WriteChunk
    <3>3. place \in Int /\ fileSize' \in Int
      BY <1>3, <3>2
    <3> QED BY <2>3, <3>1, <3>3
  <2> QED BY <2>1, <2>2, <2>3
<1> QED BY <1>1, <1>2, <1>4, FileGoes

\* Every step of the descriptors keeps the transfers consecutive.
LEMMA FileStep ==
  ASSUME FileInv, Files!FileNext \/ UNCHANGED fileVars
  PROVE  FileInv'
<1>1. CASE UNCHANGED fileVars
  BY <1>1 DEF fileVars, FileInv, Files!TransfersAreConsecutive
<1>2. ASSUME NEW f \in Fds, NEW t \in BOOLEAN, NEW p \in BOOLEAN, Files!Open(f, t, p) PROVE FileInv'
  <2>1. [position |-> 0, append |-> p] \in FileFd
    BY DEF FileFd
  <2>2. /\ fileFds' = [fileFds EXCEPT ![f] = [position |-> 0, append |-> p]] /\ fileAsks' = fileAsks
        /\ fileSize' \in Int /\ \A a \in Transfers : fileAsks[a].at # "idle" => fileAsks[a].fd # f
    BY <1>2 DEF Files!Open, FileInv
  <2> QED BY <2>1, <2>2, FileMoves
<1>3. ASSUME NEW f \in Fds, NEW n \in 0..MaxSize, Files!Seek(f, n) PROVE FileInv'
  <2>1. PICK row \in FileFd : row = fileFds[f]
    BY DEF FileInv
  <2>2. PICK m \in Int : m = n
    BY StoresAssumption
  <2> DEFINE to == [row EXCEPT !.position = m]
  <2>3. to \in FileFd /\ to.append = row.append
    BY DEF FileFd
  <2>4. /\ fileFds' = [fileFds EXCEPT ![f] = to] /\ fileAsks' = fileAsks /\ fileSize' \in Int
        /\ fileFds[f].position >= 0 /\ \A a \in Transfers : fileAsks[a].at = "running" => fileAsks[a].fd # f
    BY <1>3, <2>1, <2>2 DEF Files!Seek, Files!Free, Files!Running, FileInv
  <2> HIDE DEF to
  <2> QED BY <2>1, <2>3, <2>4, FileMoves
<1>4. ASSUME NEW f \in Fds, Files!Close(f) PROVE FileInv'
  <2>1. PICK row \in FileFd : row = fileFds[f]
    BY DEF FileInv
  <2> DEFINE to == [row EXCEPT !.position = -1]
  <2>2. to \in FileFd /\ to.position = -1
    BY DEF FileFd
  <2>3. fileFds' = [fileFds EXCEPT ![f] = to] /\ fileAsks' = fileAsks /\ fileSize' \in Int
    BY <1>4, <2>1 DEF Files!Close, FileInv
  <2> HIDE DEF to
  <2> QED BY <2>2, <2>3, FileMoves
<1>5. ASSUME NEW n \in 0..MaxSize, Files!Truncate(n) PROVE FileInv'
  BY <1>5, StoresAssumption DEF Files!Truncate, FileInv, Files!TransfersAreConsecutive
<1> QED BY <1>1, <1>2, <1>3, <1>4, <1>5, FileStart, FileChunk, FileEnds DEF Files!FileNext

-----------------------------------------------------------------------------
(* The tree of the operating-system host *)

\* A walk of m steps along a path.
Walks(f, m, path, followLast) ==
  f = [n \in 0..m |-> IF n = 0 THEN [at |-> <<>>, rest |-> path] ELSE Files!NextComponent(f[n - 1], followLast)]

\* There is one, however many steps it takes.
LEMMA WalkExists ==
  ASSUME NEW path, NEW followLast, NEW m \in Nat
  PROVE  \E f : Walks(f, m, path, followLast)
<1> DEFINE T == {k \in Nat : ~ \E f : Walks(f, k, path, followLast)}
<1>1. ASSUME T # {} PROVE FALSE
  <2>1. PICK k \in T : \A j \in T : k <= j
    BY <1>1, MinNat
  <2>2. CASE k = 0
    <3> DEFINE f == [n \in 0..0 |-> [at |-> <<>>, rest |-> path]]
    <3>1. f = [n \in 0..0 |-> IF n = 0 THEN [at |-> <<>>, rest |-> path]
                              ELSE Files!NextComponent(f[n - 1], followLast)]
      OBVIOUS
    <3>2. Walks(f, 0, path, followLast)
      BY <3>1 DEF Walks
    <3> QED BY <2>1, <2>2, <3>2
  <2>3. CASE k # 0
    <3>1. k - 1 \in Nat /\ k - 1 \notin T
      BY <2>1, <2>3
    <3>2. PICK j \in Nat : j = k - 1
      BY <3>1
    <3>3. PICK f : Walks(f, j, path, followLast)
      BY <3>1, <3>2
    <3> DEFINE g == [n \in 0..k |-> IF n = k THEN Files!NextComponent(f[j], followLast) ELSE f[n]]
    <3>4. g = [n \in 0..k |-> IF n = 0 THEN [at |-> <<>>, rest |-> path]
                              ELSE Files!NextComponent(g[n - 1], followLast)]
      <4> SUFFICES ASSUME NEW n \in 0..k
                   PROVE  g[n] = IF n = 0 THEN [at |-> <<>>, rest |-> path]
                                 ELSE Files!NextComponent(g[n - 1], followLast)
        OBVIOUS
      <4>1. CASE n = k
        <5>1. n - 1 = j /\ g[j] = f[j] /\ n # 0
          BY <2>3, <3>2, <4>1
        <5> QED BY <4>1, <5>1
      <4>2. CASE n # k
        <5>1. n \in 0..j /\ (n # 0 => n - 1 \in 0..j /\ n - 1 # k /\ n - 1 \in 0..k)
          BY <3>2, <4>2
        <5>2. f[n] = IF n = 0 THEN [at |-> <<>>, rest |-> path] ELSE Files!NextComponent(f[n - 1], followLast)
          BY <3>3, <5>1 DEF Walks
        <5> QED BY <4>2, <5>1, <5>2
      <4> QED BY <4>1, <4>2
    <3>5. Walks(g, k, path, followLast)
      BY <3>4 DEF Walks
    <3> QED BY <2>1, <3>5
  <2> QED BY <2>2, <2>3
<1> QED BY <1>1

\* The number of steps is a number.
LEMMA StepsNat == Files!Steps \in Nat
<1>1. PICK a \in Nat : a = MaxLinks + 1
  BY StoresAssumption
<1>2. a * Depth \in Nat
  BY StoresAssumption
<1> QED BY <1>1, <1>2 DEF Files!Steps

\* A path is resolved by such a walk.
LEMMA ResolvedWalks ==
  ASSUME NEW path, NEW followLast
  PROVE  \E f : Walks(f, Files!Steps, path, followLast) /\ Files!Resolved(path, followLast) = f[Files!Steps]
<1>1. \E f : Walks(f, Files!Steps, path, followLast)
  BY StepsNat, WalkExists
<1> QED BY <1>1 DEF Walks, Files!Resolved

\* Where a path ends that follows its last link, there is no link.
LEMMA EndsAtNoLink == ASSUME NEW path PROVE Files!KindAt(Files!Real(path, TRUE)) # "link"
<1>1. PICK f : Walks(f, Files!Steps, path, TRUE) /\ Files!Resolved(path, TRUE) = f[Files!Steps]
  BY ResolvedWalks
<1> DEFINE T == {n \in 0..Files!Steps : Files!KindAt(f[n].at) = "link"}
<1>2. ASSUME T # {} PROVE FALSE
  <2>1. PICK n \in T : \A k \in T : n <= k
    <3>1. T \in SUBSET Nat
      OBVIOUS
    <3> HIDE DEF T
    <3> QED BY <1>2, <3>1, MinNat
  <2>2. n \in 0..Files!Steps /\ Files!KindAt(f[n].at) = "link"
    OBVIOUS
  <2>3. CASE n = 0
    <3>1. f[0].at = <<>>
      BY <1>1, <2>2, <2>3 DEF Walks
    <3> QED BY <2>2, <2>3, <3>1 DEF Files!KindAt
  <2>4. CASE n # 0
    <3>1. n - 1 \in 0..Files!Steps /\ n - 1 \notin T
      BY <2>1, <2>2, <2>4, StepsNat
    <3>2. PICK now : now = f[n - 1]
      OBVIOUS
    <3>3. f[n] = Files!NextComponent(now, TRUE) /\ Files!KindAt(now.at) # "link"
      BY <1>1, <2>2, <2>4, <3>1, <3>2 DEF Walks
    <3> HIDE DEF T
    <3>4. Files!KindAt(<<>>) # "link"
      BY DEF Files!KindAt
    <3>5. PICK next : next = Append(now.at, Head(now.rest))
      OBVIOUS
    <3>6. \/ f[n] = now \/ f[n].at = <<>>
          \/ f[n].at = next /\ Files!KindAt(next) # "link"
      BY <3>3, <3>5 DEF Files!NextComponent
    <3> QED BY <2>2, <3>3, <3>4, <3>6
  <2> QED BY <2>3, <2>4
<1>3. Files!Steps \in 0..Files!Steps
  BY StepsNat
<1> QED BY <1>1, <1>2, <1>3 DEF Files!Real

\* Every path holds an entry.
TreeInv == treeTree \in [Files!Path -> Files!Entries]

\* What the kind of an entry says of it.
LEMMA EntryKinds ==
  ASSUME NEW e \in Files!Entries
  PROVE  /\ e.kind \in {"none", "file", "dir", "link"}
         /\ e.kind = "none" <=> e = Files!NoEntry
         /\ e.kind = "file" => e = Files!FileEntry
BY DEF Files!Entries, Files!NoEntry, Files!FileEntry, Files!DirEntry, Files!LinkTo

\* The tree that is given is one of entries.
LEMMA TreeBegins == ASSUME Files!TreeInit PROVE TreeInv
<1>1. ASSUME NEW p \in Files!Path
      PROVE  (IF p \in DOMAIN FirstEntries THEN [kind |-> FirstEntries[p], to |-> <<>>] ELSE Files!NoEntry)
               \in Files!Entries
  BY StoresAssumption DEF Files!Entries, Files!NoEntry, Files!FileEntry, Files!DirEntry
<1> QED BY <1>1 DEF Files!TreeInit, TreeInv

\* The entry of a path is of the kind that is found there.
LEMMA KindFacts ==
  ASSUME TreeInv, NEW p \in Files!Path, p # <<>>
  PROVE  /\ treeTree[p] \in Files!Entries /\ Files!KindAt(p) = treeTree[p].kind
         /\ Files!Exists(p) <=> treeTree[p] # Files!NoEntry
<1>1. treeTree[p] \in Files!Entries /\ Files!KindAt(p) = treeTree[p].kind
  BY DEF TreeInv, Files!KindAt
<1> QED BY <1>1, EntryKinds DEF Files!Exists

\* A step of one entry, made or removed as granted; a temporary file as its directory is.
GrantedAt(p) ==
  treeTree'[p] # treeTree[p] =>
    /\ treeTree[p] # Files!NoEntry => Files!Allowed(p, "remove")
    /\ treeTree'[p] # Files!NoEntry =>
         \/ Files!Allowed(p, "create")
         \/ p \in treeTemp' /\ treeTree[p] = Files!NoEntry /\ Files!Allowed(Files!Front(p), "create")

TreeGoes == TreeInv' /\ \A p \in Files!Path \ treeMoved' : GrantedAt(p)

\* An operation that changes one entry, as it may.
LEMMA OneEntryGoes ==
  ASSUME TreeInv, NEW real \in Files!Path, NEW e \in Files!Entries,
         Files!Change([treeTree EXCEPT ![real] = e]),
         /\ treeTree[real] # Files!NoEntry => Files!Allowed(real, "remove") \/ e = treeTree[real]
         /\ e # Files!NoEntry => Files!Allowed(real, "create") \/ e = treeTree[real]
  PROVE  TreeGoes
<1>1. treeTree' = [treeTree EXCEPT ![real] = e]
  BY DEF Files!Change, Files!Makes
<1> QED BY <1>1 DEF TreeGoes, TreeInv, GrantedAt

\* A file is written: where its path ends there is a file, or nothing yet.
LEMMA TreeWrite ==
  ASSUME TreeInv, NEW path \in Files!Path, Files!WriteFile(path)
  PROVE  TreeGoes
<1>1. PICK real : real = Files!Real(path, TRUE)
  OBVIOUS
<1>2. /\ real \in Files!Path /\ real # <<>> /\ Files!KindAt(real) \notin {"dir", "link"}
      /\ ~Files!Exists(real) => Files!Allowed(real, "create")
      /\ Files!Change([treeTree EXCEPT ![real] = Files!FileEntry])
  BY <1>1, EndsAtNoLink DEF Files!WriteFile, Files!Located, Files!KindAt
<1>3. treeTree[real] \in {Files!NoEntry, Files!FileEntry}
  BY <1>2, KindFacts, EntryKinds
<1>4. Files!FileEntry \in Files!Entries /\ Files!FileEntry # Files!NoEntry
  BY DEF Files!Entries, Files!FileEntry, Files!NoEntry
<1> QED BY <1>2, <1>3, <1>4, KindFacts, OneEntryGoes

\* A link is made where nothing was.
LEMMA TreeSymlink ==
  ASSUME TreeInv, NEW path \in Files!Path, NEW target \in Files!Path, Files!Symlink(target, path)
  PROVE  TreeGoes
<1>1. PICK real : real = Files!Real(path, FALSE)
  OBVIOUS
<1>2. /\ real \in Files!Path /\ real # <<>> /\ ~Files!Exists(real) /\ Files!Allowed(real, "create")
      /\ Files!Change([treeTree EXCEPT ![real] = Files!LinkTo(target)])
  BY <1>1 DEF Files!Symlink, Files!Located, Files!KindAt, Files!Exists
<1>3. Files!LinkTo(target) \in Files!Entries
  BY DEF Files!Entries
<1> QED BY <1>2, <1>3, KindFacts, OneEntryGoes

\* A path is a sequence of names.
LEMMA PathSeq == ASSUME NEW p \in Files!Path PROVE p \in Seq(TreeNames)
<1>1. PICK m \in 0..Depth : p \in [1..m -> TreeNames]
  BY DEF Files!Path, Files!SeqOf
<1> QED BY <1>1, StoresAssumption

LEMMA PathLength == ASSUME NEW p \in Files!Path PROVE Len(p) \in Nat
BY PathSeq

\* A second name is given to a file where nothing was.
LEMMA TreeLink ==
  ASSUME TreeInv, NEW path \in Files!Path, NEW target \in Files!Path, Files!Link(target, path)
  PROVE  TreeGoes
<1>1. PICK real : real = Files!Real(path, FALSE)
  OBVIOUS
<1>2. /\ real \in Files!Path /\ real # <<>> /\ ~Files!Exists(real) /\ Files!Allowed(real, "create")
      /\ Files!Change([treeTree EXCEPT ![real] = Files!FileEntry])
  BY <1>1 DEF Files!Link, Files!Located, Files!KindAt, Files!Exists
<1>3. Files!FileEntry \in Files!Entries
  BY DEF Files!Entries
<1> QED BY <1>2, <1>3, KindFacts, OneEntryGoes

\* A temporary file is made where nothing was, in a directory that is granted.
LEMMA TreeMktemp ==
  ASSUME TreeInv, NEW base \in Files!Path, NEW name \in TreeNames, Files!Mktemp(base, name)
  PROVE  TreeGoes
<1>1. PICK real : real = Files!Real(base, TRUE)
  OBVIOUS
<1>2. PICK made : made = Append(real, name)
  OBVIOUS
<1>3. /\ made \in Files!Path /\ ~Files!Exists(made) /\ real \in Files!Path /\ Files!Allowed(real, "create")
      /\ treeTree' = [treeTree EXCEPT ![made] = Files!FileEntry] /\ treeTemp' = {made}
  BY <1>1, <1>2 DEF Files!Mktemp, Files!Located, Files!Makes
<1>4. made # <<>> /\ Files!Front(made) = real
  <2>1. real \in Seq(TreeNames)
    BY <1>3, PathSeq
  <2> QED BY <1>2, <2>1 DEF Files!Front
<1>5. treeTree[made] = Files!NoEntry
  BY <1>3, <1>4, KindFacts
<1>6. Files!FileEntry \in Files!Entries
  BY DEF Files!Entries
<1> QED BY <1>3, <1>4, <1>5, <1>6 DEF TreeGoes, TreeInv, GrantedAt

\* A file or a link is removed.
LEMMA TreeUnlink ==
  ASSUME TreeInv, NEW path \in Files!Path, Files!Unlink(path)
  PROVE  TreeGoes
<1>1. PICK real : real = Files!Real(path, FALSE)
  OBVIOUS
<1>2. /\ real \in Files!Path /\ Files!Allowed(real, "remove")
      /\ Files!Change([treeTree EXCEPT ![real] = Files!NoEntry])
  BY <1>1 DEF Files!Unlink, Files!Located
<1>3. Files!NoEntry \in Files!Entries
  BY DEF Files!Entries
<1> QED BY <1>2, <1>3, OneEntryGoes

\* Directories are made where nothing was, each one granted.
LEMMA TreeMkdir ==
  ASSUME TreeInv, NEW path \in Files!Path, NEW recursive \in BOOLEAN, Files!Mkdir(path, recursive)
  PROVE  TreeGoes
<1> DEFINE real == Files!Real(path, FALSE)
           parents == {SubSeq(real, 1, n) : n \in 1..(Len(real) - 1)}
           made(p) == p = real \/ (recursive /\ p \in parents /\ ~Files!Exists(p))
<1>1. /\ real \in Files!Path /\ ~Files!Exists(real) /\ Files!Allowed(real, "create")
      /\ recursive => Files!MayMake(real)
      /\ treeTree' = [p \in Files!Path |-> IF made(p) THEN Files!DirEntry ELSE treeTree[p]]
  BY DEF Files!Mkdir, Files!Located, Files!Change, Files!Makes
<1>2. ASSUME NEW p \in Files!Path, made(p)
      PROVE  p # <<>> /\ ~Files!Exists(p) /\ Files!Allowed(p, "create")
  <2>1. ~Files!Exists(p)
    BY <1>1, <1>2
  <2>2. p # <<>>
    BY <2>1 DEF Files!Exists, Files!KindAt
  <2>3. ASSUME recursive, p \in parents PROVE Files!Allowed(p, "create")
    <3>1. PICK n \in 1..(Len(real) - 1) : p = SubSeq(real, 1, n)
      BY <2>3
    <3> HIDE DEF real
    <3>2. n \in 1..Len(real)
      BY <1>1, <3>1, PathLength
    <3> QED BY <1>1, <2>1, <2>3, <3>1, <3>2 DEF Files!MayMake
  <2> QED BY <1>1, <1>2, <2>1, <2>2, <2>3
<1>3. Files!DirEntry \in Files!Entries
  BY DEF Files!Entries
<1> HIDE DEF made
<1>4. TreeInv'
  BY <1>1, <1>3 DEF TreeInv
<1>5. ASSUME NEW p \in Files!Path PROVE GrantedAt(p)
  <2>1. CASE made(p)
    <3>1. treeTree[p] = Files!NoEntry /\ Files!Allowed(p, "create")
      BY <1>2, <2>1, KindFacts
    <3> QED BY <3>1 DEF GrantedAt
  <2>2. CASE ~made(p)
    BY <1>1, <2>2 DEF GrantedAt
  <2> QED BY <2>1, <2>2
<1> QED BY <1>4, <1>5 DEF TreeGoes

\* A directory is removed, with what lies below it when that is granted.
LEMMA TreeRmdir ==
  ASSUME TreeInv, NEW path \in Files!Path, NEW recursive \in BOOLEAN, Files!Rmdir(path, recursive)
  PROVE  TreeGoes
<1> DEFINE real == Files!Real(path, FALSE)
           gone(p) == p = real \/ (recursive /\ Files!Under(real, p))
<1>1. /\ Files!Allowed(real, "remove") /\ real \in Files!Path
      /\ recursive => Files!TreeRemovable(real)
      /\ treeTree' = [p \in Files!Path |-> IF gone(p) THEN Files!NoEntry ELSE treeTree[p]]
  BY DEF Files!Rmdir, Files!Located, Files!Change, Files!Makes
<1>2. ASSUME NEW p \in Files!Path, gone(p), p # <<>>
      PROVE  Files!Exists(p) => Files!Allowed(p, "remove")
  BY <1>1, <1>2 DEF Files!TreeRemovable
<1>3. Files!NoEntry \in Files!Entries
  BY DEF Files!Entries
<1> HIDE DEF gone
<1>4. TreeInv'
  BY <1>1, <1>3 DEF TreeInv
<1>5. ASSUME NEW p \in Files!Path, p # <<>> PROVE GrantedAt(p)
  <2>1. CASE gone(p)
    <3>1. treeTree[p] # Files!NoEntry => Files!Allowed(p, "remove")
      BY <1>2, <1>5, <2>1, KindFacts
    <3>2. treeTree'[p] = Files!NoEntry
      BY <1>1, <2>1
    <3> QED BY <3>1, <3>2 DEF GrantedAt
  <2>2. CASE ~gone(p)
    BY <1>1, <2>2 DEF GrantedAt
  <2> QED BY <2>1, <2>2
<1>6. <<>> \notin Files!Path
  BY DEF Files!Path
<1> QED BY <1>4, <1>5, <1>6 DEF TreeGoes

\* What is renamed goes from the one path and replaces the other; what lies below moves along.
LEMMA TreeRename ==
  ASSUME TreeInv, NEW path \in Files!Path, NEW to \in Files!Path, Files!Rename(path, to)
  PROVE  TreeGoes
<1> DEFINE old == Files!Real(path, FALSE)
           new == Files!Real(to, FALSE)
           below(p) == old \o SubSeq(p, Len(new) + 1, Len(p))
<1>1. /\ old \in Files!Path /\ Files!Allowed(old, "remove")
      /\ new \in Files!Path /\ Files!Allowed(new, "create")
      /\ Files!Exists(new) => Files!Allowed(new, "remove")
      /\ treeTree' = [p \in Files!Path |->
           IF p = new \/ Files!Under(new, p)
           THEN IF below(p) \in Files!Path THEN treeTree[below(p)] ELSE Files!NoEntry
           ELSE IF p = old \/ Files!Under(old, p) THEN Files!NoEntry ELSE treeTree[p]]
      /\ treeMoved' = {p \in Files!Path : Files!Under(old, p) \/ Files!Under(new, p)}
  BY DEF Files!Rename, Files!Located, Files!Change, Files!Makes
<1>2. Files!NoEntry \in Files!Entries /\ <<>> \notin Files!Path
  BY DEF Files!Entries, Files!Path
<1> HIDE DEF old, new, below
<1>3. TreeInv'
  BY <1>1, <1>2 DEF TreeInv
<1>4. ASSUME NEW p \in Files!Path \ treeMoved' PROVE GrantedAt(p)
  <2>1. ~Files!Under(old, p) /\ ~Files!Under(new, p)
    BY <1>1, <1>4
  <2>2. CASE p = new
    <3>1. treeTree[p] # Files!NoEntry => Files!Allowed(p, "remove")
      BY <1>1, <1>2, <2>2, KindFacts
    <3> QED BY <1>1, <2>2, <3>1 DEF GrantedAt
  <2>3. CASE p = old /\ p # new
    <3>1. treeTree'[p] = Files!NoEntry
      BY <1>1, <2>1, <2>3
    <3> QED BY <1>1, <2>3, <3>1 DEF GrantedAt
  <2>4. CASE p # old /\ p # new
    BY <1>1, <2>1, <2>4 DEF GrantedAt
  <2> QED BY <2>2, <2>3, <2>4
<1> QED BY <1>3, <1>4 DEF TreeGoes

\* Every operation by path leaves entries, and changes them as granted.
LEMMA TreeStep ==
  ASSUME TreeInv, Files!TreeNext \/ UNCHANGED treeVars
  PROVE  TreeGoes
<1>1. CASE UNCHANGED treeVars
  BY <1>1 DEF treeVars, TreeGoes, TreeInv, GrantedAt
<1> QED BY <1>1, TreeWrite, TreeSymlink, TreeUnlink, TreeLink, TreeMktemp, TreeMkdir, TreeRmdir,
        TreeRename DEF Files!TreeNext

-----------------------------------------------------------------------------
(* OAuth on the host has proofs of its own. *)

Grants == INSTANCE OAuthPortProofs WITH
  Instance <- Instances, Callback <- Callbacks, MaxCrashes <- MaxGrantCrashes,
  Access <- AccessTokens, Refresh <- RefreshTokens,
  shared <- grantShared, conditional <- grantConditional, now <- grantNow,
  row <- grantRow, minted <- grantMinted, grantEnd <- grantGrantEnd, flow <- grantFlow,
  back <- grantBack, answer <- grantAnswer, crashes <- grantCrashes,
  tokens <- mockTokens, refreshes <- mockRefreshes, subjects <- mockSubjects,
  used <- mockUsed, revoked <- mockRevoked, mockNow <- mockNow

\* An authorization and its callbacks run, or rest.
LEMMA GrantRuns == Spec => Grants!GrantSpec
<1> USE DEF Oauth!Absent, Grants!Absent, Oauth!Times, Grants!Times, Oauth!Waiting, Grants!Waiting
<1>1. Init => Grants!GrantInit
  BY DEF Init, Oauth!GrantInit, Grants!GrantInit
<1>2. Oauth!GrantNext => Grants!GrantNext
  <2> USE DEF Oauth!FlowOnly, Grants!FlowOnly, Oauth!UrlIsOut, Grants!UrlIsOut, Oauth!GrantKept, Grants!GrantKept,
              Oauth!PortAnswers, Grants!PortAnswers, Oauth!oauthVars, Grants!oauthVars
  <2>1. ASSUME NEW i \in Instances,
               \/ Oauth!Crash(i) \/ \E mock \in BOOLEAN : Oauth!Authorize(i, mock)
               \/ \E c \in Callbacks : Oauth!Ask(c, i)
        PROVE  Grants!GrantNext
    BY <2>1 DEF Grants!GrantNext, Oauth!Crash, Grants!Crash, Oauth!Authorize, Grants!Authorize, Oauth!Ask, Grants!Ask
  <2>2. ASSUME NEW c \in Callbacks, Oauth!ReadRow(c) \/ Oauth!DeleteRow(c) \/ Oauth!Open(c) \/ Oauth!TakeLocal(c)
        PROVE  Grants!GrantNext
    BY <2>2 DEF Grants!GrantNext, Oauth!ReadRow, Grants!ReadRow, Oauth!DeleteRow, Grants!DeleteRow,
                Oauth!Open, Grants!Open, Oauth!TakeLocal, Grants!TakeLocal
  <2>3. ASSUME NEW ok \in BOOLEAN, Oauth!ClientSecret(ok) \/ Oauth!Metadata(ok) \/ Oauth!PutRow(ok)
        PROVE  Grants!GrantNext
    BY <2>3 DEF Grants!GrantNext, Oauth!ClientSecret, Grants!ClientSecret, Oauth!Metadata, Grants!Metadata,
                Oauth!PutRow, Grants!PutRow
  <2>4. ASSUME Oauth!Put \/ Oauth!AskConsent \/ Oauth!Consented \/ Oauth!Tick \/ Oauth!Finished
        PROVE  Grants!GrantNext
    BY <2>4 DEF Grants!GrantNext, Oauth!Put, Grants!Put, Oauth!AskConsent, Grants!AskConsent, Oauth!Consented,
                Grants!Consented, Oauth!Tick, Grants!Tick, Oauth!Finished, Grants!Finished
  <2> QED BY <2>1, <2>2, <2>3, <2>4 DEF Oauth!GrantNext
<1>3. [Next]_vars => [Grants!GrantNext]_Grants!oauthVars
  BY <1>2 DEF Next, vars, Rest, grantVars, Grants!oauthVars
<1> QED BY <1>1, <1>3, PTL DEF Spec, Grants!GrantSpec

\* The tokens of the mock provider run, or rest.
LEMMA MockRuns == Spec => Grants!MockSpec
<1>1. Init => Grants!MockInit
  BY DEF Init, Oauth!MockInit, Grants!MockInit, Oauth!Empty, Grants!Empty
<1>2. Oauth!MockNext => Grants!MockNext
  BY DEF Oauth!MockNext, Grants!MockNext, Oauth!MockTokenPut, Grants!MockTokenPut, Oauth!With, Grants!With,
     Oauth!Held, Grants!Held, Oauth!SubjectRemember, Grants!SubjectRemember, Oauth!SubjectForget,
     Grants!SubjectForget, Oauth!Replaces, Grants!Replaces, Oauth!MockTokenRefresh, Grants!MockTokenRefresh,
     Oauth!Without, Grants!Without, Oauth!Restrict, Grants!Restrict, Oauth!RevokeAccess, Grants!RevokeAccess,
     Oauth!RevokeRefresh, Grants!RevokeRefresh, Oauth!MockTokenCheck, Grants!MockTokenCheck,
     Oauth!MockTick, Grants!MockTick
<1>3. [Next]_vars => [Grants!MockNext]_Grants!tokenVars
  BY <1>2 DEF Next, vars, Rest, mockVars, Grants!tokenVars
<1> QED BY <1>1, <1>3, PTL DEF Spec, Grants!MockSpec

\* So a grant is taken once, and a refresh token has one live access token.
LEMMA GrantsAreTakenOnce == Spec => [](Oauth!GrantTakenOnce /\ Oauth!OneTokenPerGrant)
<1>1. Grants!GrantBounds /\ Grants!IsFiniteSet(Callbacks)
  BY StoresAssumption DEF Grants!GrantBounds, Grants!IsFiniteSet, IsFiniteSet
<1>2. Grants!GrantTakenOnce => Oauth!GrantTakenOnce
  BY DEF Grants!GrantTakenOnce, Oauth!GrantTakenOnce, Grants!Cardinality, Oauth!Cardinality
<1>3. Grants!OneTokenPerGrant => Oauth!OneTokenPerGrant
  BY DEF Grants!OneTokenPerGrant, Oauth!OneTokenPerGrant
<1>4. Spec => []Grants!GrantTakenOnce
  BY <1>1, GrantRuns, Grants!TakenOnce, PTL
<1>5. Spec => []Grants!OneTokenPerGrant
  BY MockRuns, Grants!OneLiveToken, PTL
<1> QED BY <1>2, <1>3, <1>4, <1>5, PTL

\* So an expired grant is told so, and consent is asked for kept grants alone.
LEMMA GrantsAreTold == Spec => Oauth!ExpiryIsTold /\ Oauth!KeptBeforeConsent
<1>1. Grants!GrantBounds
  BY StoresAssumption DEF Grants!GrantBounds
<1>2. Grants!ExpiryIsTold => Oauth!ExpiryIsTold
  BY PTL DEF Grants!ExpiryIsTold, Oauth!ExpiryIsTold, Grants!oauthVars, Oauth!oauthVars, Grants!Absent, Oauth!Absent
<1>3. Grants!KeptBeforeConsent => Oauth!KeptBeforeConsent
  BY PTL DEF Grants!KeptBeforeConsent, Oauth!KeptBeforeConsent, Grants!oauthVars, Oauth!oauthVars,
     Grants!Absent, Oauth!Absent, Grants!UrlIsOut, Oauth!UrlIsOut
<1> QED BY <1>1, <1>2, <1>3, GrantRuns, Grants!LifeIsTold, Grants!SentForAKeptGrant, PTL

-----------------------------------------------------------------------------
(* Together *)

StoresInv ==
  CredInv /\ SecretInv /\ ScopeInv /\ ChromeInv /\ DeviceInv /\ NetInv /\ FileInv /\ TreeInv

\* The parts begin as theirs do, and one steps or rests as its own.
LEMMA StoresBegin == Init => StoresInv
<1> SUFFICES ASSUME Init PROVE StoresInv
  OBVIOUS
<1>1. /\ Creds!Init /\ Secret!Init /\ Scope!Init /\ scopeScope \in FirstScopes
      /\ Chrome!Init /\ Device!Init /\ Net!Init /\ Files!FileInit /\ Files!TreeInit
  BY DEF Init
<1> QED BY <1>1, CredInit, SecretInit, ScopeInit, ChromeInit, DeviceInit, NetInit, FileInit, TreeBegins
   DEF StoresInv

LEMMA PartsStep ==
  ASSUME [Next]_vars
  PROVE  /\ Creds!Next \/ UNCHANGED credVars
         /\ Secret!Next \/ UNCHANGED secretVars
         /\ Scope!Next \/ UNCHANGED scopeVars
         /\ Chrome!Next \/ UNCHANGED chromeVars
         /\ Device!Next \/ UNCHANGED deviceVars
         /\ Net!Next \/ UNCHANGED netVars
         /\ Files!FileNext \/ UNCHANGED fileVars
         /\ Files!TreeNext \/ UNCHANGED treeVars
<1>1. CASE Next
  BY <1>1 DEF Next, Rest
<1>2. CASE UNCHANGED vars
  BY <1>2 DEF vars
<1> QED BY <1>1, <1>2

LEMMA StoresStep == StoresInv /\ [Next]_vars => StoresInv'
<1> SUFFICES ASSUME StoresInv, [Next]_vars PROVE StoresInv'
  OBVIOUS
<1>1. CredInv' /\ SecretInv'
  BY PartsStep, CredStep, SecretStep DEF StoresInv
<1>2. ScopeInv' /\ ChromeInv'
  BY PartsStep, ScopeStep, ChromeStep DEF StoresInv
<1>3. DeviceInv' /\ NetInv' /\ FileInv' /\ TreeInv'
  BY PartsStep, DeviceStep, NetStep, FileStep, TreeStep DEF StoresInv, TreeGoes
<1> QED BY <1>1, <1>2, <1>3 DEF StoresInv

LEMMA StoresKept == Spec => []StoresInv
BY StoresBegin, StoresStep, PTL DEF Spec

\* A rotation of the master key leaves no row under the old one once it says
\* that it is over and none was unreadable (host/credentials/store.ts), and an
\* answer to who asks after a secret's rotation is no older than the new value
\* (kernel/http-exchange.ts), beside warmings of the store and rotations of its
\* key, as long as no two calls of the store overlap and no warming broke off:
\* for any number of rows, calls, crashes and values.
THEOREM RotationsAreSeen == Spec => []RotationIsSeen
<1>1. StoresInv => RotationIsSeen
  BY CredSafe, SecretSafe DEF StoresInv, RotationIsSeen
<1> QED BY <1>1, StoresKept, PTL

\* A piece of work resolves its own tenant's credentials alone, a grant is taken
\* by one callback, a refresh token has one live access token, and every socket
\* that is open goes where its name was granted for: for any
\* number of tenants, pieces of work, instances, callbacks, tokens and hosts.
THEOREM EachHasItsOwn == Spec => []EachItsOwn
<1>1. StoresInv /\ Oauth!GrantTakenOnce /\ Oauth!OneTokenPerGrant => EachItsOwn
  BY NetSafe DEF StoresInv, ScopeInv, EachItsOwn
<1> QED BY <1>1, StoresKept, GrantsAreTakenOnce, PTL

\* No change of the extension's rows is lost to one that read them before it
\* (host/chrome/credentials.ts), no prompt that is over holds a session of the
\* on-device model and no failed base stays for the next (on-device-model.ts),
\* and a transfer covers consecutive places of its file (os-node-fs.ts): for any
\* number of changes, keys, restarts, prompts, descriptors and transfers.
THEOREM AwaitsLoseNothing == Spec => []NothingLostBetweenAwaits
<1>1. StoresInv => NothingLostBetweenAwaits
  BY DeviceSafe DEF StoresInv, ChromeInv, FileInv, NothingLostBetweenAwaits
<1> QED BY <1>1, StoresKept, PTL

\* An entry of the tree is made under a grant to make it (a temporary file under
\* one for its directory) and goes under one to remove it, by whatever links its
\* path was resolved; a read that waits misses no datagram that came; no row that
\* a held key opens becomes unreadable; a grant that expired is told so and
\* nobody is sent to consent to one not kept; a boot before which the host warmed
\* its store writes over nothing it holds, and none is over before the store has
\* what the environment has: for any tree, grants and links, and any number of
\* rows, calls, crashes, callbacks and boots.
THEOREM AllAsGranted == Spec => OnlyAsGranted
<1>1. StoresInv /\ [Next]_vars =>
        \A p \in Files!Path \ treeMoved' :
          treeTree'[p] # treeTree[p] =>
            /\ treeTree[p] # Files!NoEntry => Files!Allowed(p, "remove")
            /\ treeTree'[p] # Files!NoEntry =>
                 \/ Files!Allowed(p, "create")
                 \/ p \in treeTemp' /\ treeTree[p] = Files!NoEntry /\ Files!Allowed(Files!Front(p), "create")
  BY PartsStep, TreeStep DEF StoresInv, TreeGoes, GrantedAt
<1>2. Spec => Files!EntriesChangeAsGranted
  BY <1>1, StoresKept, PTL DEF Spec, Files!EntriesChangeAsGranted
<1>3. StoresInv /\ [Next]_vars =>
        \A r \in Receivers :
          netRecv'[r] \in {"again", "failed"} /\ netRecv[r] = "asked" => netInbox = <<>>
  BY PartsStep, NetTold DEF StoresInv
<1>4. Spec => Net!NobodyMissesWhatCame
  BY <1>3, StoresKept, PTL DEF Spec, Net!NobodyMissesWhatCame
<1>5. StoresInv /\ [Next]_vars =>
        \A i \in Creds!Ids : Creds!Readable(credRows[i]) =>
          credRows'[i] = Creds!NoRow \/ Creds!Readable(credRows'[i])
  BY PartsStep, CredReadable DEF StoresInv
<1>6. Spec => Creds!NoRowSealedAway
  BY <1>5, StoresKept, PTL DEF Spec, Creds!NoRowSealedAway, Creds!Readable, Creds!Keys
<1>7. StoresInv /\ [Next]_vars =>
        /\ scopeOnTurn = None /\ scopeBoot.knew =>
             \A n \in Scope!Name : scopeValues[Host][n] \in {None, scopeValues'[Host][n]}
        /\ scopeBoot.at = "copy" /\ scopeBoot'.at = "serve" =>
             \A n \in scopeEnv : scopeValues'[Host][n] # None
  BY PartsStep, ScopeSeeds DEF StoresInv
<1>8. Spec => Scope!SeedsWhatIsLacking
  BY <1>7, StoresKept, PTL DEF Spec, Scope!SeedsWhatIsLacking
<1> QED BY <1>2, <1>4, <1>6, <1>8, GrantsAreTold DEF OnlyAsGranted
=============================================================================
