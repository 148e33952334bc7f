--------------------------- MODULE CredentialStore ---------------------------
(***************************************************************************)
(* The encrypted credential rows of one host and the plaintext cache in    *)
(* front of them (src/src/host/credentials/store.ts).  set, remove, warm   *)
(* and rotate await the adapter and the cipher at every row and are not    *)
(* serialised; the host may crash at any await and boot again.  A row is   *)
(* sealed under the current master key, the previous one of a rotation     *)
(* window, or a key this host does not hold; a legacy row has no stamp.    *)
(* The adapter is external: each of its calls takes effect at one moment   *)
(* and answers at a later one, and an update of a deleted row is an error. *)
(***************************************************************************)
EXTENDS Integers, FiniteSets

CONSTANTS Name,       \* credential identities
          Op,         \* the calls made of the store
          MaxRows, MaxCrashes

VARIABLES rows,       \* row id -> row, or NoRow
          cache,      \* name -> what resolve() finds, or NoEntry
          warmed,
          ops,        \* call -> where it is
          writes,     \* the last value written
          crashes

credVars == <<rows, cache, warmed, ops, writes, crashes>>

Ids == 1..MaxRows
NoRow == [name |-> "-", value |-> 0, key |-> "-", stamp |-> "-"]
NoEntry == [id |-> 0, value |-> 0]
Idle == [kind |-> "none", at |-> "new", name |-> "-", id |-> 0, value |-> 0, seen |-> {}, unread |-> 0]
Keys == {"current", "previous"}
Values == 0..(MaxRows + Cardinality(Op))
Places == {"new", "cipher", "sent", "landed", "load", "loading", "list", "next", "over", "failed"}

Row == [name : Name \cup {"-"}, value : Values, key : Keys \cup {"other", "-"}, stamp : Keys \cup {"none", "-"}]

TypeOK ==
    /\ rows \in [Ids -> Row]
    /\ cache \in [Name -> [id : 0..MaxRows, value : Values]]
    /\ warmed \in BOOLEAN
    /\ \A o \in Op : /\ ops[o].at \in Places /\ ops[o].kind \in {"none", "set", "remove", "warm", "rotate"}
                    /\ ops[o].seen \subseteq [id : Ids, row : Row]
    /\ writes \in Values /\ crashes \in 0..MaxCrashes

(* A boot inside a rotation window: a row for each name, as the deployments before this one left it. *)
Left == {[key |-> "current", stamp |-> "current"], [key |-> "previous", stamp |-> "previous"],
         [key |-> "current", stamp |-> "none"], [key |-> "previous", stamp |-> "none"],
         [key |-> "other", stamp |-> "none"]}

RowOf == CHOOSE f \in [1..Cardinality(Name) -> Name] : \A n \in Name : \E i \in DOMAIN f : f[i] = n

Init ==
    /\ \E left \in [Name -> Left] :
          rows = [i \in Ids |-> IF i \in DOMAIN RowOf
                                THEN [name |-> RowOf[i], value |-> i, key |-> left[RowOf[i]].key, stamp |-> left[RowOf[i]].stamp]
                                ELSE NoRow]
    /\ cache = [n \in Name |-> NoEntry] /\ warmed = FALSE
    /\ ops = [o \in Op |-> Idle]
    /\ writes = MaxRows /\ crashes = 0

(* decryptRow: the held key the stamp names, or either one for a row without a stamp. *)
Readable(row) == row.key \in Keys /\ row.stamp \in {"none", row.key}

Stored == {i \in Ids : rows[i] # NoRow}
Snapshot == {[id |-> i, row |-> rows[i]] : i \in Stored}
FirstOf(seen) == CHOOSE s \in seen : \A t \in seen : s.id <= t.id
Go(o, place) == ops' = [ops EXCEPT ![o].at = place]

-----------------------------------------------------------------------------
(* A store nobody warmed is warmed by the first write; warm() counts as warmed from its first line on. *)
Warms(kind) == kind = "warm" \/ (kind # "rotate" /\ ~warmed)

Begin(o, kind, name, place) ==
    /\ ops[o].at = "new"
    /\ ops' = [ops EXCEPT ![o] = [Idle EXCEPT !.kind = kind, !.name = name,
                 !.at = IF Warms(kind) THEN "load" ELSE place]]
    /\ IF Warms(kind)
       THEN cache' = [n \in Name |-> NoEntry] /\ warmed' = TRUE
       ELSE UNCHANGED <<cache, warmed>>
    /\ UNCHANGED <<rows, writes, crashes>>

BeginSet(o) == \E n \in Name : Begin(o, "set", n, "cipher")
BeginRemove(o) == \E n \in Name : Begin(o, "remove", n, "cipher")
BeginWarm(o) == Begin(o, "warm", "-", "load")
BeginRotate(o) == Begin(o, "rotate", "-", "list")

(* warm(): the rows as the adapter listed them, then one entry per decrypted row. *)
ListForWarm(o) ==
    /\ ops[o].at = "load"
    /\ ops' = [ops EXCEPT ![o].seen = Snapshot, ![o].at = "loading"]
    /\ UNCHANGED <<rows, cache, warmed, writes, crashes>>

LoadRow(o) ==
    /\ ops[o].at = "loading" /\ ops[o].seen # {}
    /\ LET s == FirstOf(ops[o].seen)
       IN /\ ops' = [ops EXCEPT ![o].seen = @ \ {s}]
          /\ cache' = IF Readable(s.row) THEN [cache EXCEPT ![s.row.name] = [id |-> s.id, value |-> s.row.value]] ELSE cache
    /\ UNCHANGED <<rows, warmed, writes, crashes>>

WarmDone(o) ==
    /\ ops[o].at = "loading" /\ ops[o].seen = {}
    /\ Go(o, IF ops[o].kind \in {"set", "remove"} THEN "cipher" ELSE "over")
    /\ UNCHANGED <<rows, cache, warmed, writes, crashes>>

-----------------------------------------------------------------------------
(* set() and remove(): what the cache holds when the cipher is done decides between create, update and delete. *)
LookUp(o) ==
    /\ ops[o].at = "cipher"
    /\ LET existing == cache[ops[o].name]
       IN IF ops[o].kind = "remove"
          THEN /\ ops' = [ops EXCEPT ![o].id = existing.id, ![o].at = IF existing = NoEntry THEN "over" ELSE "sent"]
               /\ UNCHANGED writes
          ELSE /\ existing = NoEntry => Stored # Ids
               /\ writes' = writes + 1
               /\ ops' = [ops EXCEPT ![o].id = existing.id, ![o].value = writes + 1, ![o].at = "sent"]
    /\ UNCHANGED <<rows, cache, warmed, crashes>>

Sealed(name, value) == [name |-> name, value |-> value, key |-> "current", stamp |-> "current"]

Create(o) ==
    /\ ops[o].at = "sent" /\ ops[o].kind = "set" /\ ops[o].id = 0
    /\ \E i \in Ids \ Stored :
          /\ \A j \in Ids \ Stored : i <= j
          /\ rows' = [rows EXCEPT ![i] = Sealed(ops[o].name, ops[o].value)]
          /\ ops' = [ops EXCEPT ![o].id = i, ![o].at = "landed"]
    /\ UNCHANGED <<cache, warmed, writes, crashes>>

Update(o) ==
    /\ ops[o].at = "sent" /\ ops[o].kind = "set" /\ ops[o].id # 0
    /\ IF ops[o].id \in Stored
       THEN rows' = [rows EXCEPT ![ops[o].id] = Sealed(ops[o].name, ops[o].value)] /\ Go(o, "landed")
       ELSE rows' = rows /\ Go(o, "failed")
    /\ UNCHANGED <<cache, warmed, writes, crashes>>

Delete(o) ==
    /\ ops[o].at = "sent" /\ ops[o].kind = "remove"
    /\ rows' = [rows EXCEPT ![ops[o].id] = NoRow]
    /\ Go(o, "landed")
    /\ UNCHANGED <<cache, warmed, writes, crashes>>

Settle(o) ==
    /\ ops[o].at = "landed" /\ ops[o].kind \in {"set", "remove"}
    /\ cache' = [cache EXCEPT ![ops[o].name] =
                   IF ops[o].kind = "set" THEN [id |-> ops[o].id, value |-> ops[o].value] ELSE NoEntry]
    /\ Go(o, "over")
    /\ UNCHANGED <<rows, warmed, writes, crashes>>

-----------------------------------------------------------------------------
(* rotate(): every row listed at the start is sealed again, with the value it had then. *)
ListForRotate(o) ==
    /\ ops[o].at = "list"
    /\ ops' = [ops EXCEPT ![o].seen = Snapshot, ![o].at = "next"]
    /\ UNCHANGED <<rows, cache, warmed, writes, crashes>>

(* Mutant: a legacy row is taken to be under the current key. *)
RotatedStampingAll(row) ==
    IF row.stamp = "none" THEN [row EXCEPT !.stamp = "current"] ELSE Sealed(row.name, row.value)

(* A legacy row the current key opens is stamped only; any other readable one is sealed again. *)
Rotated(row) ==
    IF row.stamp = "none" /\ row.key = "current" THEN [row EXCEPT !.stamp = "current"]
    ELSE Sealed(row.name, row.value)

(* Mutant: a row under the previous key counts as current. *)
SkipsReadable(row) == Readable(row) /\ row.stamp # "none"

Skips(row) == Readable(row) /\ row.stamp = "current"

RotateRow(o) ==
    /\ ops[o].at = "next" /\ ops[o].seen # {}
    /\ LET s == FirstOf(ops[o].seen)
       IN IF ~Readable(s.row) \/ Skips(s.row)
          THEN /\ ops' = [ops EXCEPT ![o].seen = @ \ {s}, ![o].unread = @ + IF Readable(s.row) THEN 0 ELSE 1]
               /\ rows' = rows
          ELSE IF s.id \in Stored
          THEN /\ rows' = [rows EXCEPT ![s.id] = Rotated(s.row)]
               /\ ops' = [ops EXCEPT ![o].seen = @ \ {s}]
          ELSE rows' = rows /\ Go(o, "failed")
    /\ UNCHANGED <<cache, warmed, writes, crashes>>

RotateDone(o) ==
    /\ ops[o].at = "next" /\ ops[o].seen = {}
    /\ cache' = [n \in Name |-> NoEntry] /\ warmed' = TRUE
    /\ Go(o, "load")
    /\ UNCHANGED <<rows, writes, crashes>>

-----------------------------------------------------------------------------
(* The process ends and boots again: every call in flight is gone, and so is the cache. *)
Crash ==
    /\ crashes < MaxCrashes
    /\ crashes' = crashes + 1
    /\ cache' = [n \in Name |-> NoEntry] /\ warmed' = FALSE
    /\ ops' = [o \in Op |-> IF ops[o].at \in {"new", "over", "failed"} THEN ops[o] ELSE [Idle EXCEPT !.at = "failed"]]
    /\ UNCHANGED <<rows, writes>>

Finished == (\A o \in Op : ops[o].at \in {"over", "failed"}) /\ UNCHANGED credVars

Next ==
    \/ \E o \in Op :
          \/ BeginSet(o) \/ BeginRemove(o) \/ BeginWarm(o) \/ BeginRotate(o)
          \/ ListForWarm(o) \/ LoadRow(o) \/ WarmDone(o)
          \/ LookUp(o) \/ Create(o) \/ Update(o) \/ Delete(o) \/ Settle(o)
          \/ ListForRotate(o) \/ RotateRow(o) \/ RotateDone(o)
    \/ Crash \/ Finished

Spec == Init /\ [][Next]_credVars

-----------------------------------------------------------------------------
(* Whatever overlaps a rotation and wherever it is cut off, no row that a held key opened becomes unreadable. *)
NoRowSealedAway ==
    [][\A i \in Ids : Readable(rows[i]) => rows'[i] = NoRow \/ Readable(rows'[i])]_credVars

(* When a rotation reports no unreadable row the previous key can be retired: every row is under the current one. *)
RotationLeavesNoOldKey ==
    \A o \in Op : ops[o].kind = "rotate" /\ ops[o].at = "over" /\ ops[o].unread = 0 =>
        \A i \in Stored : rows[i].key = "current" /\ rows[i].stamp = "current"

(* Once no call is in flight, what resolve() finds is what the rows hold, and each name has one row. *)
CacheAgreesWithRows ==
    warmed /\ (\A o \in Op : ops[o].at \in {"new", "over"}) =>
        \A n \in Name :
            /\ Cardinality({i \in Stored : rows[i].name = n /\ Readable(rows[i])}) <= 1
            /\ \A i \in Stored : rows[i].name = n /\ Readable(rows[i]) => cache[n] = [id |-> i, value |-> rows[i].value]
=============================================================================
