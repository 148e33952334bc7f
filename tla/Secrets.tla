------------------------------- MODULE Secrets -------------------------------
(***************************************************************************)
(* One secret of a program (kernel/http-exchange.ts createHttpSecrets): a  *)
(* minted value with an expiry lies over the one of the credential store   *)
(* (host/credentials/store.ts), which keeps it in a row, and in a cache    *)
(* that every read goes to.  The secret's operations await the store, and  *)
(* the store's warm() and its rotate() of the master key clear and fill    *)
(* the same cache and write the same rows: all of them overlap.            *)
(* The store was warmed before (one that was not: CredentialStore).        *)
(* Values are numbered in the order in which they came to be, a row by its *)
(* first value; 0: none.                                                   *)
(***************************************************************************)
EXTENDS Naturals, FiniteSets

CONSTANTS Op, Kinds, MaxValues,
          MintsMeanwhile   \* whether a value is minted while a rotation is under way

VARIABLES rows,     \* the rows of the secret, each with its value
          oldKey,   \* those under the previous master key
          cached,   \* the row and the value that the store's cache knows
          minted,   \* the minted value
          alive,    \* whether the minted value has yet to expire
          made,     \* how many values there were
          kind,     \* op |-> what it does
          at,       \* op |-> where it stands
          carried,  \* op |-> the rows it holds across an await
          floor,    \* op |-> the value of the last rotation over when it began
          answer,   \* op |-> what it answered
          rotated,  \* the value of the last rotation that is over
          orderly   \* no two calls of the store overlapped, and no warming broke off
secretVars == <<rows, oldKey, cached, minted, alive, made, kind, at, carried, floor,
                answer, rotated, orderly>>

StoreCalls == {"warm", "reseal"}
InStore == {"row", "landed", "list", "load", "listOld", "reseal"}

Value == 0..MaxValues
Entry == [row : Value, value : Value]
NoEntry == [row |-> 0, value |-> 0]

TypeOK ==
  /\ rows \subseteq Entry /\ cached \in Entry /\ oldKey \subseteq Value
  /\ {minted, made, rotated} \subseteq Value /\ {alive, orderly} \subseteq BOOLEAN
  /\ kind \in [Op -> Kinds \cup {"none"}]
  /\ at \in [Op -> {"idle", "store", "resolve", "over"} \cup InStore]
  /\ carried \in [Op -> SUBSET Entry]
  /\ floor \in [Op -> Value] /\ answer \in [Op -> Value]

Init ==
  /\ cached = [row |-> 1, value |-> 1] /\ rows = {cached} /\ oldKey \in SUBSET {1}
  /\ made = 1 /\ rotated = 1 /\ orderly = TRUE
  /\ minted = 0 /\ alive = FALSE
  /\ kind = [o \in Op |-> "none"] /\ at = [o \in Op |-> "idle"]
  /\ carried = [o \in Op |-> {}]
  /\ floor = [o \in Op |-> 0] /\ answer = [o \in Op |-> 0]

Goes(o, place, holds) ==
  at' = [at EXCEPT ![o] = place] /\ carried' = [carried EXCEPT ![o] = holds]
Over(o) == Goes(o, "over", {})

\* A call of the store begins, or the call that is out goes on in it.
StoreBusy == \E o \in Op : at[o] \in InStore
EntersStore(o, place, holds) == Goes(o, place, holds) /\ orderly' = (orderly /\ ~StoreBusy)

\* Every operation of the secret first awaits the host's store.
Begin(o, k) ==
  /\ at[o] = "idle" /\ k \notin StoreCalls /\ Goes(o, "store", {})
  /\ kind' = [kind EXCEPT ![o] = k]
  /\ floor' = [floor EXCEPT ![o] = rotated]
  /\ UNCHANGED <<rows, oldKey, cached, minted, alive, made, answer, rotated, orderly>>

Arrives(o, k) == at[o] = "store" /\ kind[o] = k
Valid == minted # 0 /\ alive

Get(o) ==
  /\ Arrives(o, "get")
  /\ IF Valid THEN Over(o) /\ answer' = [answer EXCEPT ![o] = minted] /\ UNCHANGED minted
     ELSE Goes(o, "resolve", {}) /\ minted' = 0 /\ UNCHANGED answer
  /\ UNCHANGED <<rows, oldKey, cached, alive, made, kind, floor, rotated, orderly>>

\* The store answers from its cache alone; nothing there: 0, the environment's.
Resolve(o) ==
  /\ at[o] = "resolve" /\ Over(o)
  /\ answer' = [answer EXCEPT ![o] = cached.value]
  /\ UNCHANGED <<rows, oldKey, cached, minted, alive, made, kind, floor, rotated, orderly>>

Rotates(o) == kind[o] \in {"rotate", "persist"}
Rotating == \E o \in Op : Rotates(o) /\ at[o] \in {"row", "landed"}

\* set() and hold() of a store that shares nothing: with a lifetime or without.
Set(o, lasts) ==
  /\ Arrives(o, "set") /\ Over(o)
  /\ MintsMeanwhile \/ ~Rotating
  /\ IF lasts THEN made < MaxValues /\ made' = made + 1 /\ minted' = made' /\ alive' = TRUE
     ELSE minted' = 0 /\ UNCHANGED <<made, alive>>
  /\ UNCHANGED <<rows, oldKey, cached, kind, floor, answer, rotated, orderly>>

Take(o) ==
  /\ Arrives(o, "take") /\ Over(o)
  /\ answer' = [answer EXCEPT ![o] = IF Valid THEN minted ELSE 0]
  /\ minted' = 0
  /\ UNCHANGED <<rows, oldKey, cached, alive, made, kind, floor, rotated, orderly>>

\* A mutant: the minted value is left to expire.
ClearedNever(o) == minted

Cleared(o) == 0

\* rotate(), of a secret the store knows, and persist(), of any: the minted value
\* is dropped, and then the store's set() awaits the cipher.
RotateClears(o) ==
  /\ at[o] = "store" /\ Rotates(o)
  /\ IF kind[o] = "rotate" /\ cached = NoEntry THEN Over(o) /\ UNCHANGED <<minted, orderly>>
     ELSE EntersStore(o, "row", {}) /\ minted' = Cleared(o)
  /\ UNCHANGED <<rows, oldKey, cached, alive, made, kind, floor, answer, rotated>>

Without(row) == {e \in rows : e.row # row}
HasRow(row) == \E e \in rows : e.row = row

\* set(): the row that the cache knows is updated, or one more is created.
RotateWrites(o) ==
  /\ at[o] = "row" /\ Rotates(o)
  /\ cached = NoEntry \/ HasRow(cached.row)
  /\ made < MaxValues /\ made' = made + 1
  /\ LET new == [row |-> IF cached = NoEntry THEN made' ELSE cached.row, value |-> made']
     IN /\ rows' = Without(new.row) \cup {new}
        /\ oldKey' = oldKey \ {new.row}
        /\ Goes(o, "landed", {new})
  /\ UNCHANGED <<cached, minted, alive, kind, floor, answer, rotated, orderly>>

RotateEnds(o) ==
  /\ at[o] = "landed" /\ Rotates(o) /\ Over(o)
  /\ \E new \in carried[o] : cached' = new /\ rotated' = new.value
  /\ UNCHANGED <<rows, oldKey, minted, alive, made, kind, floor, answer, orderly>>

\* forget() and remove(): of the row the cache knows.
ForgetClears(o) ==
  /\ Arrives(o, "forget")
  /\ minted' = 0
  /\ IF cached = NoEntry THEN Over(o) /\ UNCHANGED orderly
     ELSE EntersStore(o, "row", {cached})
  /\ UNCHANGED <<rows, oldKey, cached, alive, made, kind, floor, answer, rotated>>

ForgetRemoves(o) ==
  /\ at[o] = "row" /\ kind[o] = "forget" /\ Goes(o, "landed", {})
  /\ rows' = {e \in rows : \A k \in carried[o] : e.row # k.row}
  /\ UNCHANGED <<oldKey, cached, minted, alive, made, kind, floor, answer, rotated, orderly>>

ForgetEnds(o) ==
  /\ at[o] = "landed" /\ kind[o] = "forget" /\ Over(o)
  /\ cached' = NoEntry /\ rotated' = 0
  /\ UNCHANGED <<rows, oldKey, minted, alive, made, kind, floor, answer, orderly>>

Expire ==
  /\ Valid /\ alive' = FALSE
  /\ UNCHANGED <<rows, oldKey, cached, minted, made, kind, at, carried, floor, answer, rotated, orderly>>

-----------------------------------------------------------------------------
\* warm(): the cache is cleared at once; the rows are listed, and opened one by one.
Warm(o) ==
  /\ at[o] = "idle" /\ EntersStore(o, "list", {})
  /\ kind' = [kind EXCEPT ![o] = "warm"] /\ cached' = NoEntry
  /\ UNCHANGED <<rows, oldKey, minted, alive, made, floor, answer, rotated>>

WarmLists(o) ==
  /\ at[o] = "list" /\ Goes(o, "load", rows)
  /\ UNCHANGED <<rows, oldKey, cached, minted, alive, made, kind, floor, answer, rotated, orderly>>

IsFirst(e, listed) == e \in listed /\ \A f \in listed : e.row <= f.row

WarmOpens(o, e) ==
  /\ at[o] = "load" /\ IsFirst(e, carried[o])
  /\ Goes(o, "load", carried[o] \ {e})
  /\ cached' = e
  /\ UNCHANGED <<rows, oldKey, minted, alive, made, kind, floor, answer, rotated, orderly>>

WarmEnds(o) ==
  /\ at[o] = "load" /\ carried[o] = {} /\ Over(o)
  /\ UNCHANGED <<rows, oldKey, cached, minted, alive, made, kind, floor, answer, rotated, orderly>>

\* rotate() of the master key: the rows are listed, those under the previous key
\* written again with the value they were listed with, and the store is warmed.
Reseal(o) ==
  /\ at[o] = "idle" /\ EntersStore(o, "listOld", {})
  /\ kind' = [kind EXCEPT ![o] = "reseal"]
  /\ UNCHANGED <<rows, oldKey, cached, minted, alive, made, floor, answer, rotated>>

ResealLists(o) ==
  /\ at[o] = "listOld" /\ Goes(o, "reseal", {e \in rows : e.row \in oldKey})
  /\ UNCHANGED <<rows, oldKey, cached, minted, alive, made, kind, floor, answer, rotated, orderly>>

ResealRow(o, e) ==
  /\ at[o] = "reseal" /\ IsFirst(e, carried[o]) /\ HasRow(e.row)
  /\ rows' = Without(e.row) \cup {e} /\ oldKey' = oldKey \ {e.row}
  /\ Goes(o, "reseal", carried[o] \ {e})
  /\ UNCHANGED <<cached, minted, alive, made, kind, floor, answer, rotated, orderly>>

ResealWarms(o) ==
  /\ at[o] = "reseal" /\ carried[o] = {} /\ Goes(o, "list", {})
  /\ cached' = NoEntry
  /\ UNCHANGED <<rows, oldKey, minted, alive, made, kind, floor, answer, rotated, orderly>>

\* The cipher or the adapter rejects the store's call, which an update of a
\* deleted row always is; a warming then leaves the cache as cleared.
StoreFails(o) ==
  /\ at[o] \in InStore \ {"landed", "load"} /\ Over(o)
  /\ orderly' = (orderly /\ at[o] # "list")
  /\ UNCHANGED <<rows, oldKey, cached, minted, alive, made, kind, floor, answer, rotated>>

Next ==
  \/ Expire
  \/ \E o \in Op :
       \/ \E k \in Kinds : Begin(o, k)
       \/ Get(o) \/ Resolve(o) \/ (\E lasts \in BOOLEAN : Set(o, lasts)) \/ Take(o)
       \/ RotateClears(o) \/ RotateWrites(o) \/ RotateEnds(o)
       \/ ForgetClears(o) \/ ForgetRemoves(o) \/ ForgetEnds(o)
       \/ "warm" \in Kinds /\ Warm(o)
       \/ "reseal" \in Kinds /\ Reseal(o)
       \/ WarmLists(o) \/ WarmEnds(o) \/ ResealLists(o) \/ ResealWarms(o)
       \/ \E e \in carried[o] : WarmOpens(o, e) \/ ResealRow(o, e)
       \/ StoreFails(o)

Spec == Init /\ [][Next]_secretVars

-----------------------------------------------------------------------------
(***************************************************************************)
(* A value read after a rotation was over is not one from before it,       *)
(* though a minted value lay over the durable one when the rotation began, *)
(* and whatever was minted, taken, forgotten, warmed or sealed anew        *)
(* meanwhile: as long as no two calls of the store itself overlap and no   *)
(* warming of it breaks off.  While it is warmed nothing is found in it.   *)
(***************************************************************************)
RotationIsSeen ==
  orderly => \A o \in Op : at[o] = "over" /\ answer[o] # 0 => answer[o] >= floor[o]

(***************************************************************************)
(* kernel/http-exchange.ts:60 says of rotate(): "Replace the stored        *)
(* credential with `value`, durably (a rotated refresh token)": as long as *)
(* a row is there, one holds a value no older than that of the last        *)
(* rotation that is over.  No run has it: a rotation of the master key     *)
(* that listed the row before writes the value it listed.                  *)
(***************************************************************************)
RotatedDurably == rows # {} => \E e \in rows : e.value >= rotated
=============================================================================
