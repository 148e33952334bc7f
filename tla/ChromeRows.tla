----------------------------- MODULE ChromeRows -----------------------------
(***************************************************************************)
(* The credential rows of a browser profile (host/chrome/credentials.ts):  *)
(* one array under one key of chrome.storage, changed by reading it whole  *)
(* and writing it whole, one change after another, and the master key,     *)
(* minted on first use and kept beside it.  The worker may be stopped at   *)
(* any step: what it had under way is gone, the storage stays.  Another    *)
(* context of the extension has a queue of its own.                        *)
(***************************************************************************)
EXTENDS Naturals, FiniteSets

CONSTANTS Context, Op, MaxKeys, MaxRestarts

VARIABLES masterKey,  \* the key in the storage; 0: none
          minted,     \* how many keys were made
          opening,    \* context |-> "closed", "minting", "saving" or "open"
          keys,       \* context |-> the key it seals with
          rows,       \* the array in the storage: the rows' creators and their keys
          queue,      \* context |-> the changes asked of it that are not over
          at, held,   \* op |-> where it stands, and the rows it read
          before,     \* op |-> the changes in its context's queue when it was asked
          restarts
chromeVars == <<masterKey, minted, opening, keys, rows, queue, at, held, before, restarts>>
opening_ == <<masterKey, minted, opening, keys>>

Row == Op \X (1..MaxKeys)
Kind == {"create", "delete", "list"}

TypeOK ==
  /\ masterKey \in 0..MaxKeys /\ minted \in 0..MaxKeys
  /\ opening \in [Context -> {"closed", "minting", "saving", "open"}]
  /\ keys \in [Context -> 0..MaxKeys]
  /\ rows \subseteq Row /\ restarts \in 0..MaxRestarts
  /\ queue \in [Context -> SUBSET Op]
  /\ at \in [Op -> [in : Context \cup {"none"}, is : {"idle", "queued", "read", "over", "lost"},
                   kind : Kind, of : Op]]
  /\ held \in [Op -> SUBSET Row] /\ before \in [Op -> SUBSET Op]

Init ==
  /\ masterKey = 0 /\ minted = 0 /\ restarts = 0
  /\ opening = [c \in Context |-> "closed"] /\ keys = [c \in Context |-> 0]
  /\ rows = {}
  /\ queue = [c \in Context |-> {}]
  /\ at = [o \in Op |-> [in |-> "none", is |-> "idle", kind |-> "list", of |-> o]]
  /\ held = [o \in Op |-> {}] /\ before = [o \in Op |-> {}]
-----------------------------------------------------------------------------
\* createChromeCredentialStore(): look for the key, mint one, keep it, go on.
Open(c) ==
  /\ opening[c] = "closed"
  /\ opening' = [opening EXCEPT ![c] = IF masterKey = 0 THEN "minting" ELSE "open"]
  /\ keys' = [keys EXCEPT ![c] = masterKey]
  /\ UNCHANGED <<masterKey, minted, rows, queue, at, held, before, restarts>>

\* A mutant: the key is used, and kept when somebody asks for it again.
SavedNever(c) == masterKey

Saved(c) == keys[c]

Mint(c) ==
  /\ opening[c] = "minting" /\ minted < MaxKeys
  /\ minted' = minted + 1
  /\ keys' = [keys EXCEPT ![c] = minted']
  /\ opening' = [opening EXCEPT ![c] = "saving"]
  /\ UNCHANGED <<masterKey, rows, queue, at, held, before, restarts>>

SaveKey(c) ==
  /\ opening[c] = "saving"
  /\ masterKey' = Saved(c)
  /\ opening' = [opening EXCEPT ![c] = "open"]
  /\ UNCHANGED <<minted, keys, rows, queue, at, held, before, restarts>>
-----------------------------------------------------------------------------
Stored == {r[1] : r \in rows}

\* A change is queued behind the others of its context; a list waits for them.
Ask(c, o, kind, of) ==
  /\ opening[c] = "open" /\ at[o].is = "idle"
  /\ kind = "delete" => of \in Stored
  /\ at' = [at EXCEPT ![o] = [in |-> c, is |-> "queued", kind |-> kind, of |-> of]]
  /\ before' = [before EXCEPT ![o] = queue[c]]
  /\ queue' = IF kind = "list" THEN queue ELSE [queue EXCEPT ![c] = @ \cup {o}]
  /\ UNCHANGED <<opening_, rows, held, restarts>>

\* A mutant: a change reads the rows when it is asked, not at its turn.
MyTurnAtOnce(c, o) == TRUE

MyTurn(c, o) == before[o] \cap queue[c] = {}

Read(c, o) ==
  /\ at[o].in = c /\ at[o].is = "queued"
  /\ MyTurn(c, o)
  /\ held' = [held EXCEPT ![o] = rows]
  /\ at' = [at EXCEPT ![o].is = "read"]
  /\ UNCHANGED <<opening_, rows, queue, before, restarts>>

Changed(c, o) ==
  IF at[o].kind = "create" THEN held[o] \cup {<<o, keys[c]>>}
  ELSE {r \in held[o] : r[1] # at[o].of}

\* The storage is written, or refuses; the next change of the queue goes on.
Write(c, o, ok) ==
  /\ at[o].in = c /\ at[o].is = "read"
  /\ at' = [at EXCEPT ![o].is = IF ok THEN "over" ELSE "lost"]
  /\ IF at[o].kind = "list" THEN UNCHANGED <<rows, queue>>
     ELSE /\ rows' = IF ok THEN Changed(c, o) ELSE rows
          /\ queue' = [queue EXCEPT ![c] = @ \ {o}]
  /\ held' = [held EXCEPT ![o] = IF at[o].kind = "list" THEN @ ELSE {}]
  /\ UNCHANGED <<opening_, before, restarts>>

Running(c, o) == at[o].in = c /\ at[o].is \in {"queued", "read"}

\* The browser stops the context: the storage alone is left.
Restart(c) ==
  /\ restarts < MaxRestarts /\ restarts' = restarts + 1
  /\ opening' = [opening EXCEPT ![c] = "closed"]
  /\ keys' = [keys EXCEPT ![c] = 0]
  /\ queue' = [queue EXCEPT ![c] = {}]
  /\ at' = [o \in Op |-> IF Running(c, o) THEN [at[o] EXCEPT !.is = "lost"] ELSE at[o]]
  /\ held' = [o \in Op |-> IF Running(c, o) THEN {} ELSE held[o]]
  /\ UNCHANGED <<masterKey, minted, rows, before>>

Next ==
  \E c \in Context :
    \/ Open(c) \/ Mint(c) \/ SaveKey(c) \/ Restart(c)
    \/ \E o, of \in Op, k \in Kind : (k # "delete" => of = o) /\ Ask(c, o, k, of)
    \/ \E o \in Op : Read(c, o) \/ \E ok \in BOOLEAN : Write(c, o, ok)
-----------------------------------------------------------------------------
Over(kind) == {o \in Op : at[o].is = "over" /\ at[o].kind = kind}

(***************************************************************************)
(* The storage holds every row whose create is over, but for those whose   *)
(* delete is over: no change is lost to another that read the array before *)
(* it, whatever write fails and wherever the worker is stopped; and every  *)
(* row opens with the key beside it.                                       *)
(***************************************************************************)
NoChangeLost ==
  /\ Stored = Over("create") \ {at[o].of : o \in Over("delete")}
  /\ \A r \in rows : r[2] = masterKey

(***************************************************************************)
(* A list tells every row whose create was queued when it asked, unless    *)
(* it is no longer stored.                                                 *)
(***************************************************************************)
ListSeesWhatWasAsked ==
  \A o \in Op : at[o].is = "read" /\ at[o].kind = "list" =>
    before[o] \cap Stored \subseteq {r[1] : r \in held[o]}
=============================================================================
