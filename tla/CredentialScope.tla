--------------------------- MODULE CredentialScope ---------------------------
(***************************************************************************)
(* Whose credentials a piece of work sees: the work of a tenant of a       *)
(* multi-tenant host its tenant's, across every await, and other work the  *)
(* host's own and its environment's.  A host that uses its store alone     *)
(* copies into it, at every boot, what the environment holds of the        *)
(* declared names and the store does not know.                             *)
(*                                                                         *)
(* A store knows its rows once it was warmed: a host warms it before it is *)
(* used, or the first write to it does; until then it resolves nothing.    *)
(*                                                                         *)
(* A value is whoever wrote it; the environment's are the host's.          *)
(***************************************************************************)
EXTENDS Naturals, FiniteSets

CONSTANTS Work,          \* pieces of work
          Tenant,        \* tenants, each with a store
          Host,          \* the host's own store
          Env,           \* the environment
          None,          \* no store, no value
          Seeded,        \* what the host copied from its environment
          Cold,          \* the stores that a boot may leave unwarmed
          ServesMeanwhile, \* does the host serve while it boots?
          MaxAsks,       \* bound on the asks of a piece of work
          MaxBoots       \* bound on the boots of the host

Name == {"key", "setting"}

VARIABLES installed,     \* the store the host installed, or None
          storeOnly,     \* ALMADAR_CREDENTIALS_SOURCE=store
          scope,         \* per work: the store it was run with, or None
          env,           \* the names the environment holds
          boot,          \* the boot: which it is, where it is, the names left to copy,
                 \* and whether the host's store was warmed before it
          onTurn,        \* the work whose continuation runs, or None
          asks,          \* per work: asks it made; MaxAsks is its end
          values,        \* per store and name: who wrote what its row holds
          warmed,        \* the stores that know their rows
          seen           \* what was resolved, as [work, name, viewer, value]

setup == <<installed, storeOnly, scope, env>>
scopeVars == <<setup, boot, onTurn, asks, values, warmed, seen>>

Stores == Tenant \cup {Host}

Init ==
  /\ installed \in {None, Host}
  /\ storeOnly \in BOOLEAN
  /\ scope \in [Work -> Tenant \cup {None}]
  /\ env \in SUBSET Name
  /\ \E cold \in SUBSET Cold : warmed = Stores \ cold
  /\ boot = [of |-> 1, at |-> "plan", left |-> {}, knew |-> Host \in warmed]
  /\ onTurn = None
  /\ asks = [w \in Work |-> 0]
  /\ values = [s \in Stores |-> [n \in Name |-> None]]
  /\ seen = {}

(* What a store resolves: its rows, once it was warmed. *)
Stored(s, n) == IF s \in warmed THEN values[s][n] ELSE None

(* Mutant: the plan does not ask what the store holds. *)
LacksAnything(n) == TRUE

Lacks(n) == Stored(Host, n) = None

(* seedCredentialStore: what to copy is planned once, from what the store  *)
(* resolves and the environment has, all names being declared.             *)
PlanSeed ==
  /\ boot.at = "plan" /\ onTurn = None
  /\ boot' = IF installed = Host /\ storeOnly
             THEN [boot EXCEPT !.at = "copy", !.left = {n \in env : Lacks(n)}]
             ELSE [boot EXCEPT !.at = "serve"]
  /\ UNCHANGED <<setup, onTurn, asks, values, warmed, seen>>

(* One row is copied, over one that is there, or its write rejects and the *)
(* boot with it; the write warms the store.                                *)
CopyRow(n) ==
  /\ boot.at = "copy" /\ onTurn = None /\ n \in boot.left
  /\ \/ /\ values' = [values EXCEPT ![Host][n] = Seeded]
        /\ boot' = [boot EXCEPT !.left = @ \ {n}]
     \/ boot' = [boot EXCEPT !.at = "failed"] /\ UNCHANGED values
  /\ warmed' = warmed \cup {Host}
  /\ UNCHANGED <<setup, onTurn, asks, seen>>

Booted ==
  /\ boot.at = "copy" /\ onTurn = None /\ boot.left = {}
  /\ boot' = [boot EXCEPT !.at = "serve"]
  /\ UNCHANGED <<setup, onTurn, asks, values, warmed, seen>>

(* The host ends at any point and boots again over the rows it wrote, with *)
(* its stores warmed or not.                                               *)
Reboot ==
  /\ boot.of < MaxBoots
  /\ \E cold \in SUBSET Cold : warmed' = Stores \ cold
  /\ boot' = [of |-> boot.of + 1, at |-> "plan", left |-> {}, knew |-> Host \in warmed']
  /\ onTurn' = None
  /\ UNCHANGED <<setup, asks, values, seen>>

(* Work is begun or goes on after an await; until its next await nothing   *)
(* else runs.                                                              *)
Run(w) ==
  /\ boot.at = "serve" \/ (ServesMeanwhile /\ boot.at = "copy")
  /\ onTurn = None /\ asks[w] < MaxAsks
  /\ onTurn' = w
  /\ UNCHANGED <<setup, boot, asks, values, warmed, seen>>

(* AsyncLocalStorage: the store the running continuation was begun with.   *)
TenantScope == scope[onTurn]

(* getEffectiveCredentialStore *)
Effective == IF TenantScope # None THEN TenantScope ELSE installed

FromEnv(n) == IF n \notin env \/ (storeOnly /\ n # "setting") THEN None ELSE Env

(* Mutant: what the tenant does not have is looked for at the host. *)
ResolvedAnyhow(n, viewer) ==
  LET own == Stored(Effective, n) hosts == Stored(installed, n) IN
  CASE own # None -> own
    [] viewer -> hosts
    [] OTHER -> IF hosts # None THEN hosts ELSE FromEnv(n)

(* resolveCredentialRef: a tenant's store alone; a viewer's own credential *)
(* from the host's store alone; else that store and then the environment.  *)
Resolved(n, viewer) ==
  IF TenantScope # None THEN Stored(TenantScope, n)
  ELSE IF viewer \/ Stored(installed, n) # None THEN Stored(installed, n)
  ELSE FromEnv(n)

Awaits == /\ onTurn' = None
          /\ asks' = [asks EXCEPT ![onTurn] = @ + 1]

Resolve(n, viewer) ==
  /\ onTurn # None
  /\ seen' = seen \cup {[work |-> onTurn, name |-> n, viewer |-> viewer,
                         value |-> Resolved(n, viewer)]}
  /\ Awaits
  /\ UNCHANGED <<setup, boot, values, warmed>>

(* The credential admin port reads the store alone, never the environment. *)
ReadCredential(n) ==
  /\ onTurn # None
  /\ seen' = seen \cup {[work |-> onTurn, name |-> n, viewer |-> FALSE,
                         value |-> Stored(Effective, n)]}
  /\ Awaits
  /\ UNCHANGED <<setup, boot, values, warmed>>

(* The credential admin port: without a store there is nothing to write    *)
(* to, which is the ask's failure.                                         *)
WriteCredential(n) ==
  /\ onTurn # None
  /\ values' = IF Effective = None THEN values ELSE [values EXCEPT ![Effective][n] = Effective]
  /\ warmed' = IF Effective = None THEN warmed ELSE warmed \cup {Effective}
  /\ Awaits
  /\ UNCHANGED <<setup, boot, seen>>

RemoveCredential(n) ==
  /\ onTurn # None
  /\ values' = IF Effective = None THEN values ELSE [values EXCEPT ![Effective][n] = None]
  /\ warmed' = IF Effective = None THEN warmed ELSE warmed \cup {Effective}
  /\ Awaits
  /\ UNCHANGED <<setup, boot, seen>>

Next ==
  \/ \E w \in Work : Run(w)
  \/ PlanSeed \/ Booted \/ Reboot
  \/ \E n \in Name : CopyRow(n) \/ ReadCredential(n) \/ WriteCredential(n) \/ RemoveCredential(n)
  \/ \E n \in Name, viewer \in BOOLEAN : Resolve(n, viewer)

Spec == Init /\ [][Next]_scopeVars

-----------------------------------------------------------------------------
(* Nobody sees another's: work of a tenant resolves what that tenant wrote *)
(* or nothing, whatever ran between its awaits; a viewer's credential is   *)
(* never the environment's; and a host told to use its store alone takes   *)
(* nothing but settings from the environment.                              *)
CredentialsAreOnesOwn ==
  \A s \in seen :
    IF scope[s.work] # None THEN s.value \in {scope[s.work], None}
    ELSE /\ s.value \notin Tenant
         /\ s.value = Env => ~s.viewer /\ (storeOnly => s.name = "setting")

(* A boot before which the host warmed its store never writes over a       *)
(* credential the store holds, whatever was written or removed since the   *)
(* boots before it; and no boot, warmed or not, is over until the store    *)
(* has every declared name the environment has, wherever those before it   *)
(* broke off.                                                              *)
SeedsWhatIsLacking ==
  [][/\ onTurn = None /\ boot.knew =>
          \A n \in Name : values[Host][n] \in {None, values'[Host][n]}
     /\ boot.at = "copy" /\ boot'.at = "serve" => \A n \in env : values'[Host][n] # None]_scopeVars

(* host/credentials/seed.ts:29: "A name declared twice seeds once, a held  *)
(* row is never overwritten": no boot writes over a row.  No run has it:   *)
(* the code asks what the store resolves, and a store that was not warmed  *)
(* resolves nothing of what it holds.                                      *)
HeldIsKept ==
  [][onTurn = None => \A n \in Name : values[Host][n] \in {None, values'[Host][n]}]_scopeVars
=============================================================================
