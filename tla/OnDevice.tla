------------------------------ MODULE OnDevice ------------------------------
(***************************************************************************)
(* Prompts to a browser's on-device model.  One base session is created on *)
(* first use and cloned for every prompt; a clone lives until its prompt   *)
(* answers, fails, runs out of time or is cancelled.  A base that could    *)
(* not be created or cloned is given up, so that the next prompt makes a   *)
(* new one.  The embedder loads its library by the same rule.              *)
(*                                                                         *)
(* Source: host/chrome/prompt.ts, host/chrome/embedder.ts,                 *)
(* effects/on-device-model.ts.  The model and its sessions are Chrome's.   *)
(***************************************************************************)
EXTENDS Naturals, FiniteSets

CONSTANTS Call, MaxBases   \* how many base sessions are made in all

VARIABLES
  at,        \* call |-> where it stands
  aborted,   \* the calls whose caller has aborted
  using,     \* call |-> the base it awaits or clones
  base,      \* the base of the next prompt; 0: none
  bases,     \* the bases made so far |-> "creating", "ready" or "failed"
  sessions   \* the calls whose clone has not been destroyed
deviceVars == <<at, aborted, using, base, bases, sessions>>

TypeOK ==
  /\ at \in [Call -> {"idle", "awaiting", "cloning", "prompting", "settled"}]
  /\ aborted \subseteq Call /\ sessions \subseteq Call
  /\ using \in [Call -> 0..MaxBases] /\ base \in 0..MaxBases
  /\ \E n \in 0..MaxBases : bases \in [1..n -> {"creating", "ready", "failed"}]

Init ==
  /\ at = [c \in Call |-> "idle"]
  /\ aborted = {} /\ sessions = {}
  /\ using = [c \in Call |-> 0]
  /\ base = 0 /\ bases = <<>>

\* The model is not available, no model is wired in, or the schema is no object.
Refuse(c) ==
  /\ at[c] = "idle"
  /\ at' = [at EXCEPT ![c] = "settled"]
  /\ UNCHANGED <<aborted, using, base, bases, sessions>>

Prompt(c) ==
  /\ at[c] = "idle" /\ c \notin aborted
  /\ LET made == Cardinality(DOMAIN bases) + 1 IN
     IF base # 0 THEN UNCHANGED <<base, bases>>
     ELSE /\ made <= MaxBases
          /\ base' = made
          /\ bases' = [k \in 1..made |-> IF k = made THEN "creating" ELSE bases[k]]
  /\ at' = [at EXCEPT ![c] = "awaiting"]
  /\ using' = [using EXCEPT ![c] = base']
  /\ UNCHANGED <<aborted, sessions>>

\* LanguageModel.create, or the load of the embedder's library, comes out.
Created(k, outcome) ==
  /\ bases[k] = "creating"
  /\ bases' = [bases EXCEPT ![k] = outcome]
  /\ UNCHANGED <<at, aborted, using, base, sessions>>

\* A mutant: a base that failed stays the base.
GiveUpBaseNever(c) == UNCHANGED base

GiveUpBase(c) == base' = 0

AwaitBase(c) ==
  /\ at[c] = "awaiting" /\ bases[using[c]] # "creating"
  /\ IF bases[using[c]] = "ready"
     THEN at' = [at EXCEPT ![c] = "cloning"] /\ UNCHANGED base
     ELSE at' = [at EXCEPT ![c] = "settled"] /\ GiveUpBase(c)
  /\ UNCHANGED <<aborted, using, bases, sessions>>

\* A mutant: a clone that comes after the abort is left open.
DestroyedUnlessAborted(c) == IF c \in aborted THEN sessions \cup {c} ELSE sessions \ {c}

Destroyed(c) == sessions \ {c}

\* The clone fails, comes too late for its caller, or takes the prompt.
Clone(c) ==
  /\ at[c] = "cloning"
  /\ \/ at' = [at EXCEPT ![c] = "settled"] /\ GiveUpBase(c) /\ UNCHANGED sessions
     \/ /\ c \in aborted
        /\ at' = [at EXCEPT ![c] = "settled"] /\ sessions' = Destroyed(c) /\ UNCHANGED base
     \/ /\ c \notin aborted
        /\ at' = [at EXCEPT ![c] = "prompting"]
        /\ sessions' = sessions \cup {c} /\ UNCHANGED base
  /\ UNCHANGED <<aborted, using, bases>>

\* The answer, an error, the deadline or the caller's abort ends the prompt.
EndPrompt(c) ==
  /\ at[c] = "prompting"
  /\ at' = [at EXCEPT ![c] = "settled"]
  /\ sessions' = Destroyed(c)
  /\ UNCHANGED <<aborted, using, base, bases>>

Abort(c) ==
  /\ at[c] # "settled" /\ c \notin aborted
  /\ aborted' = aborted \cup {c}
  /\ IF at[c] \in {"prompting", "idle"}
     THEN at' = [at EXCEPT ![c] = "settled"] /\ sessions' = Destroyed(c)
     ELSE UNCHANGED <<at, sessions>>
  /\ UNCHANGED <<using, base, bases>>

Next ==
  \/ \E c \in Call :
       Refuse(c) \/ Prompt(c) \/ AwaitBase(c) \/ Clone(c) \/ EndPrompt(c) \/ Abort(c)
  \/ \E k \in DOMAIN bases, o \in {"ready", "failed"} : Created(k, o)

\* A prompt that is over holds no session of the model, whichever of the
\* answer, the deadline, the abort and the clone came last; and a base that
\* failed is the base of the next prompt only until a call that awaits it is
\* told (prompt.ts: the catch of the clone, the finally of the race).
NothingStaleOfTheModel ==
  /\ \A c \in Call : at[c] = "settled" => c \notin sessions
  /\ base # 0 /\ bases[base] = "failed" => \E c \in Call : at[c] = "awaiting" /\ using[c] = base
=============================================================================
