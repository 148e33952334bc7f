----------------------------- MODULE KernelHost -----------------------------
(***************************************************************************)
(* The host's side of the kernel, in two machines that share no state.     *)
(* The kernel itself is WebAssembly outside src.                           *)
(*                                                                         *)
(* The engine that runs a program on the kernel (kernel/engine.ts): what   *)
(* the program's kernel was told of its host, which a reset must tell the  *)
(* next one again, and the flights of dispatches that stop to await the    *)
(* host's answers and are resumed or abandoned.  A dispatch goes on with   *)
(* the kernel it started on, which may be freed meanwhile.                 *)
(*                                                                         *)
(* Rows (kernel/host.ts): how the kernel's asks for rows are answered from *)
(* a persistence adapter.  A write of a row is three calls of the adapter; *)
(* pushed-down writes are one, where the adapter has them and takes them.  *)
(* Every ask writes a field of its own, so a row is the set of the asks    *)
(* whose fields it has.                                                    *)
(***************************************************************************)
EXTENDS Naturals, FiniteSets

CONSTANTS Engine,      \* the engine that was opened and its forks
          First,       \* the former
          Dispatch,
          MaxKernels,  \* bound on the kernels opened
          Ask,         \* asks of dispatches
          Row,         \* rows of one entity
          Overlap      \* asks of several dispatches may run side by side

Told == {"tickMount", "messages", "managedProgram"}

VARIABLES handle,   \* engine |-> its kernel; 0: none, or freed
          made,     \* how many kernels were opened
          knows,    \* engine |-> what its kernel was told
          kept,     \* engine |-> what the engine remembers it told
          flights,  \* <<kernel, dispatch>>: the flights the live kernels hold
          runs      \* dispatch |-> where it stands and on which kernel
kernelVars == <<handle, made, knows, kept, flights, runs>>

VARIABLES has,           \* what the adapter has: "where", "batch", "page"
          declared,      \* the kernel was told that writes are pushed down
          rowAsks,       \* per ask: where it stands and what it works on
          present,       \* rows there are
          fields,        \* per row: its fields
          due,           \* per row: fields that must be in it
          rowAnswers     \* per answered ask: the fields of the row it was given

rowVars == <<has, declared, rowAsks, present, fields, due, rowAnswers>>

TypeOK ==
  /\ handle \in [Engine -> 0..MaxKernels] /\ made \in 0..MaxKernels
  /\ knows \in [Engine -> SUBSET (Told \cup {"capabilities"})]
  /\ kept \in [Engine -> SUBSET Told]
  /\ flights \subseteq (1..MaxKernels) \X Dispatch
  /\ runs \in [Dispatch -> [at : {"idle", "awaiting", "answered", "failed"}, on : 0..MaxKernels]]

EngineInit ==
  /\ made = 1 /\ handle = [e \in Engine |-> IF e = First THEN 1 ELSE 0]
  /\ knows = [e \in Engine |-> IF e = First THEN {"capabilities"} ELSE {}]
  /\ kept = [e \in Engine |-> {}]
  /\ flights = {} /\ runs = [d \in Dispatch |-> [at |-> "idle", on |-> 0]]
-----------------------------------------------------------------------------
\* setTickMount(), setMessages(), setManagedProgram().
Tell(e, t) ==
  /\ handle[e] # 0
  /\ kept' = [kept EXCEPT ![e] = @ \cup {t}]
  /\ knows' = [knows EXCEPT ![e] = @ \cup {t}]
  /\ UNCHANGED <<handle, made, flights, runs>>

\* A mutant: the program whose credentials it manages is not told again.
ToldAgainButTheProgram(e) == (kept[e] \ {"managedProgram"}) \cup {"capabilities"}

ToldAgain(e) == kept[e] \cup {"capabilities"}

Freed(e) == {f \in flights : f[1] # handle[e]}

Reset(e) ==
  /\ handle[e] # 0 /\ made < MaxKernels
  /\ made' = made + 1
  /\ handle' = [handle EXCEPT ![e] = made']
  /\ knows' = [knows EXCEPT ![e] = ToldAgain(e)]
  /\ flights' = Freed(e)
  /\ UNCHANGED <<kept, runs>>

Dispose(e) ==
  /\ handle[e] # 0
  /\ handle' = [handle EXCEPT ![e] = 0]
  /\ flights' = Freed(e)
  /\ UNCHANGED <<made, knows, kept, runs>>

\* fork(): the kernel keeps its mounts and messages, and so does the engine.
Fork(e) ==
  /\ e # First /\ made < MaxKernels /\ handle[First] # 0 /\ handle[e] = 0
  /\ made' = made + 1
  /\ handle' = [handle EXCEPT ![e] = made']
  /\ kept' = [kept EXCEPT ![e] = kept[First] \ {"managedProgram"}]
  /\ knows' = [knows EXCEPT ![e] = kept'[e] \cup {"capabilities"}]
  /\ UNCHANGED <<flights, runs>>
-----------------------------------------------------------------------------
Live(k) == \E e \in Engine : handle[e] = k

\* start() or resume() comes out: the response, or a stop to await answers.
Progress(d, k) ==
  \/ /\ runs' = [runs EXCEPT ![d] = [at |-> "answered", on |-> k]]
     /\ flights' = flights \ {<<k, d>>}
  \/ /\ runs' = [runs EXCEPT ![d] = [at |-> "awaiting", on |-> k]]
     /\ flights' = flights \cup {<<k, d>>}

Start(d, e) ==
  /\ handle[e] # 0 /\ runs[d].at = "idle"
  /\ Progress(d, handle[e])
  /\ UNCHANGED <<handle, made, knows, kept>>

\* Every answer of the batch is there; a kernel that was freed takes none.
Resume(d) ==
  /\ runs[d].at = "awaiting"
  /\ IF Live(runs[d].on) THEN Progress(d, runs[d].on)
     ELSE runs' = [runs EXCEPT ![d].at = "failed"] /\ UNCHANGED flights
  /\ UNCHANGED <<handle, made, knows, kept>>

\* A mutant: the flight is left to the kernel.
AbandonedNever(d) == flights

Abandoned(d) == flights \ {<<runs[d].on, d>>}

\* An answer of the batch rejects.
Abandon(d) ==
  /\ runs[d].at = "awaiting"
  /\ runs' = [runs EXCEPT ![d].at = "failed"]
  /\ flights' = Abandoned(d)
  /\ UNCHANGED <<handle, made, knows, kept>>

EngineNext ==
  \/ \E e \in Engine : (\E t \in Told : Tell(e, t)) \/ Reset(e) \/ Dispose(e) \/ Fork(e)
                       \/ \E d \in Dispatch : Start(d, e)
  \/ \E d \in Dispatch : Resume(d) \/ Abandon(d)
-----------------------------------------------------------------------------
(***************************************************************************)
(* Whatever the engine was told, forked and reset, and in whichever order, *)
(* the kernel it runs on knows what its host last said of it.              *)
(***************************************************************************)
ResetForgetsNothing ==
  \A e \in Engine : handle[e] # 0 => knows[e] = kept[e] \cup {"capabilities"}

(***************************************************************************)
(* A live kernel holds exactly the flights of the dispatches that await    *)
(* answers: none stays behind when an answer rejects, and a dispatch whose *)
(* kernel was freed meanwhile fails instead of going on with the next one. *)
(***************************************************************************)
FlightsEnd ==
  flights = {f \in (1..MaxKernels) \X Dispatch :
               Live(f[1]) /\ runs[f[2]].at = "awaiting" /\ runs[f[2]].on = f[1]}
-----------------------------------------------------------------------------
(* Rows *)

(* declareCapabilities, before the first dispatch: either way of writing   *)
(* is told as pushing down.                                                *)
Declared(capabilities) == capabilities \cap {"where", "batch"} # {}

RowInit ==
  /\ has \in SUBSET {"where", "batch", "page"}
  /\ declared = Declared(has)
  /\ rowAsks = [a \in Ask |-> [at |-> "idle"]]
  /\ present = {} /\ fields = [r \in Row |-> {}] /\ due = [r \in Row |-> {}]
  /\ rowAnswers = [a \in Ask |-> {}]

At(a, step) == rowAsks[a].at = step
To(a, r) == rowAsks' = [rowAsks EXCEPT ![a] = r]
Done == [at |-> "done"]

(* The kernel asks for a pushed-down write where it was told of one.       *)
Begin(a, r) ==
  /\ At(a, "idle")
  /\ Overlap \/ \A b \in Ask : At(b, "idle") \/ At(b, "done")
  /\ \/ To(a, [at |-> IF declared THEN "batch" ELSE "look", row |-> r])
     \/ To(a, [at |-> "delete", row |-> r])
     \/ To(a, [at |-> "query", row |-> r])
  /\ UNCHANGED <<has, declared, present, fields, due, rowAnswers>>

Answer(a, given) ==
  /\ To(a, Done)
  /\ rowAnswers' = [rowAnswers EXCEPT ![a] = given]

Written(a, r, before) ==
  /\ present' = present \cup {r}
  /\ fields' = [fields EXCEPT ![r] = before \cup {a}]

(* queryRows: a page or its ids, a failure, or unsupported (not there, or  *)
(* declined), and the kernel lists the rows itself.                        *)
Query(a) ==
  /\ At(a, "query")
  /\ \/ "page" \in has /\ To(a, Done)
     \/ To(a, [at |-> "list", row |-> rowAsks[a].row])
  /\ UNCHANGED <<has, declared, present, fields, due, rowAnswers>>

(* Reads are one call of the adapter. *)
List(a) ==
  /\ At(a, "list")
  /\ To(a, Done)
  /\ UNCHANGED <<has, declared, present, fields, due, rowAnswers>>

(* writeRows: without writeBatch, or declined, nothing was written, and    *)
(* the kernel writes the row itself.                                       *)
Batch(a) ==
  LET r == rowAsks[a].row IN
  /\ At(a, "batch")
  /\ \/ /\ "batch" \in has
        /\ Written(a, r, fields[r])
        /\ due' = [due EXCEPT ![r] = @ \cup {a}]
        /\ Answer(a, fields'[r])
     \/ /\ To(a, [at |-> "look", row |-> r])
        /\ UNCHANGED <<present, fields, due, rowAnswers>>
     \/ /\ "batch" \in has /\ To(a, Done)
        /\ UNCHANGED <<present, fields, due, rowAnswers>>
  /\ UNCHANGED <<has, declared>>

(* Mutant: a row is never looked for. *)
ExistingNever(r) == FALSE

Existing(r) == r \in present

(* writeRow looks for the row, ...                                         *)
Look(a) ==
  /\ At(a, "look")
  /\ To(a, [at |-> "store", row |-> rowAsks[a].row, existing |-> Existing(rowAsks[a].row),
            seen |-> fields[rowAsks[a].row]])
  /\ UNCHANGED <<has, declared, present, fields, due, rowAnswers>>

(* ... creates or updates it by what it found (an update of a row that     *)
(* went is the adapter's failure), ...                                     *)
Store(a) ==
  LET r == rowAsks[a].row IN
  /\ At(a, "store")
  /\ IF rowAsks[a].existing /\ r \notin present
     THEN To(a, Done) /\ UNCHANGED <<present, fields, due>>
     ELSE /\ Written(a, r, IF rowAsks[a].existing THEN fields[r] ELSE {})
          /\ due' = [due EXCEPT ![r] = @ \cup {a}]
          /\ To(a, [rowAsks[a] EXCEPT !.at = "back"])
  /\ UNCHANGED <<has, declared, rowAnswers>>

(* ... and answers what it reads back, or what it wrote over what it saw.  *)
ReadBack(a) ==
  LET r == rowAsks[a].row IN
  /\ At(a, "back")
  /\ Answer(a, IF r \in present THEN fields[r] ELSE rowAsks[a].seen \cup {a})
  /\ UNCHANGED <<has, declared, present, fields, due>>

Delete(a) ==
  LET r == rowAsks[a].row IN
  /\ At(a, "delete")
  /\ present' = present \ {r}
  /\ fields' = [fields EXCEPT ![r] = {}] /\ due' = [due EXCEPT ![r] = {}]
  /\ To(a, Done)
  /\ UNCHANGED <<has, declared, rowAnswers>>

RowNext ==
  \E a \in Ask :
    \/ \E r \in Row : Begin(a, r)
    \/ Query(a) \/ List(a) \/ Batch(a) \/ Look(a) \/ Store(a) \/ ReadBack(a) \/ Delete(a)

(* No write is lost: what was written to a row since it was last deleted   *)
(* is in it, by whichever way the kernel wrote, whatever the adapter has   *)
(* and declines, and the answer of a write shows it.                       *)
NoWriteLost ==
  /\ \A r \in Row : due[r] \subseteq fields[r]
  /\ \A a \in Ask : rowAnswers[a] # {} => a \in rowAnswers[a]
=============================================================================
