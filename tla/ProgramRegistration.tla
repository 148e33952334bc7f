------------------------- MODULE ProgramRegistration -------------------------
(***************************************************************************)
(* What a registration seeds and what it reads, in two machines that share *)
(* no state.                                                               *)
(*                                                                         *)
(* Who owns the rows of a mock server: the viewer a host presents the app  *)
(* as, the owner the mock store stamps on the rows it seeds, and a         *)
(* registration that resolves, seeds and opens the kernel over several     *)
(* awaits while the host may name another viewer at any of them            *)
(* (OrbitalServerRuntime: the constructor, doRegister, prepareMockSeeding, *)
(* registerOrbitalAsync, resetMockPersistence, setDefaultUser and the      *)
(* deferred restamp; policyOwnerGates).  The mock store is external: a     *)
(* seed stamps the store's owner, restampOwner sets that owner and         *)
(* re-points every stamped row.  The gates that spare single rows are left *)
(* out: a row stands for the rows a gate lets through.                     *)
(*                                                                         *)
(* registerFromFile: a program, its message catalogs and the behaviors of  *)
(* its lazy pages are read one file after another, and registered when all *)
(* of them are there.  `orb resolve` may write a newer program over them   *)
(* meanwhile, file by file.  A file is the version it is of; 0 is no file, *)
(* or one that is no JSON.                                                 *)
(***************************************************************************)
EXTENDS Naturals, Sequences, FiniteSets

CONSTANTS
  Viewer,     \* the ids of viewers
  Default,    \* the viewer of an app that names none and declares no persona
  Entity,     \* the entities of the program, one per orbital
  Identity,   \* the [identity] entity, seeded first
  Written,    \* the entities that carry their own instances
  Nobody      \* a viewer without an id

VARIABLES
  user,       \* config.defaultUser
  named,      \* viewerNamedByHost
  ownerId,    \* the owner the mock store stamps
  pending,    \* pendingOwnerRestamp
  resolved,   \* resolvedSchema is set
  orbitals,   \* the entities of the orbitals in the runtime's map
  owner,      \* entity |-> who owns its seeded rows
  kernelRows, \* the owner of the [runtime] rows the kernel holds
  phase,      \* "idle", or where the registration under way stands
  todo        \* the entities it has still to seed

personaVars == <<user, named, ownerId, pending, resolved, orbitals, owner, kernelRows, phase, todo>>

Absent == "absent"       \* no rows
Declared == "declared"   \* the rows written in the program, which carry no stamp
Stamps == Viewer \cup {Nobody}

TypeOK ==
  /\ user \in Stamps /\ ownerId \in Stamps
  /\ named \in BOOLEAN /\ pending \in BOOLEAN /\ resolved \in BOOLEAN
  /\ orbitals \subseteq Entity /\ todo \subseteq Entity
  /\ owner \in [Entity -> Stamps \cup {Absent, Declared}]
  /\ kernelRows \in Stamps \cup {Absent}
  /\ phase \in {"idle", "resolving", "seeding", "opened"}

\* The host names a viewer, or leaves it to the app.
SeedInit ==
  /\ \/ named = FALSE /\ user = Default
     \/ named = TRUE /\ user \in Viewer
  /\ ownerId = user
  /\ pending = FALSE /\ resolved = FALSE
  /\ orbitals = {} /\ todo = {}
  /\ owner = [e \in Entity |-> Absent]
  /\ kernelRows = Absent
  /\ phase = "idle"

Restamped(rows, id) ==
  [e \in Entity |-> IF rows[e] \in Stamps THEN id ELSE rows[e]]

Seeded(rows, some, id) == [e \in Entity |-> IF e \in some THEN id ELSE rows[e]]

\* The restamp waits for the schema, whose gates decide which rows it may touch.
RestampGated(id) ==
  IF resolved
  THEN ownerId' = id /\ owner' = Restamped(owner, id) /\ UNCHANGED pending
  ELSE pending' = TRUE /\ UNCHANGED <<ownerId, owner>>

SetDefaultUser(u) ==
  /\ user' = u
  /\ named' = TRUE
  /\ IF u # Nobody /\ u # user THEN RestampGated(u) ELSE UNCHANGED <<ownerId, owner, pending>>
  /\ UNCHANGED <<resolved, orbitals, kernelRows, phase, todo>>

BeginRegister ==
  /\ phase = "idle"
  /\ phase' = "resolving"
  /\ UNCHANGED <<user, named, ownerId, pending, resolved, orbitals, owner, kernelRows, todo>>

\* The roster is the written or the seeded identity rows; persona is its first one.
PrepareMockSeeding(persona) ==
  LET viewer == IF named THEN user ELSE persona
      stamp == IF named THEN ownerId ELSE persona
      kept == IF named THEN owner ELSE Restamped(owner, stamp)
  IN /\ phase = "resolving"
     /\ phase' = "seeding"
     /\ user' = viewer
     /\ ownerId' = stamp
     /\ owner' = Seeded(kept, {Identity} \ Written, stamp)
     /\ todo' = Entity
     /\ UNCHANGED <<named, pending, resolved, orbitals, kernelRows>>

RegisterOrbital(e) ==
  /\ phase = "seeding" /\ e \in todo
  /\ todo' = todo \ {e}
  /\ orbitals' = orbitals \cup {e}
  /\ owner' = Seeded(owner, {e}, IF e \in Written THEN Declared ELSE ownerId)
  /\ UNCHANGED <<user, named, ownerId, pending, resolved, kernelRows, phase>>

OpenKernel ==
  /\ phase = "seeding" /\ todo = {}
  /\ phase' = "opened"
  /\ kernelRows' = user
  /\ UNCHANGED <<user, named, ownerId, pending, resolved, orbitals, owner, todo>>

\* A mutant: the restamp that was put off is forgotten.
FlushForgetting == pending' = FALSE /\ UNCHANGED <<ownerId, owner>>

FlushPendingOwnerRestamp ==
  /\ pending' = FALSE
  /\ IF pending /\ user # Nobody
     THEN ownerId' = user /\ owner' = Restamped(owner, user)
     ELSE UNCHANGED <<ownerId, owner>>

\* A naming that came before the schema is caught up with here.
Finish ==
  /\ phase = "opened"
  /\ phase' = "idle"
  /\ resolved' = TRUE
  /\ FlushPendingOwnerRestamp
  /\ UNCHANGED <<user, named, orbitals, kernelRows, todo>>

\* Resolving the program, or opening the kernel on it, throws.
FailSeeding ==
  /\ phase \in {"resolving", "seeding"}
  /\ phase' = "idle" /\ todo' = {}
  /\ UNCHANGED <<user, named, ownerId, pending, resolved, orbitals, owner, kernelRows>>

\* Every registered entity is seeded anew, those with instances of their own included.
ResetMockPersistence ==
  /\ LET first == IF resolved THEN {Identity} \ Written ELSE {}
     IN owner' = Seeded([e \in Entity |-> Absent], first \cup orbitals, ownerId)
  /\ UNCHANGED <<user, named, ownerId, pending, resolved, orbitals, kernelRows, phase, todo>>

ResetCircuitState ==
  /\ kernelRows # Absent
  /\ kernelRows' = user
  /\ UNCHANGED <<user, named, ownerId, pending, resolved, orbitals, owner, phase, todo>>

UnregisterAll ==
  /\ phase = "idle"
  /\ orbitals' = {}
  /\ owner' = [e \in Entity |-> Absent]
  /\ kernelRows' = Absent
  /\ UNCHANGED <<user, named, ownerId, pending, resolved, phase, todo>>

SeedNext ==
  \/ \E u \in Stamps : SetDefaultUser(u)
  \/ BeginRegister
  \/ \E v \in Viewer : PrepareMockSeeding(v)
  \/ \E e \in Entity : RegisterOrbital(e)
  \/ OpenKernel \/ Finish \/ FailSeeding
  \/ ResetMockPersistence \/ ResetCircuitState \/ UnregisterAll

\* Whenever an app is registered and no registration is under way, the viewer
\* the host presents it as owns the stamped rows, and will own the rows seeded
\* next, however the naming of viewers fell between the steps of registrations
\* (setDefaultUser, restampOwnerGated, flushPendingOwnerRestamp).
ViewerOwnsTheRows ==
  phase = "idle" /\ resolved /\ user # Nobody =>
    /\ ownerId = user
    /\ \A e \in Entity : owner[e] \in Stamps => owner[e] = user
-----------------------------------------------------------------------------
(* The files *)

CONSTANTS Page,          \* lazy pages
          Declares,      \* per version: the lazy pages, in order
          Orbital,       \* per version and page: the orbital it shows
          Locale,        \* locales of the program
          Versions       \* bound on the versions written

VARIABLES disk,          \* per file: the version on disk
          writing,       \* files `orb resolve` has yet to write
          newest,        \* the version it writes, or wrote last
          reading,       \* "idle", "program", "catalogs", "lazy" or "ended"
          program,       \* the version that was read
          lazy,          \* behaviors read, as <<page, version>>, in order
          catalogs,      \* files whose messages were merged
          running        \* what the server runs: a program and its behaviors

fileVars == <<disk, writing, newest, reading, program, lazy, catalogs, running>>

File == {"program"} \cup Page

Nothing == [program |-> 0, lazy |-> <<>>]

ReadInit ==
  /\ disk = [f \in File |-> 0]
  /\ writing = {"program"} \cup {Declares[1][i] : i \in DOMAIN Declares[1]}
  /\ newest = 1
  /\ reading = "idle" /\ program = 0 /\ lazy = <<>> /\ catalogs = {}
  /\ running = Nothing

FailReading == reading' = "ended" /\ UNCHANGED <<program, lazy, catalogs, running>>

ReadProgram ==
  /\ reading = "idle"
  /\ IF disk["program"] = 0 THEN FailReading
     ELSE /\ program' = disk["program"]
          /\ reading' = "catalogs"
          /\ UNCHANGED <<lazy, catalogs, running>>
  /\ UNCHANGED <<disk, writing, newest>>

(* readSidecarCatalogs: a declared locale without its catalog ends it all. *)
ReadCatalogs ==
  /\ reading = "catalogs"
  /\ \/ /\ catalogs' = catalogs \cup {<<Len(lazy), l>> : l \in Locale}
        /\ reading' = "lazy"
        /\ UNCHANGED <<program, lazy, running>>
     \/ FailReading
  /\ UNCHANGED <<disk, writing, newest>>

(* Mutant: whatever behavior the file holds is taken. *)
ShowsAny(p, v) == TRUE

(* The behavior has the orbital its page shows.                            *)
Shows(p, v) == Orbital[v][p] = Orbital[program][p]

(* The next lazy page's behavior; one that cannot be read or shows another *)
(* orbital ends it all.                                                    *)
ReadLazy ==
  LET p == Declares[program][Len(lazy) + 1] IN
  /\ reading = "lazy" /\ Len(lazy) < Len(Declares[program])
  /\ IF disk[p] # 0 /\ Shows(p, disk[p])
     THEN /\ lazy' = Append(lazy, <<p, disk[p]>>)
          /\ reading' = "catalogs"
          /\ UNCHANGED <<program, catalogs, running>>
     ELSE FailReading
  /\ UNCHANGED <<disk, writing, newest>>

Register ==
  /\ reading = "lazy" /\ Len(lazy) = Len(Declares[program])
  /\ running' = [program |-> program, lazy |-> lazy]
  /\ reading' = "ended"
  /\ UNCHANGED <<disk, writing, newest, program, lazy, catalogs>>

(* It is asked for again. *)
Again ==
  /\ reading = "ended"
  /\ reading' = "idle" /\ program' = 0 /\ lazy' = <<>> /\ catalogs' = {}
  /\ UNCHANGED <<disk, writing, newest, running>>

Resolve ==
  /\ newest < Versions /\ writing = {}
  /\ newest' = newest + 1
  /\ writing' = {"program"} \cup {Declares[newest'][i] : i \in DOMAIN Declares[newest']}
  /\ UNCHANGED <<disk, reading, program, lazy, catalogs, running>>

Write(f) ==
  /\ f \in writing
  /\ disk' = [disk EXCEPT ![f] = newest]
  /\ writing' = writing \ {f}
  /\ UNCHANGED <<newest, reading, program, lazy, catalogs, running>>

ReadNext ==
  \/ ReadProgram \/ ReadCatalogs \/ ReadLazy \/ Register \/ Again
  \/ Resolve \/ \E f \in File : Write(f)

-----------------------------------------------------------------------------
(* Every lazy page works: the program that runs has, for each of its lazy  *)
(* pages and in their order, a behavior with the orbital the page shows,   *)
(* although the files were read one by one while they were being written.  *)
LazyPagesWork ==
  running # Nothing =>
    LET v == running.program IN
    /\ Len(running.lazy) = Len(Declares[v])
    /\ \A i \in DOMAIN running.lazy :
         /\ running.lazy[i][1] = Declares[v][i]
         /\ Orbital[running.lazy[i][2]][running.lazy[i][1]] = Orbital[v][Declares[v][i]]
=============================================================================
