----------------------------- MODULE ProgramHost -----------------------------
(***************************************************************************)
(* The program host: the effects that stamp, validate, save and mount      *)
(* programs by running the `orb` binary, and the workspaces they are saved *)
(* in, which one kernel program keeps, one request at a time.              *)
(*                                                                         *)
(* Every effect saves a program of the same name, so a version is named by *)
(* the effect that brought it.  A run of `orb` is one step with any of the *)
(* outcomes the code tells apart.                                          *)
(***************************************************************************)
EXTENDS Naturals, Sequences, FiniteSets

CONSTANTS Effect,        \* the effects asked of the host
          Workspace,     \* the workspaces, each with its owner
          Project,       \* the project's own orbitals/ directory
          Nothing,       \* no version
          Earlier,       \* the version the project was delivered with
          MaxCrashes     \* bound on crashes of the host

Place == Workspace \cup {Project}

VARIABLES valid,         \* the versions `orb validate` has nothing against
          effects,       \* per effect: where it stands and what it works on
          temps,         \* effects whose temporary files are on disk
          saved,         \* per place: the version in its file
          commits,       \* per workspace: the versions snapshotted, in order
          requests,      \* requests the workspace program has yet to answer
          program,       \* how far the workspace program is, see ProgramStage
          hostDir,       \* the directory its source is written to is on disk
          refused,       \* requests answered with a failure, and what failed
          mounted,       \* versions handed to a host to run
          crashes

programVars == <<valid, effects, temps, saved, commits, requests, program,
                 hostDir, refused, mounted, crashes>>

ProgramStage == {"none", "resolving", "opening", "open", "failed"}

Idle == [at |-> "idle", place |-> Nothing]
Done == [at |-> "done", place |-> Nothing]

Init ==
  /\ \E v \in SUBSET Effect : valid = v \cup {Earlier}
  /\ effects = [f \in Effect |-> Idle]
  /\ temps = {}
  /\ saved = [p \in Place |-> IF p = Project THEN Earlier ELSE Nothing]
  /\ commits = [w \in Workspace |-> <<>>]
  /\ requests = <<>>
  /\ program = "none" /\ hostDir = FALSE
  /\ refused = {} /\ mounted = {} /\ crashes = 0

At(f, step) == effects[f].at = step
To(f, r) == effects' = [effects EXCEPT ![f] = r]

(* Mutant: the temporary files are left where they are. *)
AnsweredLeaving(f) == To(f, Done) /\ UNCHANGED temps

(* The effect is answered, with a result or a failure as data; what it put *)
(* in a temporary directory goes with it.                                  *)
Answered(f) == To(f, Done) /\ temps' = temps \ {f}

(* runProgramEffect: arguments that do not parse are refused at once, and  *)
(* so is a workspace that is another's; the rest starts its own work, most *)
(* of it on a temporary file.                                              *)
Asked(f) ==
  /\ At(f, "idle")
  /\ \/ To(f, Done) /\ UNCHANGED temps
     \/ /\ \E p \in Place : To(f, [at |-> "stamp", place |-> p])
        /\ temps' = temps \cup {f}
     \/ /\ \E step \in {"check", "read", "play"} :
             To(f, [at |-> step, place |-> Nothing])
        /\ temps' = temps \cup {f}
     \/ /\ \E p \in Place, step \in {"file", "source", "describe"} :
             To(f, [at |-> step, place |-> p])
        /\ UNCHANGED temps
  /\ UNCHANGED <<valid, saved, commits, requests, program, hostDir, refused, mounted, crashes>>

(* runOrb always comes back: with output, with output of another shape, or *)
(* with an exit code, a binary that does not start included.               *)
Ends == {"output", "shape", "exit"}

(* parseJson throws on everything but the output asked for, and what is    *)
(* thrown is the failure the effect is answered with.                      *)
Useful(end) == end = "output"

(* program/print and program/step: one run on the program as it is.        *)
Play(f) ==
  /\ At(f, "play")
  /\ Answered(f)
  /\ UNCHANGED <<valid, saved, commits, requests, program, hostDir, refused, mounted, crashes>>

(* programReadOutcome: text that lowers to something that is no program is *)
(* validated, so that the failure carries its issues.                      *)
ReadText(f) ==
  /\ At(f, "read")
  /\ \E end \in Ends : IF end = "shape"
       THEN To(f, [effects[f] EXCEPT !.at = "play"]) /\ UNCHANGED temps
       ELSE Answered(f)
  /\ UNCHANGED <<valid, saved, commits, requests, program, hostDir, refused, mounted, crashes>>

(* behaviorResolve: the behavior is found and flattened, and not admitted: *)
(* its program is described to the caller, not run.                        *)
Describe(f) ==
  /\ At(f, "describe")
  /\ \E end \in Ends : IF saved[effects[f].place] # Nothing /\ Useful(end)
       THEN To(f, [effects[f] EXCEPT !.at = "play"]) /\ UNCHANGED temps
       ELSE Answered(f)
  /\ UNCHANGED <<valid, saved, commits, requests, program, hostDir, refused, mounted, crashes>>

(* stampAndValidate: ids are stamped, then the stamped file is validated.  *)
Stamp(f) ==
  /\ At(f, "stamp")
  /\ \/ To(f, [effects[f] EXCEPT !.at = "check"]) /\ UNCHANGED temps
     \/ Answered(f)
  /\ UNCHANGED <<valid, saved, commits, requests, program, hostDir, refused, mounted, crashes>>

(* Mutant: the warnings and errors of the report are not looked at. *)
PassesAnyway(f) == TRUE

(* Without an error and without a warning, and the stamped file parses.    *)
Passes(f) == f \in valid

Request(f, op) == Append(requests, [of |-> f, op |-> op, place |-> effects[f].place])

(* programValidate reports; programEval goes on to save what passed: into  *)
(* the project at once, into a workspace by a request - unless there is no *)
(* host, no signed-in caller, or the workspace is outside the project.     *)
Check(f) ==
  /\ At(f, "check")
  /\ \/ /\ effects[f].place = Nothing \/ ~Passes(f) \/ effects[f].place \in Workspace
        /\ Answered(f)
        /\ UNCHANGED <<saved, requests>>
     \/ /\ Passes(f) /\ effects[f].place = Project
        /\ saved' = [saved EXCEPT ![Project] = f]
        /\ Answered(f)
        /\ UNCHANGED requests
     \/ /\ Passes(f) /\ effects[f].place \in Workspace
        /\ To(f, [effects[f] EXCEPT !.at = "writing"])
        /\ requests' = Request(f, "write")
        /\ UNCHANGED <<saved, temps>>
  /\ UNCHANGED <<valid, commits, program, hostDir, refused, mounted, crashes>>

-----------------------------------------------------------------------------
(* The workspace program.  The tail of the queue runs one request at a     *)
(* time; the program is opened by the first, and what came of that is kept *)
(* for every later one.                                                    *)

(* The source of the program goes to a directory of its own.               *)
OpenProgram ==
  /\ requests # <<>> /\ program = "none"
  /\ \/ program' = "resolving" /\ hostDir' = TRUE
     \/ program' = "failed" /\ UNCHANGED hostDir
  /\ UNCHANGED <<valid, effects, temps, saved, commits, requests, refused, mounted, crashes>>

(* Mutant: the directory goes only when everything went well. *)
OpeningEndsKept(stage) == program' = stage /\ hostDir' = (stage = "failed")

(* The directory goes when opening ends, whichever way.                    *)
OpeningEnds(stage) == program' = stage /\ hostDir' = FALSE

(* resolveProgramFile: `orb resolve` exits with the flattened program or   *)
(* with a code.                                                            *)
ResolveProgram ==
  /\ program = "resolving"
  /\ \/ program' = "opening" /\ UNCHANGED hostDir
     \/ OpeningEnds("failed")
  /\ UNCHANGED <<valid, effects, temps, saved, commits, requests, refused, mounted, crashes>>

(* KernelProgram.open: the kernel is loaded, its ports are made and the    *)
(* program opened on them; any of it may throw.                            *)
OpenKernelProgram ==
  /\ program = "opening"
  /\ OpeningEnds("open") \/ OpeningEnds("failed")
  /\ UNCHANGED <<valid, effects, temps, saved, commits, requests, refused, mounted, crashes>>

(* Mutant: a write that is followed by another request asks for no snapshot. *)
WrittenUnlessMoreCome ==
  LET r == Head(requests) f == r.of IN
  /\ requests # <<>> /\ program = "open" /\ r.op = "write"
  /\ saved' = [saved EXCEPT ![r.place] = f]
  /\ IF Len(requests) > 1
     THEN requests' = Tail(requests) /\ Answered(f)
     ELSE /\ requests' = <<[r EXCEPT !.op = "snapshot"]>>
          /\ To(f, [effects[f] EXCEPT !.at = "snapshotting"])
          /\ UNCHANGED temps
  /\ UNCHANGED <<valid, commits, program, hostDir, refused, mounted, crashes>>

(* WORKSPACE_WRITE_FILE answers that it wrote; the effect that waits asks  *)
(* for the snapshot, behind whatever was asked meanwhile.                  *)
Written ==
  LET r == Head(requests) f == r.of IN
  /\ requests # <<>> /\ program = "open" /\ r.op = "write"
  /\ saved' = [saved EXCEPT ![r.place] = f]
  /\ requests' = Append(Tail(requests), [r EXCEPT !.op = "snapshot"])
  /\ To(f, [effects[f] EXCEPT !.at = "snapshotting"])
  /\ UNCHANGED <<valid, temps, commits, program, hostDir, refused, mounted, crashes>>

LastCommit(w) == IF commits[w] = <<>> THEN Nothing ELSE commits[w][Len(commits[w])]

(* WORKSPACE_SNAPSHOT commits the workspace as it stands, or nothing when  *)
(* nothing changed.                                                        *)
Taken ==
  LET r == Head(requests) IN
  /\ requests # <<>> /\ program = "open" /\ r.op = "snapshot"
  /\ commits' = IF saved[r.place] = LastCommit(r.place) THEN commits
                ELSE [commits EXCEPT ![r.place] = Append(@, saved[r.place])]
  /\ requests' = Tail(requests)
  /\ Answered(r.of)
  /\ UNCHANGED <<valid, saved, program, hostDir, refused, mounted, crashes>>

(* Mutant: the tail of the queue is the request itself, so one that fails  *)
(* takes everything behind it along.                                       *)
FailedWithTheQueue ==
  LET of == {requests[i].of : i \in DOMAIN requests} IN
  /\ requests # <<>> /\ program \in {"open", "failed"}
  /\ refused' = refused \cup {[of |-> requests[i].of, op |-> requests[i].op,
                               ran |-> program = "open" /\ i = 1] : i \in DOMAIN requests}
  /\ requests' = <<>>
  /\ effects' = [f \in Effect |-> IF f \in of THEN Done ELSE effects[f]]
  /\ temps' = temps \ of
  /\ UNCHANGED <<valid, saved, commits, program, hostDir, mounted, crashes>>

(* A request fails when the program does not open or answers with a        *)
(* failure; the queue goes on with the next.                               *)
Failed ==
  LET r == Head(requests) IN
  /\ requests # <<>> /\ program \in {"open", "failed"}
  /\ refused' = refused \cup {[of |-> r.of, op |-> r.op, ran |-> program = "open"]}
  /\ requests' = Tail(requests)
  /\ Answered(r.of)
  /\ UNCHANGED <<valid, saved, commits, program, hostDir, mounted, crashes>>

-----------------------------------------------------------------------------
(* Mounting reads the file three times: to see that it is there (or for    *)
(* the orbital that owns the trait), to validate it, to resolve it.        *)

(* behaviorFile: a program nobody saved is not there. *)
FindFile(f) ==
  /\ At(f, "file")
  /\ IF saved[effects[f].place] = Nothing THEN Answered(f)
     ELSE To(f, [effects[f] EXCEPT !.at = "admit"]) /\ UNCHANGED temps
  /\ UNCHANGED <<valid, saved, commits, requests, program, hostDir, refused, mounted, crashes>>

(* mountTraitValue: the source names the owner (or no one); the wrapper is *)
(* written to a file of its own.                                           *)
ReadSource(f) ==
  /\ At(f, "source")
  /\ \/ Answered(f)
     \/ /\ saved[effects[f].place] # Nothing
        /\ To(f, [effects[f] EXCEPT !.at = "admit"])
        /\ temps' = temps \cup {f}
  /\ UNCHANGED <<valid, saved, commits, requests, program, hostDir, refused, mounted, crashes>>

Admit(f) ==
  /\ At(f, "admit")
  /\ IF saved[effects[f].place] \in valid
     THEN To(f, [effects[f] EXCEPT !.at = "resolve"]) /\ UNCHANGED temps
     ELSE Answered(f)
  /\ UNCHANGED <<valid, saved, commits, requests, program, hostDir, refused, mounted, crashes>>

Resolve(f) ==
  /\ At(f, "resolve")
  /\ mounted' \in {mounted, mounted \cup {saved[effects[f].place]}}
  /\ Answered(f)
  /\ UNCHANGED <<valid, saved, commits, requests, program, hostDir, refused, crashes>>

(* The host dies: the disk is what stays, temporary files included. *)
Crash ==
  /\ crashes < MaxCrashes
  /\ crashes' = crashes + 1
  /\ effects' = [f \in Effect |-> IF At(f, "idle") THEN Idle ELSE Done]
  /\ requests' = <<>> /\ program' = "none"
  /\ UNCHANGED <<valid, temps, saved, commits, hostDir, refused, mounted>>

Next ==
  \/ \E f \in Effect : \/ Asked(f) \/ Stamp(f) \/ Check(f)
                       \/ ReadText(f) \/ Describe(f) \/ Play(f)
                       \/ FindFile(f) \/ ReadSource(f) \/ Admit(f) \/ Resolve(f)
  \/ OpenProgram \/ ResolveProgram \/ OpenKernelProgram
  \/ Written \/ Taken \/ Failed
  \/ Crash

(* Every run of `orb` and every dispatch comes back. *)
EffectGoesOn(f) ==
  \/ Stamp(f) \/ Check(f) \/ ReadText(f) \/ Describe(f) \/ Play(f)
  \/ FindFile(f) \/ ReadSource(f) \/ Admit(f) \/ Resolve(f)
ProgramGoesOn == OpenProgram \/ ResolveProgram \/ OpenKernelProgram \/ Written \/ Taken \/ Failed

Fairness ==
  (\A f \in Effect : WF_programVars(EffectGoesOn(f))) /\ WF_programVars(ProgramGoesOn)

-----------------------------------------------------------------------------
(* The state has its types. *)
TypeOK ==
  /\ valid \cup mounted \subseteq Effect \cup {Earlier} /\ temps \subseteq Effect
  /\ saved \in [Place -> Effect \cup {Earlier, Nothing}]
  /\ \A w \in Workspace : commits[w] \in Seq(Effect)
  /\ program \in ProgramStage /\ hostDir \in BOOLEAN
  /\ \A f \in Effect : effects[f].at \in
       {"idle", "stamp", "check", "read", "describe", "play", "writing", "snapshotting", "file", "source",
        "admit", "resolve", "done"}

(* What runs was validated: a version handed to a host passed the check at *)
(* the 0-error, 0-warning bar, although the file is read once to validate  *)
(* it and once more to resolve it, and another effect may save between.    *)
MountRunsValidated == mounted \subseteq valid

(* No version is left unsaved: when nobody writes to a workspace, no       *)
(* snapshot of it failed and the host has not died, its last snapshot is   *)
(* the version in its file, whichever effects wrote to it side by side.    *)
NothingUnsaved ==
  \A w \in Workspace :
    \/ LastCommit(w) = saved[w]
    \/ \E i \in DOMAIN requests : requests[i].place = w
    \/ \E r \in refused : r.op = "snapshot"
    \/ crashes > 0

(* A request fails on its own account: it was put to the program and       *)
(* answered with a failure, or the program never opened - the failure of a *)
(* request before it in the queue is not its own.                          *)
FailsOnItsOwn == \A r \in refused : r.ran \/ program # "open" \/ crashes > 0

(* An effect that ended leaves no temporary file behind it, whichever way  *)
(* it ended, and neither does opening the workspace program; only the death of the host leaves some.                       *)
LeavesNothingBehind ==
  \/ crashes > 0
  \/ /\ \A f \in temps : ~At(f, "done")
     /\ hostDir => program \in {"resolving", "opening"}

(* Every effect asked of the host is answered. *)
EffectSettles == \A f \in Effect : ~At(f, "idle") ~> At(f, "done")
=============================================================================
