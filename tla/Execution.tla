------------------------------ MODULE Execution ------------------------------
(***************************************************************************)
(* The attempts of one or more solves that share a derived cache: a case   *)
(* is materialised, its mesh is taken from the cache or from the attempt   *)
(* before, the typed commands run under one execution policy and a common  *)
(* wall budget, the evidence is assessed, the mesh may be published in the *)
(* cache, and a numerical failure may be repaired by a smaller time step   *)
(* in a new attempt.                                                       *)
(*                                                                         *)
(* The loop is NativeAgentOrchestrator.solve of agent/native_orchestrator, *)
(* PlanRunner.run of runtime/plan_runner, DerivedCache of performance/     *)
(* derived_cache, prepare_repair_reuse of performance/repair_reuse and     *)
(* authorize_repair of repair/envelope.  NativeSolve has the same loop     *)
(* with its runs, budgets of requests and continuations, and takes for one *)
(* step what is spelled out here.                                          *)
(*                                                                         *)
(* All solves here have one mesh key: the same geometry, mesh dictionaries *)
(* and mesh commands.  The thresholds of mesh quality are not in the key.  *)
(***************************************************************************)
EXTENDS Integers, Sequences, FiniteSets

CONSTANTS
  Solves,       \* processes that solve, each with its own run directory
  Files,        \* the files of constant/polyMesh
  Scenarios,    \* the tasks the solves may be given together
  Frozen,       \* numerics.delta_t of the frozen design
  Least,        \* the minimum of its rule in the repair envelope
  Own,          \* the timeout of the command of each stage
  Grace,        \* seconds a stopped command may take to end
  MaxRots,      \* bound: files of the cache that get damaged
  MaxCrashes    \* bound: solves that die

Stages == {"mesh", "check", "decompose", "solve", "reconstruct", "postprocess"}

\* solver: run_solver; parallel: more than one rank; observed: its observations
\* need a post-processing command; judged: the task has a MeshIntent; strict:
\* its thresholds refuse the mesh of this key; cached: the derived cache is on
\* and the key can be computed; included: the dictionaries that #include
\* system/controlDict
Task == [attempts : Nat \ {0}, wall : Nat \ {0}, solver : BOOLEAN,
         parallel : BOOLEAN, observed : BOOLEAN, judged : BOOLEAN, strict : BOOLEAN,
         cached : BOOLEAN, included : SUBSET {"mesh", "postprocess"},
         isolation : {"auto", "sandbox_required", "trusted_host"},
         risk : {"low", "high"}, optIn : BOOLEAN]

ASSUME ExecutionAssumption ==
  /\ IsFiniteSet(Files) /\ Files # {}
  /\ Scenarios \subseteq [Solves -> Task]
  /\ {Frozen, Least, Grace, MaxRots, MaxCrashes} \subseteq Nat
  /\ Least <= Frozen /\ Own \in [Stages -> Nat \ {0}]

VARIABLES
  task,      \* the frozen task of each solve
  run,       \* what each solve has done
  entry,     \* the mesh entry of the key in the derived cache
  sound,     \* checkMesh accepts the mesh of this key
  rots, crashes

vars == <<task, run, entry, sound, rots, crashes>>

Places == {"materialise", "lookup", "quarantine", "restore", "policy",
           "runner", "store", "publish", "assess", "repair", "done", "crashed"}

StepResults == {"none", "ok", "silent", "refused", "unended", "unstable",
                "failed", "timeout", "cancelled"}

Statuses == {"NONE", "RUN_COMPLETED", "CASE_GENERATION_FAILED",
             "BLOCKED_ENVIRONMENT", "EXECUTION_WALL_BUDGET_EXHAUSTED",
             "CANCELLED", "STATIC_INSPECTION_FAILED", "MESH_FAILED", "MESH_QUALITY_FAILED",
             "SOLVER_FAILED", "POSTPROCESS_FAILED", "ACCEPTANCE_FAILED"}

Attempts == Nat \ {0}
Commands == Seq(Stages)
Lookups == {"none", "miss", "hit"}
Backends == {"none", "bubblewrap", "host"}
Fingerprints == 0..2

Run == [at : Places, attempt : Attempts, rest : Commands,
        reused : SUBSET Stages, result : [Stages -> StepResults],
        made : SUBSET Stages, files : SUBSET Files, temporary : SUBSET Files,
        lookup : Lookups, used : Nat, courant : BOOLEAN, backend : Backends,
        delta : Nat, pending : BOOLEAN, fingerprint : Fingerprints,
        status : Statuses]

-----------------------------------------------------------------------------
(* Plans: the mesh contributor comes before the solver contributor, and    *)
(* the commands of the observations come last.                             *)

Unrun == [c \in Stages |-> "none"]

\* A command that a hit of the cache or a reuse may leave out.
Unless(c, skipped) == IF c \in skipped THEN <<>> ELSE <<c>>

Plan(t, skipped) ==
  Unless("mesh", skipped) \o <<"check">>
  \o (IF ~t.solver THEN <<>>
      ELSE IF t.parallel THEN <<"decompose", "solve", "reconstruct">>
      ELSE Unless("solve", skipped))
  \o (IF t.solver /\ t.observed THEN <<"postprocess">> ELSE <<>>)

\* classify_repair_rerun: an authorised repair changes system/controlDict and
\* nothing else, so the earliest stage depends on who includes that file.
EarliestStage(t) ==
  IF t.parallel \/ "mesh" \in t.included THEN "mesh"
  ELSE IF "postprocess" \in t.included THEN "postprocess"
  ELSE "solve"

\* _commands_from_stage: the check is always executed again.
SkippedStages(stage) ==
  CASE stage = "mesh" -> {}
    [] stage = "solve" -> {"mesh"}
    [] stage = "postprocess" -> {"mesh", "solve"}

-----------------------------------------------------------------------------
NewRun ==
  [at |-> "materialise", attempt |-> 1, rest |-> <<>>, reused |-> {},
   result |-> Unrun, made |-> {}, files |-> {}, temporary |-> {},
   lookup |-> "none", used |-> 0, courant |-> FALSE, backend |-> "none",
   delta |-> Frozen, pending |-> FALSE, fingerprint |-> 0, status |-> "NONE"]

NoEntry == [there |-> FALSE, files |-> {}, manifest |-> {}]

Init ==
  /\ task \in Scenarios
  /\ run = [s \in Solves |-> NewRun]
  /\ entry = NoEntry
  /\ sound \in BOOLEAN
  /\ rots = 0 /\ crashes = 0

\* One solve moves and the rest of the world stays.
Becomes(s, r) == run' = [run EXCEPT ![s] = r]
Alone == UNCHANGED <<task, entry, sound, rots, crashes>>
\* A process that ends: what only its memory held is gone.
Gone(r, at) == [r EXCEPT !.at = at, !.rest = <<>>, !.temporary = {}, !.courant = FALSE,
                         !.backend = "none", !.delta = Frozen, !.pending = FALSE,
                         !.fingerprint = 0]
Finish(r, status) == [Gone(r, "done") EXCEPT !.status = status]

-----------------------------------------------------------------------------
(* A new attempt: its case, and what it takes from the attempt before.     *)

\* The case of a first attempt, or of a repair that must run in full.
NewCase(r, t, files) ==
  [r EXCEPT !.at = IF r.attempt = 1 /\ t.cached THEN "lookup" ELSE "policy",
            !.rest = Plan(t, {}), !.reused = {}, !.result = Unrun,
            !.made = {}, !.files = files, !.lookup = "none",
            !.courant = FALSE, !.pending = FALSE]

\* The products of the parent that the repair did not touch are copied.
ReusedCase(r, t) ==
  LET skipped == SkippedStages(EarliestStage(t))
  IN  [NewCase(r, t, r.files) EXCEPT
         !.rest = Plan(t, skipped), !.reused = skipped,
         !.made = r.made \cap skipped]

Materialise(s) ==
  LET r == run[s]
      t == task[s]
  IN /\ r.at = "materialise"
     /\ \/ ~r.pending /\ Becomes(s, NewCase(r, t, {}))
        \/ r.pending /\ EarliestStage(t) = "mesh" /\ Becomes(s, NewCase(r, t, {}))
        \/ r.pending /\ EarliestStage(t) # "mesh" /\ Becomes(s, ReusedCase(r, t))
        \* REPAIR_REUSE_COPY_FAILED, REPAIR_REUSE_HASH_MISMATCH: what was
        \* copied stays, and every command runs
        \/ /\ r.pending /\ EarliestStage(t) # "mesh"
           /\ \E copied \in SUBSET r.files : Becomes(s, NewCase(r, t, copied))
        \/ \E status \in {"CASE_GENERATION_FAILED", "STATIC_INSPECTION_FAILED"} :
             Becomes(s, Finish(r, status))
     /\ Alone
-----------------------------------------------------------------------------
(* The derived cache.  restore_mesh verifies the entry against its content *)
(* manifest and then copies it file by file; the entry may be moved away,  *)
(* or another one published, while it copies.                              *)

\* Mutant: an entry is trusted without its content manifest.
TrustedAsItIs == TRUE

Verified == entry.files = entry.manifest

Lookup(s) ==
  LET r == run[s]
  IN /\ r.at = "lookup"
     /\ \/ /\ ~entry.there
           /\ Becomes(s, [r EXCEPT !.at = "policy", !.lookup = "miss"])
        \/ /\ entry.there /\ Verified
           /\ Becomes(s, [r EXCEPT !.at = "restore"])
        \/ /\ entry.there /\ ~Verified
           /\ Becomes(s, [r EXCEPT !.at = "quarantine"])
     /\ Alone

\* Mutant: an invalid entry is moved and looked up again.
QuarantineAndRetry(s) ==
  /\ run[s].at = "quarantine"
  /\ Becomes(s, [run[s] EXCEPT !.at = "lookup"])
  /\ entry' \in {NoEntry, entry}
  /\ UNCHANGED <<task, sound, rots, crashes>>

\* os.replace moves whatever is the entry by now; nothing is to be moved when
\* another solve did it.
Quarantine(s) ==
  /\ run[s].at = "quarantine"
  /\ Becomes(s, [run[s] EXCEPT !.at = "policy", !.lookup = "miss"])
  /\ entry' \in {NoEntry, entry}
  /\ UNCHANGED <<task, sound, rots, crashes>>

RestoreFile(s) ==
  /\ run[s].at = "restore"
  /\ \E f \in entry.files \ run[s].files :
       Becomes(s, [run[s] EXCEPT !.files = @ \cup {f}])
  /\ Alone

\* A hit: the mesh commands are left out and reported as reused.
RestoreHit(s) ==
  /\ run[s].at = "restore"
  /\ entry.there /\ entry.files \subseteq run[s].files
  /\ Becomes(s, [run[s] EXCEPT
       !.at = "policy", !.lookup = "hit", !.reused = {"mesh"},
       !.made = {"mesh"}, !.rest = Plan(task[s], {"mesh"})])
  /\ Alone

\* DERIVED_CACHE_RESTORE_FAILED: an I/O error, or the entry went away.
RestoreFails(s) ==
  /\ run[s].at = "restore"
  /\ Becomes(s, [run[s] EXCEPT !.at = "policy", !.lookup = "miss", !.files = {}])
  /\ Alone

-----------------------------------------------------------------------------
(* PlanRunner.run.                                                         *)

\* decide_execution_policy: the backend, or "none" when nothing may run.
Backend(t, probe) ==
  CASE t.isolation = "trusted_host" ->
         IF t.risk = "high" /\ ~t.optIn THEN "none" ELSE "host"
    [] t.isolation # "trusted_host" /\ probe = "passed" -> "bubblewrap"
    [] t.isolation # "trusted_host" /\ probe # "passed" ->
         IF /\ probe = "BWRAP_UNAVAILABLE"
            /\ t.isolation = "auto" /\ t.risk = "low"
         THEN "host" ELSE "none"

FreezePolicy(s) ==
  /\ run[s].at = "policy"
  /\ \E probe \in {"passed", "BWRAP_UNAVAILABLE", "PROBE_FAILED"} :
       LET backend == Backend(task[s], probe)
       IN  Becomes(s, IF backend = "none"
                      THEN Finish(run[s], "BLOCKED_ENVIRONMENT")
                      ELSE [run[s] EXCEPT !.at = "runner", !.backend = backend])
  /\ Alone

Remaining(s) == task[s].wall - run[s].used
\* Mutant: a command gets its own timeout whatever is left.
OwnLimit(s, c) == Own[c]
Limit(s, c) == IF Own[c] < Remaining(s) THEN Own[c] ELSE Remaining(s)

\* What a command may come to, by itself, on this case.
Outcomes(s, c) ==
  CASE c = "check" -> IF run[s].files # Files THEN {"failed"}
                      ELSE {"silent", IF sound THEN "ok" ELSE "refused"}
    [] c = "solve" -> {"ok", "unended", "unstable", "failed"}
    [] OTHER -> {"ok", "failed"}

Succeeds(o) == o \in {"ok", "silent", "unended"}

\* The case after a command: its files, and what it made.
Stepped(r, c, o, seconds, files, courant) ==
  [r EXCEPT !.rest = IF Succeeds(o) THEN Tail(@) ELSE <<>>,
            !.result[c] = o, !.used = @ + seconds, !.files = files,
            !.courant = courant,
            !.made = IF o = "ok" THEN @ \cup {c} ELSE @]

\* What the command leaves of the mesh.
FilesAfter(r, c, o) ==
  IF c # "mesh" THEN {r.files} ELSE IF o = "ok" THEN {Files} ELSE SUBSET Files

\* Whether the Courant number has passed 1.
CourantAfter(r, c) == IF c = "solve" THEN {r.courant, TRUE} ELSE {r.courant}

\* A command ends by itself, in time.
StepEnds(s) ==
  LET r == run[s]
      c == Head(r.rest)
  IN /\ r.at = "runner" /\ r.rest # <<>> /\ Remaining(s) > 0
     /\ \E o \in Outcomes(s, c), seconds \in 1..Limit(s, c) :
          \E files \in FilesAfter(r, c, o), courant \in CourantAfter(r, c) :
            Becomes(s, Stepped(r, c, o, seconds, files, courant))
     /\ Alone

\* A command is stopped at its own timeout, which is a failure of the command,
\* or at what was left of the wall budget, which ends the solve.
StepTimesOut(s) ==
  LET r == run[s]
      c == Head(r.rest)
  IN /\ r.at = "runner" /\ r.rest # <<>> /\ Remaining(s) > 0
     /\ \E seconds \in Limit(s, c)..(Limit(s, c) + Grace) :
          \E files \in FilesAfter(r, c, "timeout"), courant \in CourantAfter(r, c) :
            LET stopped == Stepped(r, c, "timeout", seconds, files, courant)
            IN  Becomes(s, IF Limit(s, c) < Own[c]
                           THEN Finish(stopped, "EXECUTION_WALL_BUDGET_EXHAUSTED")
                           ELSE stopped)
     /\ Alone

\* Nothing is left of the wall budget, the job is cancelled, or the sandbox
\* fails to start the command.
RunnerStops(s) ==
  LET r == run[s]
  IN /\ r.at = "runner" /\ r.rest # <<>>
     /\ \/ /\ Remaining(s) <= 0
           /\ Becomes(s, Finish(r, "EXECUTION_WALL_BUDGET_EXHAUSTED"))
        \/ /\ Remaining(s) > 0
           /\ Becomes(s, Finish([r EXCEPT !.result[Head(r.rest)] = "cancelled"],
                                "CANCELLED"))
        \/ /\ Remaining(s) > 0 /\ r.backend = "bubblewrap"
           /\ Becomes(s, Finish(r, "BLOCKED_ENVIRONMENT"))
     /\ Alone
-----------------------------------------------------------------------------
(* The evidence of an attempt.                                             *)

MeshQualityPassed(r, t) == t.judged => r.result["check"] = "ok" /\ ~t.strict

\* store_mesh refuses a mesh that did not pass this attempt's own checkMesh.
Storable(r, t) ==
  /\ r.lookup = "miss" /\ MeshQualityPassed(r, t)
  /\ r.result["check"] = "ok" /\ r.files # {}

ExtractEvidence(s) ==
  /\ run[s].at = "runner" /\ run[s].rest = <<>>
  /\ Becomes(s, [run[s] EXCEPT
       !.at = IF Storable(run[s], task[s]) /\ ~entry.there THEN "store"
              ELSE "assess"])
  /\ Alone

\* The entry is written file by file to a temporary directory of its own.
StoreFile(s) ==
  /\ run[s].at = "store"
  /\ LET left == run[s].files \ run[s].temporary
     IN  \/ \E f \in left :
              Becomes(s, [run[s] EXCEPT !.temporary = @ \cup {f}])
         \/ left = {} /\ Becomes(s, [run[s] EXCEPT !.at = "publish"])
  /\ Alone

\* _finalize_temporary: os.replace fails on an entry that is there already.
Publish(s) ==
  /\ run[s].at = "publish"
  /\ entry' = IF entry.there THEN entry
              ELSE [there |-> TRUE, files |-> run[s].temporary,
                    manifest |-> run[s].temporary]
  /\ Becomes(s, [run[s] EXCEPT !.at = "assess", !.temporary = {}])
  /\ UNCHANGED <<task, sound, rots, crashes>>

\* An I/O error while it is written: the temporary directory is removed.
StoreFails(s) ==
  /\ run[s].at \in {"store", "publish"}
  /\ Becomes(s, [run[s] EXCEPT !.at = "assess", !.temporary = {}])
  /\ Alone

Broken(o) == o \in {"unstable", "failed", "timeout"}

\* Mutant: a return code of zero is enough.
AssessReturnCodes(r, t) ==
  LET broken == {c \in Stages : Broken(r.result[c])}
  IN  IF broken # {}
      THEN IF broken \subseteq {"mesh", "check"} THEN "MESH_FAILED"
           ELSE IF broken = {"postprocess"} THEN "POSTPROCESS_FAILED"
           ELSE "SOLVER_FAILED"
      ELSE IF ~MeshQualityPassed(r, t) THEN "MESH_QUALITY_FAILED"
      ELSE IF r.result["solve"] = "none" /\ r.result["check"] # "ok"
      THEN "MESH_FAILED"
      ELSE "RUN_COMPLETED"

\* assess_native_run, with the status of its failure layer.
AssessNativeRun(r, t) ==
  LET broken == {c \in Stages : Broken(r.result[c])}
  IN  IF broken # {}
      THEN IF broken \subseteq {"mesh", "check"} THEN "MESH_FAILED"
           ELSE IF broken = {"postprocess"} THEN "POSTPROCESS_FAILED"
           ELSE "SOLVER_FAILED"
      ELSE IF ~MeshQualityPassed(r, t) THEN "MESH_QUALITY_FAILED"
      ELSE IF r.result["solve"] = "none"
      THEN IF r.result["check"] = "ok" THEN "RUN_COMPLETED" ELSE "MESH_FAILED"
      ELSE IF r.result["solve"] = "unended" THEN "SOLVER_FAILED"
      ELSE "RUN_COMPLETED"

\* classify_native_failure may say numerical_instability; nothing else is
\* eligible for an automatic repair, and only in the solver's domain.
NumericalInstability(r) == r.courant \/ r.result["solve"] = "unstable"

\* should_stop_repair
ShouldStop(r, t, fingerprint) ==
  r.attempt >= t.attempts \/ r.fingerprint = fingerprint

Assess(s) ==
  LET r == run[s]
      t == task[s]
      status == AssessNativeRun(r, t)
  IN /\ r.at = "assess"
     /\ \/ /\ status = "RUN_COMPLETED"
           /\ \E verdict \in {"RUN_COMPLETED", "ACCEPTANCE_FAILED"} :
                Becomes(s, Finish(r, verdict))
        \/ /\ status # "RUN_COMPLETED"
           /\ \E fingerprint \in 1..2 :
                Becomes(s, IF ~ShouldStop(r, t, fingerprint)
                              /\ status = "SOLVER_FAILED" /\ NumericalInstability(r)
                           THEN [r EXCEPT !.at = "repair",
                                          !.fingerprint = fingerprint]
                           ELSE Finish(r, status))
     /\ Alone

\* authorize_repair against the rule of the frozen envelope for delta_t.
AuthorizeRepair(old, new) == new < old /\ Least <= new /\ new <= Frozen

\* An authorised proposal makes the next attempt; any other answer, or none,
\* ends the solve with the failure it had.
Repair(s) ==
  LET r == run[s]
  IN /\ r.at = "repair"
     /\ \/ \E new \in 0..(Frozen + 1) :
             /\ AuthorizeRepair(r.delta, new)
             /\ Becomes(s, [r EXCEPT !.at = "materialise", !.attempt = @ + 1,
                                     !.delta = new, !.pending = TRUE])
        \/ \E status \in {"SOLVER_FAILED", "CANCELLED"} :
             Becomes(s, Finish(r, status))
     /\ Alone

-----------------------------------------------------------------------------
(* The environment.                                                        *)

Crash(s) ==
  /\ crashes < MaxCrashes /\ run[s].at \notin {"done", "crashed"}
  /\ Becomes(s, Gone(run[s], "crashed"))
  /\ crashes' = crashes + 1
  /\ UNCHANGED <<task, entry, sound, rots>>

\* A file of the entry is damaged, at any time but between its verification
\* and its copy.
Rot ==
  /\ rots < MaxRots /\ \A s \in Solves : run[s].at # "restore"
  /\ \E f \in entry.files : entry' = [entry EXCEPT !.files = @ \ {f}]
  /\ rots' = rots + 1
  /\ UNCHANGED <<task, run, sound, crashes>>

Over == \A s \in Solves : run[s].at \in {"done", "crashed"}

Advance(s) ==
  \/ Materialise(s)
  \/ Lookup(s) \/ Quarantine(s)
  \/ RestoreFile(s) \/ RestoreHit(s) \/ RestoreFails(s)
  \/ FreezePolicy(s)
  \/ StepEnds(s) \/ StepTimesOut(s) \/ RunnerStops(s)
  \/ ExtractEvidence(s) \/ StoreFile(s) \/ Publish(s) \/ StoreFails(s)
  \/ Assess(s) \/ Repair(s)

Next ==
  \/ \E s \in Solves : Advance(s) \/ Crash(s)
  \/ Rot
  \/ Over /\ UNCHANGED vars

\* Every command has a timeout, so a solve that is alive goes on.
Spec == Init /\ [][Next]_vars /\ \A s \in Solves : WF_vars(Advance(s))

-----------------------------------------------------------------------------
(* Properties.                                                             *)

TypeOK ==
  /\ task \in [Solves -> Task] /\ run \in [Solves -> Run]
  /\ \A s \in Solves : run[s].attempt <= task[s].attempts
  /\ entry \in [there : BOOLEAN, files : SUBSET Files, manifest : SUBSET Files]
  /\ sound \in BOOLEAN /\ rots \in 0..MaxRots /\ crashes \in 0..MaxCrashes

\* What is damaged in the cache, moved away while it is copied, or published
\* by a process that dies, is never taken for a failure of the case: the mesh
\* of a hit is whole and checkMesh does not refuse it, and a case that got no
\* mesh holds no file of it when the mesh commands begin.
CorruptionIsNotFailure ==
  \A s \in Solves :
    /\ run[s].lookup = "hit" =>
         /\ run[s].files = Files
         /\ run[s].result["check"] \notin {"failed", "refused"}
    /\ run[s].at = "policy" /\ run[s].lookup = "miss" => run[s].files = {}

\* A mesh that is reported as reused was made where it comes from, over any
\* chain of repairs and reuses.
ReusedIsProven ==
  \A s \in Solves :
    run[s].at \notin {"materialise", "crashed"} => run[s].reused \ {"solve"} \subseteq run[s].made

\* A repair that leaves out the solve that failed: a post-processing dictionary
\* includes the file it changed (the README says how).
SkipsSolve(s) == "solve" \in run[s].reused

\* A task that asked for a solution completes only when its solver reached
\* the normal end, on a whole mesh, in the attempt that is reported.
CompletedIsSolved ==
  \A s \in Solves :
    run[s].status = "RUN_COMPLETED" /\ task[s].solver /\ ~SkipsSolve(s) =>
      run[s].result["solve"] = "ok" /\ run[s].files = Files

\* The thresholds of mesh quality are not in the cache key: a task completes
\* on a mesh its own thresholds accept, whoever made the mesh.
QualityIsOwn ==
  \A s \in Solves :
    run[s].status = "RUN_COMPLETED" /\ task[s].judged =>
      ~task[s].strict /\ run[s].result["check"] = "ok"

\* A completed run rests on proof only: a solver that ended, a mesh its own task
\* accepts, and reused stages that succeeded where they were made.
CompletedIsProven == ReusedIsProven /\ CompletedIsSolved /\ QualityIsOwn

\* All attempts together stay in the wall budget, but for the time the last
\* stopped command takes to end; a command is never started beyond it.
WallBudget ==
  \A s \in Solves :
    /\ run[s].used <= task[s].wall + Grace
    /\ run[s].status = "EXECUTION_WALL_BUDGET_EXHAUSTED" => run[s].used >= task[s].wall

\* Every solve ends, whatever its attempts come to, unless its process dies.
ExecutionEnds == \A s \in Solves : <>(run[s].at \in {"done", "crashed"})
==============================================================================
