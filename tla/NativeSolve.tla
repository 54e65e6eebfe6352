----------------------------- MODULE NativeSolve -----------------------------
(***************************************************************************)
(* agent/native_orchestrator.py: NativeAgentOrchestrator.solve, with the   *)
(* runs it leaves behind and the ways to go on from one of them            *)
(* (workflow/lineage.py, workflow/confirmation.py): strict resume,         *)
(* confirmation of a design, and rerun.                                    *)
(*                                                                         *)
(* runs are the frozen run directories of one lineage, oldest first (a     *)
(* rerun, which inherits no evidence, begins a new one); run is the one of *)
(* the solve in progress and at its place in the code.  A run directory    *)
(* is what later solves read of it: its checkpoints and evidence as a set  *)
(* of <<name, attempt>>, what its continuation.json and model-             *)
(* configuration.json count, and its summary.  A logical model request is  *)
(* one step that uses some transport attempts (ModelGateway has the        *)
(* request itself) and ends in one of the ways solve tells apart.          *)
(***************************************************************************)
EXTENDS DesignGate, Naturals, Sequences, FiniteSets

CONSTANTS
    MaxAttempts,       \* task.resource_budget.max_attempts
    TransportLimit,    \* NATIVE_MODEL_LINEAGE_ATTEMPT_LIMIT
    RequestTransport,  \* max_transport_attempts of a model policy
    Prints,            \* failure fingerprints
    Drafts,            \* designs the Case Designer may propose
    Modes,             \* what starts a solve: subset of {"live", "plan", "warm"}
    MaxRuns            \* bound on the runs of a behaviour

ASSUME SolveAssumption ==
    /\ MaxAttempts \in Nat \ {0}
    /\ TransportLimit \in Nat \ {0}
    /\ RequestTransport \in Nat \ {0}
    /\ Drafts \subseteq [Fields -> FieldStates]
    /\ Unmapped \subseteq Fields
    /\ Modes \subseteq {"live", "plan", "warm"}
    /\ MaxRuns \in Nat \ {0}

VARIABLES
    runs,    \* frozen runs of the lineage, in the order they were made
    run,     \* the run directory of the solve in progress, if any
    at,      \* where solve is
    cancel   \* the cancellation request of the job

vars == <<runs, run, at, cancel>>

Stages == {"MODEL_GENERATION_STARTED", "MODEL_REPAIR_STARTED"}

\* A continuation of a stage is refused from the third on.
ContinuationLimit == 2

\* logical_request_limit
LogicalLimit == MaxAttempts + 4

\* failure_fingerprint of an attempt that has none
NoPrint == "none"

Places == {"idle", "preflight", "routing", "intent", "design", "gate", "contracts", "source",
           "source-again", "ready", "attempt", "execute", "assess", "evaluate", "classify", "repair"}

FileNames == {"case-design", "resume-compatibility", "case-authored", "active-plan", "attempt",
              "run-facts", "run-assessment", "derived-metrics", "classification",
              "repair-evidence"}

NoDraft == [f \in Fields |-> [gap |-> "none", conflict |-> FALSE, asked |-> "none", fact |-> "settled"]]

Outcomes == {"open", "COMPLETED", "FAILED", "DEFERRED", "CANCELLED", "INTERRUPTED", "UNSEALED"}

Codes == {"none", "CONFIRMATION_REQUIRED", "CASE_DESIGN_CHECKPOINT_MISSING", "AGENT_STATUS",
          "USER_CANCELLED", "UNHANDLED"}

\* One directory.  before and callsBefore are what continuation.json says of
\* the runs before this one, used and calls what model-configuration.json says
\* of this one; evidence is the attempt copied to continuation-evidence (0 if
\* none); envelope is whether the frozen design allows numerical repairs;
\* attempts are the fingerprints in the summaries of the attempts.
RunRecords ==
    [parent : 0..MaxRuns, relation : {"fresh", "resume", "confirmation", "confirmed"},
     mode : {"live", "plan", "warm"}, from : Stages \cup {"none"},
     counts : [Stages -> 0..ContinuationLimit],
     before : 0..TransportLimit, used : 0..TransportLimit, callsBefore : Nat, calls : Nat,
     files : SUBSET (FileNames \X (0..MaxAttempts + 1)), evidence : 0..MaxAttempts,
     draft : [Fields -> FieldStates], envelope : BOOLEAN,
     attempts : Seq(Prints \cup {NoPrint}),
     outcome : Outcomes, code : Codes, offer : Stages \cup {"none", "AUTHORING_CASE"}]

TypeOK ==
    /\ runs \in Seq(RunRecords) /\ Len(runs) <= MaxRuns
    /\ run \in RunRecords
    /\ at \in Places
    /\ cancel \in BOOLEAN

NewRun == [parent |-> 0, relation |-> "fresh", mode |-> "live", from |-> "none",
           counts |-> [s \in Stages |-> 0], before |-> 0, used |-> 0,
           callsBefore |-> 0, calls |-> 0, files |-> {}, evidence |-> 0,
           draft |-> NoDraft, envelope |-> FALSE, attempts |-> <<>>,
           outcome |-> "open", code |-> "none", offer |-> "none"]

Init == runs = <<>> /\ run = NewRun /\ at = "idle" /\ cancel = FALSE

-------------------------------------------------------------------------------
(* What solve does at many places.                                          *)

Has(r, name, n) == <<name, n>> \in r.files

With(r, name, n) == [r EXCEPT !.files = @ \cup {<<name, n>>}]

\* The number of the last attempt that ended with a summary, 0 if there is none.
LastAttempt(r) == Len(r.attempts)

Goto(place, r) == at' = place /\ run' = r /\ UNCHANGED <<runs, cancel>>

\* What continuations read of a frozen run's files.
ReadLater == {"case-design", "resume-compatibility", "run-facts"}

\* The directory is sealed with its summary and solve returns.
End(r) ==
    /\ at' = "idle"
    /\ runs' = Append(runs, [r EXCEPT !.files = {f \in @ : f[1] \in ReadLater}])
    /\ run' = NewRun
    /\ cancel' = FALSE

\* _finish and _finish_cancelled
Finish(r, outcome, code) == End([r EXCEPT !.outcome = outcome, !.code = code])

Fails(r) == Finish(r, "FAILED", "none")

\* An exception that no handler is there for leaves solve: no summary, no manifest.
Unhandled(r) == Finish(r, "UNSEALED", "UNHANDLED")

\* The same, when what raises is a name that was to be created and is there, or a
\* loop that goes past its bound.
Escape(r) == Finish(r, "UNSEALED", "none")

\* Checkpoints and the directory of an attempt are created, never replaced.
Create(name, n, place) ==
    IF Has(run, name, n) THEN Escape(run) ELSE Goto(place, With(run, name, n))

\* continuation_index_for_stage of this run
ContinuationIndex(r) == IF r.from = "none" THEN 0 ELSE r.counts[r.from]

\* Mutant: the third continuation of a stage is offered too.
OffersOneMore(r, stage, retryable) ==
    LET offered == /\ retryable
                   /\ ContinuationIndex(r) <= ContinuationLimit
                   /\ r.before + r.used < TransportLimit
    IN End([r EXCEPT !.outcome = "DEFERRED", !.offer = IF offered THEN stage ELSE "none"])

\* A backend failed: the summary offers a continuation if one is left.
Defers(r, stage, retryable) ==
    LET offered == /\ retryable
                   /\ ContinuationIndex(r) < ContinuationLimit
                   /\ r.before + r.used < TransportLimit
    IN End([r EXCEPT !.outcome = "DEFERRED", !.offer = IF offered THEN stage ELSE "none"])

\* Mutant: a request waits when nothing is left of the ledger.
AttemptsWait(r) == {t \in 1..RequestTransport : r.before + r.used + t <= TransportLimit}

\* Transport attempts of one logical request: what the policy and the ledger allow.
Attempts(r) == {t \in 0..RequestTransport : r.before + r.used + t <= TransportLimit}

Asked(r, t) == [r EXCEPT !.used = @ + t, !.calls = @ + 1]

-------------------------------------------------------------------------------
(* How a solve starts.                                                      *)

Begin(r) ==
    /\ at = "idle"
    /\ run' = r
    /\ at' = "preflight"
    /\ UNCHANGED cancel

\* solve and plan, and a rerun of any sealed run; a warm solve reuses a
\* verified plan.
Solve == \E mode \in Modes : Begin([NewRun EXCEPT !.mode = mode]) /\ runs' = <<>>

\* A child of a frozen run.
Continue(r) == Begin(r) /\ Len(runs) < MaxRuns /\ UNCHANGED runs

\* The runs a run continues, itself included: parent_run in their summaries.
Lineage(p) ==
    LET back[q \in 0..Len(runs)] == IF q = 0 THEN {} ELSE {q} \cup back[runs[q].parent]
    IN back[p]

\* Mutant: only the parent's own transport counts.
UsageOfParent(p) == runs[p].used

\* _lineage_usage: transport used by a run and by those it continues.
LineageUsage(p) == runs[p].before + runs[p].used

\* The attempt whose plan, assessment and facts a continuation of p copies:
\* what p has copied itself, if anything, or the last attempt of its summary.
ContinuationEvidence(p) ==
    IF runs[p].evidence # 0 THEN runs[p].evidence ELSE LastAttempt(runs[p])

EvidenceExists(p) ==
    \/ runs[p].evidence # 0
    \/ \E q \in Lineage(p) : Has(runs[q], "run-facts", LastAttempt(runs[p]))

\* prepare_continuation accepts p
Resumable(p) ==
    /\ runs[p].offer \in Stages
    /\ Has(runs[p], "resume-compatibility", 0)
    /\ runs[p].counts[runs[p].offer] < ContinuationLimit
    /\ LineageUsage(p) < TransportLimit
    /\ runs[p].offer = "MODEL_REPAIR_STARTED" => LastAttempt(runs[p]) # 0 /\ EvidenceExists(p)

Resume(p) ==
    LET stage == runs[p].offer
        repair == stage = "MODEL_REPAIR_STARTED"
    IN /\ Resumable(p)
       /\ Continue([NewRun EXCEPT
                      !.parent = p, !.relation = "resume", !.from = stage,
                      !.counts = [runs[p].counts EXCEPT ![stage] = @ + 1],
                      !.before = LineageUsage(p),
                      !.callsBefore = runs[p].callsBefore + runs[p].calls,
                      !.attempts = IF repair THEN runs[p].attempts ELSE <<>>,
                      !.evidence = IF repair THEN ContinuationEvidence(p) ELSE 0])

\* resume of a confirmation checkpoint: load_confirmation_resume
ResumeConfirmed(p) ==
    /\ runs[p].relation = "confirmation"
    /\ EvaluateDesignRisk(runs[p].draft, TRUE) = "READY_TO_AUTHOR"
    /\ runs[p].before < TransportLimit
    /\ Continue([NewRun EXCEPT !.parent = p, !.relation = "confirmed",
                               !.before = runs[p].before, !.callsBefore = runs[p].callsBefore])

\* _usage_from_parent: a run that was not finished by solve has no
\* model-configuration.json and counts for nothing.
ConfirmationUsage(p) ==
    IF runs[p].outcome = "INTERRUPTED" \/ runs[p].relation = "confirmation"
    THEN <<0, 0>> ELSE <<runs[p].used, runs[p].calls>>

\* apply_confirmation_records and persist_confirmation_continuation: the
\* checkpoint is a finished run of its own, next to the one it confirms.  A
\* confirmation that is refused raises before anything is written.
Confirm(p) ==
    LET usage == ConfirmationUsage(p)
        draft == Confirmed(runs[p].draft)
        ready == EvaluateDesignRisk(draft, TRUE) = "READY_TO_AUTHOR"
        offered == ready /\ usage[1] < TransportLimit
    IN /\ at = "idle" /\ Len(runs) < MaxRuns
       /\ runs[p].code = "CONFIRMATION_REQUIRED" /\ Placed(runs[p].draft)
       /\ runs' = Append(runs,
            [NewRun EXCEPT !.parent = p, !.relation = "confirmation",
                           !.before = usage[1], !.callsBefore = usage[2], !.draft = draft,
                           !.files = IF ready THEN {<<"case-design", 0>>} ELSE {},
                           !.outcome = "DEFERRED",
                           !.code = IF ready THEN "none" ELSE "CONFIRMATION_REQUIRED",
                           !.offer = IF offered THEN "AUTHORING_CASE" ELSE "none"])
       /\ UNCHANGED <<run, at, cancel>>

Start == \/ Solve
         \/ \E p \in 1..Len(runs) : Resume(p) \/ ResumeConfirmed(p) \/ Confirm(p)

-------------------------------------------------------------------------------
(* From the task to a ready plan.                                           *)

\* The environment, the assets, the mesh or the geometry may not do, or the
\* verified plan may not fit; that the probe of a provided mesh may not be run
\* is an exception nobody handles.
Preflight ==
    /\ at = "preflight"
    /\ \/ Fails(run)
       \/ Unhandled(run)
       \/ Goto(IF run.from # "none" \/ run.mode = "warm" THEN "intent" ELSE "routing", run)

\* A route that needs the model is a logical request only if it fails.
Route ==
    /\ at = "routing"
    /\ \E t \in Attempts(run) :
         LET r == [run EXCEPT !.used = @ + t] IN
         \/ Goto("intent", r)
         \/ Fails(r)
         \/ Fails(Asked(run, t))
         \/ Finish(Asked(run, t), "DEFERRED", "none")
         \/ cancel /\ Finish(r, "CANCELLED", "none")

\* A confirmed design, frozen without an envelope, or the one of a verified
\* plan, which is never repaired, is taken as it is.
FrozenDesign ==
    /\ at = "intent"
    /\ run.relation = "confirmed" \/ run.mode = "warm"
    /\ Goto("contracts", With(run, "case-design", 0))

\* Mutant: the design is copied along with the evidence.
DesignIsCopied(p) == Has(runs[p], "case-design", 0)

\* A strict continuation loads the design next to the evidence it copies, for
\* a repair, or the parent's: a copy of a copy has none.
DesignIsThere(p) ==
    IF run.from = "MODEL_REPAIR_STARTED" THEN runs[p].evidence = 0 ELSE Has(runs[p], "case-design", 0)

LoadDesign ==
    /\ at = "intent"
    /\ run.from # "none"
    /\ IF DesignIsThere(run.parent)
       THEN Goto("contracts", [With(run, "case-design", 0) EXCEPT
                                 !.envelope = runs[run.parent].envelope])
       ELSE Finish(run, "FAILED", "CASE_DESIGN_CHECKPOINT_MISSING")

\* The two requests of a fresh design: a backend failure, or an intent that
\* lacks information, is deferred without an offer; any other failure is
\* CASE_DESIGN_FAILED.
DesignRequestFails(r) ==
    \/ Finish(r, "DEFERRED", "none")
    \/ Fails(r)
    \/ cancel /\ Finish(r, "CANCELLED", "none")

FreshDesign == run.relation = "fresh" /\ run.mode # "warm"

Interpret ==
    /\ at = "intent" /\ FreshDesign
    /\ \E t \in Attempts(run) :
         \/ t # 0 /\ Goto("design", Asked(run, t))
         \/ DesignRequestFails(Asked(run, t))

Propose ==
    /\ at = "design"
    /\ \E t \in Attempts(run) :
         \/ t # 0 /\ \E draft \in Drafts : Goto("gate", [Asked(run, t) EXCEPT !.draft = draft])
         \/ DesignRequestFails(Asked(run, t))

\* The envelope of the allowed repairs depends on the proposal; a design that
\* cannot be frozen is CASE_DESIGN_FAILED.
Gate ==
    /\ at = "gate"
    /\ \E capable, envelope \in BOOLEAN :
         LET decision == EvaluateDesignRisk(run.draft, capable) IN
         IF decision = "READY_TO_AUTHOR"
         THEN \/ Goto("contracts", [With(run, "case-design", 0) EXCEPT !.envelope = envelope])
              \/ Fails(run)
         ELSE Finish(run, "DEFERRED",
                     IF decision = "CONFIRMATION_REQUIRED" THEN decision ELSE "none")

\* plan_before_authoring: the coordinator looks at the cancellation before each
\* stage; the contracts bind the continuation of the run.
Contracts ==
    /\ at = "contracts"
    /\ \/ cancel /\ Finish(run, "CANCELLED", "USER_CANCELLED")
       \/ Fails(run)
       \/ Goto("source", With(run, "resume-compatibility", 0))

\* record_case_authored of a verified plan is outside every handler.
WarmPlan ==
    /\ at = "source" /\ run.mode = "warm"
    /\ IF cancel THEN Unhandled(run) ELSE Create("case-authored", 0, "ready")

\* _validate_fact_sources
StatusHolds(attempt) == attempt \in 1..MaxAttempts /\ run.callsBefore + run.calls <= LogicalLimit

\* A model request of solve ends without an answer: a backend failure may be
\* continued later, a cancellation or an empty ledger may not.
RequestFails(r, stage) ==
    \/ \E retryable \in BOOLEAN : Defers(r, stage, retryable)
    \/ Fails(r)
    \/ cancel /\ Finish(r, "CANCELLED", "none")

\* The case is authored, checked against the design and compiled; the
\* coordinator refuses to record it when the job is cancelled.
Author ==
    /\ at = "source" /\ run.mode # "warm" /\ run.from # "MODEL_REPAIR_STARTED"
    /\ IF ~StatusHolds(1) THEN Finish(run, "FAILED", "AGENT_STATUS")
       ELSE \E t \in Attempts(run) :
              \/ /\ t # 0
                 /\ IF cancel THEN Fails(Asked(run, t))
                    ELSE Goto("ready", With(Asked(run, t), "case-authored", 0))
              \/ RequestFails(Asked(run, t), "MODEL_GENERATION_STARTED")

\* A strict continuation of a repair classifies the copied failure again; the
\* design and the policy must allow a repair.
Reclassify ==
    /\ at = "source" /\ run.from = "MODEL_REPAIR_STARTED"
    /\ LET classified == With(run, "classification", LastAttempt(run)) IN
       \/ Fails(run)
       \/ Fails(classified)
       \/ run.envelope /\ Goto("source-again", classified)

\* Then the repair is scoped and the model asked again.
RepairAgain ==
    /\ at = "source-again"
    /\ IF ~StatusHolds(LastAttempt(run)) THEN Finish(run, "FAILED", "AGENT_STATUS")
       ELSE \E t \in Attempts(run) :
              \/ t # 0 /\ Goto("ready", Asked(run, t))
              \/ RequestFails(Asked(run, t), "MODEL_REPAIR_STARTED")

\* The plan is normalised, checkpointed and validated.
PlanReady ==
    /\ at = "ready"
    /\ LET next == LastAttempt(run) + 1
           r == With(run, "active-plan", next) IN
       \/ Create("active-plan", next, "attempt") /\ run.mode # "plan"
       \/ Fails(r)
       \/ run.mode = "plan" /\ Finish(r, "COMPLETED", "none")

-------------------------------------------------------------------------------
(* The attempts of a run.                                                   *)

\* The number of the attempt in progress: one directory is made per attempt.
Current == LastAttempt(run) + 1

Summarised(r, print) == [r EXCEPT !.attempts = Append(@, print)]

\* The loop over the attempts; beyond its range is an AssertionError.
Materialise ==
    /\ at = "attempt"
    /\ IF Current > MaxAttempts THEN Escape(run)
       ELSE \/ Create("attempt", Current, "execute")
            \/ Fails(With(run, "attempt", Current))

\* A failed inspection is evidence too; otherwise the commands run.  Only a
\* refusal of the execution policy is caught.
Execute ==
    /\ at = "execute"
    /\ \/ Goto("assess", With(run, "run-facts", Current))
       \/ Unhandled(run)
       \/ Fails(Summarised(run, NoPrint))
       \/ cancel /\ Finish(Summarised(run, NoPrint), "CANCELLED", "none")

Assess == at = "assess" /\ Create("run-assessment", Current, "evaluate")

\* evaluate_after_evidence: its failure ends the run, and so does a
\* cancellation, which the orchestrator does not tell from a failure.
Evaluate ==
    /\ at = "evaluate"
    /\ IF cancel THEN Finish(run, "FAILED", "USER_CANCELLED")
       ELSE \/ Fails(run)
            \/ Create("derived-metrics", Current, "classify")

\* The run passed; or its acceptance conditions did not; or it failed.
Conclude ==
    /\ at = "classify"
    /\ \/ Finish(Summarised(run, NoPrint), "COMPLETED", "none")
       \/ Fails(Summarised(run, NoPrint))

\* should_stop_repair on the fingerprints of the attempts
ShouldStop(prints) ==
    LET n == Len(prints) IN
    \/ LastAttempt(run) + 1 >= MaxAttempts
    \/ n >= 2 /\ prints[n] = prints[n - 1]

\* A failed run is fingerprinted and classified; a repair is asked for unless
\* the loop should stop, the plan is a verified one, or no repair is allowed.
Classify ==
    /\ at = "classify"
    /\ \E print \in Prints :
         LET r == Summarised(run, print)
             classified == With(r, "classification", Current) IN
         \/ Fails(r)
         \/ Fails(classified)
         \/ /\ ~ShouldStop(r.attempts)
            /\ run.mode # "warm" /\ run.envelope
            /\ Goto("repair", classified)

\* The repair of the last attempt is scoped and asked for; what is applied is
\* the plan of the next one.
Repair ==
    /\ at = "repair"
    /\ LET n == LastAttempt(run)
           scoped == With(run, "repair-evidence", n) IN
       IF Has(run, "repair-evidence", n) THEN Fails(run)
       ELSE IF ~StatusHolds(n) THEN Finish(scoped, "FAILED", "AGENT_STATUS")
       ELSE \E t \in Attempts(run) :
              \/ /\ t # 0
                 /\ IF Has(run, "active-plan", n + 1) THEN Escape(Asked(scoped, t))
                    ELSE Goto("attempt", With(Asked(scoped, t), "active-plan", n + 1))
              \/ RequestFails(Asked(scoped, t), "MODEL_REPAIR_STARTED")
              \/ Fails(run)

Step == \/ Preflight \/ Route \/ FrozenDesign \/ LoadDesign \/ Interpret \/ Propose
        \/ Gate \/ Contracts \/ WarmPlan \/ Author \/ Reclassify \/ RepairAgain \/ PlanReady
        \/ Materialise \/ Execute \/ Assess \/ Evaluate \/ Conclude \/ Classify \/ Repair

\* The job is cancelled; the solve finds out where it looks.
Cancel == at # "idle" /\ ~cancel /\ cancel' = TRUE /\ UNCHANGED <<runs, run, at>>

\* The process dies, and recover-finalize seals what it left (JobRecovery); the
\* decision of the gate is on disk from the step that takes it.
Crash ==
    /\ at # "idle"
    /\ \/ Finish(run, "INTERRUPTED", "none")
       \/ /\ at = "gate"
          /\ EvaluateDesignRisk(run.draft, TRUE) = "CONFIRMATION_REQUIRED"
          /\ Finish(run, "INTERRUPTED", "CONFIRMATION_REQUIRED")

Next == Start \/ Step \/ Cancel \/ Crash

Spec == Init /\ [][Next]_vars /\ WF_vars(Step)

-------------------------------------------------------------------------------
(* Properties.                                                              *)

\* The frozen runs and the one in progress.
AllRuns == {runs[p] : p \in 1..Len(runs)} \cup (IF at = "idle" THEN {} ELSE {run})

\* Transport attempts that r and the runs it continues have really used.
LineageTransport(r) ==
    LET used[p \in 0..Len(runs)] ==
          IF p = 0 THEN 0 ELSE runs[p].used + used[runs[p].parent]
    IN r.used + used[r.parent]

\* A run that was confirmed after its process died on the decision of the gate
\* has lost its model-configuration.json.
ForgotUsage(r) == \E p \in Lineage(r.parent) : runs[p].outcome = "INTERRUPTED"

\* A lineage sends no more than its limit, whatever the chain of continuations
\* and confirmations, unless one of its runs was interrupted; and it makes no more
\* logical requests than the status given to the model is validated against.
LineageBudget ==
    \A r \in AllRuns :
       /\ ~ForgotUsage(r) => LineageTransport(r) <= TransportLimit
       /\ r.code # "AGENT_STATUS"

\* The repair of a continuation is asked for on the evidence of the last attempt
\* of the lineage, not of one that a later attempt has replaced.
RepairsLastAttempt ==
    at = "source-again" => run.evidence = LastAttempt(run)

\* After the same failure twice in a row there is no further attempt, in the
\* run or in a continuation of it.
StopsAtRepeatedFailure ==
    \A r \in AllRuns : \A k \in 1..Len(r.attempts) - 2 : r.attempts[k] # r.attempts[k + 1]

\* A chain of runs remembers: a repair starts from the last attempt of the
\* lineage, and a failure that came twice ends it.
ChainRemembers == RepairsLastAttempt /\ StopsAtRepeatedFailure

\* No checkpoint is written twice and the loop never goes past its bound: a run
\* without summary was left by an exception the code has no handler for (a refused
\* probe of a provided mesh, the cancellation of a warm solve, a runner that fails
\* in another way than by its policy), never by a name that was there already.
RunsAreSealed ==
    \A r \in AllRuns : r.outcome = "UNSEALED" => r.code = "UNHANDLED"

\* A continuation that a summary offers is accepted by prepare_continuation, and
\* one that authors the case again finds the design to author.  (The second
\* continuation of a repair is accepted too, and finds none: LoadDesign.)
OfferIsAccepted ==
    \A p \in 1..Len(runs) :
       /\ runs[p].offer \in Stages => Resumable(p)
       /\ runs[p].offer = "MODEL_GENERATION_STARTED" => Has(runs[p], "case-design", 0)

\* A confirmation that is taken, having a place for every value, leaves nothing to
\* ask: its checkpoint has the frozen design.
ConfirmationSuffices ==
    \A r \in AllRuns : r.relation = "confirmation" => Has(r, "case-design", 0)

\* What a run hands to the next command is enough for it: checkpoints never
\* collide, an offered continuation is accepted and finds what it authors from, and
\* the checkpoint of a confirmation can be authored.
OfferSuffices == RunsAreSealed /\ OfferIsAccepted /\ ConfirmationSuffices

\* Every solve ends.
SolveEnds == (at # "idle") ~> (at = "idle")
===============================================================================
