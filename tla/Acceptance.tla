------------------------------ MODULE Acceptance ------------------------------
(***************************************************************************)
(* From what a user asks of the results of a run to its verdict: the       *)
(* interpreted intent, the acceptance plan, the observation plan, what the *)
(* solver leaves in its log and in its output files, the derived metrics   *)
(* and the evaluation of the conditions.  One attempt; its steps are the   *)
(* stages of the orchestrator, in their order.                             *)
(*                                                                         *)
(* The solver computes one number at each time step.  A field function     *)
(* object sees it in the files it writes, a residual in the log, a velocity*)
(* as a vector.  A statement is a sentence of the task, a list of words: a *)
(* word has the markers of intent.py that are found in it (of kinds of     *)
(* observables, operators, units and times) and the number it is, if any.  *)
(***************************************************************************)
EXTENDS Integers, Sequences, FiniteSets, FiniteSetsExt, SequencesExt

CONSTANTS
    Tasks,      \* the tasks: statements, observations, conditions
    Values,     \* what the solver computes
    NotFinite,  \* a value that is not finite
    UnitOf,     \* kind of observable -> the unit of its metric
    MaxSteps,   \* bound on the time steps of a run
    Kept,       \* samples a series keeps (1000)
    LogLimit    \* time steps that fit in the parsed part of one log (4 MiB)

\* A list, whatever it lists
IsSequence(s) == Len(s) \in Nat /\ DOMAIN s = 1..Len(s)

ASSUME AcceptanceAssumption ==
    /\ Values \subseteq Int /\ NotFinite \notin Values
    /\ MaxSteps \in Nat /\ Kept \in Nat \ {0} /\ LogLimit \in Nat \ {0}
    /\ \A t \in Tasks :
          /\ IsSequence(t.plain) /\ IsSequence(t.conditions)
          /\ \A k \in DOMAIN t.conditions :
                /\ t.conditions[k].limit \in Int
                /\ t.conditions[k].scope.kind \in {"latest", "range", "all"}
          /\ \A s \in t.statements : IsSequence(s)

VARIABLES
    task,        \* TaskSpec, and the answer of the model that interprets it
    at,          \* the stage
    intent,      \* SimulationIntent after reconciliation
    acceptance,  \* AcceptancePlan
    items,       \* ObservationPlan: observation id -> request
    trace,       \* what the solver computed: value, solve step, field written
    metrics,     \* DerivedMetrics: observation id -> series
    report,      \* ResultReport.verdict
    status       \* native status of the run

acceptanceVars == <<task, at, intent, acceptance, items, trace, metrics, report, status>>

NoIntent == [plain |-> <<>>, conditions |-> <<>>]
NoPlan == [conditions |-> {}, observations |-> <<>>]

AcceptanceInit ==
    /\ task \in Tasks
    /\ at = "intent"
    /\ intent = NoIntent
    /\ acceptance = NoPlan
    /\ items = <<>>
    /\ trace = <<>>
    /\ metrics = <<>>
    /\ report = "none"
    /\ status = "none"

-------------------------------------------------------------------------------
(* Observations *)

Within(t, interval) == interval.from <= t /\ t <= interval.to

\* ObservationScope of a cell zone that the model called a mesh region:
\* _reconcile_region_scope_with_mesh takes it for the zone.
Rebind(o) ==
    [id |-> o.id, kind |-> o.kind, time |-> o.time,
     scope |-> IF o.scope = "zone as region" THEN "zone" ELSE o.scope]

\* merge_compatible_observation_requests may keep the one with history.
Compatible(o, p) ==
    /\ <<o.id, o.kind, o.scope>> = <<p.id, p.kind, p.scope>>
    /\ o.time = p.time \/ "history" \in {o.time.kind, p.time.kind}

Broader(o, p) == IF o.time.kind = "history" THEN o ELSE p

\* Two requests that cannot be merged.
Clash == [clash |-> TRUE]

\* An observation asked for again replaces what is there under its name.
Override(acc, o) == [i \in DOMAIN acc \cup {o.id} |-> IF i = o.id THEN o ELSE acc[i]]

\* _merge_request
Merge(acc, o) ==
    IF acc = Clash THEN Clash
    ELSE IF o.id \notin DOMAIN acc THEN Override(acc, o)
    ELSE IF Compatible(acc[o.id], o) THEN Override(acc, Broader(acc[o.id], o))
    ELSE Clash

Gather(base, requests) ==
    LET unique[n \in 0..Len(requests)] ==
          IF n = 0 THEN base ELSE Merge(unique[n - 1], requests[n])
    IN unique[Len(requests)]

\* The last of the requests of each name
LastOf(plain) ==
    [i \in {plain[k].id : k \in DOMAIN plain} |->
       plain[CHOOSE k \in DOMAIN plain :
               plain[k].id = i /\ \A j \in DOMAIN plain : plain[j].id = i => j <= k]]

-------------------------------------------------------------------------------
(* interpret_intent *)

\* _redundant_patch_pair_flow_balance: each patch of the pair is observed.
Redundant(o, plain, judged) ==
    /\ o.kind = "flow" /\ o.scope = "pair" /\ o.id \notin judged
    /\ \A patch \in {"inlet", "outlet"} :
          \E p \in ToSet(plain) : p.kind = "flow" /\ p.scope = patch /\ p.time = o.time

\* _reconcile_intent: the requests without the redundant ones, in their order.
Irredundant(plain, judged) ==
    LET rest[n \in 0..Len(plain)] ==
          IF n = 0 THEN <<>>
          ELSE IF Redundant(plain[n], plain, judged) THEN rest[n - 1]
          ELSE Append(rest[n - 1], plain[n])
    IN rest[Len(plain)]

\* Mutant: whatever is quoted from the task gives authority.
HasQuote(c, statements) == c.quote \in statements

\* _contains_marker: anywhere in the sentence
Says(s, mark) == \E k \in DOMAIN s : mark \in s[k].marks

\* _first_number_after_marker: the first number after the first such operator,
\* whatever it is a number of.
IsStated(limit, op, s) ==
    \E j, k \in DOMAIN s :
       /\ j < k /\ op \in s[j].marks /\ limit \in s[k].numbers
       /\ \A i \in 1..(j - 1) : op \notin s[i].marks
       /\ \A i \in (j + 1)..(k - 1) : s[i].numbers = {}

\* The first of the time markers that is found decides.
DeclaredTime(s) ==
    IF Says(s, "throughout") THEN "all" ELSE IF Says(s, "interval") THEN "range" ELSE "latest"

\* _acceptance_has_task_authority and _acceptance_semantics_match: a sentence of
\* the task is quoted that has the markers of this kind of observable, operator,
\* unit and time, in whatever order; an interval need only end at numbers of it.
HasAuthority(c, statements) ==
    /\ c.quote \in statements
    /\ Says(c.quote, c.op) /\ Says(c.quote, c.observation.kind)
    /\ c.unit = "1" \/ Says(c.quote, c.unit)
    /\ DeclaredTime(c.quote) = c.scope.kind
    /\ c.op = "less_equal" => IsStated(c.limit, c.op, c.quote)
    /\ c.scope.kind = "range" =>
          {c.scope.from, c.scope.to} \subseteq UNION {c.quote[k].numbers : k \in DOMAIN c.quote}

\* A request keeps its authority only if it is the user's; no other is confirmed.
Reconciled(c, statements) ==
    LET granted == c.confirmed /\ c.source = "user_text" /\ HasAuthority(c, statements)
    IN [id |-> c.id, observation |-> Rebind(c.observation), op |-> c.op, limit |-> c.limit,
        scope |-> c.scope, unit |-> c.unit, quote |-> c.quote, confirmed |-> granted,
        source |-> IF granted THEN "user_text" ELSE "model_inference"]

Interpret ==
    LET rebound == [k \in DOMAIN task.plain |-> Rebind(task.plain[k])]
        judged == {c.observation.id : c \in ToSet(task.conditions)}
    IN /\ at = "intent"
       /\ intent' = [plain |-> Irredundant(rebound, judged),
                     conditions |-> [k \in DOMAIN task.conditions |->
                                       Reconciled(task.conditions[k], task.statements)]]
       /\ at' = "acceptance"
       /\ UNCHANGED <<task, acceptance, items, trace, metrics, report, status>>

-------------------------------------------------------------------------------
(* AcceptanceCompiler and ObservationPlanner *)

Fail(code) == at' = "done" /\ status' = code

\* The observation that was asked for keeps the times the condition speaks of.
Covered(c) ==
    LET kept == c.observation.time IN
    /\ c.scope.kind = "all" => kept.kind = "history"
    /\ c.scope.kind = "range" =>
          \/ kept.kind = "history"
          \/ kept.kind = "range" /\ kept.from <= c.scope.from /\ c.scope.to <= kept.to

\* AcceptanceCompiler.compile: a condition that is not confirmed, or not covered,
\* goes to a list that nobody reads (`uncompiled`); its observation stays.
CompileAcceptance ==
    LET asked == intent.conditions
        merged == Gather(LastOf(intent.plain), [k \in DOMAIN asked |-> asked[k].observation])
        unique == \A j, k \in DOMAIN asked : asked[j].id = asked[k].id => j = k
    IN /\ at = "acceptance"
       /\ IF unique /\ merged # Clash
          THEN /\ acceptance' = [conditions |-> {c \in ToSet(asked) : c.confirmed /\ Covered(c)},
                                 observations |-> merged]
               /\ at' = "observations"
               /\ UNCHANGED status
          ELSE Fail("ACCEPTANCE_COMPILATION_FAILED") /\ UNCHANGED acceptance
       /\ UNCHANGED <<task, intent, items, trace, metrics, report>>

\* _validate_scope and the scope kinds of the registry: a flow has one patch,
\* and a scope is a name of the mesh.
Plannable(o) == o.scope # "nowhere" /\ (o.kind = "flow" => o.scope # "pair")

\* Mutant: what the intent asks for is taken as covered by the acceptance plan.
PlannedOf(base, plain, observations) == Gather(base, observations)

\* ObservationPlanner.compile merges the requests of the intent once more.
Planned(base, plain, observations) == Gather(Gather(base, plain), observations)

PlanObservations ==
    LET wanted == acceptance.observations
        merged == Planned(<<>>, intent.plain, SetToSeq({wanted[i] : i \in DOMAIN wanted}))
    IN /\ at = "observations"
       /\ IF merged # Clash /\ \A i \in DOMAIN merged : Plannable(merged[i])
          THEN items' = merged /\ at' = "solve" /\ UNCHANGED status
          ELSE Fail("OBSERVATION_PLANNING_FAILED") /\ UNCHANGED items
       /\ UNCHANGED <<task, intent, acceptance, trace, metrics, report>>

-------------------------------------------------------------------------------
(* The solver, and what it leaves *)

Times == 1..Len(trace)

\* A time step of the same solve command or the first of the next one; the
\* fields are written at some of the steps.
TimeStep ==
    /\ at = "solve" /\ Len(trace) < MaxSteps
    /\ \E value \in Values \cup {NotFinite}, next \in BOOLEAN, written \in BOOLEAN :
          LET step == IF trace = <<>> THEN 1 ELSE trace[Len(trace)].step + IF next THEN 1 ELSE 0
          IN trace' = Append(trace, [value |-> value, step |-> step, written |-> written])
    /\ UNCHANGED <<task, at, intent, acceptance, items, metrics, report, status>>

LinesOf(step) == {t \in Times : trace[t].step = step}

\* What the extractor parses of the log of a solve command.
Parsed(step) == {t \in LinesOf(step) : t <= Min(LinesOf(step)) + LogLimit - 1}

\* completed_normally: a canonical End, in a log without errors that was read
\* to its end.
EndedNormally(step) ==
    /\ Parsed(step) = LinesOf(step)
    /\ \A t \in LinesOf(step) : trace[t].value # NotFinite

Steps == {trace[t].step : t \in Times}

\* assess_native_run asks for one solve command that ended normally.
RunIsOk == \E step \in Steps : EndedNormally(step)

\* The residual lines with a number, of all logs, as far as they are parsed.
ResidualFacts == {t \in UNION {Parsed(step) : step \in Steps} : trace[t].value # NotFinite}

\* The times a function object of the solver, or a postProcess command with
\* -latestTime or -time, leaves in its files.
Output(o) ==
    LET written == {t \in Times : trace[t].written}
    IN IF o.time.kind = "history" THEN Times
       ELSE IF o.time.kind = "range" THEN {t \in written : Within(t, o.time)}
       ELSE {t \in written : \A u \in written : u <= t}

-------------------------------------------------------------------------------
(* POSTPROCESSED: collection and derivation *)

Unavailable == [status |-> "UNAVAILABLE", times |-> {}]

\* Mutant: what does not fit is dropped in silence.
KeptSilently(times) == [status |-> "AVAILABLE", times |-> {t \in times : t > Max(times) - Kept}]

\* The latest samples are kept; a series that lost some is partial.
Bounded(times) ==
    LET last == {t \in times : Cardinality({u \in times : u > t}) < Kept}
    IN [status |-> IF last = times THEN "AVAILABLE" ELSE "PARTIAL", times |-> last]

\* ResidualCalculator and ContinuityCalculator look at no time selection.
FromFacts == IF ResidualFacts = {} THEN Unavailable ELSE Bounded(ResidualFacts)

\* collect_foundation10_observation_artifacts, then StructuredOutputCalculator:
\* a file with a value that is no number yields nothing at all.
FromFiles(o) ==
    IF Output(o) = {} \/ \E t \in Output(o) : trace[t].value = NotFinite
    THEN Unavailable ELSE Bounded(Output(o))

\* The evidence strategy, with the audit of the dimensions of the fields: force
\* has no collector; `absent` have no file, an unreadable one, or a wrong field.
Derive(o, absent) ==
    IF o.kind = "residual" THEN FromFacts
    ELSE IF o.kind = "force" \/ o.id \in absent THEN Unavailable
    ELSE FromFiles(o)

Postprocess ==
    /\ at = "solve" /\ trace # <<>>
    /\ \E absent \in SUBSET DOMAIN items :
          metrics' = [i \in DOMAIN items |-> Derive(items[i], absent)]
    /\ at' = "evaluate"
    /\ UNCHANGED <<task, intent, acceptance, items, trace, report, status>>

-------------------------------------------------------------------------------
(* AcceptanceEvaluator *)

\* _scoped_samples
Scoped(c, times) ==
    IF c.scope.kind = "range" THEN {t \in times : Within(t, c.scope)}
    ELSE IF c.scope.kind = "latest" THEN {t \in times : \A u \in times : u <= t}
    ELSE times

\* _matches, for a number and an upper limit, or for the predicate finite
Matches(c, t) ==
    /\ trace[t].value # NotFinite
    /\ c.op = "less_equal" => trace[t].value <= c.limit

\* The unit is that of the metric, and a vector has no order.
Comparable(c) ==
    /\ c.unit = UnitOf[c.observation.kind]
    /\ ~(c.op = "less_equal" /\ c.observation.kind = "velocity")

\* A condition is evaluated on complete evidence that it can be compared with.
Evaluated(c) ==
    LET series == metrics[c.observation.id]
        selected == IF series.status = "AVAILABLE" THEN Scoped(c, series.times) ELSE {}
    IN IF selected = {} \/ ~Comparable(c)
       THEN "NOT_EVALUATED"
       ELSE IF \A t \in selected : Matches(c, t) THEN "PASS" ELSE "FAIL"

Verdict(results) ==
    IF results = {} THEN "NOT_REQUESTED"
    ELSE IF "FAIL" \in results THEN "FAIL"
    ELSE IF "NOT_EVALUATED" \in results THEN "INCOMPLETE"
    ELSE "PASS"

\* The end of solve after an attempt: the run completes if its commands did and
\* no condition says otherwise.
StatusOf(verdict) ==
    IF ~RunIsOk THEN "SOLVER_FAILED"
    ELSE IF verdict \in {"PASS", "NOT_REQUESTED"} THEN "RUN_COMPLETED"
    ELSE IF verdict = "FAIL" THEN "ACCEPTANCE_FAILED"
    ELSE "ACCEPTANCE_INCOMPLETE"

Evaluate ==
    LET verdict == Verdict({Evaluated(c) : c \in acceptance.conditions})
    IN /\ at = "evaluate"
       /\ report' = verdict
       /\ Fail(StatusOf(verdict))
       /\ UNCHANGED <<task, intent, acceptance, items, trace, metrics>>

AcceptanceNext ==
    \/ Interpret
    \/ CompileAcceptance
    \/ PlanObservations
    \/ TimeStep
    \/ Postprocess
    \/ Evaluate

AcceptanceSpec == AcceptanceInit /\ [][AcceptanceNext]_acceptanceVars

-------------------------------------------------------------------------------
(* Properties *)

\* The times a condition speaks of in what the solver did, not in what was
\* collected: every step, or those its observation reaches in the interval, or the
\* last of these.
SpokenOf(c) ==
    LET seen == IF c.observation.kind = "residual" THEN Times ELSE Output(items[c.observation.id])
    IN IF c.scope.kind = "all" THEN Times
       ELSE IF c.scope.kind = "range" THEN {t \in seen : Within(t, c.scope)}
       ELSE {t \in seen : \A u \in seen : u <= t}

\* A run is completed only if every condition of its acceptance plan is true of
\* what the solver computed, at every time the condition speaks of and at one at
\* least, whatever was merged, bounded, unreadable or missing. Left out: a solve
\* command that did not end normally beside another that did.
CompletedIsAccepted ==
    (status = "RUN_COMPLETED" /\ \A step \in Steps : EndedNormally(step)) =>
       \A c \in acceptance.conditions :
          /\ c.unit = UnitOf[c.observation.kind]
          /\ SpokenOf(c) # {}
          /\ \A t \in SpokenOf(c) : Matches(c, t)

\* A run fails its acceptance only over a sentence of the task that names the kind
\* of observable: one of its samples is above a number that the sentence states
\* after an upper limit, and it is the last one if the sentence names no times.  A
\* sentence that names one kind and one number is violated; one that names several
\* may not be, for its numbers are not told apart.
FailureIsTheUsers ==
    report = "FAIL" =>
       \E s \in task.statements, i \in DOMAIN items :
          /\ Says(s, items[i].kind)
          /\ \E t \in metrics[i].times \cap Times :
                /\ trace[t].value # NotFinite
                /\ \E j, k \in DOMAIN s :
                      /\ j < k /\ "less_equal" \in s[j].marks
                      /\ \E limit \in s[k].numbers : trace[t].value > limit
                /\ DeclaredTime(s) = "latest" => \A u \in metrics[i].times : u <= t

\* Every observation that is asked for, by the intent or by a condition, is in
\* the plan with the times that were asked for; a flow balance may be replaced by
\* the flows of its two patches.
Carries(o, scope) ==
    \E i \in DOMAIN items :
       /\ items[i].kind = o.kind /\ items[i].scope = scope
       /\ items[i].time = o.time \/ items[i].time.kind = "history"

NothingIsDropped ==
    at \in {"solve", "evaluate"} =>
       \A o \in ToSet(task.plain) \cup {c.observation : c \in ToSet(task.conditions)} :
          \/ Carries(o, Rebind(o).scope)
          \/ o.scope = "pair" /\ \A patch \in {"inlet", "outlet"} : Carries(o, patch)

===============================================================================
