----------------------------- MODULE CaseAdmission -----------------------------
(* From the frozen design of a case to what is executed, and to what is       *)
(* executed again after a repair: the case author's answer is bound,          *)
(* validated, given the system's observation files and checked against the    *)
(* design; a plan is compiled, normalised and validated; every attempt        *)
(* stages the user's files, writes the case, inspects it, scans its risk and  *)
(* asks the execution policy; a numerical failure lets the model propose a    *)
(* repair, which a frozen envelope authorises, and the next attempt starts    *)
(* anew.  Transport, budgets and the outcome of an attempt are NativeSolve's; *)
(* the steps of a run, its mesh cache and its reuse are Execution's.          *)
(*                                                                            *)
(* A file is what the checks read of it: its entries, keyword by keyword in   *)
(* the order written, and its traits.  Numbers are integers in units that     *)
(* keep the bounds of the envelope whole.                                     *)
EXTENDS Integers, Sequences, FiniteSets, SequencesExt, FiniteSetsExt, Functions, TLC

CONSTANTS
    Scenarios,      \* what a run starts from: task, design, observed, environment, runtime, planOnly
    Bundles(_),     \* the case author's possible answers to a scenario
    Edits,          \* the repair model's possible answers
    MaxAttempts     \* bound: how many attempts are followed

ASSUME AttemptsAreCounted == MaxAttempts \in Nat \ {0}

\* Designs and bundles are parsed into their types before anything looks at them.
ASSUME ScenariosAreScenarios ==
    \A s \in Scenarios :
        /\ {"facts", "extensions", "envelope"} \subseteq DOMAIN s.design
        /\ s.observed.posts \in Nat
ASSUME BundlesAreBundles ==
    \A s \in Scenarios : \A b \in Bundles(s) :
        /\ b = [manifest |-> b.manifest, files |-> b.files]
        /\ "regions" \in DOMAIN b.manifest
        /\ IsFiniteSet(DOMAIN b.manifest.regions)
        /\ \A path \in DOMAIN b.files :
            b.files[path] = [entries |-> b.files[path].entries, traits |-> b.files[path].traits]

VARIABLES
    scenario,   \* the frozen inputs of the run
    design,     \* the frozen design, derived anew by each repair
    bundle,     \* the case as it would be written
    plan,       \* the commands compiled for it
    case,       \* what is in the case directory
    phase,      \* where the solve stands
    status,     \* what it ended with
    attempt,    \* the number of the attempt
    executed    \* history: what each attempt that ran was given

vars == <<scenario, design, bundle, plan, case, phase, status, attempt, executed>>

-----------------------------------------------------------------------------
(* Files, paths and contents.                                                 *)

Control == "system/controlDict"
BlockMesh == "system/blockMeshDict"
Decompose == "system/decomposeParDict"
Observations == "system/foampilot-observations"
Physical == "constant/physicalProperties"
Momentum == "constant/momentumTransport"
Porous == "constant/fvModels"
Coordinates == "constant/coordinateSystems"
Velocity == "0/U"
Points == "constant/polyMesh/points"
Local == "system/local"  \* a file of the author's that another may include

\* Two spellings of one file: paths are compared as written, files are not.
Aliases == {"./system/controlDict", "constant/./polyMesh/points"}
Canonical(path) ==
    IF path = "./system/controlDict" THEN Control
    ELSE IF path = "constant/./polyMesh/points" THEN Points ELSE path

\* A path that leaves the case directory.
Unsafe == {"../controlDict"}

\* What is laid over something else replaces it (TLC's @@, which has no
\* definition that a proof could use).
Over(f, g) == [x \in DOMAIN f \cup DOMAIN g |-> IF x \in DOMAIN f THEN f[x] ELSE g[x]]

Content(entries, traits) == [entries |-> entries, traits |-> traits]

\* The values a keyword is given in a file, in order.
Values(files, path, keyword) ==
    IF path \in DOMAIN files /\ keyword \in DOMAIN files[path].entries
    THEN files[path].entries[keyword] ELSE <<>>

\* A search finds the first entry of a keyword; a dictionary has one or none.
Finds(files, path, keyword, value) ==
    LET values == Values(files, path, keyword) IN values # <<>> /\ Head(values) = value
Only(files, path, keyword, value) == Values(files, path, keyword) = <<value>>

Trait(files, trait) == {path \in DOMAIN files : trait \in files[path].traits}

-----------------------------------------------------------------------------
(* The design.                                                                *)

Knows(d, fact) == fact \in DOMAIN d.facts
FactOr(d, fact, default) == IF Knows(d, fact) THEN d.facts[fact] ELSE default
Solver(d) == d.facts["solver.family"]
HasMaterials(d) == Knows(d, "materials.fluid.nu")
Ranks(d) == FactOr(d, "execution.mpi_ranks", 1)

\* The facts a repair may change, the keyword each is written as, and its bounds.
Rule(fact, keyword, least, most) ==
    [fact |-> fact, keyword |-> keyword, minimum |-> least, maximum |-> most]
Larger(a, b) == IF a > b THEN a ELSE b
Plain(d, fact) == IF fact \in d.united THEN 0 ELSE FactOr(d, fact, 0)
Positive(d, fact) == {Plain(d, fact)} \cap (Nat \ {0})
DefaultEnvelope(d) ==
    {Rule("numerics.delta_t", "deltaT", v \div 100, v) : v \in Positive(d, "numerics.delta_t")}
    \cup {Rule("numerics.max_co", "maxCo", Larger(v \div 10, 1), v) :
            v \in Positive(d, "numerics.max_co")}

\* The files and fields a solver family cannot do without.
Contracts ==
    [icoFoam |-> [files |-> {Control, "system/fvSchemes", "system/fvSolution", Physical},
                  fields |-> {"U", "p"}],
     pisoFoam |-> [files |-> {Control, "system/fvSchemes", "system/fvSolution", Physical, Momentum},
                   fields |-> {"U", "p"}]]
ContractFiles(d) == IF Solver(d) \in DOMAIN Contracts THEN Contracts[Solver(d)].files ELSE {}

\* What the porous extension asks the author for.
ExtensionFiles(d) == IF "porous" \in d.extensions THEN {Porous, Coordinates} ELSE {}

AuthorFiles(d, task) ==
    {Control, "system/fvSchemes", "system/fvSolution"} \cup ContractFiles(d) \cup ExtensionFiles(d)
    \cup (IF HasMaterials(d) THEN {Physical} ELSE {})
    \cup (IF FactOr(d, "mesh.strategy", task.mesh) = "blockMesh" THEN {BlockMesh} ELSE {})
    \cup (IF Ranks(d) > 1 THEN {Decompose} ELSE {})

-----------------------------------------------------------------------------
(* The author's answer.                                                       *)

\* The frozen families replace the author's words for them.
BindFamilies(b, d) ==
    [b EXCEPT !.manifest.physics = FactOr(d, "physics.family", @),
              !.manifest.mesh = FactOr(d, "mesh.strategy", @)]

\* Paths are compared as they are written.
Overlaps(path, task) == path \in task.assets

ValidBundle(b, d, task) ==
    LET files == b.files
        paths == DOMAIN files
    IN  /\ b.manifest.solver = Solver(d)
        /\ paths \cap Unsafe = {}
        /\ \A path \in paths : ~Overlaps(path, task)
        /\ Trait(files, "protected") = {}
        /\ AuthorFiles(d, task) \subseteq paths
        /\ \A field \in b.manifest.fields : field.by = "author" => field.path \in paths

\* The system's own files: one for the runtime observations, one a command.
PostFiles(observed) == {"system/foampilot-post-" \o ToString(n) : n \in 1..observed.posts}
SystemFiles(observed) ==
    PostFiles(observed) \cup (IF observed.functions THEN {Observations} ELSE {})
\* None of their names is another spelling of a file.
ASSUME SystemPathsAreCanonical ==
    \A s \in Scenarios : SystemFiles(s.observed) \cap Aliases = {}

SystemContent(path) ==
    Content([k \in {} |-> <<>>], IF path = Observations THEN {"system", "functions"} ELSE {"system"})

Injectable(b, observed) ==
    /\ Trait(b.files, "functions") = {}
    /\ DOMAIN b.files \cap SystemFiles(observed) = {}
    /\ observed.functions =>
        Control \in DOMAIN b.files /\ "names observations" \notin b.files[Control].traits

Injected(b, observed) ==
    LET included == IF observed.functions
                    THEN [b.files EXCEPT ![Control].traits = @ \cup {"names observations", "include"}]
                    ELSE b.files
    IN  [b EXCEPT !.files = Over(included, [path \in SystemFiles(observed) |-> SystemContent(path)])]

-----------------------------------------------------------------------------
(* Conformance: what of the design can be compared with the files.            *)

\* Facts a dictionary entry implements, and where.
Entry == [fact \in {"time.end", "numerics.delta_t", "numerics.max_co"} |->
            <<Control, CASE fact = "time.end" -> "endTime"
                         [] fact = "numerics.delta_t" -> "deltaT"
                         [] fact = "numerics.max_co" -> "maxCo">>]

ManifestConforms(b, d) ==
    LET m == b.manifest IN
    /\ m.solver = Solver(d)
    /\ m.physics = FactOr(d, "physics.family", m.physics)
    /\ m.mesh = FactOr(d, "mesh.strategy", m.mesh)
    /\ m.regime = FactOr(d, "physics.regime", m.regime)
    /\ Knows(d, "boundaries.wall.mesh_type") =>
        "wall" \in DOMAIN m.patches /\ m.patches["wall"] = d.facts["boundaries.wall.mesh_type"]
    /\ Knows(d, "regions.default.kind") =>
        "default" \in DOMAIN m.regions /\ m.regions["default"] = d.facts["regions.default.kind"]

\* Laminar designs also need the file that says so.
TurbulenceConforms(b, d) ==
    Knows(d, "physics.turbulence") =>
        /\ b.manifest.turbulence = d.facts["physics.turbulence"]
        /\ d.facts["physics.turbulence"] = "laminar" =>
            /\ Only(b.files, Momentum, "simulationType", "laminar")
            /\ Only(b.files, Momentum, "model", "Stokes")
\* Mutant: an entry the design fixes is not compared.
NumbersButCourant(b, d) ==
    \A fact \in (DOMAIN d.facts \cap DOMAIN Entry) \ {"numerics.max_co"} :
        Finds(b.files, Entry[fact][1], Entry[fact][2], d.facts[fact])

NumbersConform(b, d) ==
    \A fact \in DOMAIN d.facts \cap DOMAIN Entry :
        Finds(b.files, Entry[fact][1], Entry[fact][2], d.facts[fact])

MaterialConforms(b, d) ==
    HasMaterials(d) =>
        LET nu == d.facts["materials.fluid.nu"] IN
        nu.unit = "m2/s" /\ Finds(b.files, Physical, "nu", nu.value)

CommonConforms(b, d) ==
    /\ ManifestConforms(b, d)
    /\ Finds(b.files, Control, "application", Solver(d))
    /\ TurbulenceConforms(b, d)
    /\ NumbersConform(b, d)
    /\ MaterialConforms(b, d)

\* Members of the mesh are recognised under any spelling.
MeshConforms(b, task) ==
    /\ \A path \in DOMAIN b.files : Canonical(path) # Points
    /\ \A field \in b.manifest.fields : field.placed
    /\ \A patch \in DOMAIN task.patches :
        patch \in DOMAIN b.manifest.patches /\ b.manifest.patches[patch] = task.patches[patch]

\* One porous source, over the frozen zone of the mesh, in a known frame.
PorousModelConforms(b, d, task) ==
    /\ Only(b.files, Porous, "type", "DarcyForchheimer")
    /\ FactOr(d, "regions.porous.porosity_model", "none") = "DarcyForchheimer"
    /\ \E zone \in task.zones :
        Only(b.files, Porous, "cellZone", zone) /\ Knows(d, "regions.porous.role") /\ zone = "porous"

PorousFrameConforms(b, d) ==
    \E frame \in Range(Values(b.files, Porous, "coordinateSystem")) :
        /\ Only(b.files, Porous, "coordinateSystem", frame)
        /\ Len(Values(b.files, Coordinates, frame)) = 1
        /\ Head(Values(b.files, Coordinates, frame)) # "skewed"
        /\ Only(b.files, Coordinates, frame,
                FactOr(d, "regions.porous.coordinate_system", Head(Values(b.files, Coordinates, frame))))

\* The inlet and the two resistances, each in its unit.
PorousNumbersConform(b, d) ==
    LET Resists(fact, keyword, unit) ==
            /\ Knows(d, fact)
            /\ d.facts[fact].unit = unit
            /\ Only(b.files, Porous, keyword, d.facts[fact].value)
    IN  /\ Knows(d, "boundaries.inlet.velocity") =>
            LET inlet == d.facts["boundaries.inlet.velocity"] IN
            inlet.unit = "m/s" /\ Finds(b.files, Velocity, "inlet", inlet.value)
        /\ Resists("regions.porous.darcy_coefficient", "d", "1/m2")
        /\ Resists("regions.porous.forchheimer_coefficient", "f", "1/m")

PorousConforms(b, d, task) ==
    /\ Porous \in DOMAIN b.files
    /\ PorousModelConforms(b, d, task)
    /\ PorousFrameConforms(b, d)
    /\ PorousNumbersConform(b, d)

Conforms(b, d, task) ==
    /\ CommonConforms(b, d)
    /\ MeshConforms(b, task)
    /\ "porous" \in d.extensions => PorousConforms(b, d, task)

-----------------------------------------------------------------------------
(* The plan.                                                                  *)

Launchers == {"mpirun", "mpiexec", "orterun"}
KnownStages == [blockMesh |-> "mesh", checkMesh |-> "check", decomposePar |-> "decompose",
                reconstructPar |-> "reconstruct", postProcess |-> "postprocess"]

Command(id, stage, executable, ranks, seconds) ==
    [id |-> id, stage |-> stage, executable |-> executable, ranks |-> ranks, seconds |-> seconds]

\* A share of the wall time in tenths, and a second at least.
Timeout(task, tenths) == Larger(1, (task.wall * tenths) \div 10)

RegionsOf(b) == SetToSeq(DOMAIN b.manifest.regions)

\* Two commands for each region.
BlockMeshSteps(b, task) ==
    [i \in 1..2 * Len(RegionsOf(b)) |->
        IF i % 2 = 1
        THEN Command("block-mesh-" \o RegionsOf(b)[(i + 1) \div 2], "mesh", "blockMesh", 1, Timeout(task, 1))
        ELSE Command("check-mesh-" \o RegionsOf(b)[i \div 2], "check", "checkMesh", 1, Timeout(task, 1))]

ProvidedMeshSteps(b, task) ==
    [i \in 1..Len(RegionsOf(b)) |->
        Command("check-mesh-" \o RegionsOf(b)[i], "check", "checkMesh", 1, Timeout(task, 1))]

SolverRuns(d) == FactOr(d, "execution.run_solver", TRUE)

SerialSteps(d, task) ==
    IF SolverRuns(d) THEN <<Command("solve", "solve", Solver(d), 1, Timeout(task, 7))>> ELSE <<>>

ParallelSteps(d, task) ==
    IF SolverRuns(d)
    THEN <<Command("decompose", "decompose", "decomposePar", 1, Timeout(task, 1)),
           Command("solve", "solve", Solver(d), Ranks(d), Timeout(task, 6)),
           Command("reconstruct", "reconstruct", "reconstructPar", 1, Timeout(task, 1))>>
    ELSE <<>>

\* The contributions are ordered by the names of their extensions.
Contributed(b, d, task) ==
    (IF "block-mesh" \in d.extensions THEN BlockMeshSteps(b, task) ELSE <<>>)
    \o (IF "provided" \in d.extensions THEN ProvidedMeshSteps(b, task) ELSE <<>>)
    \o (IF "parallel" \in d.extensions THEN ParallelSteps(d, task) ELSE <<>>)
    \o (IF "serial" \in d.extensions THEN SerialSteps(d, task) ELSE <<>>)

Seconds(steps) == FoldLeft(LAMBDA total, step : total + step.seconds, 0, steps)
Ids(steps) == {steps[i].id : i \in DOMAIN steps}
Executables(steps) == {steps[i].executable : i \in DOMAIN steps}

\* What each extension needs of the machine before it contributes.
Supported(d, task, environment) ==
    /\ "block-mesh" \in d.extensions => {"blockMesh", "checkMesh"} \subseteq environment.commands
    /\ "provided" \in d.extensions => "checkMesh" \in environment.commands
    /\ "serial" \in d.extensions /\ SolverRuns(d) => Solver(d) \in environment.commands /\ Ranks(d) = 1
    /\ "parallel" \in d.extensions /\ SolverRuns(d) =>
        /\ {"decomposePar", "reconstructPar", Solver(d)} \subseteq environment.commands
        /\ Ranks(d) \in 2..task.ranks
        /\ environment.mpi

\* The paths the contributors want written.
ContributedPaths(d) ==
    (IF "block-mesh" \in d.extensions THEN {BlockMesh} ELSE {})
    \cup (IF "parallel" \in d.extensions /\ SolverRuns(d) THEN {Decompose} ELSE {})

Composable(b, d, task, environment) ==
    LET steps == Contributed(b, d, task) IN
    /\ d.identity = "current"
    /\ Supported(d, task, environment)
    /\ Cardinality(Ids(steps)) = Len(steps)
    /\ Seconds(steps) <= task.wall
    /\ steps # <<>>

\* What is left of the wall time is shared among the post-processing commands.
PostSteps(observed, task, left) ==
    [n \in 1..observed.posts |->
        Command("observe-" \o ToString(n), "postprocess", "postProcess", 1,
                Larger(1, left \div observed.posts))]

ObservationSteps(observed, d, task, steps) ==
    IF SolverRuns(d) THEN PostSteps(observed, task, task.wall - Seconds(steps)) ELSE <<>>

Compiled(b, d, s) ==
    LET steps == Contributed(b, d, s.task) IN steps \o ObservationSteps(s.observed, d, s.task, steps)

ValidPlan(b, steps, task, environment) ==
    /\ DOMAIN b.files \cap Unsafe = {}
    /\ \A path \in DOMAIN b.files : ~Overlaps(path, task)
    /\ Trait(b.files, "protected") = {}
    /\ Cardinality(Ids(steps)) = Len(steps)
    /\ Seconds(steps) <= task.wall
    /\ task.mesh = "provided" => \A i \in DOMAIN steps : steps[i].stage # "mesh"
    /\ Executables(steps) \subseteq environment.commands \ Launchers
    /\ \A i \in DOMAIN steps : steps[i].ranks <= task.ranks

Compiles(b, d, s) ==
    LET steps == Contributed(b, d, s.task)
        posts == ObservationSteps(s.observed, d, s.task, steps)
    IN  /\ s.environment.target = "same"
        /\ b.manifest.solver = Solver(d)
        /\ s.task.runs = SolverRuns(d)
        /\ Composable(b, d, s.task, s.environment)
        /\ ContributedPaths(d) \subseteq DOMAIN b.files
        /\ Len(posts) <= s.task.wall - Seconds(steps)
        /\ ValidPlan(b, steps \o posts, s.task, s.environment)

\* A utility is put in its own stage.  (The launcher a plan might name is also
\* unwrapped here, but no contributor names one and no plan with one compiles.)
Normalized(steps) ==
    [i \in DOMAIN steps |->
        IF steps[i].executable \in DOMAIN KnownStages
        THEN [steps[i] EXCEPT !.stage = KnownStages[steps[i].executable]] ELSE steps[i]]

-----------------------------------------------------------------------------
(* An attempt: the case written, inspected and scanned.                       *)

UserContent(task) == Content([k \in {} |-> <<>>], {"user"} \cup task.given)
MeshContent == Content([k \in {} |-> <<>>], {"mesh"})

Staged(task) == [path \in task.assets |-> UserContent(task)]

\* Files are written in the order the author gave them; a second spelling,
\* which comes later, replaces the first.
Written(files) ==
    [place \in {Canonical(path) : path \in DOMAIN files} |->
        files[CHOOSE path \in DOMAIN files :
                /\ Canonical(path) = place
                /\ path = place => \A other \in DOMAIN files : Canonical(other) = place => other = path]]

Materializable(files, task) ==
    /\ DOMAIN files \cap Unsafe = {}
    /\ \A path \in DOMAIN files : ~Overlaps(path, task)
    /\ Trait(files, "protected") = {}

Materialized(files, task) == Over(Written(files), Staged(task))

\* Files one by one: headers, delimiters, patches, and no shell entry points.
FilesInspected(files, b) ==
    /\ \A trait \in {"protected", "headerless", "unbalanced", "shell"} : Trait(files, trait) = {}
    /\ \A path \in DOMAIN b.files : Canonical(path) \in DOMAIN files
    /\ BlockMesh \in DOMAIN files /\ "unresolved" \notin files[BlockMesh].traits =>
        Trait(files, "uncovered") = {}
    /\ Control \in DOMAIN files
    /\ Values(files, Control, "application") # <<>>
    /\ "fieldMinMax" \notin files[Control].traits

\* The commands against the manifest.
Solves(steps) == {i \in DOMAIN steps : steps[i].stage = "solve"}
Stages(steps) == {steps[i].stage : i \in DOMAIN steps}
CommandsInspected(b, steps, task) ==
    /\ IF task.runs THEN /\ Solves(steps) # {}
                         /\ \A i \in Solves(steps) : steps[i].executable = b.manifest.solver
                    ELSE Solves(steps) = {}
    /\ \A i \in DOMAIN steps :
        LET name == steps[i].executable IN
        /\ name = b.manifest.solver => steps[i].stage = "solve"
        /\ name # b.manifest.solver /\ name \in DOMAIN KnownStages => steps[i].stage = KnownStages[name]
    /\ (\E i \in Solves(steps) : steps[i].ranks > 1) =>
        /\ Decompose \in DOMAIN b.files
        /\ "decompose" \in Stages(steps)
        /\ task.reconstructs => "reconstruct" \in Stages(steps)

\* The files against the manifest, and against its solver family.
RelationsInspected(files, b, steps, task) ==
    LET solver == b.manifest.solver IN
    /\ Finds(files, Control, "application", solver)
    /\ \A field \in b.manifest.fields :
        /\ field.placed
        /\ field.by \in {"author", "public_asset"} => field.path \in DOMAIN files
        /\ solver = "icoFoam" /\ field.by # "solver" => field.path \notin Trait(files, "dimensions")
    /\ BlockMesh \in DOMAIN files /\ Cardinality(DOMAIN b.manifest.regions) = 1 =>
        BlockMesh \notin Trait(files, "unlisted")
    /\ solver \in DOMAIN Contracts =>
        /\ Contracts[solver].files \subseteq DOMAIN files
        /\ Contracts[solver].fields \subseteq {field.name : field \in b.manifest.fields}
        /\ task.runs => "solve" \in Stages(steps)

Inspected(files, b, steps, s) ==
    /\ ValidPlan(b, steps, s.task, s.environment)
    /\ FilesInspected(files, b)
    /\ CommandsInspected(b, steps, s.task)
    /\ RelationsInspected(files, b, steps, s.task)

-----------------------------------------------------------------------------
(* Risk and policy.                                                           *)

Reviewed == {"blockMesh", "checkMesh", "decomposePar", "reconstructPar", "postProcess",
             "icoFoam", "pisoFoam"}

\* Findings in the files; a directive nobody knows is a finding, not a verdict.
\* Symbolic links and files that are no text are not looked at.
FileRisk(files) ==
    LET scanned == DOMAIN files \ Trait(files, "opaque")
    IN {"high" : path \in scanned \cap Trait(files, "dynamic")}
       \cup {"unknown" : path \in scanned \cap Trait(files, "odd")}
CommandRisk(steps) == {"unknown" : name \in Executables(steps) \ Reviewed}
Level(files, steps) ==
    LET found == FileRisk(files) \cup CommandRisk(steps) IN
    IF "high" \in found THEN "high" ELSE IF found # {} THEN "unknown" ELSE "low"

\* What a full launch of the sandbox comes to.
Probes(runtime) ==
    IF runtime.isolation = "trusted_host" THEN {"not_requested"}
    ELSE {"passed", "NAMESPACE_UNAVAILABLE", "SANDBOX_SETUP_FAILED"}
MechanismFailures == {"BWRAP_UNAVAILABLE", "NAMESPACE_UNAVAILABLE"}

OnHost(runtime, level) == level = "low" \/ runtime.optIn

Fallback(runtime, level, probe) ==
    probe \in MechanismFailures /\ runtime.isolation # "sandbox_required" /\ level = "low"

Backend(runtime, level, probe) ==
    IF runtime.isolation = "trusted_host" THEN IF OnHost(runtime, level) THEN "host" ELSE "none"
    ELSE IF probe = "passed" THEN "bubblewrap"
    ELSE IF Fallback(runtime, level, probe) THEN "host" ELSE "none"

-----------------------------------------------------------------------------
(* Repair.                                                                    *)

NotANumber == -1

\* The model's answer: the changes it declares and the files it rewrites.
Change(fact, old, new, operator) == [fact |-> fact, old |-> old, new |-> new, operator |-> operator]
Operation(operation, path, content) == [operation |-> operation, path |-> path, content |-> content]
Tampered(content, edit) ==
    Content(Over(edit.also, [k \in DOMAIN content.entries |->
                IF k \in DOMAIN edit.written THEN <<edit.written[k]>> ELSE content.entries[k]]),
            (content.traits \cup edit.adds) \ edit.drops)
Proposal(edit, d, b) ==
    [category |-> edit.category,
     changes  |-> {Change(fact, IF edit.stale THEN 7 ELSE FactOr(d, fact, 0), edit.new[fact], edit.operator) :
                    fact \in DOMAIN edit.new},
     operations |-> {Operation(edit.operation, path,
                        IF path \in DOMAIN b.files THEN Tampered(b.files[path], edit) ELSE SystemContent(path)) :
                        path \in edit.paths}]

\* Everything but the numerics and the execution is physical.
PhysicalFacts == {"time.end", "solver.family", "physics.turbulence"}
\* Mutant: the least value of a rule is not looked at.
PermitsAnySmaller(rule, change, d) ==
    /\ rule.fact = change.fact
    /\ change.operator \in {"replace", "scale"}
    /\ Knows(d, change.fact)
    /\ d.facts[change.fact] = change.old
    /\ change.new # NotANumber
    /\ change.new < change.old
    /\ change.new \in 0..rule.maximum

Permits(rule, change, d) ==
    /\ rule.fact = change.fact
    /\ change.operator \in {"replace", "scale"}
    /\ Knows(d, change.fact)
    /\ d.facts[change.fact] = change.old
    /\ change.new # NotANumber
    /\ change.new < change.old
    /\ change.new \in rule.minimum..rule.maximum

Authorized(p, d, task) ==
    /\ \A change \in p.changes : change.fact \notin PhysicalFacts
    /\ p.category = "numerical"
    /\ task.repairs
    /\ p.changes # {}
    /\ \A change \in p.changes : \E rule \in d.envelope : Permits(rule, change, d)

\* Every rule of the envelope is written in the control dictionary.
Keywords(p, d) == {rule.keyword : rule \in {r \in d.envelope : \E c \in p.changes : c.fact = r.fact}}
AllowedFiles(p) == IF p.changes = {} THEN {} ELSE {Control}

\* What is left of a file without the statements that may change.
Unambiguous(content, keywords) ==
    \A keyword \in keywords : keyword \in DOMAIN content.entries /\ Len(content.entries[keyword]) = 1
Remainder(content, keywords) ==
    [content EXCEPT !.entries = [k \in DOMAIN @ \ keywords |-> @[k]]]

SameRemainder(before, after, keywords) ==
    /\ Unambiguous(before, keywords)
    /\ Unambiguous(after, keywords)
    /\ Remainder(before, keywords) = Remainder(after, keywords)

Applicable(p, d, b, task) ==
    /\ {op.path : op \in p.operations} = AllowedFiles(p)
    /\ \A op \in p.operations :
        /\ op.operation = "replace"
        /\ op.path \in DOMAIN b.files
        /\ "protected" \notin op.content.traits
        /\ ~Overlaps(op.path, task)
        /\ SameRemainder(b.files[op.path], op.content, Keywords(p, d))

Derived(p, d) ==
    [d EXCEPT !.facts = [fact \in DOMAIN @ |->
        IF \E change \in p.changes : change.fact = fact
        THEN (CHOOSE change \in p.changes : change.fact = fact).new ELSE @[fact]]]

Revised(p, b) ==
    [b EXCEPT !.files = [path \in DOMAIN @ |->
        IF \E op \in p.operations : op.path = path
        THEN (CHOOSE op \in p.operations : op.path = path).content ELSE @[path]]]

\* Only what the solver itself shows to be unstable is repaired by itself.
Repairable(d) == d.envelope # {}

-----------------------------------------------------------------------------
(* Behaviour.                                                                 *)

NoBundle == [manifest |-> <<>>, files |-> <<>>]

Init ==
    /\ scenario \in Scenarios
    /\ design = [scenario.design EXCEPT !.envelope = DefaultEnvelope(scenario.design)]
    /\ bundle = NoBundle
    /\ plan = <<>>
    /\ case = <<>>
    /\ phase = "authoring"
    /\ status = "none"
    /\ attempt = 0
    /\ executed = <<>>

End(reason) ==
    /\ phase' = "ended"
    /\ status' = reason

\* The answer is bound, validated, given the system's files, checked against
\* the design and compiled; what fails names the status.
AuthorCase ==
    /\ phase = "authoring"
    /\ \E answer \in Bundles(scenario) :
        LET bound == BindFamilies(answer, design)
            whole == Injected(bound, scenario.observed)
            admitted == ValidBundle(bound, design, scenario.task) /\ Injectable(bound, scenario.observed)
        IN  \/ /\ ~(admitted /\ Conforms(whole, design, scenario.task))
               /\ End("CASE_DESIGN_CONTRADICTED")
               /\ UNCHANGED <<bundle, plan>>
            \/ /\ admitted
               /\ Conforms(whole, design, scenario.task)
               /\ ~Compiles(whole, design, scenario)
               /\ End("CASE_GENERATION_FAILED")
               /\ UNCHANGED <<bundle, plan>>
            \/ /\ admitted
               /\ Conforms(whole, design, scenario.task)
               /\ Compiles(whole, design, scenario)
               /\ bundle' = whole
               /\ plan' = Compiled(whole, design, scenario)
               /\ phase' = "compiled"
               /\ UNCHANGED status
    /\ UNCHANGED <<scenario, design, case, attempt, executed>>

\* The first plan is normalised and validated again, and may be all that was asked.
Verdict(steps) ==
    IF ~ValidPlan(bundle, steps, scenario.task, scenario.environment) THEN "PLAN_INVALID"
    ELSE IF scenario.planOnly THEN "PLAN_READY" ELSE "none"
AdmitPlan ==
    /\ phase = "compiled"
    /\ plan' = Normalized(plan)
    /\ status' = Verdict(plan')
    /\ phase' = IF status' = "none" THEN "ready" ELSE "ended"
    /\ UNCHANGED <<scenario, design, bundle, case, attempt, executed>>

\* A fresh directory: conformance of what will be written, the user's files,
\* the case, and its inspection.  A compiled bundle passes the first two again.
Refusal(written) ==
    IF ~Conforms(bundle, design, scenario.task) THEN "CASE_DESIGN_CONTRADICTED"
    ELSE IF ~Materializable(bundle.files, scenario.task) THEN "CASE_GENERATION_FAILED"
    ELSE IF ~Inspected(written, bundle, plan, scenario) THEN "FAILED" ELSE "none"
StartAttempt ==
    /\ phase = "ready"
    /\ attempt' = attempt + 1
    /\ LET written == Materialized(bundle.files, scenario.task) IN
        /\ status' = Refusal(written)
        /\ case' = IF status' \in {"FAILED", "none"} THEN written ELSE case
    /\ phase' = IF status' = "none" THEN "inspected" ELSE "ended"
    /\ UNCHANGED <<scenario, design, bundle, plan, executed>>

\* A mesh at hand, from the cache or the attempt before, spares its commands;
\* what is left to run is scanned, with the case as it is now, and decided on.
Execute ==
    /\ phase = "inspected"
    /\ \E probe \in Probes(scenario.runtime), spared \in SUBSET {"mesh"}, result \in {"completed", "failed", "unstable"} :
        LET steps == Restrict(plan, {i \in DOMAIN plan : plan[i].stage \notin spared})
            files == IF spared = {} THEN case ELSE Over([path \in {Points} |-> MeshContent], case)
            level == Level(files, steps)
            backend == Backend(scenario.runtime, level, probe)
        IN  /\ spared \subseteq Stages(plan)
            /\ case' = files
            /\ IF backend = "none"
               THEN /\ result = "failed"
                    /\ End("BLOCKED_ENVIRONMENT")
                    /\ UNCHANGED executed
               ELSE /\ executed' = Append(executed,
                            [design |-> design, bundle |-> bundle, plan |-> plan, case |-> files,
                             steps |-> steps])
                    /\ CASE result = "completed" -> End("COMPLETED")
                         [] result = "unstable" /\ attempt < MaxAttempts /\ Repairable(design) ->
                                phase' = "repairing" /\ UNCHANGED status
                         [] OTHER -> End("FAILED")
    /\ UNCHANGED <<scenario, design, bundle, plan, attempt>>

\* The proposal is authorised, applied and compiled, or the attempt's end stands.
Repair ==
    /\ phase = "repairing"
    /\ \E edit \in Edits :
        LET p == Proposal(edit, design, bundle)
            derived == Derived(p, design)
            revised == Revised(p, bundle)
            accepted == /\ Authorized(p, design, scenario.task)
                        /\ Applicable(p, design, bundle, scenario.task)
                        /\ Conforms(revised, derived, scenario.task)
                        /\ Compiles(revised, derived, scenario)
        IN  \/ /\ ~accepted
               /\ End("FAILED")
               /\ UNCHANGED <<design, bundle, plan>>
            \/ /\ accepted
               /\ design' = derived
               /\ bundle' = revised
               /\ plan' = Compiled(revised, derived, scenario)
               /\ phase' = "ready"
               /\ UNCHANGED status
    /\ UNCHANGED <<scenario, case, attempt, executed>>

Next == AuthorCase \/ AdmitPlan \/ StartAttempt \/ Execute \/ Repair

Spec == Init /\ [][Next]_vars

-----------------------------------------------------------------------------
(* Properties.                                                                *)

\* What the solver reads for a file: its text, with what it includes anywhere in it.
\* The last of two entries counts, and it has to be this one wherever that is.
Reads(files, path) ==
    {path} \cup {q \in {Local} \cap DOMAIN files : "includes local" \in files[path].traits}
Effective(files, path, keyword, value) ==
    LET values == {Values(files, q, keyword) : q \in Reads(files, path)} \ {<<>>}
    IN values # {} /\ \A v \in values : Last(v) = value

\* No file is spelled twice, none includes another of the author's, and no entry
\* the design fixes is written twice.
Spelled(run) == \A path \in DOMAIN run.bundle.files : Canonical(path) = path
Whole(run) == Trait(run.bundle.files, "includes local") = {}
WrittenOnce(run) ==
    \A path \in {Control, Physical} \cap DOMAIN run.bundle.files :
        \A keyword \in DOMAIN run.bundle.files[path].entries : Len(run.bundle.files[path].entries[keyword]) = 1

\* What runs is the frozen design, as the solver reads it and not only as the
\* conformance check did, in every attempt: the application, the numbers, the
\* material and the commands.  Two spellings of one file, an entry written twice,
\* and a file that another includes escape the checks (the README says how), and
\* are set apart here; a repaired keyword has been found to be written once.
FilesFollowDesign ==
    \A n \in DOMAIN executed :
        LET run == executed[n] IN
        /\ Spelled(run) /\ Whole(run) =>
            /\ WrittenOnce(run) =>
                /\ Effective(run.case, Control, "application", Solver(run.design))
                /\ \A fact \in DOMAIN Entry \cap DOMAIN run.design.facts :
                    Effective(run.case, Entry[fact][1], Entry[fact][2], run.design.facts[fact])
                /\ HasMaterials(run.design) =>
                    Effective(run.case, Physical, "nu", run.design.facts["materials.fluid.nu"].value)
            /\ \A fact \in DOMAIN Entry \cap DOMAIN run.design.facts :
                run.design.facts[fact] # executed[1].design.facts[fact] =>
                    Effective(run.case, Entry[fact][1], Entry[fact][2], run.design.facts[fact])
        /\ \A step \in Range(run.steps) :
            step.stage = "solve" => step.executable = Solver(run.design) /\ step.ranks = Ranks(run.design)

\* The user's files and the system's observation files are in the case as they
\* were given, under every spelling the author may use, and the system's include
\* survives every repair.  TaskSpec lets a mesh be staged beside a strategy that
\* makes another: that one may be replaced by a mesh of the cache.
OthersFilesAreIntact ==
    \A n \in DOMAIN executed :
        LET run == executed[n] IN
        /\ \A path \in scenario.task.assets :
            \/ run.case[path] = UserContent(scenario.task)
            \/ path = Points /\ scenario.task.mesh # "provided"
        /\ \A path \in SystemFiles(scenario.observed) : run.case[path] = SystemContent(path)
        /\ scenario.observed.functions /\ Spelled(run) => "include" \in run.case[Control].traits

\* Every case that runs holds the frozen design and the files that are not the
\* author's, as the three comparisons of the admission are meant to ensure.
CaseIsTheDesign == FilesFollowDesign /\ OthersFilesAreIntact

\* A repair changes numbers of the envelope and nothing else: from the first
\* attempt to any later one the plan, the manifest and every other file stay,
\* every changed number stays within the bounds frozen with the first design,
\* and from one attempt to the next none grows and one shrinks.
RepairIsConfined ==
    \A n \in 2..Len(executed) :
        LET first == executed[1]
            before == executed[n - 1]
            run == executed[n]
            named == {rule.keyword : rule \in first.design.envelope}
        IN  /\ run.plan = first.plan
            /\ [run.bundle EXCEPT !.files = <<>>] = [first.bundle EXCEPT !.files = <<>>]
            /\ DOMAIN run.bundle.files = DOMAIN first.bundle.files
            /\ \A path \in DOMAIN run.bundle.files :
                IF path = Control
                THEN Remainder(run.bundle.files[path], named) = Remainder(first.bundle.files[path], named)
                ELSE run.bundle.files[path] = first.bundle.files[path]
            /\ \A rule \in first.design.envelope :
                /\ run.design.facts[rule.fact] \in rule.minimum..rule.maximum
                /\ run.design.facts[rule.fact] <= before.design.facts[rule.fact]
            /\ \E rule \in first.design.envelope :
                run.design.facts[rule.fact] < before.design.facts[rule.fact]
            /\ \A fact \in DOMAIN run.design.facts \ {rule.fact : rule \in first.design.envelope} :
                run.design.facts[fact] = first.design.facts[fact]
=============================================================================
