--------------------------- MODULE CaseAdmissionMC ---------------------------
(* Finite instances of CaseAdmission for TLC.                                *)
EXTENDS CaseAdmission

Number(value, unit) == [value |-> value, unit |-> unit]

-----------------------------------------------------------------------------
(* Designs.                                                                   *)

Cavity ==
    ("solver.family" :> "icoFoam") @@ ("physics.family" :> "incompressible")
    @@ ("physics.regime" :> "transient") @@ ("mesh.strategy" :> "blockMesh")
    @@ ("time.end" :> 5) @@ ("numerics.delta_t" :> 100) @@ ("numerics.max_co" :> 10)
    @@ ("materials.fluid.nu" :> Number(3, "m2/s")) @@ ("boundaries.wall.mesh_type" :> "wall")
    @@ ("regions.default.kind" :> "fluid")

PorousDuct ==
    ("solver.family" :> "pisoFoam") @@ ("mesh.strategy" :> "provided")
    @@ ("physics.turbulence" :> "laminar") @@ ("time.end" :> 5) @@ ("numerics.delta_t" :> 100)
    @@ ("materials.fluid.nu" :> Number(3, "m2/s"))
    @@ ("boundaries.inlet.velocity" :> Number(2, "m/s")) @@ ("regions.porous.role" :> "porous")
    @@ ("regions.porous.porosity_model" :> "DarcyForchheimer")
    @@ ("regions.porous.darcy_coefficient" :> Number(4, "1/m2"))
    @@ ("regions.porous.forchheimer_coefficient" :> Number(0, "1/m"))
    @@ ("regions.porous.coordinate_system" :> "axes")

Frozen(facts, extensions) ==
    [facts |-> facts, extensions |-> extensions, identity |-> "current", united |-> {}, envelope |-> {}]

CavityDesign == Frozen(Cavity, {"block-mesh", "serial"})
ParallelDesign == Frozen(("execution.mpi_ranks" :> 2) @@ Cavity, {"block-mesh", "parallel"})
CaseOnlyDesign == Frozen(("execution.run_solver" :> FALSE) @@ Cavity, {"block-mesh", "serial"})
OwnSolverDesign == Frozen(("solver.family" :> "ownFoam") @@ Cavity, {"block-mesh", "serial"})
PorousDesign == Frozen(PorousDuct, {"provided", "serial", "porous"})

Task(mesh, wall) ==
    [mesh |-> mesh, wall |-> wall, assets |-> IF mesh = "provided" THEN {Points} ELSE {},
     patches |-> IF mesh = "provided" THEN ("wall" :> "wall") ELSE <<>>,
     zones |-> IF mesh = "provided" THEN {"porous"} ELSE {},
     given |-> {}, runs |-> TRUE, repairs |-> TRUE, ranks |-> 2, reconstructs |-> TRUE]

Commands == {"blockMesh", "checkMesh", "decomposePar", "reconstructPar", "postProcess",
             "icoFoam", "pisoFoam", "ownFoam"}
Machine == [commands |-> Commands, mpi |-> TRUE, target |-> "same"]
Trusted == [isolation |-> "trusted_host", optIn |-> FALSE]
Runtimes == {Trusted, [Trusted EXCEPT !.optIn = TRUE], [isolation |-> "auto", optIn |-> FALSE],
             [isolation |-> "sandbox_required", optIn |-> TRUE]}

Scenario(task, d, runtime, functions, posts) ==
    [task |-> task, design |-> d, runtime |-> runtime, environment |-> Machine,
     observed |-> [functions |-> functions, posts |-> posts], planOnly |-> FALSE]

Base == Scenario(Task("blockMesh", 100), CavityDesign, Trusted, TRUE, 1)

SomeScenarios ==
    {Scenario(Task("blockMesh", 100), d, runtime, TRUE, 1) :
        d \in {CavityDesign, OwnSolverDesign}, runtime \in Runtimes}
    \cup {Scenario([Task("provided", 100) EXCEPT !.given = given], PorousDesign, runtime, functions, 0) :
        runtime \in Runtimes, functions \in BOOLEAN, given \in {{}, {"dynamic"}, {"dynamic", "opaque"}}}
    \* Too short for its steps, and just too short for a post-processing command.
    \cup {Scenario(Task("blockMesh", wall), ParallelDesign, Trusted, FALSE, posts) :
        wall \in {5, 100, 105}, posts \in {0, 1}}
    \cup {[Base EXCEPT !.design = CaseOnlyDesign, !.task.runs = FALSE],
          [Base EXCEPT !.design = CaseOnlyDesign],
          [Base EXCEPT !.planOnly = TRUE],
          [Base EXCEPT !.task.assets = {Points}],
          [Base EXCEPT !.task.repairs = FALSE],
          [Base EXCEPT !.design.united = {"numerics.delta_t", "numerics.max_co"}],
          [Base EXCEPT !.design.identity = "stale"],
          [Base EXCEPT !.environment.target = "other"],
          [Base EXCEPT !.environment.commands = @ \ {"postProcess"}]}

-----------------------------------------------------------------------------
(* Bundles: one that implements the design, and that one with a flaw or two.  *)

Empty == Content([k \in {} |-> <<>>], {})

GoodControl(d) ==
    Content(("application" :> <<Solver(d)>>) @@ ("endTime" :> <<d.facts["time.end"]>>)
            @@ ("deltaT" :> <<d.facts["numerics.delta_t"]>>)
            @@ (IF Knows(d, "numerics.max_co") THEN ("maxCo" :> <<d.facts["numerics.max_co"]>>) ELSE <<>>), {})

GoodFiles(d) ==
    (Control :> GoodControl(d)) @@ ("system/fvSchemes" :> Empty) @@ ("system/fvSolution" :> Empty)
    @@ (Physical :> Content(("nu" :> <<3>>), {})) @@ ("0/p" :> Empty)
    @@ (Velocity :> Content(("inlet" :> <<2>>), {}))
    @@ (IF d.facts["mesh.strategy"] = "blockMesh" THEN (BlockMesh :> Empty) ELSE <<>>)
    @@ (IF Ranks(d) > 1 THEN (Decompose :> Empty) ELSE <<>>)
    @@ (IF "porous" \in d.extensions
        THEN (Momentum :> Content(("simulationType" :> <<"laminar">>) @@ ("model" :> <<"Stokes">>), {}))
             @@ (Porous :> Content(("type" :> <<"DarcyForchheimer">>) @@ ("cellZone" :> <<"porous">>)
                    @@ ("coordinateSystem" :> <<"frame">>) @@ ("d" :> <<4>>) @@ ("f" :> <<0>>), {}))
             @@ (Coordinates :> Content(("frame" :> <<"axes">>), {}))
        ELSE <<>>)

Field(name) == [name |-> name, path |-> "0/" \o name, by |-> "author", placed |-> TRUE]
Good(s) ==
    [manifest |-> [solver |-> Solver(s.design), physics |-> "as written", mesh |-> "as written",
                   regime |-> "transient", turbulence |-> "laminar",
                   regions |-> ("default" :> "fluid"), patches |-> ("wall" :> "wall"),
                   fields |-> {Field("U"), Field("p")}],
     files |-> GoodFiles(s.design)]

\* Wrong manifests.
Manifests(g) ==
    {[g EXCEPT !.manifest.solver = "simpleFoam"], [g EXCEPT !.manifest.regime = "steady"],
     [g EXCEPT !.manifest.turbulence = "kEpsilon"], [g EXCEPT !.manifest.patches = ("wall" :> "patch")],
     [g EXCEPT !.manifest.regions = ("default" :> "solid")],
     [g EXCEPT !.manifest.regions = ("default" :> "fluid") @@ ("solid" :> "solid")],
     [g EXCEPT !.manifest.fields = {Field("U")}],
     [g EXCEPT !.manifest.fields = @ \cup {Field("T")}],
     [g EXCEPT !.manifest.fields = {Field("U"), [Field("p") EXCEPT !.placed = FALSE]}]}

\* Files too many or too few.
Extra(g) == {[g EXCEPT !.files = (path :> content) @@ @] :
                path \in {"../controlDict", "constant/./polyMesh/points", Points, Observations,
                          "./system/controlDict"},
                content \in {Empty, [g.files[Control] EXCEPT !.entries["endTime"] = <<9>>]}}
Fewer(g) == {[g EXCEPT !.files = Restrict(@, DOMAIN @ \ {path})] :
                path \in {Control, Physical, BlockMesh, Decompose, "0/p"} \cap DOMAIN g.files}

\* A file that another includes, and that has an entry the design fixes.
Included(g) ==
    {[g EXCEPT !.files = (Local :> Content((keyword :> <<value>>), {})) @@
                         [@ EXCEPT ![path].traits = {"includes local"}]] :
        <<path, keyword>> \in {<<Control, "endTime">>, <<Control, "deltaT">>, <<Physical, "nu">>},
        value \in {5, 9}}

\* Traits of one file.
Flawed(g) ==
    {[g EXCEPT !.files[path].traits = {trait}] :
        path \in {Control, Velocity},
        trait \in {"protected", "functions", "names observations", "headerless", "unbalanced",
                   "shell", "uncovered", "fieldMinMax", "dimensions", "dynamic", "odd"}}
    \cup (IF BlockMesh \in DOMAIN g.files
          THEN {[g EXCEPT !.files[BlockMesh].traits = {"unlisted"}],
                [g EXCEPT !.files[BlockMesh].traits = {"unresolved"}, !.files[Velocity].traits = {"uncovered"}]}
          ELSE {})

\* Entries that differ from the design, or are written twice.
Numbers(g) ==
    UNION {{[g EXCEPT !.files[path].entries[k] = <<@[1], 9>>], [g EXCEPT !.files[path].entries[k] = <<9, @[1]>>],
            [g EXCEPT !.files[path].entries[k] = <<9>>]} :
                <<path, k>> \in {<<Control, "endTime">>, <<Control, "deltaT">>, <<Physical, "nu">>,
                                 <<Velocity, "inlet">>}}
Words(g) ==
    {[g EXCEPT !.files[Control].entries["application"] = <<"simpleFoam">>],
     [g EXCEPT !.files[Control].entries["application"] = @ \o <<"simpleFoam">>]}
    \cup (IF Porous \in DOMAIN g.files
          THEN {[g EXCEPT !.files[Porous].entries["d"] = <<5>>],
                [g EXCEPT !.files[Porous].entries["cellZone"] = <<"other">>],
                [g EXCEPT !.files[Coordinates].entries["frame"] = <<"skewed">>],
                [g EXCEPT !.files[Coordinates].entries["frame"] = <<"other">>],
                [g EXCEPT !.files[Momentum].entries["model"] = <<"other">>]}
          ELSE {})

SomeBundles(s) ==
    LET g == Good(s) IN
    {g} \cup Manifests(g) \cup Extra(g) \cup Fewer(g) \cup Flawed(g) \cup Numbers(g) \cup Words(g) \cup Included(g)

-----------------------------------------------------------------------------
(* Repairs: declared and written as they should be, and otherwise.            *)

Edit(new, written) ==
    [category |-> "numerical", new |-> new, stale |-> FALSE, operator |-> "replace",
     written |-> written, also |-> <<>>, adds |-> {}, drops |-> {}, operation |-> "replace", paths |-> {Control}]

Smaller == Edit(("numerics.delta_t" :> 50), ("deltaT" :> 50))

SomeEdits ==
    {Edit(("numerics.delta_t" :> v), ("deltaT" :> w)) : v \in {-1, 0, 1, 50, 100, 200}, w \in {1, 50}}
    \cup {Edit(("numerics.max_co" :> v), ("maxCo" :> v)) : v \in {0, 1, 5}}
    \cup {Edit(("numerics.delta_t" :> 1) @@ ("numerics.max_co" :> 5), ("deltaT" :> 1) @@ ("maxCo" :> v)) : v \in {5, 10}}
    \cup {Edit(<<>>, ("deltaT" :> 1)), Edit(("time.end" :> 1), ("endTime" :> 1)),
          [Smaller EXCEPT !.category = "mechanical"], [Smaller EXCEPT !.stale = TRUE],
          [Smaller EXCEPT !.operator = "offset"], [Smaller EXCEPT !.also = ("endTime" :> <<1>>)],
          [Smaller EXCEPT !.also = ("deltaT" :> <<50, 100>>)], [Smaller EXCEPT !.drops = {"include"}],
          [Smaller EXCEPT !.adds = {"protected"}], [Smaller EXCEPT !.adds = {"dynamic"}],
          [Smaller EXCEPT !.operation = "add"], [Smaller EXCEPT !.paths = {}],
          [Smaller EXCEPT !.paths = {Control, Physical}], [Smaller EXCEPT !.paths = {Observations}]}
=============================================================================
