------------------------------ MODULE TaskBuilder ------------------------------
(***************************************************************************)
(* From a request in natural language to a TaskSpec: the facts a model      *)
(* extracts, the authority they are given, the inputs that declared assets  *)
(* fix, the questions that stay open, the answers of the user in the        *)
(* desktop, the review of the draft and its compilation.                    *)
(*                                                                         *)
(* A phrase is a piece of the request that can be quoted, as the set of the *)
(* values _text_has_value finds in it; a request is the set of its phrases. *)
(* Evidence that is no phrase of the request does not occur in it.  Patch   *)
(* and region roles are one component; `unknown` roles name what the mesh   *)
(* does not have.                                                          *)
(***************************************************************************)
EXTENDS Integers, FiniteSets

CONSTANTS
    Requests,  \* the requests a user may write
    Inputs,    \* the declared assets: kind and, of a mesh, whether it has an empty patch
    Replies,   \* what the extraction model may answer
    Sheets     \* what a user may answer, each a value for every path

None == "none"
\* GeometryInput, and the absence of one
NoGeometry == [mode |-> None, unit |-> None, dim |-> None, roles |-> None, asset |-> None]

\* A geometry as a model or a user may give it: only its roles can be malformed.
IsGeometry(g) ==
    /\ g = [mode |-> g.mode, unit |-> g.unit, dim |-> g.dim, roles |-> g.roles, asset |-> g.asset]
    /\ "malformed" \notin {g.unit, g.dim}

\* A fact as the schema of the extraction admits it
IsExtract(path, f) ==
    /\ f = [value |-> f.value, source |-> f.source, impact |-> f.impact,
            confirmed |-> f.confirmed, evidence |-> f.evidence]
    /\ IsFiniteSet(f.evidence)
    /\ path = "geometry" => IsGeometry(f.value)
    /\ path = "mesh" => f.value # None

ASSUME TaskBuilderAssumption ==
    /\ \A request \in Requests : \A phrase \in request : None \notin phrase
    /\ \A input \in Inputs :
          input = [kind |-> input.kind, empty |-> input.empty] /\ input.empty \in BOOLEAN
    /\ \A reply \in Replies :
          /\ {"geometry", "geometry.length_unit", "mesh"} \subseteq DOMAIN reply.facts
          /\ \A path \in DOMAIN reply.facts : \A f \in reply.facts[path] : IsExtract(path, f)
    /\ \A sheet \in Sheets : IsGeometry(sheet["geometry"]) /\ sheet["mesh"] # None

NoInput == [kind |-> "none", empty |-> FALSE]
NoReply == [facts |-> <<>>, asks |-> {}]
NoDraft == [facts |-> <<>>, asks |-> {}, request |-> {}, input |-> NoInput, reply |-> NoReply]
NoTask == [geometry |-> NoGeometry, facts |-> <<>>]

VARIABLES
    job,         \* the process of the desktop: none, draft, validate_draft or compile
    saved,       \* request-NNN.md and the assets of the running job
    draft,       \* TaskDraft in the editor, with the request and the reply it comes from
    canCompile,  \* MainWindow._draft_can_compile
    asking,      \* MainWindow._draft_needs_confirmation
    answers,     \* path -> value the user gave for this draft
    task         \* TaskSpec in the editor

builderVars == <<job, saved, draft, canCompile, asking, answers, task>>

NoRequest == [request |-> {}, input |-> NoInput]

BuilderInit ==
    /\ job = "none"
    /\ saved = NoRequest
    /\ draft = NoDraft
    /\ canCompile = FALSE
    /\ asking = FALSE
    /\ answers = <<>>
    /\ task = NoTask

Has(facts, path) == path \in DOMAIN facts

-------------------------------------------------------------------------------
(* Authority: reconcile_extracted_facts and the projections *)

\* What _user_fact_value_supported looks for in the quotation.
PartsOf(geometry) ==
    ({geometry.unit, geometry.dim, geometry.roles} \ {None, "malformed"})
       \cup (IF geometry.mode = "parametric" THEN {"width"} ELSE {})

Supported(path, value, phrase) ==
    IF path = "geometry"
    THEN PartsOf(value) # {} /\ PartsOf(value) \subseteq phrase
    ELSE value \in phrase

\* _normalized_extracted_facts: repeats collapse, a conflict is an inference
\* with no evidence.
Single(same) ==
    LET one == CHOOSE f \in same : \A g \in same : Cardinality(f.evidence) <= Cardinality(g.evidence)
    IN IF \A f, g \in same : <<f.value, f.source, f.impact>> = <<g.value, g.source, g.impact>>
       THEN one
       ELSE [one EXCEPT !.source = "model_inference", !.evidence = {}, !.confirmed = FALSE]

\* Mutant: the label of the model is enough.
LabelOf(f, request) == IF f.source = "user_text" THEN "user_text" ELSE "model_inference"

\* The model cannot confirm for the user, set defaults or mint asset facts.
SourceOf(f, request) ==
    IF f.source = "user_text" /\ f.evidence \in request THEN "user_text" ELSE "model_inference"

Reconciled(path, f, request) ==
    LET source == SourceOf(f, request)
    IN [value |-> f.value, source |-> source, evidence |-> f.evidence,
        confirmed |-> IF source = "user_text" THEN Supported(path, f.value, f.evidence)
                      ELSE f.confirmed /\ f.impact = "low"]

Extracted(reply, request) ==
    [path \in {p \in DOMAIN reply.facts : reply.facts[p] # {}} |->
        Reconciled(path, Single(reply.facts[path]), request)]

\* compilable_fact_map
Authoritative(facts) ==
    {p \in DOMAIN facts :
        facts[p].confirmed /\ facts[p].source \in {"user_text", "user_confirmation", "public_asset"}}

\* effective_geometry_value: confirmed components replace those of the geometry.
Effective(facts) ==
    LET known == Authoritative(facts)
        Of(path, inside) == IF path \in known THEN facts[path].value ELSE inside
    IN IF "geometry" \notin known THEN NoGeometry
       ELSE LET whole == facts["geometry"].value
            IN [mode |-> whole.mode, asset |-> whole.asset,
                unit |-> Of("geometry.length_unit", whole.unit),
                dim |-> Of("geometry.dimensionality", whole.dim),
                roles |-> Of("geometry.roles", whole.roles)]

Fact(value, source, evidence) ==
    [value |-> value, source |-> source, evidence |-> evidence, confirmed |-> TRUE]

AssetFact(value) == Fact(value, "public_asset", {})

\* The geometry that a declared asset fixes
AssetGeometry(kind, dim) ==
    [mode |-> kind, unit |-> None, dim |-> dim, roles |-> None, asset |-> kind]

Question(path, conflict) == [path |-> path, kind |-> "blocking", conflict |-> conflict]

Only(condition, question) == IF condition THEN {question} ELSE {}

Kept(facts, gone) == [p \in DOMAIN facts \ gone |-> facts[p]]

Join(f, g) == [p \in DOMAIN f \cup DOMAIN g |-> IF p \in DOMAIN g THEN g[p] ELSE f[p]]

One(path, fact) == [p \in {path} |-> fact]

-------------------------------------------------------------------------------
(* reconcile_provided_mesh *)

\* The geometry the model describes, and what a phrase of the user says of it.
Previous(facts) == IF Has(facts, "geometry") THEN facts["geometry"].value ELSE NoGeometry

Quoted(facts, request) == Has(facts, "geometry") /\ facts["geometry"].evidence \in request

Says(facts, request, value) ==
    Quoted(facts, request) /\ value # None /\ value \in facts["geometry"].evidence

\* The unit as a fact of its own, and the unit inside the geometry.
OwnUnit(facts) ==
    IF Has(facts, "geometry.length_unit") /\ "geometry.length_unit" \in Authoritative(facts)
    THEN facts["geometry.length_unit"].value ELSE None

InnerUnit(facts, request) ==
    IF Says(facts, request, Previous(facts).unit) THEN Previous(facts).unit ELSE None

UnitConflict(facts, request) ==
    /\ None \notin {OwnUnit(facts), InnerUnit(facts, request)}
    /\ OwnUnit(facts) # InnerUnit(facts, request)

\* What is taken out of the geometry is the user's, as it is quoted.
FromGeometry(facts, value) == Fact(value, "user_text", facts["geometry"].evidence)

\* The unit as a fact of its own comes first.
FirstUnit(facts, request) ==
    IF OwnUnit(facts) # None THEN Kept(facts, DOMAIN facts \ {"geometry.length_unit"})
    ELSE IF InnerUnit(facts, request) = None THEN <<>>
    ELSE One("geometry.length_unit", FromGeometry(facts, InnerUnit(facts, request)))

UnitFact(facts, request) ==
    IF UnitConflict(facts, request) THEN <<>> ELSE FirstUnit(facts, request)

DimFact(facts, request) ==
    IF Says(facts, request, Previous(facts).dim)
    THEN One("geometry.dimensionality", FromGeometry(facts, Previous(facts).dim))
    ELSE <<>>

\* Roles are taken if they are quoted and every name is one of the mesh.
RolesFact(facts, request) ==
    IF Previous(facts).roles = "known" /\ Says(facts, request, "known")
    THEN One("geometry.roles", FromGeometry(facts, "known"))
    ELSE <<>>

WrongRoles(facts, request) ==
    Quoted(facts, request) /\ Previous(facts).roles # None /\ RolesFact(facts, request) = <<>>

MeshGeometry(empty) ==
    AssetGeometry("openfoam_mesh", IF empty THEN "two_d" ELSE None)

ProvidedFacts(facts, request, empty) ==
    LET other == Kept(facts, {"geometry.length_unit"})
        minted == Join(One("geometry", AssetFact(MeshGeometry(empty))), One("mesh", AssetFact("provided")))
    IN Join(Join(Join(Join(other, UnitFact(facts, request)), DimFact(facts, request)),
                 RolesFact(facts, request)), minted)

\* The questions of the model are replaced.
ProvidedAsks(facts, request, empty) ==
    LET own == IF Says(facts, request, Previous(facts).dim) THEN Previous(facts).dim ELSE None
    IN Only(WrongRoles(facts, request), Question("geometry.roles", TRUE))
       \cup Only(empty /\ own \notin {None, "two_d"}, Question("geometry.dimensionality", TRUE))
       \cup Only(UnitConflict(facts, request), Question("geometry.length_unit", TRUE))
       \cup Only(None = OwnUnit(facts) /\ None = InnerUnit(facts, request),
               Question("geometry.length_unit", FALSE))
       \cup Only(~empty /\ own = None, Question("geometry.dimensionality", FALSE))

\* A unit or a dimension taken out of the geometry keeps its source, and TaskFact
\* refuses a confirmed inference: the command ends in an error.
Refused(facts, request) ==
    /\ Has(facts, "geometry") /\ facts["geometry"].source # "user_text"
    /\ \/ Says(facts, request, Previous(facts).dim)
       \/ OwnUnit(facts) = None /\ InnerUnit(facts, request) # None

-------------------------------------------------------------------------------
(* reconcile_public_geometry *)

Components == {"length_unit", "dimensionality", "roles"}
PathOf == [length_unit |-> "geometry.length_unit", dimensionality |-> "geometry.dimensionality",
           roles |-> "geometry.roles"]
ValueOf(geometry) ==
    [length_unit |-> geometry.unit, dimensionality |-> geometry.dim, roles |-> geometry.roles]

PublicFacts(facts, request, kind) ==
    LET inner == ValueOf(Previous(facts))
        taken == {c \in Components : Says(facts, request, inner[c])}
        components == [p \in {PathOf[c] : c \in taken} |->
                         FromGeometry(facts, inner[CHOOSE c \in taken : PathOf[c] = p])]
    IN Join(Join(facts, components), One("geometry", AssetFact(AssetGeometry(kind, None))))

\* The strategy the user states, if he does, and whether the file allows it.
OwnMesh(facts) == IF "mesh" \in Authoritative(facts) THEN facts["mesh"].value ELSE None

MeshConflict(facts, kind) ==
    OwnMesh(facts) \notin ({None, "auto", "gmsh"} \cup IF kind = "surface" THEN {"snappyHexMesh"} ELSE {})

PublicMesh(facts, minted, kind) ==
    IF kind = "gmsh" /\ ~MeshConflict(facts, kind) THEN Join(minted, One("mesh", AssetFact("gmsh")))
    ELSE IF kind = "surface" /\ OwnMesh(facts) = None THEN Kept(minted, {"mesh"})
    ELSE minted

PublicAsks(facts, request, kind) ==
    LET inner == ValueOf(Previous(facts))
    IN {Question(PathOf[c], TRUE) :
          c \in {d \in Components : inner[d] # None /\ ~Says(facts, request, inner[d])}}
       \cup Only(MeshConflict(facts, kind), Question("mesh", TRUE))

-------------------------------------------------------------------------------
(* rebuild_input_questions, validate_task_draft *)

\* GeometryInput, once a unit is there
WellFormed(geometry) ==
    /\ geometry.dim # None
    /\ geometry.roles # "malformed"
    /\ geometry.mode # "parametric" => geometry.asset = geometry.mode

Declared(input) ==
    IF input.kind = "polymesh" THEN {"openfoam_mesh"}
    ELSE IF input.kind = "none" THEN {} ELSE {input.kind}

Undeclared(geometry, input) == geometry.asset # None /\ geometry.asset \notin Declared(input)

Rebuilt(facts, asks, input) ==
    LET geometry == Effective(facts)
        known == geometry # NoGeometry
        asked == {q.path : q \in asks}
        invalid == \/ Undeclared(geometry, input)
                   \/ (None \notin {geometry.unit, geometry.dim} /\ ~WellFormed(geometry))
        new == Only(known /\ geometry.unit = None, Question("geometry.length_unit", FALSE))
               \cup Only(known /\ geometry.dim = None, Question("geometry.dimensionality", FALSE))
               \cup Only(known /\ invalid, Question("geometry", FALSE))
               \cup Only("mesh" \in Authoritative(facts) /\ facts["mesh"].value = "malformed",
                       Question("mesh", FALSE))
        Settled(q) == /\ ~q.conflict
                      /\ \/ q.path = "geometry.length_unit" /\ geometry.unit # None
                         \/ q.path = "geometry.dimensionality" /\ geometry.dim # None
                         \/ q.path = "geometry" /\ known
    IN IF ~known /\ "geometry" \notin asked THEN {Question("geometry", FALSE)}
       ELSE {q \in asks : ~Settled(q)} \cup {q \in new : q.path \notin asked}

Compatible(mode, mesh) ==
    mesh \in IF mode = "openfoam_mesh" THEN {"provided"}
             ELSE IF mode = "surface" THEN {"auto", "snappyHexMesh", "gmsh", "provided"}
             ELSE IF mode = "gmsh" THEN {"auto", "gmsh"}
             ELSE {"auto", "blockMesh", "gmsh"}

\* Mutant: what is still asked is left to the questions.
IssuesOfFacts(facts, asks, input) ==
    LET geometry == Effective(facts)
        mesh == IF "mesh" \in Authoritative(facts) THEN facts["mesh"].value ELSE None
    IN Only(geometry = NoGeometry, "geometry")
       \cup Only(geometry # NoGeometry /\ geometry.unit = None, "geometry.length_unit")
       \cup Only(geometry.unit # None /\ ~WellFormed(geometry), "geometry")
       \cup Only(geometry.mode = "openfoam_mesh" /\ mesh = None, "mesh")
       \cup Only(mesh # None /\ geometry # NoGeometry /\ ~Compatible(geometry.mode, mesh), "mesh")
       \cup Only(mesh = "malformed" \/ (mesh = "provided" /\ input.kind # "polymesh"), "mesh")
       \cup Only(Undeclared(geometry, input), "geometry.assets")

Issues(facts, asks, input) ==
    LET geometry == Effective(facts)
    IN IssuesOfFacts(facts, asks, input)
       \cup {q.path : q \in {a \in asks :
               ~(a.path = "geometry.length_unit" /\ geometry.unit = None)
               /\ ~(a.path = "geometry" /\ geometry = NoGeometry)}}

-------------------------------------------------------------------------------
(* extract_task_draft *)

Recognized(input) == input.kind \in {"surface", "gmsh"}

DraftFacts(facts, request, input) ==
    IF input.kind = "polymesh" THEN ProvidedFacts(facts, request, input.empty)
    ELSE IF Recognized(input) THEN PublicMesh(facts, PublicFacts(facts, request, input.kind), input.kind)
    ELSE facts

\* Without a mesh the model may ask for three paths only.
DraftAsks(facts, reply, request, input) ==
    IF input.kind = "polymesh" THEN ProvidedAsks(facts, request, input.empty)
    ELSE IF Recognized(input) THEN PublicAsks(facts, request, input.kind)
    ELSE {q \in reply.asks :
            q.path \in {"geometry", "geometry.dimensionality", "geometry.length_unit"}}

Drafted(reply, request, input) ==
    LET extracted == Extracted(reply, request)
        facts == DraftFacts(extracted, request, input)
    IN [facts |-> facts,
        asks |-> Rebuilt(facts, DraftAsks(extracted, reply, request, input), input),
        request |-> request, input |-> input, reply |-> reply]

-------------------------------------------------------------------------------
(* The desktop and the commands *)

\* Only the commands declare assets; a draft of theirs has no desktop to answer in.
OfCommand(d) == d.input.kind # "none"

Load(d) ==
    /\ draft' = d
    /\ canCompile' = (Issues(d.facts, d.asks, d.input) = {})
    /\ asking' = (d.asks # {})

GenerateDraft ==
    /\ job = "none"
    /\ \E request \in Requests, input \in Inputs :
          saved' = [request |-> request, input |-> input]
    /\ job' = "draft"
    /\ UNCHANGED <<draft, canCompile, asking, answers, task>>

\* A command fails or is cancelled: what the editors hold stays.
JobFails ==
    /\ job # "none"
    /\ job' = "none"
    /\ saved' = NoRequest
    /\ UNCHANGED <<draft, canCompile, asking, answers, task>>

DraftEnds ==
    /\ job = "draft"
    /\ \E reply \in Replies :
          /\ saved.input.kind = "polymesh" =>
                ~Refused(Extracted(reply, saved.request), saved.request)
          /\ Load(Drafted(reply, saved.request, saved.input))
    /\ answers' = <<>>
    /\ job' = "none"
    /\ saved' = NoRequest
    /\ UNCHANGED task

Paths(d) == {q.path : q \in d.asks}

\* confirm_task_draft: each question that is answered becomes a fact of the user,
\* and none is left.
Answered(d, sheet) ==
    [facts |-> Join(d.facts, [p \in Paths(d) |-> Fact(sheet[p], "user_confirmation", {})]),
     asks |-> {}, request |-> d.request, input |-> d.input, reply |-> d.reply]

\* Every question is answered; a candidate may stand.
Confirm ==
    /\ job = "none" /\ asking /\ ~OfCommand(draft)
    /\ \E sheet \in Sheets :
          /\ answers' = Join(answers, [p \in Paths(draft) |-> sheet[p]])
          /\ Load(Answered(draft, sheet))
    /\ UNCHANGED <<job, saved, task>>

ValidateDraft ==
    /\ job = "none" /\ draft # NoDraft
    /\ canCompile \/ OfCommand(draft)
    /\ job' = "validate_draft"
    /\ UNCHANGED <<saved, draft, canCompile, asking, answers, task>>

ValidateEnds ==
    /\ job = "validate_draft"
    /\ job' = IF Issues(draft.facts, draft.asks, draft.input) = {} THEN "compile" ELSE "none"
    /\ UNCHANGED <<saved, draft, canCompile, asking, answers, task>>

\* TaskSpec, and the resource values that must be integers
Accepts(facts, input) ==
    LET geometry == Effective(facts)
        mesh == IF "mesh" \in Authoritative(facts) THEN facts["mesh"].value ELSE "auto"
    IN /\ WellFormed(geometry) /\ geometry.unit # None
       /\ ~Undeclared(geometry, input)
       /\ Compatible(geometry.mode, mesh)
       /\ mesh = "provided" => input.kind = "polymesh"
       /\ "resources" \in Authoritative(facts) => facts["resources"].value = "2"

\* compile_task_draft
Compiled(d) ==
    [geometry |-> Effective(d.facts), facts |-> Kept(d.facts, DOMAIN d.facts \ Authoritative(d.facts)),
     of |-> d, answers |-> answers]

CompileEnds ==
    /\ job = "compile"
    /\ task' = IF Accepts(draft.facts, draft.input) THEN Compiled(draft) ELSE task
    /\ job' = "none"
    /\ UNCHANGED <<saved, draft, canCompile, asking, answers>>

BuilderNext ==
    \/ GenerateDraft
    \/ JobFails
    \/ DraftEnds
    \/ Confirm
    \/ ValidateDraft
    \/ ValidateEnds
    \/ CompileEnds

BuilderSpec == BuilderInit /\ [][BuilderNext]_builderVars

-------------------------------------------------------------------------------
(* Properties *)

\* The authority a value of the task can have: a phrase of the request, an answer
\* of the user, or a declared asset.
Quotable(path, value, request) == \E phrase \in request : Supported(path, value, phrase)

HasAuthority(path, value, t) ==
    \/ Quotable(path, value, t.of.request)
    \/ path \in DOMAIN t.answers /\ t.answers[path] = value
    \/ path = "geometry" /\ value.mode \in Declared(t.of.input)
    \/ path = "mesh" /\ value = (IF t.of.input.kind = "gmsh" THEN "gmsh" ELSE "provided")

\* Nothing the model made up is in a TaskSpec: every fact, and every component of
\* the geometry they make together, is quoted from the request, answered by the
\* user, or fixed by a declared asset.
NothingIsInvented ==
    task # NoTask =>
       /\ \A p \in DOMAIN task.facts : HasAuthority(p, task.facts[p].value, task)
       /\ LET inner == ValueOf(task.geometry)
          IN \A c \in Components :
                \/ inner[c] = None
                \/ HasAuthority(PathOf[c], inner[c], task)
                \/ \E p \in {"geometry"} \cap DOMAIN task.answers :
                      ValueOf(task.answers[p])[c] = inner[c]
                \/ c = "dimensionality" /\ task.of.input = [kind |-> "polymesh", empty |-> TRUE]

\* What the model says of a path in one fact, in words of the request
Told(t, path) ==
    {f \in t.of.reply.facts[path] : t.of.reply.facts[path] = {f} /\ f.evidence \in t.of.request}

\* With a native mesh, a request that, as the one fact of the model about the
\* geometry and the one about its unit quote it, contradicts itself or the mesh is
\* never compiled: two units, a dimension the empty patches exclude, or roles of
\* patches the mesh does not have.
ContradictionBlocks ==
    (task # NoTask /\ task.of.input.kind = "polymesh") =>
       LET described == Told(task, "geometry")
           own == {f \in Told(task, "geometry.length_unit") : f.source = "user_text"}
           units == {f.value : f \in {g \in own : g.value \in g.evidence}}
                    \cup {f.value.unit : f \in {g \in described : g.value.unit \in g.evidence}}
           dims == {f.value.dim : f \in {g \in described : g.value.dim \in g.evidence}}
       IN /\ \A u, v \in units : u = v
          /\ task.of.input.empty => dims \subseteq {"two_d"}
          /\ \A f \in described : f.value.roles \in {None, "known"}

\* With a surface or a Gmsh file, a strategy that the one fact about it quotes and
\* that the file does not allow is never compiled, nor dropped for one it does.
StrategyBlocks ==
    (task # NoTask /\ Recognized(task.of.input)) =>
       \A f \in Told(task, "mesh") :
          f.source = "user_text" /\ f.value \in f.evidence =>
             f.value \in {"auto", "gmsh"} \cup
                IF task.of.input.kind = "surface" THEN {"snappyHexMesh"} ELSE {}

\* A draft that the review admits is accepted by the compiler, but for resources
\* that are no integers.
ReviewSuffices ==
    job = "compile" =>
       \/ Accepts(draft.facts, draft.input)
       \/ /\ "resources" \in Authoritative(draft.facts)
          /\ draft.facts["resources"].value # "2"

\* The review admits no draft that the compiler refuses.  Of what is told once and
\* quoted, it admits nothing that contradicts a native mesh, or itself about one, and
\* no strategy that the file given does not allow.  Two facts about one path that
\* differ, and without a native mesh a unit told apart from the geometry's own, are
\* contradictions it does admit.
ReviewIsSound == ContradictionBlocks /\ StrategyBlocks /\ ReviewSuffices
===============================================================================
