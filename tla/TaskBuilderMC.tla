---------------------------- MODULE TaskBuilderMC ----------------------------
(* Finite instances of TaskBuilder for TLC.                                *)
EXTENDS TaskBuilder

\* Quotations: with everything, with one unit or another, without what matters.
Full == {"width", "m", "two_d", "known"}
Other == {"width", "mm", "three_d"}
Names == {"unknown", "blockMesh", "snappyHexMesh"}
Numbers == {"m", "2", "two"}
SomeRequests == {{Full, Other, Numbers}, {Full, Names}, {Other, Names}}

SomeInputs ==
    {[kind |-> "none", empty |-> FALSE], [kind |-> "surface", empty |-> FALSE],
     [kind |-> "gmsh", empty |-> FALSE], [kind |-> "polymesh", empty |-> FALSE],
     [kind |-> "polymesh", empty |-> TRUE]}

Extracts(value, source, evidence) ==
    [value |-> value, source |-> source, impact |-> "high", confirmed |-> TRUE, evidence |-> evidence]

Geometry(mode, unit, dim, roles) ==
    [mode |-> mode, unit |-> unit, dim |-> dim, roles |-> roles,
     asset |-> IF mode = "surface" THEN "surface" ELSE None]

Geometries ==
    {{}} \cup
    {{Extracts(Geometry("parametric", unit, dim, roles), "user_text", evidence)} :
        unit \in {None, "m", "mm"}, dim \in {None, "two_d"},
        roles \in {None, "known", "unknown", "malformed"}, evidence \in {Full, Names}}
    \cup
    {{Extracts(Geometry(mode, "m", "two_d", roles), source, evidence)} :
        mode \in {"parametric", "surface"}, roles \in {None, "known"},
        source \in {"user_text", "public_asset"}, evidence \in {Full, {}}}
    \cup {{Extracts(Geometry("parametric", "mm", "three_d", None), "user_text", Other)},
          {Extracts(Geometry("parametric", "m", "two_d", None), "user_text", Full),
           Extracts(Geometry("parametric", "mm", "three_d", None), "user_text", Other)}}

OwnUnits ==
    {{}, {Extracts("m", "user_text", Numbers)}, {Extracts("mm", "user_text", Other)},
     {Extracts("m", "user_text", Numbers), Extracts("mm", "user_text", Other)},
     {Extracts("mm", "user_confirmation", {})}}

Meshes ==
    {{}, {Extracts("blockMesh", "user_text", Names)}, {Extracts("snappyHexMesh", "user_text", Names)},
     {Extracts("provided", "system_default", {})}}

Resources == {{}, {Extracts("2", "user_text", Numbers)}, {Extracts("two", "user_text", Numbers)}}

AsksOf(path) == [path |-> path, kind |-> "confirmable", conflict |-> FALSE]

SomeReplies ==
    {[facts |-> [p \in {"geometry", "geometry.length_unit", "mesh", "resources"} |->
                   CASE p = "geometry" -> g [] p = "geometry.length_unit" -> u
                     [] p = "mesh" -> m [] OTHER -> r],
      asks |-> asks] :
        g \in Geometries, u \in OwnUnits, m \in Meshes, r \in {{}},
        asks \in {{}, {AsksOf("geometry.dimensionality")}}}
    \cup
    {[facts |-> [p \in {"geometry", "geometry.length_unit", "mesh", "resources"} |->
                   CASE p = "geometry" -> {Extracts(Geometry("parametric", "m", "two_d", None), "user_text", Full)}
                     [] p = "resources" -> r [] OTHER -> {}],
      asks |-> {}] : r \in Resources}

Sheet(geometry, unit, dim, mesh) ==
    [p \in {"geometry", "geometry.length_unit", "geometry.dimensionality", "geometry.roles", "mesh"} |->
       CASE p = "geometry" -> geometry [] p = "geometry.length_unit" -> unit
         [] p = "geometry.dimensionality" -> dim [] p = "geometry.roles" -> "known" [] OTHER -> mesh]

SomeSheets ==
    {Sheet(g, u, d, m) :
       g \in {Geometry("parametric", "mm", "two_d", None), Geometry("surface", "m", "two_d", None)},
       u \in {"m", "mm"}, d \in {"two_d", "three_d"}, m \in {"blockMesh", "snappyHexMesh"}}

\* A draft replaces all that was there, and one that fails leaves all that was
\* there: one draft is followed.
OneDraft == draft # NoDraft => job' # "draft"
==============================================================================
