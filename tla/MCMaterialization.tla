-------------------------- MODULE MCMaterialization --------------------------
(***************************************************************************)
(* The bases that Materialization is checked on: two parameters, p (layers *)
(* or not) and q, a state s, and other artifacts at paths that meet the    *)
(* generated ones in every way.                                            *)
(***************************************************************************)
EXTENDS Materialization, Samples

\* An artifact has the digest that a producer would declare.
Declared(artifact, onDisk) ==
  [role   |-> artifact.role,   path     |-> artifact.path,
   format |-> artifact.format, variable |-> artifact.variable,
   sha    |-> TreeAt(onDisk, Normal(artifact.path))]

WithDigests(p, grid) ==
  [domains  |-> p.domains, mappings |-> p.mappings, files |-> p.files, grid |-> grid,
   artifacts |-> [i \in Indices(p) |-> Declared(p.artifacts[i], p.files)]]

Domains1 == <<[id |-> "a", count |-> 2, externalIds |-> None]>>

At(path, part) == [part EXCEPT !.artifact.path = path]

RegistryPart(layers) ==
  At(<<"registry">>,
     Part(Artifact("registry.fields", "registry", None),
       [kind |-> "registry",
        fields |-> <<IF layers = 0 THEN Field("p", "parameter", "scalar", None)
                                   ELSE Field("p", "parameter", "per_layer", layers),
                     Field("q", "parameter", "scalar", None),
                     Field("s", "state", "scalar", None)>>]))

ScalarsPart(ids, layers, variable) ==
  At(<<"scalars">>,
     Part(Artifact("scalars", "scalars", variable),
       [kind |-> "scalars",
        values |-> [id \in ids |-> Value(IF id = "p" THEN layers ELSE 0, 1)]]))

ScalarsParts(layers) ==
  {None, ScalarsPart({"p"}, layers, None), ScalarsPart({"p", "q"}, layers, None),
   ScalarsPart({"p"}, layers, "q"), ScalarsPart({"p", "q"}, layers, "s")}

\* One of the tables has a column for p that is not read, since it is no float64.
TablePart(content) == At(<<"table">>, Part(Artifact("attributes", "attributes", None), content))
TableParts ==
  {None, TablePart(AttributesOf({"q", "s"}, 1)),
   TablePart([AttributesOf({"q", "s"}, 1) EXCEPT !.columns = [p |-> "float32"] @@ @])}

\* A raster or a zarr directory at a path of its own, at a generated path, above
\* one or below one; or a raster with a generated role.
OtherPaths ==
  {<<"other">>, GeneratedPath("p"), <<"parameter">>, <<"parameter", "materialized">>,
   <<"parameter", "materialized", "p", "more">>}
OtherParts ==
  {At(path, Part(Artifact(role, content.kind, variable), content)) :
     path \in OtherPaths, content \in {Raster(1, 1), Store(1)}, variable \in {"s", "q"},
     role \in {"other", GeneratedRole("p")}}

Grid(nx, ny, cell, xmax, ymin, origin, epsg) ==
  [nx |-> nx, ny |-> ny, cell |-> cell, xmin |-> 1, xmax |-> xmax, ymin |-> ymin, ymax |-> 9,
   origin |-> origin, epsg |-> epsg]

GoodGrid == Grid(2, 3, 2, 5, 3, "upper_left", 3)
Grids ==
  {GoodGrid, Grid(1, 1, 1, 2, 8, "upper_left", 1),
   Grid(2, 3, 2, 5, 4, "upper_left", 3), Grid(2, 3, 2, 6, 3, "upper_left", 3),
   Grid(0, 3, 2, 1, 3, "upper_left", 3), Grid(2, 3, 2, 5, 3, "lower_left", 3),
   Grid(2, 3, 2, 5, 3, "upper_left", 4), Grid(2, 3, 2, 5, 3, "upper_left", 0)}

\* Every grid, without another artifact.
PlainBases ==
  {WithDigests(
     Package(Domains1, <<>>,
             <<RegistryPart(layers), scalars, table>>), grid) :
     scalars \in UNION {ScalarsParts(count) : count \in 0 .. 3},
     table \in TableParts, grid \in Grids, layers \in 0 .. 3}

\* One other artifact, before the scalars or after them.
BasesWith(others) ==
  {WithDigests(
     Package(Domains1, <<>>, parts), GoodGrid) :
     parts \in {<<RegistryPart(0), other[1], scalars, table, other[2]>> :
                  scalars \in ScalarsParts(0), table \in TableParts,
                  other \in (others \X {None}) \cup ({None} \X others)}}

\* A raster whose path is another spelling of a generated path.
RespelledPaths ==
  {<<".">> \o GeneratedPath("p"), <<"parameter", ".", "materialized", "p">>}
RespelledBases ==
  BasesWith({At(path, Part(Artifact("other", "cog", "s"), Raster(1, 1))) :
               path \in RespelledPaths})

\* A store with the scalars in its directory, before it or after it.
StorePart == At(<<"store">>, Part(Artifact("other", "zarr", "s"), Store(1)))
InnerScalars(role) ==
  [At(<<"store", "p">>, ScalarsPart({"p", "q"}, 0, None)) EXCEPT !.artifact.role = role]
NestedBases ==
  {WithDigests(Package(Domains1, <<>>, <<RegistryPart(0)>> \o parts), GoodGrid) :
     parts \in UNION {{<<StorePart, InnerScalars(role)>>, <<InnerScalars(role), StorePart>>} :
                         role \in {"a", "scalars", GeneratedRole("p")}}}

\* Another artifact with the role, the path and the digest of the scalars.
TwinBases ==
  BasesWith({[ScalarsPart({"p"}, 0, None) EXCEPT !.artifact.format = "registry"]})

Quiet ==
  [bases  |-> PlainBases \cup BasesWith(OtherParts) \cup RespelledBases \cup NestedBases
                \cup TwinBases,
   writes |-> 0]

-----------------------------------------------------------------------------
\* Others write to the base: to the registry, the scalars, the table, the
\* raster and the list of artifacts.
ContestedBase ==
  WithDigests(Package(Domains1, <<>>,
    <<RegistryPart(0), ScalarsPart({"p"}, 0, None),
      At(<<"table">>, Part(Artifact("attributes", "attributes", None), AttributesOf({"q"}, 1))),
      At(<<"other">>, Part(Artifact("other", "cog", "s"), Raster(1, 1)))>>), GoodGrid)

Contested == [bases |-> {ContestedBase}, writes |-> 3]

MCFileEdits ==
  {[path |-> <<"registry">>, content |-> RegistryPart(2).content],
   [path |-> <<"registry">>,
    content |-> [kind |-> "registry", fields |-> <<Field("p", "state", "scalar", None),
                                                  Field("q", "parameter", "scalar", None),
                                                  Field("s", "state", "scalar", None)>>]],
   [path |-> <<"scalars">>, content |-> ScalarsPart({"p"}, 2, None).content],
   [path |-> <<"scalars">>, content |-> ScalarsPart({"p", "q"}, 0, None).content],
   [path |-> <<"table">>, content |-> AttributesOf({"s"}, 2)],
   [path |-> <<"table">>, content |-> Junk],
   [path |-> <<"other">>, content |-> Raster(2, 2)],
   [path |-> <<"other">>, content |-> [kind |-> "link", to |-> Raster(1, 1)]]}

\* Without the raster, with p as the variable of the raster, or as it was.
MCManifestEdits ==
  {SubSeq(ContestedBase.artifacts, 1, 3), [ContestedBase.artifacts EXCEPT ![4].variable = "p"],
   ContestedBase.artifacts}

-----------------------------------------------------------------------------
MCScenarios == {Quiet, Contested}

MCDottedPaths == {<<"a..b">>}

MCBytewise ==
  <<"a", "attributes", "materialized.p", "materialized.q", "other", "p", "q", "registry.fields", "s",
    "scalars">>
=============================================================================
