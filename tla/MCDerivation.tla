---------------------------- MODULE MCDerivation ----------------------------
(***************************************************************************)
(* The bases, requests and replacement files that Derivation is checked    *)
(* on: two parameters p (two layers) and q, and two states s and t.        *)
(***************************************************************************)
EXTENDS Derivation, Samples

\* An artifact has the digest that a producer would declare.
Declared(artifact, onDisk) ==
  [role   |-> artifact.role,   path     |-> artifact.path,
   format |-> artifact.format, variable |-> artifact.variable,
   sha    |-> TreeAt(onDisk, Normal(artifact.path))]

WithDigests(p) ==
  [p EXCEPT !.artifacts = [i \in Indices(p) |-> Declared(p.artifacts[i], p.files)]]

Domains1 == <<[id |-> "a", count |-> 2, externalIds |-> None]>>

TheRegistryPart ==
  Part(Artifact("registry.fields", "registry", None),
       [kind |-> "registry", fields |-> <<Field("p", "parameter", "per_layer", 2),
                                         Field("q", "parameter", "scalar", None),
                                         Field("s", "state", "scalar", None),
                                         Field("t", "state", "scalar", None)>>])

Gauge(tag) == Table(ColumnTypes["gauge_long"], <<>>, tag)
Link(to) == [kind |-> "link", to |-> to]
ScalarsOf(ids) ==
  [kind |-> "scalars", values |-> [id \in ids |-> Value(IF id = "p" THEN 2 ELSE 0, 1)]]

ScalarsPart(ids, variable) == Part(Artifact("scalars", "scalars", variable), ScalarsOf(ids))
ScalarsParts ==
  {ScalarsPart({"p"}, None), ScalarsPart({"p", "q"}, None), ScalarsPart({"p"}, "q"),
   ScalarsPart({"p", "q"}, "s")}

TablePart(content) == Part(Artifact("attributes", "attributes", None), content)
TableParts ==
  {None} \cup {TablePart(AttributesOf(ids, 1)) : ids \in {{"q"}, {"s"}, {"q", "s"}}}

RasterPart(content, variable) == Part(Artifact("raster", "cog", variable), content)
RasterParts ==
  {None} \cup {RasterPart(Raster(bands, 1), variable) :
                 variable \in {"q", "s", "flow"}, bands \in {1, 2}}

GaugeParts == {None, Part(Artifact("gauges", "gauge_long", "s"), Gauge(1))}

PlainBases ==
  {WithDigests(Package(Domains1, <<>>, parts)) :
     parts \in {<<TheRegistryPart, scalars, table, raster, gauge>> :
                  scalars \in ScalarsParts, table \in TableParts,
                  raster \in RasterParts, gauge \in GaugeParts}}

At(path, part) == [part EXCEPT !.artifact.path = path]
Named(role, part) == [part EXCEPT !.artifact.role = role]

BaseOf(others) ==
  WithDigests(Package(Domains1, <<>>, <<TheRegistryPart, ScalarsPart({"p"}, None)>> \o others))

\* Two rasters at one path, spelled in one way or in two.
SharedPathBases ==
  {BaseOf(<<At(<<"shared">>, RasterPart(Raster(1, 1), first)),
            At(path, Named("raster2", RasterPart(Raster(1, 1), second)))>>) :
     first \in {"q", "s", None}, second \in {"q", "s", None},
     path \in {<<"shared">>, <<".", "shared">>}}

\* A store, before a raster in its directory and after it.
StorePart == Part(Artifact("store", "zarr", "s"), Store(1))
NestedPart == At(<<"store", "q">>, RasterPart(Raster(1, 1), "q"))
NestedBases == {BaseOf(<<StorePart, NestedPart>>), BaseOf(<<NestedPart, StorePart>>)}

\* A raster that is a link, and a store with a link in it.
LinkedBases ==
  {BaseOf(<<RasterPart(Link(Raster(1, 1)), "q")>>),
   WithDigests(
     [BaseOf(<<StorePart, RasterPart(Raster(1, 1), "q")>>)
        EXCEPT !.files = (<<"store", "more">> :> Link(Junk)) @@ @])}

\* Two artifacts of one role.
SameRoleBases ==
  {BaseOf(<<TablePart(AttributesOf({"s"}, 1)),
            At(<<"more">>, TablePart(AttributesOf({"q"}, 1)))>>)}

QuietBases ==
  {p \in PlainBases \cup SharedPathBases \cup NestedBases \cup LinkedBases \cup SameRoleBases :
     Conformant(p)}

\* A base without its artifacts, which no command accepts.
BadBase == BaseOf(<<RasterPart(Junk, "q")>>)

-----------------------------------------------------------------------------
Replace(id, file) == [id |-> id, file |-> <<file>>]
Replacements ==
  {<<>>, <<Replace("q", "f"), Replace("s", "g")>>, <<Replace("s", "f"), Replace("q", "g")>>,
   <<Replace("q", "f"), Replace("q", "g")>>}
    \cup {<<Replace(id, "f")>> : id \in {"p", "q", "s", "flow"}}

Set(id, layers) == [id |-> id, value |-> Value(layers, 2)]
Sets == {<<>>, <<Set("p", 2)>>, <<Set("p", 0)>>, <<Set("q", 0)>>, <<Set("s", 0)>>,
         <<Set("p", 2), Set("q", 0)>>}

QuietRequests == [replace : Replacements, set : Sets, allow : BOOLEAN]

ReplacementContents ==
  {Absent, Raster(1, 2), Raster(2, 2), Gauge(2), Link(Raster(1, 2)), Store(2)}
    \cup {AttributesOf(ids, 2) : ids \in {{"q"}, {"s"}, {"q", "s"}, {"p", "q"}, {"x", "q"}}}
    \cup {[AttributesOf({"q"}, 2) EXCEPT !.columns = [s |-> "float32"] @@ @]}

FilesOf(f, g) == <<"f">> :> f @@ <<"g">> :> g

QuietSources ==
  {FilesOf(f, g) : f \in ReplacementContents, g \in {Raster(1, 3), AttributesOf({"q", "s"}, 3)}}

Quiet == [bases |-> QuietBases \cup {BadBase}, requests |-> QuietRequests,
          sources |-> QuietSources, writes |-> 0]

-----------------------------------------------------------------------------
\* Others write to the one replacement file.
Base(scalars, others) ==
  WithDigests(Package(Domains1, <<>>, <<TheRegistryPart, scalars>> \o others))

EditedRequests ==
  {[replace |-> replace, set |-> set, allow |-> allow] :
     replace \in {<<Replace("q", "f")>>}, set \in {<<>>, <<Set("p", 2)>>}, allow \in BOOLEAN}

SourceEdited ==
  [bases    |-> {Base(ScalarsPart({"p"}, None), others) :
                   others \in {<<TablePart(AttributesOf({"q"}, 1))>>,
                               <<TablePart(AttributesOf({"q", "s"}, 1))>>,
                               <<RasterPart(Raster(1, 1), "q")>>}},
   requests |-> EditedRequests,
   sources  |-> {FilesOf(f, Junk) : f \in {AttributesOf({"q"}, 2), Raster(1, 2)}},
   writes   |-> 2]

MCShared == {<<"f">>}
MCEdits ==
  {Raster(1, 2), Raster(1, 3), Raster(2, 2), AttributesOf({"q"}, 3), AttributesOf({"q", "s"}, 2),
   Link(Raster(1, 2)), Absent}

-----------------------------------------------------------------------------
\* Others write to the base: to the registry, the scalars, the table, the
\* raster and the list of artifacts.
ContestedBase ==
  Base(ScalarsPart({"p"}, None),
       <<TablePart(AttributesOf({"q", "s"}, 1)), RasterPart(Raster(1, 1), "t")>>)

BaseEdited ==
  [bases    |-> {ContestedBase},
   requests |-> {[replace |-> replace, set |-> set, allow |-> allow] :
                   replace \in {<<>>, <<Replace("q", "f")>>, <<Replace("t", "g")>>},
                   set \in {<<>>, <<Set("p", 2)>>}, allow \in BOOLEAN},
   sources  |-> {FilesOf(AttributesOf({"q", "s"}, 2), Raster(1, 3))},
   writes   |-> 2]

MCFileEdits ==
  {[path |-> <<"registry.fields">>,
    content |-> [kind |-> "registry", fields |-> <<Field("p", "parameter", "per_layer", 2),
                                                  Field("q", "parameter", "scalar", None),
                                                  Field("s", "parameter", "scalar", None)>>]],
   [path |-> <<"registry.fields">>, content |-> Junk],
   [path |-> <<"scalars">>, content |-> ScalarsOf({"p", "q"})],
   [path |-> <<"scalars">>, content |-> [kind |-> "scalars", values |-> <<>>]],
   [path |-> <<"attributes">>, content |-> AttributesOf({"q"}, 2)],
   [path |-> <<"attributes">>, content |-> Junk],
   [path |-> <<"raster">>, content |-> Raster(1, 2)],
   [path |-> <<"raster">>, content |-> Link(Raster(1, 1))],
   [path |-> <<"raster">>, content |-> Raster(2, 1)]}

\* Without the raster, or with the variable of the raster in the scalars.
MCManifestEdits ==
  {SubSeq(ContestedBase.artifacts, 1, 3),
   [ContestedBase.artifacts EXCEPT ![4].variable = "q"],
   [ContestedBase.artifacts EXCEPT ![2].variable = "q"]}

-----------------------------------------------------------------------------
MCScenarios == {Quiet, SourceEdited, BaseEdited}

MCDottedPaths == {<<"a..b">>}

MCBytewise ==
  <<"attributes", "gauges", "p", "q", "raster", "raster2", "registry.fields", "s", "scalars",
    "store", "t">>
=============================================================================
