---------------------------- MODULE MCValidation ----------------------------
(***************************************************************************)
(* The packages that Validation is checked on.  ParameterPackages vary the *)
(* registry and where its fields get values from; MappingPackages vary the *)
(* domains and the mappings, with one good registry; FormatPackages vary   *)
(* the payload of one artifact.                                            *)
(***************************************************************************)
EXTENDS Validation, Samples

-----------------------------------------------------------------------------
ScalarP == Field("p", "parameter", "scalar", None)

Registries == {[kind |-> "registry", fields |-> fields] : fields \in
  {<<ScalarP>>, <<ScalarP, ScalarP>>,
   <<ScalarP, Field("q", "parameter", "scalar", None)>>,
   <<ScalarP, Field("q", "state", "scalar", None)>>,
   <<Field("p", "parameter", "scalar", 1)>>,
   <<Field("p", "parameter", "per_layer", 2)>>,
   <<Field("p", "parameter", "per_layer", None)>>,
   <<Field("p", "parameter", "per_layer", 0)>>}} \cup {Junk}

RegistryArtifact == Artifact("registry.fields", "registry", None)

Scalars == {[kind |-> "scalars", values |-> values] : values \in
  {<<>>} \cup [{"p"} -> {Value(0, 0), Value(2, 0)}] \cup [{"q"} -> {Value(0, 0)}]
    \cup [{"p", "q"} -> {Value(0, 0)}]} \cup {Junk}

\* The last one has p as a column of single precision.
Attributes == {AttributesOf(ids, 0) : ids \in {{}, {"p"}, {"q"}, {"p", "q"}}}
  \cup {[AttributesOf({"q"}, 0) EXCEPT !.columns = @ @@ [p |-> "float32"]], Junk}

ParameterPackages ==
  {Package(<<[id |-> "a", count |-> 2, externalIds |-> None]>>, <<>>, parts) :
     parts \in
       ({None} \cup {Part(RegistryArtifact, content) : content \in Registries})
         \X ({None} \cup {Part([RegistryArtifact EXCEPT !.path = <<"again">>], Junk)})
         \X ({None} \cup {Part(Artifact("scalars", "scalars", variable), content) :
                            variable \in {None, "p"}, content \in Scalars})
         \X ({None} \cup {Part(Artifact("attributes", "attributes", variable), content) :
                            variable \in {None, "p"}, content \in Attributes})
         \X ({None} \cup {Part([Artifact("raster", "cog", variable) EXCEPT !.path = path],
                               content) :
                            variable \in {None, "p", "q"}, path \in {<<"raster">>, <<"a..b">>},
                            content \in {Raster(1, 0), Junk}})}

-----------------------------------------------------------------------------
Rows == [source : 0 .. 2, target : 0 .. 1]

\* Mappings with good columns, with an index that has a null, is of another type
\* or is missing, or with one more column that has a null; and tables of another
\* encoding, the second with the columns of a mapping besides.
MappingContents ==
  {MappingOf(rows) : rows \in BoundedSeq(Rows, 2)}
    \cup UNION {{[MappingOf(rows) EXCEPT !.nulls = {"source_index"}],
                 [MappingOf(rows) EXCEPT !.columns.target_index = "int32"],
                 [MappingOf(rows) EXCEPT !.columns = @ @@ [more |-> "int64"], !.nulls = {"more"}],
                 Table([cell_index |-> "int32", reach_id |-> "int64"] @@ MappingOf(rows).columns,
                       rows, 0),
                 Table([source_index |-> "int64", weight |-> "float64"], rows, 0)} :
                  rows \in {<<>>, <<[source |-> 0, target |-> 0]>>}}
    \cup {Table(ColumnTypes["cell_to_reach"], <<>>, 0), Junk}

MappingParts ==
  {Part(Artifact("m", format, None), content) :
     format \in {"domain_mapping", "cell_to_reach", "cog"}, content \in MappingContents}

FirstDomains == [id : {"a"}, count : 0 .. 2, externalIds : {None} \cup 0 .. 2]
SecondDomain == [id |-> "b", count |-> 2, externalIds |-> 2]

\* A decoy shares the role of the mapping's artifact and precedes it.
Decoy == Part([Artifact("m", "cog", None) EXCEPT !.path = <<"decoy">>], Raster(1, 0))

EmptyRegistry == Part(RegistryArtifact, [kind |-> "registry", fields |-> <<>>])

MappingPackages ==
  {Package(domains, mappings, <<EmptyRegistry, decoy, part>>) :
     domains \in {<<d>> : d \in FirstDomains} \cup {<<d, SecondDomain>> : d \in FirstDomains},
     mappings \in {<<>>} \cup {<<m>> : m \in [source : {"a", "b"}, target : {"a", "b"},
                                             role : {"m", "nowhere"}]},
     decoy \in {None, Decoy},
     part \in MappingParts}

-----------------------------------------------------------------------------
\* Columns as required, one of them missing or of another type, one more.
ColumnsOf(format) ==
  LET types == ColumnTypes[format] IN
    {types, types @@ [more |-> "utf8"]}
      \cup UNION {{[types EXCEPT ![name] = "int32"],
                   [other \in DOMAIN types \ {name} |-> types[other]]} : name \in DOMAIN types}

PlainTables ==
  UNION {{Part(Artifact("table", format, None), Table(columns, <<>>, 0)) :
            columns \in ColumnsOf(format)} : format \in DOMAIN ColumnTypes \ {"attributes"}}

ReachTopologies ==
  {Part(Artifact("reaches", "reach_topology", None), [Table(columns, <<>>, 0) EXCEPT !.geo = geo]) :
     columns \in ColumnsOf("reach_topology"), geo \in {"none", "good", "malformed"}}

AttributeTables ==
  {Part(Artifact("table", "attributes", None),
        [Table([entity_index |-> index, s |-> type], Indexed(indices), 0)
           EXCEPT !.nulls = nulls]) :
     index \in {"int64", "int32", "float64"}, type \in {"float64", "float32"},
     indices \in BoundedSeq(0 .. 2, 3), nulls \in {{}, {"entity_index"}, {"s"}}}

Rasters ==
  {Part(Artifact("raster", "cog", None),
        [kind |-> "cog", bands |-> bands, formats |-> formats, bits |-> bits]) :
     bands \in {None, 1, 2}, formats \in {None, <<>>, <<3>>, <<3, 3>>, <<1, 3>>},
     bits \in {None, <<64>>, <<64, 64>>, <<64, 32>>}}

Members == [array : BOOLEAN, rank : 1 .. 2, dtype : {"int64", "utf8"}, chunk : {None, 0, 8, 12}]

Stores ==
  {Part(Artifact("store", "zarr", None),
        [kind |-> "zarr", consolidated |-> consolidated, members |-> members]) :
     consolidated \in BOOLEAN,
     members \in {<<>>} \cup [{"x"} -> Members] \cup [{"x", "y"} -> Members]}

\* One field, which is not a parameter; and one with the name of the index.
StateRegistry ==
  Part(RegistryArtifact, [kind |-> "registry",
                          fields |-> <<Field("s", "state", "scalar", None)>>])
IndexRegistry ==
  Part(RegistryArtifact, [kind |-> "registry",
                          fields |-> <<Field("entity_index", "parameter", "scalar", None)>>])

IndexTables ==
  {Part(Artifact("table", "attributes", None),
        Table([entity_index |-> index], Indexed(indices), 0)) :
     index \in {"int64", "float64"}, indices \in BoundedSeq(0 .. 1, 2)}

FormatPackages ==
  {Package(<<[id |-> "a", count |-> 2, externalIds |-> None]>>, <<>>, parts) :
     parts \in
       {StateRegistry} \X (PlainTables \cup ReachTopologies \cup AttributeTables
                             \cup Rasters \cup Stores)
         \cup {IndexRegistry} \X IndexTables}

MCCandidates == <<ParameterPackages, MappingPackages, FormatPackages>>

MCDottedPaths == {<<"a..b">>}
=============================================================================
