------------------------------ MODULE Samples ------------------------------
(***************************************************************************)
(* Building blocks of the packages that TLC checks the tool on.            *)
(***************************************************************************)
EXTENDS Packages, TLC

Junk == [kind |-> "junk"]

Artifact(role, format, variable) ==
  [role |-> role, path |-> <<role>>, format |-> format, variable |-> variable]

\* A package of the artifacts that are present, each at a path of its own.
Package(domains, mappings, parts) ==
  LET present == SelectSeq(parts, LAMBDA part : part # None)
  IN [domains   |-> domains,
      mappings  |-> mappings,
      artifacts |-> [k \in DOMAIN present |-> present[k].artifact],
      files     |-> [path \in {Normal(present[k].artifact.path) : k \in DOMAIN present} |->
                       LET k == CHOOSE k \in DOMAIN present :
                                  Normal(present[k].artifact.path) = path
                       IN present[k].content]]

Part(artifact, content) == [artifact |-> artifact, content |-> content]

Field(id, role, extent, layers) ==
  [id |-> id, role |-> role, extent |-> extent, layers |-> layers]

\* A table with these columns and rows; files with different tags differ.
Table(columns, rows, tag) ==
  [kind |-> "parquet", columns |-> columns, nulls |-> {}, rows |-> rows, geo |-> "none",
   tag |-> tag]

Indexed(indices) == [k \in DOMAIN indices |-> [entity |-> indices[k]]]

\* An attribute table of two entities.
AttributesOf(ids, tag) ==
  Table("entity_index" :> "int64" @@ [id \in ids |-> "float64"], Indexed(<<0, 1>>), tag)

MappingOf(rows) ==
  Table([source_index |-> "int64", target_index |-> "int64", weight |-> "float64"], rows, 0)

\* A raster whose bands are all float64.
Raster(bands, tag) ==
  [kind |-> "cog", bands |-> bands, formats |-> [k \in 1 .. bands |-> 3],
   bits |-> [k \in 1 .. bands |-> 64], tag |-> tag]

\* A store with one array of two dimensions.
Store(tag) ==
  [kind |-> "zarr", consolidated |-> TRUE, tag |-> tag,
   members |-> [v |-> [array |-> TRUE, rank |-> 2, dtype |-> "float64", chunk |-> None]]]

\* A JSON number (layers = 0) or an array of numbers.
Value(layers, tag) == [layers |-> layers, tag |-> tag]
=============================================================================
