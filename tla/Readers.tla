------------------------------ MODULE Readers ------------------------------
(***************************************************************************)
(* What the file at the path of an artifact can hold, and what the readers *)
(* make of it.  A content is a record whose `kind` is the format in which  *)
(* its bytes are well-formed, "junk" when there is none:                   *)
(*   "registry"  fields  : sequence of [id, role, extent, layers]          *)
(*   "scalars"   values  : field id -> [layers, tag]                       *)
(*   "parquet"   columns : column name -> arrow type                       *)
(*               nulls   : the columns that hold a null                    *)
(*               rows    : what of the rows is read, a sequence            *)
(*               geo     : the `geo` block, "none", "good" or "malformed"  *)
(*   "cog"       bands, formats, bits : tags, None when absent             *)
(*   "zarr"      consolidated : whether zarr.json holds the member map     *)
(*               members : name -> [array, rank, dtype, chunk]             *)
(* and `tag` tells apart files that differ in what is not modelled.  A     *)
(* zarr store is a directory.                                              *)
(***************************************************************************)
EXTENDS Domains

\* An optional tag or declaration that is absent is None.

-----------------------------------------------------------------------------
(***************************************************************************)
(* Parquet tables.                                                         *)
(***************************************************************************)

\* int64_column and float64_column look for the column in every batch, and a
\* table without rows has no batch.
HasColumn(table, name, type) ==
  table.rows # <<>> =>
    /\ name \in DOMAIN table.columns
    /\ table.columns[name] = type
    /\ name \notin table.nulls

\* read_domain_mapping succeeds.
ReadsMapping(content) ==
  /\ content.kind = "parquet"
  /\ HasColumn(content, "source_index", "int64")
  /\ HasColumn(content, "target_index", "int64")
  /\ HasColumn(content, "weight", "float64")

\* The attribute columns of a table are its float64 columns.
AttributeColumns(table) == {name \in DOMAIN table.columns : table.columns[name] = "float64"}

\* read_domain_attributes succeeds.
ReadsAttributes(content) ==
  /\ content.kind = "parquet"
  /\ HasColumn(content, "entity_index", "int64")
  /\ \A name \in AttributeColumns(content) : HasColumn(content, name, "float64")
  /\ AttributeColumns(content) # {}

\* read_geoparquet_metadata succeeds: the `geo` block may be absent.
ReadsGeoparquet(content) == content.kind = "parquet" /\ content.geo # "malformed"

-----------------------------------------------------------------------------
(***************************************************************************)
(* Rasters and grids.                                                      *)
(***************************************************************************)

\* homogeneous_tag_value: at least one value, and all the same.
Homogeneous(values) == values # <<>> /\ \A k \in DOMAIN values : values[k] = values[1]

BandsOf(content) == IF content.bands = None THEN 1 ELSE content.bands

\* read_cog_metadata succeeds; only SampleFormat has a default.
ReadsCog(content) ==
  /\ content.kind = "cog"
  /\ content.formats = None \/ Homogeneous(content.formats)
  /\ content.bits # None /\ Homogeneous(content.bits)

\* epsg_from_geokey_directory: the inline keys 2048 (geographic) and 3072
\* (projected) up to the count in the header or the end of the directory; the
\* last one of each counts, and a projected one before a geographic one.
EpsgOf(directory) ==
  LET keys == IF Len(directory) < 4 THEN {}
              ELSE {k \in 1 .. directory[4] : 4 * k + 4 <= Len(directory)}
      inline(id) == {k \in keys : directory[4 * k + 1] = id /\ directory[4 * k + 2] = 0}
      last(ks) == directory[4 * (CHOOSE k \in ks : \A other \in ks : other <= k) + 4]
  IN CASE inline(3072) # {} -> last(inline(3072))
       [] inline(3072) = {} /\ inline(2048) # {} -> last(inline(2048))
       [] OTHER -> None

\* read_coordinate: of a one-dimensional int64 or float64 array, the chunk c/0
\* decodes to whole numbers of eight bytes (`chunk` is their length).
ReadsMember(member) ==
  /\ member.array
  /\ member.rank = 1 /\ member.dtype \in {"int64", "float64"} =>
       member.chunk # None /\ member.chunk % 8 = 0

\* read_zarr_metadata succeeds: every node in the member map is an array.
ReadsZarr(content) ==
  /\ content.kind = "zarr"
  /\ content.consolidated
  /\ \A name \in DOMAIN content.members : ReadsMember(content.members[name])

-----------------------------------------------------------------------------
(***************************************************************************)
(* check_artifact_shape.                                                   *)
(***************************************************************************)
RequiredColumns ==
  [reach_topology |-> {"reach_id", "order_index", "manning_n", "width_m", "slope",
                       "length_m", "geometry"},
   gauge_long     |-> {"timestep", "gauge_id", "value"},
   gauge_metadata |-> {"gauge_id", "x", "y", "z", "name"},
   cell_to_gauge  |-> {"cell_index", "gauge_id", "weight"},
   cell_to_reach  |-> {"cell_index", "reach_id", "weight"},
   attributes     |-> {"entity_index"},
   domain_mapping |-> {"source_index", "target_index", "weight"}]

\* The file opens as its format says and has columns of the required names.
\* The registry and the scalars are read elsewhere.
HasShape(content, format) ==
  CASE format = "cog" -> ReadsCog(content)
    [] format = "zarr" -> ReadsZarr(content)
    [] format \in DOMAIN RequiredColumns ->
         /\ IF format = "reach_topology" THEN ReadsGeoparquet(content)
                                         ELSE content.kind = "parquet"
         /\ RequiredColumns[format] \subseteq DOMAIN content.columns
    [] format \in {"registry", "scalars"} -> TRUE
=============================================================================
