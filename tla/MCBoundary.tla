----------------------------- MODULE MCBoundary -----------------------------
(***************************************************************************)
(* Small instances of Boundary: documents that differ in one or two places *)
(* from good ones.                                                         *)
(***************************************************************************)
EXTENDS Boundary

MCAscending ==
  <<"artifact_role", "artifacts", "cell_size", "conservation_class", "created_at", "crs",
    "domain", "domains", "entity_count", "extent", "external_ids", "fields",
    "first_step_index", "format", "format_version", "grid", "id", "index_base",
    "interval_seconds", "last_step_index", "layer_count", "mappings", "name", "nx", "ny",
    "origin", "package_kind", "path", "producer", "producer_version", "purpose", "quantity",
    "registry_version", "role", "row_count", "sha256", "size_bytes", "source_domain",
    "target_domain", "time_meaning", "unit", "units", "value_type", "variable", "xmax",
    "xmin", "ymax", "ymin">>

\* The second has an offset of zero hours.
MCTimestamps ==
  "2026-01-01T00:00:00Z" :> "2026-01-01T00:00:00Z" @@
  "2026-01-01T00:00:00+00:00" :> "2026-01-01T00:00:00Z"

MCTraversals == {"/p.json", "../p.json"}
MCDottedPaths == {"a..b.json"}
MCSha256 == {"digest"}

\* An object with the keys of a record, in descending order.
Json(record) ==
  [keys |-> SelectSeq(Reverse(Append(MCAscending, "unknown")), LAMBDA key : key \in DOMAIN record),
   at |-> record]

Extent == Json([xmin |-> 0, ymin |-> 0, xmax |-> 2, ymax |-> 2])

Grid == [crs |-> "EPSG:3035", extent |-> Extent, cell_size |-> 1, nx |-> 2, ny |-> 2,
         origin |-> "upper_left"]

Cells == [id |-> "cell", entity_count |-> 4, index_base |-> "dense_zero_based"]

Gauges == [purpose |-> "cell_to_gauge", source_domain |-> "cell", target_domain |-> "gauge",
           variable |-> "Q", artifact_role |-> "mapping.gauges"]

Fields == [role |-> "registry.fields", path |-> "registry/fields.json",
           format |-> "hmx/field_registry_v1", sha256 |-> "digest"]

Good == [format_version |-> "0.2", name |-> "basin", created_at |-> "2026-01-01T00:00:00Z",
         producer |-> "hmx", producer_version |-> "1", package_kind |-> "input",
         crs |-> "EPSG:3035", grid |-> Json(Grid), domains |-> <<Json(Cells)>>,
         mappings |-> <<Json(Gauges)>>, artifacts |-> <<Json(Fields)>>]

\* An array of the values under the first n keys.
Places(record, kind, n) ==
  LET places == SubSeq(Declared[kind], 1, n)
  IN [places |-> places, at |-> [key \in Range(places) |-> record[key]]]

\* A change of the value under a key.
Varied(record, key, values) == {(key :> value) @@ record : value \in values}

\* Objects whose keys are not those of the good one: one is missing, unknown,
\* there twice, or has null or a value of another type.
Misshaped(record, key) ==
  LET object == Json(record) IN
  {Json([k \in DOMAIN record \ {key} |-> record[k]]),
   Json("unknown" :> 1 @@ record),
   [object EXCEPT !.keys = Append(@, key)],
   Json(key :> None @@ record),
   Json(key :> Mistyped @@ record),
   Mistyped}

Jsons(records) == {Json(record) : record \in records}

-----------------------------------------------------------------------------
Grids ==
  Misshaped(Grid, "nx")
    \cup Jsons(Varied(Grid, "crs", {""}) \cup Varied(Grid, "origin", {"lower_left"})
               \cup Varied(Grid, "cell_size", {0, -1, Excessive})
               \cup Varied(Grid, "nx", {-1, 0, Fractional, MaxSize + 1})
               \cup Varied(Grid, "extent", {Json([key \in {"xmin", "ymin", "xmax"} |-> 0]), None,
                                        Places(Extent.at, "extent", 4),
                                        Json([Extent.at EXCEPT !.xmin = -1, !.xmax = Excessive])}))
    \cup {Places(Grid, "grid", n) : n \in {5, 6}}

MCDomains ==
  Misshaped(Cells, "id")
    \cup Jsons(Varied(Cells, "id", {""}) \cup Varied(Cells, "index_base", {"one_based"})
               \cup Varied(Cells, "external_ids",
                          {None, <<>>, <<-MaxId - 1, MaxId>>, <<7, Fractional>>, <<MaxId + 1>>,
                           <<-MaxId - 2>>, <<7, Mistyped>>})
               \cup Varied(Cells, "entity_count", {Fractional, -1, MaxCount, MaxCount + 1}))
    \cup {Places(Cells, "domain", 3)}

MCMappings ==
  Misshaped(Gauges, "variable")
    \cup Jsons(Varied(Gauges, "purpose", {"cell_to_reach", "reach_to_cell"})
               \cup Varied(Gauges, "variable", {""}) \cup Varied(Gauges, "artifact_role", {""})
               \cup Varied([Gauges EXCEPT !.purpose = "cell_to_reach"], "variable", {None}))
    \cup {Places(Gauges, "mapping", n) : n \in {4, 5}}

Other == [Fields EXCEPT !.role = "parameters", !.path = "p.json",
                        !.format = "hmx/parameter_scalars_v1"]

MCArtifacts ==
  Misshaped(Other, "path")
    \cup Jsons(Varied(Other, "path", {"", "/p.json", "../p.json", "a..b.json"})
               \cup Varied(Other, "format", {"csv"}) \cup Varied(Other, "sha256", {"none"})
               \cup Varied(Other, "domain", {"", "cell"}) \cup Varied(Other, "unit", {"", None})
               \cup Varied(Other, "time_meaning", {"rate", "mean_over_interval", "never", None})
               \cup Varied(Other, "row_count", {Fractional, -1, 4, MaxCount + 1}))
    \cup {Places(Other, "artifact", n) : n \in {3, 4}}

Manifests ==
  {Unreadable, Places(Good, "manifest", 11)}
    \cup Misshaped(Good, "format_version") \cup Misshaped(Good, "artifacts")
    \cup Jsons({Good, "unknown" :> 1 @@ [Good EXCEPT !.format_version = "0.3"]}
         \cup Varied(Good, "format_version", {"0.3"}) \cup Varied(Good, "name", {""})
         \cup Varied(Good, "created_at", {"yesterday", "2026-01-01T00:00:00+00:00"})
         \cup Varied(Good, "package_kind", {"output"})
         \cup Varied(Good, "grid", Grids)
         \cup Varied(Good, "domains", {<<>>} \cup {<<Json(Cells), domain>> : domain \in MCDomains})
         \cup Varied(Good, "mappings", {<<>>} \cup {<<mapping>> : mapping \in MCMappings})
         \cup Varied(Good, "artifacts",
                    {<<>>, <<Json(Fields), Json(Fields)>>}
                      \cup {<<artifact, Json(Fields)>> : artifact \in MCArtifacts}))
    \cup {Json([Good EXCEPT !.grid = grid, !.artifacts = <<artifact, Json(Fields)>>]) :
             grid \in Grids, artifact \in MCArtifacts}
    \cup {Json([Good EXCEPT !.domains = <<domain>>, !.mappings = <<mapping>>]) :
             domain \in MCDomains, mapping \in MCMappings}
    \cup {Json([Good EXCEPT !.mappings = <<mapping>>, !.artifacts = <<artifact, Json(Fields)>>]) :
             mapping \in MCMappings, artifact \in MCArtifacts}

-----------------------------------------------------------------------------
Head1 == [id |-> "head", domain |-> "cell", quantity |-> "head", units |-> "m",
          value_type |-> "f64", time_meaning |-> "instant", role |-> "parameter",
          conservation_class |-> "none", extent |-> "scalar"]

MCFields ==
  Misshaped(Head1, "units")
    \cup Jsons({Head1} \cup Varied(Head1, "units", {""})
               \cup Varied(Head1, "time_meaning", {"mean_over_interval"})
               \cup Varied(Head1, "role", {"state"})
               \cup Varied(Head1, "layer_count", {None, 1})
               \cup Varied([Head1 EXCEPT !.extent = "per_layer"], "layer_count",
                          {None, Fractional, -1, 0, 2, MaxCount + 1}))
    \cup {Places("layer_count" :> None @@ Head1, "field", n) : n \in {9, 10}}

Registry(fields) == [registry_version |-> "1", fields |-> fields]

Registries ==
  {Unreadable, Mistyped, Json([Registry(<<>>) EXCEPT !.registry_version = "2"])}
    \cup Jsons({Registry(<<field>>) : field \in MCFields})
    \cup Jsons({Registry(<<Json(Head1), Json(Head1)>>)})
    \cup {Places(Registry(<<Json(Head1)>>), "registry", 2)}

MCPackages ==
  [manifest : Manifests, registry : {Json(Registry(<<Json(Head1)>>))}]
    \cup [manifest : Jsons({Good}), registry : Registries]
    \cup [manifest : Jsons({[Good EXCEPT !.artifacts = <<>>]}), registry : {Mistyped}]
=============================================================================
