------------------------------ MODULE Documents ------------------------------
(***************************************************************************)
(* The two JSON documents of a package, the manifest and the field         *)
(* registry, between their text and the typed values: what serde and the   *)
(* conversions accept, what canonical_bytes writes back, and, apart from   *)
(* both, what the committed schemas ask of them.                           *)
(*                                                                         *)
(* A JSON object is [keys |-> its keys as they occur, at |-> their values].*)
(* An array in its place is [places |-> the keys of which it has the       *)
(* values, at |-> the values]: serde takes it for the object of its first  *)
(* keys.                                                                   *)
(* null is None, and a value of another JSON type is Mistyped, which is    *)
(* also what text that is no JSON is.  Numbers are integers or one of two  *)
(* marks; of a real number an integer of its sign stands for it.           *)
(***************************************************************************)
EXTENDS Integers, FiniteSets, SequencesExt

CONSTANTS
  None, Mistyped,
  Fractional,     \* a whole number that serde_json takes for a float, as 3.0 or 3e0
  Excessive,      \* a positive number that no f64 holds, as 1e400
  Ascending,      \* the keys of all objects in ascending order
  Timestamps,     \* spelling of an RFC 3339 timestamp -> how the tool spells it
  Traversals,     \* paths that are absolute or have a segment `..`
  DottedPaths,    \* other paths with `..` in them, as in `a..b`
  Sha256,         \* the well-formed digests
  MaxSize,        \* u32::MAX, of a number of cells
  MaxCount,       \* u64::MAX (and usize::MAX), of the other counts
  MaxId           \* i64::MAX, of external ids

ASSUME DocumentsAssumption ==
  /\ MaxSize \in Nat /\ MaxCount \in Nat /\ MaxId \in Nat
  /\ None # "" /\ {Mistyped, Fractional, Excessive} \cap Int = {}
  /\ "" \notin DOMAIN Timestamps \cup Sha256
  /\ DOMAIN Timestamps \cap {None, Mistyped} = {}
  \* What the tool spells is a timestamp, in its own spelling.
  /\ \A time \in Range(Timestamps) : time \in DOMAIN Timestamps /\ Timestamps[time] = time

Version == "0.2"

-----------------------------------------------------------------------------
(***************************************************************************)
(* The keys of the data transfer objects, in the order of declaration, and *)
(* those that may be left out.                                             *)
(***************************************************************************)
Declared ==
  [manifest |-> <<"format_version", "name", "created_at", "producer", "producer_version",
                  "package_kind", "crs", "grid", "domains", "mappings", "artifacts">>,
   grid     |-> <<"crs", "extent", "cell_size", "nx", "ny", "origin">>,
   extent   |-> <<"xmin", "ymin", "xmax", "ymax">>,
   domain   |-> <<"id", "entity_count", "index_base", "external_ids">>,
   mapping  |-> <<"purpose", "source_domain", "target_domain", "variable", "artifact_role">>,
   artifact |-> <<"role", "path", "format", "sha256", "size_bytes", "crs", "domain",
                  "variable", "unit", "time_meaning", "interval_seconds", "row_count",
                  "first_step_index", "last_step_index">>,
   registry |-> <<"registry_version", "fields">>,
   field    |-> <<"id", "domain", "quantity", "units", "value_type", "time_meaning",
                  "role", "conservation_class", "extent", "layer_count">>]

Optional(kind) ==
  CASE kind = "domain"   -> {"external_ids"}
    [] kind = "mapping"  -> {"variable"}
    [] kind = "artifact" -> Range(SubSeq(Declared["artifact"], 5, 14))
    [] kind = "field"    -> {"layer_count"}
    [] OTHER             -> {}

Keys(kind) == Range(Declared[kind])
Required(kind) == Keys(kind) \ Optional(kind)

ASSUME AscendingAssumption ==
  /\ Ascending \in Seq(Range(Ascending)) /\ IsInjective(Ascending)
  /\ \A kind \in DOMAIN Declared : Keys(kind) \subseteq Range(Ascending)

\* What is under a key; a key that is not there is as good as null.
At(object, key) == IF key \in DOMAIN object.at THEN object.at[key] ELSE None

IsArray(object) == "places" \in DOMAIN object

-----------------------------------------------------------------------------
(***************************************************************************)
(* The types of numbers: u32, u64, usize and f64, and i64 for the elements *)
(* of external_ids.                                                        *)
(***************************************************************************)
Sizes == {"nx", "ny"}
Integral == Sizes \cup {"entity_count", "size_bytes", "interval_seconds", "row_count",
                       "first_step_index", "last_step_index", "layer_count"}
Real == {"cell_size", "xmin", "ymin", "xmax", "ymax"}

Bound(key) == IF key \in Sizes THEN MaxSize ELSE MaxCount
Ids == -MaxId - 1 .. MaxId

\* A number, or a list of them, has the type that the key has.
Fits(key, value) ==
  /\ key \in Integral => value \in 0 .. Bound(key)
  /\ key \in Real => value # Excessive
  /\ key = "external_ids" => \A n \in DOMAIN value : value[n] \in Ids

-----------------------------------------------------------------------------
(***************************************************************************)
(* What a text is, as far as its syntax goes: any object, with any keys in *)
(* any order.  A number in the place of a word, or a fraction in the place *)
(* of a whole number, is a value of another type.                          *)
(***************************************************************************)
IsSequence(s) == s \in Seq({s[k] : k \in DOMAIN s})

Spelled(object) == IF IsArray(object) THEN object.places ELSE object.keys

IsNumber(key, value) ==
  /\ key \in Integral => value \in Int \cup {Fractional}
  /\ key \in Real => value \in Int \cup {Excessive}
  /\ key = "external_ids" =>
       /\ IsSequence(value)
       /\ \A n \in DOMAIN value : value[n] \in Int \cup {Fractional, Mistyped}

IsObject(object) ==
  /\ IsSequence(Spelled(object))
  /\ DOMAIN object.at = Range(Spelled(object))
  /\ \A key \in DOMAIN object.at :
       object.at[key] \notin {None, Mistyped} => IsNumber(key, object.at[key])

AreObjects(objects) ==
  /\ IsSequence(objects)
  /\ \A n \in DOMAIN objects : objects[n] # Mistyped => IsObject(objects[n])

\* The values under these keys, those of the right type.
Under(object, keys) == {object.at[key] : key \in keys \cap DOMAIN object.at} \ {None, Mistyped}

IsManifestText(text) ==
  text # Mistyped =>
    /\ IsObject(text)
    /\ \A objects \in Under(text, {"domains", "mappings", "artifacts"}) : AreObjects(objects)
    /\ \A grid \in Under(text, {"grid"}) :
         IsObject(grid) /\ \A extent \in Under(grid, {"extent"}) : IsObject(extent)

IsRegistryText(text) ==
  text # Mistyped =>
    IsObject(text) /\ \A fields \in Under(text, {"fields"}) : AreObjects(fields)

-----------------------------------------------------------------------------
(***************************************************************************)
(* serde_json::from_str: "none", or what map_serde_error makes of the      *)
(* first error in the order of the text.                                   *)
(***************************************************************************)
FirstError(errors) ==
  LET n == SelectInSeq(errors, LAMBDA error : error # "none")
  IN IF n = 0 THEN "none" ELSE errors[n]

\* An object of a closed set of keys, none of them twice, with numbers of the types
\* that the keys have; inner[key] is the error inside the value of a key.  Keys that are
\* missing are found out at the end.  layer_count has no default, so that no array
\* may end before it.
Deserialized(object, kind, inner) ==
  IF object = Mistyped THEN "malformed"
  ELSE LET keys == Spelled(object)
           error(n) ==
             IF keys[n] \notin Keys(kind) THEN "extra"
             ELSE IF \E k \in 1 .. n - 1 : keys[k] = keys[n] THEN "malformed"
             ELSE IF object.at[keys[n]] = Mistyped THEN "malformed"
             ELSE IF object.at[keys[n]] = None
                  THEN IF keys[n] \in Required(kind) THEN "malformed" ELSE "none"
             ELSE IF ~Fits(keys[n], object.at[keys[n]]) THEN "malformed"
             ELSE inner[keys[n]]
           inside == FirstError([n \in DOMAIN keys |-> error(n)])
           leftOut == Keys(kind) \ Range(keys)
       IN IF inside # "none" THEN inside
          ELSE IF IsArray(object)
               THEN IF leftOut \subseteq Optional(kind) \ {"layer_count"}
                    THEN "none" ELSE "malformed"
          ELSE IF leftOut \subseteq Optional(kind) THEN "none" ELSE "missing"

\* An object with nothing in its values to go wrong.
Flat(object, kind) == Deserialized(object, kind, [key \in Keys(kind) |-> "none"])

Elements(objects, kind) == FirstError([n \in DOMAIN objects |-> Flat(objects[n], kind)])

GridDto(grid) ==
  Deserialized(grid, "grid", [key \in Keys("grid") |->
    IF key = "extent" THEN Flat(grid.at.extent, "extent") ELSE "none"])

ManifestDto(text) ==
  Deserialized(text, "manifest", [key \in Keys("manifest") |->
    CASE key = "grid" -> GridDto(text.at.grid)
      [] key = "domains" -> Elements(text.at.domains, "domain")
      [] key = "mappings" -> Elements(text.at.mappings, "mapping")
      [] key = "artifacts" -> Elements(text.at.artifacts, "artifact")
      [] OTHER -> "none"])

FieldRegistryDto(text) ==
  Deserialized(text, "registry", [key \in Keys("registry") |->
    IF key = "fields" THEN Elements(text.at.fields, "field") ELSE "none"])

-----------------------------------------------------------------------------
(***************************************************************************)
(* The conversions of deserialized objects: closed sets of words, required *)
(* strings that are not empty, optional ones that are not empty if present.*)
(***************************************************************************)
Purposes == {"cell_to_reach", "cell_to_glacier", "glacier_to_cell", "cell_to_gauge"}
Formats == {"cog", "zarr", "geoparquet/reach_topology_v1", "parquet/gauge_long_v1",
            "parquet/gauge_metadata_v1", "parquet/cell_to_gauge_v1",
            "parquet/cell_to_reach_v1", "parquet/domain_attributes_v1",
            "parquet/domain_mapping_v1", "hmx/field_registry_v1", "hmx/parameter_scalars_v1"}
FieldTimeMeanings == {"instant", "rate", "step_amount"}
TimeMeanings == FieldTimeMeanings \cup {"mean_over_interval", "accumulated_over_interval"}
ValueTypes == {"f32", "f64", "i32", "i64", "bool"}
ConservationClasses == {"water_volume", "energy", "none"}
Roles == {"differential_state", "parameter", "forcing", "coupling", "diagnostic"}

NonEmpty(object, keys) == \A key \in keys : At(object, key) # ""

ConvertGrid(grid) == NonEmpty(grid, {"crs"}) /\ grid.at.origin = "upper_left"

ConvertDomain(domain) ==
  NonEmpty(domain, {"id"}) /\ domain.at.index_base = "dense_zero_based"

\* Mistake: the variable of a cell_to_gauge mapping may be missing.
ConvertMappingWithoutVariable(mapping) ==
  /\ mapping.at.purpose \in Purposes
  /\ NonEmpty(mapping, {"variable", "source_domain", "target_domain", "artifact_role"})

ConvertMapping(mapping) ==
  /\ mapping.at.purpose \in Purposes
  /\ NonEmpty(mapping, {"variable", "source_domain", "target_domain", "artifact_role"})
  /\ mapping.at.purpose = "cell_to_gauge" => At(mapping, "variable") # None

ValidRelativePath(path) == path \notin Traversals \cup {""}

ValidSha256(digest) == digest \in Sha256

\* Mistake: the unit, too, must not be empty.
ConvertArtifactWithUnit(artifact) ==
  /\ NonEmpty(artifact, {"role", "crs", "domain", "variable", "unit"})
  /\ ValidRelativePath(artifact.at.path)
  /\ artifact.at.format \in Formats
  /\ ValidSha256(artifact.at.sha256)
  /\ At(artifact, "time_meaning") \in TimeMeanings \cup {None}

\* `unit` is taken as it is.
ConvertArtifact(artifact) ==
  /\ NonEmpty(artifact, {"role", "crs", "domain", "variable"})
  /\ ValidRelativePath(artifact.at.path)
  /\ artifact.at.format \in Formats
  /\ ValidSha256(artifact.at.sha256)
  /\ At(artifact, "time_meaning") \in TimeMeanings \cup {None}

Converts(manifest) ==
  /\ manifest.at.package_kind = "input"
  /\ NonEmpty(manifest, {"name", "producer", "producer_version", "crs"})
  /\ manifest.at.created_at \in DOMAIN Timestamps
  /\ ConvertGrid(manifest.at.grid)
  /\ \A n \in DOMAIN manifest.at.domains : ConvertDomain(manifest.at.domains[n])
  /\ \A n \in DOMAIN manifest.at.mappings : ConvertMapping(manifest.at.mappings[n])
  /\ \A n \in DOMAIN manifest.at.artifacts : ConvertArtifact(manifest.at.artifacts[n])

\* Mistake: any version of the format is read.
FromJsonAnyVersion(text) ==
  IF ManifestDto(text) # "none" THEN ManifestDto(text) ELSE IF Converts(text) THEN "none" ELSE "value"

\* Manifest::from_json: the whole object is deserialized before the version is
\* looked at; then the values are converted.
FromJson(text) ==
  IF ManifestDto(text) # "none" THEN ManifestDto(text)
  ELSE IF text.at.format_version # Version THEN "UnknownFormatVersion"
  ELSE IF Converts(text) THEN "none" ELSE "value"

\* parse_field, parse_layer_count
ParseField(field) ==
  /\ NonEmpty(field, {"id", "domain", "quantity", "units"})
  /\ field.at.value_type \in ValueTypes
  /\ field.at.time_meaning \in FieldTimeMeanings
  /\ field.at.role \in Roles
  /\ field.at.conservation_class \in ConservationClasses
  /\ \/ field.at.extent = "scalar" /\ At(field, "layer_count") = None
     \/ field.at.extent = "per_layer" /\ At(field, "layer_count") \notin {None, 0}

\* build_registry
UniqueIds(fields) == IsInjective([n \in DOMAIN fields |-> fields[n].at.id])

\* FieldRegistry::from_json
ParsesAsRegistry(text) ==
  /\ FieldRegistryDto(text) = "none"
  /\ text.at.registry_version = "1"
  /\ \A n \in DOMAIN text.at.fields : ParseField(text.at.fields[n])
  /\ UniqueIds(text.at.fields)

-----------------------------------------------------------------------------
(***************************************************************************)
(* The typed manifest, and the way back.                                   *)
(***************************************************************************)
Typed(object, kind) == [key \in Keys(kind) |-> At(object, key)]

All(objects, kind) == [n \in DOMAIN objects |-> Typed(objects[n], kind)]

TypedGrid(grid) == [Typed(grid, "grid") EXCEPT !.extent = Typed(@, "extent")]

\* The value of from_json.
ManifestOf(text) ==
  [Typed(text, "manifest") EXCEPT
     !.created_at = Timestamps[@],
     !.grid       = TypedGrid(@),
     !.domains    = All(@, "domain"),
     !.mappings   = All(@, "mapping"),
     !.artifacts  = All(@, "artifact")]

\* Keys in ascending order.
Ordered(keys) ==
  LET upTo[n \in 0 .. Len(Ascending)] ==
        IF n = 0 THEN <<>>
        ELSE IF Ascending[n] \in keys THEN Append(upTo[n - 1], Ascending[n])
        ELSE upTo[n - 1]
  IN upTo[Len(Ascending)]

\* Mistake: what is not there is written as null.
ObjectWithNulls(typed) == [keys |-> Ordered(DOMAIN typed), at |-> typed]

\* A data transfer object without its absent options, sorted by sort_json_value.
Object(typed) ==
  LET present == {key \in DOMAIN typed : typed[key] # None}
  IN [keys |-> Ordered(present), at |-> [key \in present |-> typed[key]]]

Objects(typed) == [n \in DOMAIN typed |-> Object(typed[n])]

GridObject(typed) == Object([typed EXCEPT !.extent = Object(@)])

\* canonical_bytes
Canonical(manifest) ==
  Object([manifest EXCEPT
            !.grid      = GridObject(@),
            !.domains   = Objects(@),
            !.mappings  = Objects(@),
            !.artifacts = Objects(@)])

-----------------------------------------------------------------------------
(***************************************************************************)
(* schemas/manifest.schema.json and field_registry.schema.json.            *)
(***************************************************************************)

\* additionalProperties, required, and no null among the rest.
Shaped(object, kind) ==
  /\ object # Mistyped
  /\ ~IsArray(object)
  /\ IsInjective(object.keys)
  /\ Required(kind) \subseteq Range(object.keys)
  /\ Range(object.keys) \subseteq Keys(kind)
  /\ \A key \in Range(object.keys) : object.at[key] \notin {None, Mistyped}

ShapedWithout(object, kind, empty) ==
  Shaped(object, kind) /\ \A key \in Range(object.keys) \ empty : object.at[key] # ""

\* minimum, and exclusiveMinimum 0 where the least integer is 1; there is no
\* maximum, and a whole number may be spelled in any way.
AtLeast(least, number) == number \in Int => number >= least

GridSchema(grid) ==
  /\ ShapedWithout(grid, "grid", {"extent", "cell_size", "nx", "ny"})
  /\ Shaped(grid.at.extent, "extent")
  /\ grid.at.origin = "upper_left"
  /\ \A key \in {"cell_size", "nx", "ny"} : AtLeast(1, grid.at[key])

DomainSchema(domain) ==
  /\ Shaped(domain, "domain") /\ domain.at.id # "" /\ domain.at.index_base = "dense_zero_based"
  /\ AtLeast(0, domain.at.entity_count)
  /\ "external_ids" \in Range(domain.keys) => Mistyped \notin Range(domain.at.external_ids)

MappingSchema(mapping) ==
  /\ ShapedWithout(mapping, "mapping", {})
  /\ mapping.at.purpose \in Purposes
  /\ mapping.at.purpose = "cell_to_gauge" => "variable" \in Range(mapping.keys)

ArtifactCounts == {"size_bytes", "interval_seconds", "row_count", "first_step_index",
                   "last_step_index"}

ArtifactSchema(artifact) ==
  /\ ShapedWithout(artifact, "artifact", ArtifactCounts \cup {"unit"})
  /\ \A key \in ArtifactCounts \cap Range(artifact.keys) : AtLeast(0, artifact.at[key])
  /\ artifact.at.path \notin Traversals \cup DottedPaths
  /\ artifact.at.format \in Formats
  /\ artifact.at.sha256 \in Sha256
  /\ "time_meaning" \in Range(artifact.keys) => artifact.at.time_meaning \in TimeMeanings

ManifestSchema(text) ==
  /\ ShapedWithout(text, "manifest", {"grid", "domains", "mappings", "artifacts"})
  /\ text.at.format_version = Version
  /\ text.at.package_kind = "input"
  /\ text.at.created_at \in DOMAIN Timestamps
  /\ GridSchema(text.at.grid)
  /\ \A n \in DOMAIN text.at.domains : DomainSchema(text.at.domains[n])
  /\ \A n \in DOMAIN text.at.mappings : MappingSchema(text.at.mappings[n])
  /\ \A n \in DOMAIN text.at.artifacts : ArtifactSchema(text.at.artifacts[n])
  /\ <<>> \notin {text.at.domains, text.at.artifacts}

RegistrySchema(text) ==
  /\ Shaped(text, "registry")
  /\ text.at.registry_version = "1"
  /\ \A n \in DOMAIN text.at.fields : LET field == text.at.fields[n] IN
       /\ ShapedWithout(field, "field", {"layer_count"})
       /\ field.at.value_type \in ValueTypes
       /\ field.at.time_meaning \in FieldTimeMeanings
       /\ field.at.role \in Roles
       /\ field.at.conservation_class \in ConservationClasses
       /\ \/ field.at.extent = "scalar" /\ "layer_count" \notin Range(field.keys)
          \/ /\ field.at.extent = "per_layer"
             /\ At(field, "layer_count") # None /\ AtLeast(1, field.at.layer_count)
=============================================================================
