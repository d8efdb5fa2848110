------------------------------ MODULE Packages ------------------------------
(***************************************************************************)
(* A package as the tool reads it: the manifest's domains, mappings and    *)
(* artifacts, and what the file at each declared path holds; the registry  *)
(* and the scalars; and where a registered field can get its values from.  *)
(***************************************************************************)
EXTENDS Readers

\* A path is the sequence of its segments; `files` is keyed by what the file
\* system makes of them.  The registry's optional layer_count, and the optional
\* variable of an artifact, are None when absent.
Normal(path) == SelectSeq(path, LAMBDA segment : segment \notin {"", "."})

Absent == [kind |-> "absent"]

\* A reader follows a symbolic link.
Followed(file) == IF file.kind = "link" THEN file.to ELSE file
FileAt(files, path) == IF path \notin DOMAIN files THEN Absent ELSE Followed(files[path])

MappingFormats == {"domain_mapping", "cell_to_reach", "cell_to_gauge"}

Indices(pkg) == DOMAIN pkg.artifacts
PathOf(pkg, i) == Normal(pkg.artifacts[i].path)
Content(pkg, i) == FileAt(pkg.files, PathOf(pkg, i))
WithFormat(pkg, format) == {i \in Indices(pkg) : pkg.artifacts[i].format = format}

-----------------------------------------------------------------------------
(***************************************************************************)
(* What parsing and reading leave open: the values that a package ranges   *)
(* over.                                                                   *)
(***************************************************************************)
Formats == DOMAIN RequiredColumns \cup {"registry", "scalars", "cog", "zarr"}

\* The part of a row that an index column of type int64 fills.
FilledBy == [source_index |-> "source", target_index |-> "target", entity_index |-> "entity"]

\* Only a column has nulls, and an int64 without nulls is an i64 in every row.  A
\* scalars object is a map and nothing else.
IsContent(content) ==
  /\ content.kind = "parquet" =>
       /\ content.nulls \subseteq DOMAIN content.columns
       /\ \A name \in (DOMAIN FilledBy \cap DOMAIN content.columns) \ content.nulls :
            content.columns[name] = "int64" =>
              \A k \in DOMAIN content.rows : content.rows[k][FilledBy[name]] \in I64
  /\ content.kind = "scalars" =>
       content = [kind   |-> "scalars",
                  values |-> [id \in DOMAIN content.values |-> content.values[id]]]

IsSequence(s) == s \in Seq({s[k] : k \in DOMAIN s})

\* The manifest has been parsed.  An entity_count is a u64; no file has more than
\* MaxIndex external ids.
IsManifest(p) ==
  /\ IsSequence(p.artifacts)
  /\ \A i \in Indices(p) : p.artifacts[i].format \in Formats
  /\ \A k \in DOMAIN p.domains :
       /\ p.domains[k].count \in Nat
       /\ p.domains[k].externalIds \in 0 .. MaxIndex \cup {None}

AreFiles(files) == \A path \in DOMAIN files : IsContent(FileAt(files, path))

IsPackage(p) == IsManifest(p) /\ AreFiles(p.files)

-----------------------------------------------------------------------------
(***************************************************************************)
(* The field registry.                                                     *)
(***************************************************************************)

\* parse_field and parse_layer_count
ParseField(dto) ==
  IF dto.extent = "scalar" THEN dto.layers = None
                           ELSE dto.layers # None /\ dto.layers # 0

\* FieldRegistry::from_json: every field parses and no id occurs twice.
ParsesAsRegistry(content) ==
  /\ content.kind = "registry"
  /\ \A i \in DOMAIN content.fields : ParseField(content.fields[i])
  /\ \A i, j \in DOMAIN content.fields :
       content.fields[i].id = content.fields[j].id => i = j

RegistryArtifacts(pkg) ==
  {i \in WithFormat(pkg, "registry") : pkg.artifacts[i].role = "registry.fields"}

TheRegistry(pkg) == CHOOSE i \in RegistryArtifacts(pkg) : TRUE

\* load_registry: exactly one registry artifact, and it parses.
RegistryLoads(pkg) ==
  /\ Cardinality(RegistryArtifacts(pkg)) = 1
  /\ ParsesAsRegistry(Content(pkg, TheRegistry(pkg)))

\* The registry as a function from the declared ids.
Registry(pkg) ==
  LET fields == Content(pkg, TheRegistry(pkg)).fields
  IN [id \in {fields[i].id : i \in DOMAIN fields} |->
        CHOOSE dto \in {fields[i] : i \in DOMAIN fields} : dto.id = id]

Parameters(reg) == {id \in DOMAIN reg : reg[id].role = "parameter"}

-----------------------------------------------------------------------------
(***************************************************************************)
(* The scalars object.                                                     *)
(***************************************************************************)

\* A number for a scalar field (layers = 0), an array of exactly layer_count
\* numbers for a per_layer field.  JSON has no number that is not finite.
FitsField(value, field) ==
  value.layers = IF field.extent = "scalar" THEN 0 ELSE field.layers

\* read_parameter_scalars succeeds.
ReadsScalars(content, reg) ==
  /\ content.kind = "scalars"
  /\ DOMAIN content.values # {}
  /\ \A id \in DOMAIN content.values :
       /\ id \in DOMAIN reg
       /\ reg[id].role = "parameter"
       /\ FitsField(content.values[id], reg[id])

-----------------------------------------------------------------------------
(***************************************************************************)
(* Where a field gets its values: the artifacts that carry it as a key of  *)
(* a scalars object, as a column, or as their declared variable.           *)
(***************************************************************************)

KeySources(pkg, id) ==
  {i \in WithFormat(pkg, "scalars") : id \in DOMAIN Content(pkg, i).values}

ColumnSources(pkg, id) ==
  {i \in WithFormat(pkg, "attributes") : id \in AttributeColumns(Content(pkg, i))}

VariableSources(pkg, id) ==
  {i \in Indices(pkg) \ WithFormat(pkg, "attributes") : pkg.artifacts[i].variable = id}
=============================================================================
