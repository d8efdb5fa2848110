---------------------------- MODULE Conformance ----------------------------
(***************************************************************************)
(* The checks of the validator as predicates on a package, the verdict     *)
(* they add up to, and, independently of them, the checklist that the      *)
(* specification gives a validator.  Validation runs the checks one by     *)
(* one; Derivation and Materialization require the verdict of their input  *)
(* and of their output.                                                    *)
(***************************************************************************)
EXTENDS Packages, SequencesExt

CONSTANTS
  DottedPaths   \* the paths with `..` inside a segment, as in `a..b`

\* ALL_CHECK_IDS
Checks == <<"M1", "M2", "M3", "P1", "R1", "R2", "D1", "MAP1", "F1", "PARAM1">>

-----------------------------------------------------------------------------
(***************************************************************************)
(* The checks.  Each stops at its first failure, of which only the detail  *)
(* of the report tells; here a check holds or does not.                    *)
(***************************************************************************)

\* Parent traversal, absolute and empty paths never get past the manifest.
CheckP1(p) == \A i \in Indices(p) : p.artifacts[i].path \notin DottedPaths

CheckR1(p) == RegistryLoads(p)

CheckR2(p) ==
  \A i \in WithFormat(p, "attributes") :
    /\ ReadsAttributes(Content(p, i))
    /\ AttributeColumns(Content(p, i)) \subseteq DOMAIN Registry(p)

\* artifact_for_role: the first artifact with that role, 0 if there is none.
ArtifactForRole(p, role) ==
  SelectInSeq(p.artifacts, LAMBDA artifact : artifact.role = role)

\* The geometry of a mapping artifact joined to its declaration.
Geometry(p, m) ==
  [source |-> m.source, target |-> m.target,
   entries |-> Content(p, ArtifactForRole(p, m.role)).rows]

\* MappingGeometry::read needs the columns of domain_mapping_v1.
CheckD1(p) ==
  \A k \in DOMAIN p.domains : LET d == p.domains[k] IN
    /\ FromDomain(d)
    /\ d.externalIds # None =>
         \A j \in DOMAIN p.mappings : LET m == p.mappings[j] IN
           d.id \in {m.source, m.target} /\ ArtifactForRole(p, m.role) # 0 =>
             /\ ReadsMapping(Content(p, ArtifactForRole(p, m.role)))
             /\ CrossCheck(d, Geometry(p, m)) = "none"

\* Mistake: a mapping must be a domain_mapping.
CheckMAP1Generic(p) ==
  \A j \in DOMAIN p.mappings : LET i == ArtifactForRole(p, p.mappings[j].role) IN
    i # 0 /\ p.artifacts[i].format = "domain_mapping"

CheckMAP1(p) ==
  \A j \in DOMAIN p.mappings : LET i == ArtifactForRole(p, p.mappings[j].role) IN
    i # 0 /\ p.artifacts[i].format \in MappingFormats

CheckF1(p) == \A i \in Indices(p) : HasShape(Content(p, i), p.artifacts[i].format)

\* Mistake: the variable of a scalars artifact is not counted.
CountParameterSourcesPhysical(p, id) ==
  Cardinality(KeySources(p, id)) + Cardinality(ColumnSources(p, id))
    + Cardinality(VariableSources(p, id) \ WithFormat(p, "scalars"))

\* source_counts of a parameter: an artifact counts once as a scalars object
\* and once more for its variable.
CountParameterSources(p, id) ==
  Cardinality(KeySources(p, id)) + Cardinality(ColumnSources(p, id))
    + Cardinality(VariableSources(p, id))

CheckPARAM1(p) ==
  LET reg == Registry(p) IN
  /\ \A i \in WithFormat(p, "scalars") : ReadsScalars(Content(p, i), reg)
  /\ \A i \in WithFormat(p, "attributes") : ReadsAttributes(Content(p, i))
  /\ \A id \in Parameters(reg) : CountParameterSources(p, id) = 1

Ran(holds) == IF holds THEN "pass" ELSE "fail"

\* Mistake: without a registry there is nothing to check the columns against.
OutcomeR1Skipped(id, p) ==
  CASE id = "P1"     -> Ran(CheckP1(p))
    [] id = "D1"     -> Ran(CheckD1(p))
    [] id = "MAP1"   -> Ran(CheckMAP1(p))
    [] id = "F1"     -> Ran(CheckF1(p))
    [] id \in {"R1", "R2", "PARAM1"} /\ ~CheckR1(p) -> "skipped"
    [] id = "R2"     -> Ran(CheckR2(p))
    [] id = "PARAM1" -> Ran(CheckPARAM1(p))
    [] OTHER         -> "pass"

\* run_check: M1, M2 and M3 were decided when the manifest was parsed; R2 and
\* PARAM1 are skipped without a registry.
Outcome(id, p) ==
  CASE id = "P1"     -> Ran(CheckP1(p))
    [] id = "R1"     -> Ran(CheckR1(p))
    [] id = "D1"     -> Ran(CheckD1(p))
    [] id = "MAP1"   -> Ran(CheckMAP1(p))
    [] id = "F1"     -> Ran(CheckF1(p))
    [] id \in {"R2", "PARAM1"} /\ ~CheckR1(p) -> "skipped"
    [] id = "R2"     -> Ran(CheckR2(p))
    [] id = "PARAM1" -> Ran(CheckPARAM1(p))
    [] OTHER         -> "pass"

\* ValidationReport::from_outcomes: a skipped check does not count.
FromOutcomes(results) == \A k \in DOMAIN results : results[k] # "fail"

\* The verdict of a whole validation.
Conformant(p) == \A k \in DOMAIN Checks : Outcome(Checks[k], p) # "fail"

-----------------------------------------------------------------------------
(***************************************************************************)
(* What spec 11.1 has a validator check of a package whose manifest has    *)
(* been read, said without the checks: clauses 5.4, 6.1, 6.2, 6.5, 7.1     *)
(* (formats and columns), 7.3 and 8.3.  The specification asks more of a   *)
(* package that is not on this list and that no check looks at: that a     *)
(* declared sha256 is that of the bytes (7.2), that a raster lies on the   *)
(* package grid (7.1), that the indices of an attribute table, and those   *)
(* of a domain without external_ids, are those of its entity_count         *)
(* entities (5.3), and that additive tables name their domain (5.5).       *)
(***************************************************************************)

\* 6.1, 6.2: exactly one registry, and every field of it well formed.
HasRegistry(p) ==
  \E i \in Indices(p) :
    /\ RegistryArtifacts(p) = {i}
    /\ ParsesAsRegistry(Content(p, i))

\* 7.1: the required columns and their arrow types.
ColumnTypes ==
  [reach_topology |-> [reach_id |-> "int64", downstream_reach_id |-> "int64",
                       order_index |-> "int64", manning_n |-> "float64",
                       width_m |-> "float64", slope |-> "float64",
                       length_m |-> "float64", geometry |-> "binary"],
   gauge_long     |-> [timestep |-> "int64", gauge_id |-> "int64", value |-> "float64"],
   gauge_metadata |-> [gauge_id |-> "int64", x |-> "float64", y |-> "float64",
                       z |-> "float64", name |-> "utf8"],
   cell_to_gauge  |-> [cell_index |-> "int64", gauge_id |-> "int64", weight |-> "float64"],
   cell_to_reach  |-> [cell_index |-> "int64", reach_id |-> "int64", weight |-> "float64"],
   attributes     |-> [entity_index |-> "int64"],
   domain_mapping |-> [source_index |-> "int64", target_index |-> "int64",
                       weight |-> "float64"]]

HasTypes(table, types) ==
  \A name \in DOMAIN types : name \in DOMAIN table.columns /\ table.columns[name] = types[name]

\* A dense zero-based index: every number below the number of rows, once.
DenselyIndexed(table) ==
  {table.rows[k].entity : k \in DOMAIN table.rows} = 0 .. Len(table.rows) - 1

\* 7.1: the columns of a table are the required ones, a `geo` block belongs to a
\* GeoParquet, and an attribute table has one float64 column per field, dense.
TableFits(table, format) ==
  /\ table.kind = "parquet"
  /\ HasTypes(table, ColumnTypes[format])
  /\ format = "reach_topology" => table.geo = "good"
  /\ format = "attributes" =>
       /\ DOMAIN table.columns = {"entity_index"} \cup AttributeColumns(table)
       /\ AttributeColumns(table) # {}
       /\ table.nulls = {}
       /\ DenselyIndexed(table)
  /\ format \in MappingFormats => table.nulls \cap DOMAIN ColumnTypes[format] = {}

\* 7.1, 7.3: the payload is in its declared format; scalars give registered
\* parameters values that fit, and attribute columns are registered (6.5).
PayloadFits(p, i) ==
  LET content == Content(p, i)  format == p.artifacts[i].format IN
    /\ format = "scalars" => ReadsScalars(content, Registry(p))
    /\ format \in {"cog", "zarr"} => content.kind = format
    /\ format \in DOMAIN ColumnTypes => TableFits(content, format)
    /\ format = "attributes" => AttributeColumns(content) \subseteq DOMAIN Registry(p)

\* 7.3: the candidates for the source of a field, of which a parameter has one.
\* Of an attribute table these are the columns of any type.
SourceCandidates(p, id) ==
  {<<i, "key">> : i \in KeySources(p, id)}
    \cup {<<i, "column">> : i \in {k \in WithFormat(p, "attributes") :
                                   id \in DOMAIN Content(p, k).columns \ {"entity_index"}}}
    \cup {<<i, "variable">> : i \in VariableSources(p, id)}

SingleSources(p) ==
  \A id \in Parameters(Registry(p)) : \E s \in SourceCandidates(p, id) :
    SourceCandidates(p, id) = {s}

\* 8.3: the artifacts that may be what a mapping's role refers to.
MappingArtifacts(p, m) ==
  {i \in Indices(p) : p.artifacts[i].role = m.role
                         /\ p.artifacts[i].format \in MappingFormats}

\* 5.4: the entity indices in the generic mappings of a domain with
\* external_ids are exactly the indices of its entities.
IdentifiesEntities(p, d) ==
  d.externalIds # None =>
    /\ d.externalIds = d.count
    /\ \A j \in DOMAIN p.mappings : LET m == p.mappings[j] IN
         d.id \in {m.source, m.target} =>
           \E i \in MappingArtifacts(p, m) :
             TableFits(Content(p, i), "domain_mapping") =>
               Covers(d, [source |-> m.source, target |-> m.target,
                          entries |-> Content(p, i).rows])

MeetsChecklist(p) ==
  /\ HasRegistry(p)
  /\ \A i \in Indices(p) : PayloadFits(p, i)
  /\ SingleSources(p)
  /\ \A j \in DOMAIN p.mappings : MappingArtifacts(p, p.mappings[j]) # {}
  /\ \A k \in DOMAIN p.domains : IdentifiesEntities(p, p.domains[k])

-----------------------------------------------------------------------------
(***************************************************************************)
(* What no check looks at.  F1 compares the names of columns; their types  *)
(* are found out by those who read the table, if it has a row.             *)
(***************************************************************************)
Identifies(m, d) == d.externalIds # None /\ d.id \in {m.source, m.target}

\* The mappings whose columns D1 reads: of another encoding, not its own.
ReadByD1(p, i) ==
  p.artifacts[i].format = "domain_mapping" /\
  \E k \in DOMAIN p.domains, j \in DOMAIN p.mappings :
    Identifies(p.mappings[j], p.domains[k]) /\ ArtifactForRole(p, p.mappings[j].role) = i

\* A column of another type than float64 is neither an attribute nor an error,
\* and without a row the index itself passes for an attribute when it is float64.
StrayColumns(table) ==
  DOMAIN table.columns \ {"entity_index"} # AttributeColumns(table)

\* What is wrong with a table can go unnoticed.
Unread(p, i) ==
  LET format == p.artifacts[i].format IN
  /\ format \in DOMAIN RequiredColumns
  /\ RequiredColumns[format] \subseteq DOMAIN Content(p, i).columns
  /\ Content(p, i).rows # <<>> =>
       IF format = "attributes"
       THEN StrayColumns(Content(p, i)) \/ ~DenselyIndexed(Content(p, i))
       ELSE ~ReadByD1(p, i)

\* All of the checklist, except for what is not read.
MeetsChecklistAsRead(p) ==
  /\ HasRegistry(p)
  /\ \A i \in Indices(p) : PayloadFits(p, i) \/ Unread(p, i)
  /\ \/ SingleSources(p)
     \/ \E i \in WithFormat(p, "attributes") : StrayColumns(Content(p, i))
  /\ \A j \in DOMAIN p.mappings : MappingArtifacts(p, p.mappings[j]) # {}
  /\ \A k \in DOMAIN p.domains : IdentifiesEntities(p, p.domains[k])
=============================================================================
