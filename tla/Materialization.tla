-------------------------- MODULE Materialization --------------------------
(***************************************************************************)
(* `hmx materialize` up to the staged package and its record: the scalars  *)
(* object of the base becomes one constant raster per field on the grid of *)
(* the package.  Other programs may write to the base meanwhile.           *)
(***************************************************************************)
EXTENDS Conformance, Staging, Record

CONSTANTS
  Scenarios,      \* a set of [bases, writes]: base packages with a grid and with a
                  \* declared digest `sha` for each artifact; how often others write
  FileEdits,      \* what others may write to a file of the base
  ManifestEdits,  \* what they may make of the artifacts in its manifest
  MaxBands,       \* u16::MAX, what SamplesPerPixel can say
  MaxEpsg         \* u16::MAX, what a GeoKey can say

ASSUME MaterializationAssumption == MaxBands \in Nat \ {0} /\ MaxEpsg \in Nat

\* Both names carry the digest of the field id.
GeneratedRole(id) == "materialized." \o id
GeneratedPath(id) == <<"parameter", "materialized", id>>

\* A grid as it is parsed.
IsGrid(grid) == {grid.nx, grid.ny} \subseteq Nat
  /\ {grid.cell, grid.xmin, grid.xmax, grid.ymin, grid.ymax, grid.epsg} \subseteq Int

\* The roles of generated artifacts are names, and their paths need no rewriting.
AreGeneratable(file) ==
  Followed(file).kind = "registry" =>
    \A i \in DOMAIN Followed(file).fields :
      LET field == Followed(file).fields[i] IN
      field.role = "parameter" =>
        GeneratedRole(field.id) \in Names /\ Normal(GeneratedPath(field.id)) = GeneratedPath(field.id)

ASSUME ScenariosAssumption ==
  /\ IsSequence(Bytewise)
  /\ \A scenario \in Scenarios : \A p \in scenario.bases :
       /\ IsBase(p)
       /\ "grid" \in DOMAIN p /\ IsGrid(p.grid)
       /\ \A path \in DOMAIN p.files : AreGeneratable(p.files[path])
  /\ \A edit \in FileEdits : IsBaseFile(edit.content) /\ AreGeneratable(edit.content)
  /\ \A list \in ManifestEdits : AreArtifacts(list)

VARIABLES
  pc,         \* the next step; "done" or "failed" at the end
  disk,       \* the base package as it is on disk
  writes,     \* how often other programs may still write
  disturbed,  \* whether one has
  base,       \* the base manifest, as it was read
  registry,   \* the registry, as it was read
  values,     \* the scalars, as they were read
  plans,      \* the fields planned so far
  copied,     \* how many artifacts of the base the copy has passed
  staged,     \* the staging directory
  generated,  \* the artifacts generated so far
  record      \* the derivation record

world == <<disk, writes, disturbed>>
reading == <<base, registry, values>>
output == <<copied, staged, generated, record>>
vars == <<pc, world, reading, plans, output>>

Seen == [domains |-> base.domains, mappings |-> base.mappings,
         artifacts |-> base.artifacts, files |-> disk.files]

TheScalars == CHOOSE i \in WithFormat(base, "scalars") : TRUE

Fail == pc' = "failed" /\ UNCHANGED <<world, reading, plans, output>>

Proceed(next) == pc' = next /\ UNCHANGED <<world, reading, plans, output>>

-----------------------------------------------------------------------------
Init ==
  /\ pc = "manifest"
  /\ \E scenario \in Scenarios : disk \in scenario.bases /\ writes = scenario.writes
  /\ disturbed = FALSE
  /\ base = None
  /\ registry = <<>>
  /\ values = <<>>
  /\ plans = <<>>
  /\ copied = 0
  /\ staged = <<>>
  /\ generated = <<>>
  /\ record = None

ReadManifest ==
  /\ pc = "manifest"
  /\ base' = [domains |-> disk.domains, mappings |-> disk.mappings,
              artifacts |-> disk.artifacts, grid |-> disk.grid]
  /\ pc' = "require"
  /\ UNCHANGED <<world, registry, values, plans, output>>

\* validate reads the manifest again.
RequireConformant ==
  /\ pc = "require"
  /\ IF Conformant(disk) THEN Proceed("registry") ELSE Fail

LoadRegistry ==
  /\ pc = "registry"
  /\ IF ~RegistryLoads(Seen)
     THEN Fail
     ELSE /\ registry' = Registry(Seen)
          /\ pc' = "scalars"
          /\ UNCHANGED <<world, base, values, plans, output>>

\* require_scalar_artifact and read_parameter_scalars
ReadTheScalars ==
  /\ pc = "scalars"
  /\ IF \/ Cardinality(WithFormat(base, "scalars")) # 1
        \/ ~ReadsScalars(Content(Seen, TheScalars), registry)
     THEN Fail
     ELSE /\ values' = Content(Seen, TheScalars).values
          /\ pc' = "grid"
          /\ UNCHANGED <<world, base, registry, plans, output>>

\* Mistake: the height of the extent is not compared.
PreflightGridX(grid) ==
  /\ grid.nx > 0 /\ grid.ny > 0 /\ grid.cell > 0
  /\ grid.origin = "upper_left"
  /\ grid.xmax - grid.xmin = grid.nx * grid.cell
  /\ grid.epsg \in 1 .. MaxEpsg

\* preflight_grid (integers stand for floats, so require_close is equality).
PreflightGrid(grid) ==
  /\ grid.nx > 0 /\ grid.ny > 0 /\ grid.cell > 0
  /\ grid.origin = "upper_left"
  /\ grid.xmax - grid.xmin = grid.nx * grid.cell
  /\ grid.ymax - grid.ymin = grid.ny * grid.cell
  /\ grid.epsg \in 1 .. MaxEpsg

CheckGrid ==
  /\ pc = "grid"
  /\ IF PreflightGrid(base.grid) THEN Proceed("plan") ELSE Fail

-----------------------------------------------------------------------------
BandCount(id) == IF values[id].layers = 0 THEN 1 ELSE values[id].layers

\* Mistake: any number of layers will do.
SupportedBandCountAny(count) == TRUE

SupportedBandCount(count) == count <= MaxBands

\* Mistake: an artifact may be a directory that the generated path is below.
PathConflictsEqual(left, right) == left = right

\* path_conflicts compares the paths as they are spelled.
PathConflicts(left, right) == IsPrefix(left, right) \/ IsPrefix(right, left)

\* One round of build_plans, over the scalars in ascending order.
PlanField ==
  /\ pc = "plan"
  /\ \E id \in DOMAIN values \ Range(plans) :
       /\ \A other \in DOMAIN values \ Range(plans) : other = id \/ Before(id, other)
       /\ IF /\ SupportedBandCount(BandCount(id))
             /\ \A i \in Indices(base) \ {TheScalars} :
                  /\ base.artifacts[i].role # GeneratedRole(id)
                  /\ ~PathConflicts(base.artifacts[i].path, GeneratedPath(id))
          THEN /\ plans' = Append(plans, id)
               /\ UNCHANGED <<pc, world, reading, output>>
          ELSE Fail

StartStaging ==
  /\ pc = "plan"
  /\ Range(plans) = DOMAIN values
  /\ Proceed("copy")

-----------------------------------------------------------------------------
(***************************************************************************)
(* stage_and_publish, up to the publication.                               *)
(***************************************************************************)

\* One round of the copy loop, which skips the scalars artifact.
CopyArtifact ==
  /\ pc = "copy"
  /\ copied < Len(base.artifacts)
  /\ LET i == copied + 1  path == PathOf(base, i) IN
     IF i # TheScalars /\ ~CanCopy(disk.files, staged, path)
     THEN Fail
     ELSE /\ copied' = i
          /\ staged' = IF i = TheScalars THEN staged ELSE Copied(disk.files, staged, path)
          /\ UNCHANGED <<pc, world, reading, plans, generated, record>>

\* write_constant_tiff: every band is of one type, and the GeoKeyDirectory has
\* the keys 1024, 1025 and 3072, the EPSG code of the grid.
ConstantTiff(id) ==
  [kind    |-> "cog",              bands |-> BandCount(id) % (MaxBands + 1),
   formats |-> [k \in 1 .. BandCount(id) |-> 3],
   bits    |-> [k \in 1 .. BandCount(id) |-> 64],
   keys    |-> <<1, 1, 0, 3, 1024, 0, 1, 1, 1025, 0, 1, 1, 3072, 0, 1, base.grid.epsg>>,
   value   |-> values[id],
   nx      |-> base.grid.nx,       ny    |-> base.grid.ny,  scale |-> base.grid.cell,
   tie     |-> [x |-> base.grid.xmin, y |-> base.grid.ymax]]

\* One round of the loop over the plans, with the digest of what was written.
GenerateRaster ==
  /\ pc = "copy"
  /\ copied = Len(base.artifacts)
  /\ Len(generated) < Len(plans)
  /\ LET id == plans[Len(generated) + 1]
         path == GeneratedPath(id)
     IN IF ~CanWrite(staged, path)
        THEN Fail
        ELSE /\ staged' = Written(staged, path, ConstantTiff(id))
             /\ generated' = Append(generated,
                  [role |-> GeneratedRole(id), path |-> path, format |-> "cog",
                   variable |-> id, sha |-> TreeAt(staged', path)])
             /\ UNCHANGED <<pc, world, reading, plans, copied, record>>

\* The generated artifacts take the place of the scalars artifact.
NewArtifacts ==
  SubSeq(base.artifacts, 1, TheScalars - 1) \o generated
    \o SubSeq(base.artifacts, TheScalars + 1, Len(base.artifacts))

Materialized ==
  [domains |-> base.domains, mappings |-> base.mappings,
   artifacts |-> NewArtifacts, files |-> staged]

\* Mistake: a single removal entry stands for what replaces the scalars, too.
EntriesWithoutAdditions ==
  <<Removal(base.artifacts[TheScalars].role, Range(plans), base.artifacts[TheScalars].sha)>>

Entries ==
  [k \in DOMAIN generated |->
     Addition(generated[k].role, {generated[k].variable}, generated[k].sha)]
    \o <<Removal(base.artifacts[TheScalars].role, Range(plans), base.artifacts[TheScalars].sha)>>

\* Mistake: the base was validated, so the staged package need not be.
ValidateStagedNot ==
  /\ pc = "copy"
  /\ copied = Len(base.artifacts)
  /\ Len(generated) = Len(plans)
  /\ record' = DerivationRecord(ManifestOf(base), ManifestOf(Materialized), {}, Entries)
  /\ pc' = "done"
  /\ UNCHANGED <<world, reading, plans, copied, staged, generated>>

\* The manifest is written, the package is validated, and the record is made.
ValidateStaged ==
  /\ pc = "copy"
  /\ copied = Len(base.artifacts)
  /\ Len(generated) = Len(plans)
  /\ IF ~Conformant(Materialized)
     THEN Fail
     ELSE /\ record' = DerivationRecord(ManifestOf(base), ManifestOf(Materialized), {}, Entries)
          /\ pc' = "done"
          /\ UNCHANGED <<world, reading, plans, copied, staged, generated>>

\* Another program writes to the base.
EditBase ==
  /\ writes > 0
  /\ pc \notin {"done", "failed"}
  /\ \/ \E edit \in FileEdits :
          /\ edit.path \in DOMAIN disk.files
          /\ disk' = [disk EXCEPT !.files[edit.path] = edit.content]
     \/ \E edit \in ManifestEdits : disk' = [disk EXCEPT !.artifacts = edit]
  /\ disk' # disk
  /\ writes' = writes - 1
  /\ disturbed' = TRUE
  /\ UNCHANGED <<pc, reading, plans, output>>

Next ==
  \/ ReadManifest
  \/ RequireConformant
  \/ LoadRegistry
  \/ ReadTheScalars
  \/ CheckGrid
  \/ PlanField
  \/ StartStaging
  \/ CopyArtifact
  \/ GenerateRaster
  \/ ValidateStaged
  \/ EditBase

Spec == Init /\ [][Next]_vars

-----------------------------------------------------------------------------
(***************************************************************************)
(* Properties.                                                             *)
(***************************************************************************)
Succeeded == pc = "done"

\* The artifact has the field as its variable, and no other source of the field
\* can be read.
Carries(i, id) ==
  /\ KeySources(Materialized, id) = {} /\ ColumnSources(Materialized, id) = {}
  /\ VariableSources(Materialized, id) = {i}

\* The file of the scalars is part of what another artifact brings along.
ScalarsShared ==
  \E i \in Indices(base) \ {TheScalars} : IsPrefix(PathOf(base, i), PathOf(base, TheScalars))

\* Every scalar that was read is in a raster with a band for each of its layers,
\* its only source if it is a parameter still, and no scalars object is left in
\* the manifest or, unless another artifact has its file, in the artifact tree.
ConversionComplete ==
  Succeeded =>
    /\ WithFormat(Materialized, "scalars") = {}
    /\ PathOf(base, TheScalars) \in DOMAIN staged =>
         ScalarsShared \/ PathOf(base, TheScalars) \in {generated[k].path : k \in DOMAIN generated}
    /\ \A id \in DOMAIN values : \E i \in Indices(Materialized) :
         /\ i \in VariableSources(Materialized, id)
         /\ id \in Parameters(Registry(Materialized)) => Carries(i, id)
         /\ Content(Materialized, i).kind = "cog"
         /\ Content(Materialized, i).value = values[id]
         /\ Content(Materialized, i).bands = BandCount(id)

\* Its path is spelled the way the tool spells the generated ones: path_conflicts
\* does not see that ./x and x are one file.
Plain(artifact) == Normal(artifact.path) = artifact.path

\* Every other artifact keeps its manifest entry, and all its bytes if nobody
\* else writes to the base: no generated raster gets into a store.
OthersKept ==
  Succeeded =>
    \A i \in {k \in Indices(base) \ {TheScalars} : Plain(base.artifacts[k])} :
      LET path == PathOf(base, i) IN
      /\ base.artifacts[i] \in Range(Materialized.artifacts)
      /\ ~disturbed => TreeAt(staged, path) = TreeAt(disk.files, path)

\* A generated raster covers the extent of the grid and can be read back with the
\* EPSG code of the grid, and its declared digest is that of its bytes.
RastersFitGrid ==
  Succeeded =>
    \A k \in DOMAIN generated :
      LET raster == staged[generated[k].path] IN
        /\ generated[k].sha = TreeAt(staged, generated[k].path)
        /\ raster.tie.x + raster.nx * raster.scale = base.grid.xmax
        /\ raster.tie.y - raster.ny * raster.scale = base.grid.ymin
        /\ ReadsCog(raster)
        /\ EpsgOf(raster.keys) = base.grid.epsg

\* The output meets the checklist of 11.1 as far as the checks read it, although
\* a conformant base need not be convertible (its scalars artifact may itself be
\* the source of a parameter), and whoever writes to the base, its manifest
\* included, between two reads.
OutputConforms == Succeeded => MeetsChecklistAsRead(Materialized)

Declarations(artifacts, indices) ==
  {<<artifacts[i].role, <<artifacts[i].sha>>>> : i \in indices}

\* From the base manifest that the record names, the removal of one artifact and
\* the additions lead to the derived one, and they are for the same fields, in
\* the order that HMX_SPEC 10.10 asks for.
RecordAudits ==
  Succeeded =>
    LET before == record.base.artifacts
        after == record.derived.artifacts
        removals == {entry \in Range(record.replaced) : entry.new = <<>>}
        additions == {entry \in Range(record.replaced) : entry.old = <<>>}
    IN
    /\ \E i \in DOMAIN before :
         /\ {<<entry.role, entry.old>> : entry \in removals} = Declarations(before, {i})
         /\ Declarations(after, DOMAIN after) =
              Declarations(before, DOMAIN before \ {i})
                \cup {<<entry.role, entry.new>> : entry \in additions}
    /\ UNION {Range(entry.ids) : entry \in additions} =
         UNION {Range(entry.ids) : entry \in removals}
    /\ Ordered(record.replaced)
=============================================================================
