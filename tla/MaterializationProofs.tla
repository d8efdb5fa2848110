------------------------ MODULE MaterializationProofs ------------------------
(***************************************************************************)
(* What a materialization publishes: for bases with any number of scalars  *)
(* and of other artifacts, grids of any size, and any number of writes to  *)
(* the base by other programs.                                             *)
(***************************************************************************)
EXTENDS Materialization, PackageProofs

-----------------------------------------------------------------------------
(***************************************************************************)
(* The order of the steps.                                                 *)
(***************************************************************************)
AfterPlans == {"copy", "done"}
AfterGrid == {"plan"} \cup AfterPlans
AfterScalars == {"grid"} \cup AfterGrid
AfterRegistry == {"scalars"} \cup AfterScalars
AfterManifest == {"require", "registry"} \cup AfterRegistry

\* What is read and planned stays what it was.
LEMMA ReadOnce ==
  ASSUME [Next]_vars
  PROVE  /\ pc \in AfterManifest => base' = base
         /\ pc' \in AfterManifest => pc \in AfterManifest \/ ReadManifest
         /\ pc \in AfterRegistry => registry' = registry
         /\ pc' \in AfterRegistry => pc \in AfterRegistry \/ LoadRegistry
         /\ pc \in AfterScalars => values' = values
         /\ pc' \in AfterScalars => pc \in AfterScalars \/ ReadTheScalars
         /\ pc' \in AfterGrid => pc \in AfterGrid \/ CheckGrid
         /\ plans' = plans \/ PlanField
         /\ pc' \in AfterPlans => pc \in AfterPlans \/ StartStaging
         /\ pc \in AfterPlans => plans' = plans
<1> USE DEF Next, vars, world, reading, output, Fail, Proceed, AfterManifest, AfterRegistry,
            AfterScalars, AfterGrid, AfterPlans, ReadManifest, RequireConformant, LoadRegistry,
            ReadTheScalars, CheckGrid, PlanField, StartStaging, CopyArtifact, GenerateRaster,
            ValidateStaged, EditBase
<1>1. /\ pc \in AfterManifest => base' = base
      /\ pc' \in AfterManifest => pc \in AfterManifest \/ ReadManifest
      /\ pc \in AfterRegistry => registry' = registry
      /\ pc' \in AfterRegistry => pc \in AfterRegistry \/ LoadRegistry
  OBVIOUS
<1>2. /\ pc \in AfterScalars => values' = values
      /\ pc' \in AfterScalars => pc \in AfterScalars \/ ReadTheScalars
      /\ pc' \in AfterGrid => pc \in AfterGrid \/ CheckGrid
  OBVIOUS
<1>3. /\ plans' = plans \/ PlanField
      /\ pc' \in AfterPlans => pc \in AfterPlans \/ StartStaging
      /\ pc \in AfterPlans => plans' = plans
  OBVIOUS
<1> QED
  BY <1>1, <1>2, <1>3

\* So does what is staged; and who writes to the base leaves a trace.
LEMMA StagedOnce ==
  ASSUME [Next]_vars
  PROVE  /\ UNCHANGED <<copied, staged, generated>> \/ CopyArtifact \/ GenerateRaster
         /\ pc' = "done" => (pc = "done" /\ UNCHANGED vars) \/ ValidateStaged
         /\ pc \in AfterPlans \cup {"failed"} => pc' \in AfterPlans \cup {"failed"}
         /\ pc \in AfterGrid \cup {"failed"} => pc' \in AfterGrid \cup {"failed"}
         /\ disk' = disk \/ EditBase
         /\ ~disturbed' => ~disturbed /\ disk' = disk
<1> USE DEF Next, vars, world, reading, output, Fail, Proceed, AfterGrid, AfterPlans,
            ReadManifest, RequireConformant, LoadRegistry,
            ReadTheScalars, CheckGrid, PlanField, StartStaging, CopyArtifact, GenerateRaster,
            ValidateStaged, EditBase
<1>1. /\ UNCHANGED <<copied, staged, generated>> \/ CopyArtifact \/ GenerateRaster
      /\ pc' = "done" => (pc = "done" /\ UNCHANGED vars) \/ ValidateStaged
  OBVIOUS
<1>2. /\ pc \in AfterPlans \cup {"failed"} => pc' \in AfterPlans \cup {"failed"}
      /\ pc \in AfterGrid \cup {"failed"} => pc' \in AfterGrid \cup {"failed"}
  OBVIOUS
<1>3. /\ disk' = disk \/ EditBase
      /\ ~disturbed' => ~disturbed /\ disk' = disk
  OBVIOUS
<1> QED
  BY <1>1, <1>2, <1>3

-----------------------------------------------------------------------------
(***************************************************************************)
(* The inductive invariant, in the order of the steps.                     *)
(***************************************************************************)

\* Whatever is written, the base stays a package with a grid.
WorldInv ==
  /\ IsBase(disk)
  /\ "grid" \in DOMAIN disk /\ IsGrid(disk.grid)
  /\ \A path \in DOMAIN disk.files : AreGeneratable(disk.files[path])

ManifestRead == IsManifest(base) /\ AreArtifacts(base.artifacts) /\ IsGrid(base.grid)

\* A parameter can be generated.
RegistryRead ==
  \A id \in DOMAIN registry :
    /\ id \in Names
    /\ registry[id].extent # "scalar" => registry[id].layers \in Nat \ {0}
    /\ registry[id].role = "parameter" =>
         GeneratedRole(id) \in Names /\ Normal(GeneratedPath(id)) = GeneratedPath(id)

\* The values are those of registered parameters, with at least one band each.
ScalarsRead ==
  /\ WithFormat(base, "scalars") = {TheScalars}
  /\ \A id \in DOMAIN values :
       /\ {id, GeneratedRole(id)} \subseteq Names
       /\ Normal(GeneratedPath(id)) = GeneratedPath(id)
       /\ BandCount(id) \in Nat \ {0}

ReadingInv ==
  /\ pc \in AfterManifest => ManifestRead
  /\ pc \in AfterRegistry => RegistryRead
  /\ pc \in AfterScalars => ScalarsRead
  /\ pc \in AfterGrid => PreflightGrid(base.grid)

\* A planned field has values that a TIFF can hold, and a path of its own.
IsPlanned(id) ==
  /\ id \in DOMAIN values
  /\ SupportedBandCount(BandCount(id))
  /\ \A i \in Indices(base) \ {TheScalars} :
       ~PathConflicts(base.artifacts[i].path, GeneratedPath(id))

FieldsPlanned ==
  /\ IsSequence(plans)
  /\ \A k \in DOMAIN plans : IsPlanned(plans[k])
  /\ \A k, n \in DOMAIN plans : plans[k] = plans[n] => k = n

PlanningInv ==
  /\ pc \notin AfterGrid \cup {"failed"} => plans = <<>>
  /\ pc \in AfterGrid => FieldsPlanned
  /\ pc \in AfterPlans => Range(plans) = DOMAIN values

CopiedOnes == {i \in Indices(base) \ {TheScalars} : i <= copied}

IsGeneratedPath(path) == \E k \in DOMAIN generated : path = GeneratedPath(plans[k])

\* What is staged is no link, and comes from an artifact or from a plan.
FilesStaged ==
  \A path \in DOMAIN staged :
    /\ staged[path].kind # "link" /\ IsContent(staged[path])
    /\ IsGeneratedPath(path) \/ \E i \in CopiedOnes : IsPrefix(PathOf(base, i), path)
    /\ ~disturbed => \/ IsGeneratedPath(path)
                     \/ path \in DOMAIN disk.files /\ staged[path] = disk.files[path]

\* Nothing of a copied artifact is missing.
TreesStaged ==
  ~disturbed =>
    \A i \in CopiedOnes : DOMAIN TreeAt(disk.files, PathOf(base, i)) \subseteq DOMAIN staged

\* The raster is staged for good, and declared as it is.
IsGenerated(k) == LET path == GeneratedPath(plans[k]) IN
  /\ generated[k].role = GeneratedRole(plans[k]) /\ generated[k].path = path
  /\ generated[k].format = "cog" /\ generated[k].variable = plans[k]
  /\ path \in DOMAIN staged /\ staged[path] = ConstantTiff(plans[k])
  /\ generated[k].sha = TreeAt(staged, path)

RastersGenerated ==
  /\ IsSequence(generated) /\ Len(generated) <= Len(plans)
  /\ \A k \in DOMAIN generated : IsGenerated(k)

StagingInv ==
  /\ pc \notin AfterPlans \cup {"failed"} => copied = 0 /\ staged = <<>> /\ generated = <<>>
  /\ pc \in AfterPlans =>
       /\ copied \in 0 .. Len(base.artifacts)
       /\ generated # <<>> => copied = Len(base.artifacts)
       /\ FilesStaged /\ TreesStaged /\ RastersGenerated

ResultInv ==
  pc = "done" =>
    /\ copied = Len(base.artifacts) /\ Len(generated) = Len(plans)
    /\ Conformant(Materialized)
    /\ record = DerivationRecord(ManifestOf(base), ManifestOf(Materialized), {}, Entries)

-----------------------------------------------------------------------------
\* EditBase writes to a file that is there, or a whole list of artifacts.
LEMMA WorldInvHolds == Spec => []WorldInv
<1>1. Init => WorldInv
  BY ScenariosAssumption DEF Init, WorldInv
<1>2. ASSUME WorldInv, [Next]_vars
      PROVE  WorldInv'
  <2>1. CASE disk' = disk
    BY <1>2, <2>1 DEF WorldInv
  <2>2. ASSUME NEW edit \in FileEdits, edit.path \in DOMAIN disk.files,
               disk' = [disk EXCEPT !.files[edit.path] = edit.content]
        PROVE  WorldInv'
    <3>1. IsBaseFile(edit.content) /\ AreGeneratable(edit.content)
      BY ScenariosAssumption
    <3> QED
      BY <1>2, <2>2, <3>1, EditedFile DEF WorldInv
  <2>3. ASSUME NEW list \in ManifestEdits, disk' = [disk EXCEPT !.artifacts = list]
        PROVE  WorldInv'
    <3>1. AreArtifacts(list)
      BY ScenariosAssumption
    <3> QED
      BY <1>2, <2>3, <3>1, EditedArtifacts DEF WorldInv
  <2> QED
    BY <1>2, <2>1, <2>2, <2>3, StagedOnce DEF EditBase
<1> QED
  BY <1>1, <1>2, PTL DEF Spec

\* The parameters of a registry that parses can be generated.
LEMMA RegistryCanBeGenerated ==
  ASSUME WorldInv, RegistryLoads(Seen), registry' = Registry(Seen)
  PROVE  RegistryRead'
<1> DEFINE content == Content(Seen, TheRegistry(Seen))
           path == PathOf(Seen, TheRegistry(Seen))
           dtos == {content.fields[i] : i \in DOMAIN content.fields}
<1>1. /\ content.kind = "registry" /\ content = FileAt(disk.files, path)
      /\ \A i \in DOMAIN content.fields : ParseField(content.fields[i])
  BY DEF RegistryLoads, ParsesAsRegistry, Content, Seen
<1>2. path \in DOMAIN disk.files /\ content = Followed(disk.files[path])
  BY <1>1 DEF FileAt, Absent
<1>3. IsBaseFile(disk.files[path]) /\ AreGeneratable(disk.files[path])
  BY <1>2 DEF WorldInv, IsBase
<1> HIDE DEF content
<1>4. \A dto \in dtos :
        /\ dto.id \in Names /\ dto.layers \in Nat \cup {None}
        /\ dto.role = "parameter" =>
             GeneratedRole(dto.id) \in Names /\ Normal(GeneratedPath(dto.id)) = GeneratedPath(dto.id)
        /\ dto.extent # "scalar" => dto.layers # None /\ dto.layers # 0
  BY <1>1, <1>2, <1>3 DEF IsBaseFile, AreGeneratable, ParseField
<1>5. Registry(Seen) = [id \in {content.fields[i].id : i \in DOMAIN content.fields} |->
                          CHOOSE dto \in dtos : dto.id = id]
  BY DEF Registry, content
<1>6. ASSUME NEW id \in DOMAIN Registry(Seen)
      PROVE  Registry(Seen)[id] \in dtos /\ Registry(Seen)[id].id = id
  <2>1. \E dto \in dtos : dto.id = id
    BY <1>5
  <2> HIDE DEF dtos
  <2> QED
    BY <1>5, <2>1
<1> QED
  BY <1>4, <1>6 DEF RegistryRead

\* What is read makes sense together when it is read in one go.
LEMMA ScalarsCanBeGenerated ==
  ASSUME ManifestRead, RegistryRead, Cardinality(WithFormat(base, "scalars")) = 1,
         ReadsScalars(Content(Seen, TheScalars), registry),
         values' = Content(Seen, TheScalars).values, base' = base
  PROVE  ScalarsRead'
<1>1. WithFormat(base, "scalars") = {TheScalars}
  <2>1. WithFormat(base, "scalars") \in SUBSET Indices(base)
    BY DEF WithFormat
  <2>2. IsFiniteSet(WithFormat(base, "scalars"))
    BY <2>1, FiniteArtifacts DEF ManifestRead
  <2>3. \E i : WithFormat(base, "scalars") = {i}
    BY <2>2, OnlyElement
  <2> QED
    BY <2>3 DEF TheScalars
<1>2. TheScalars' = TheScalars /\ WithFormat(base, "scalars")' = WithFormat(base, "scalars")
  BY DEF TheScalars, WithFormat, Indices
<1>3. \A id \in DOMAIN values' :
        id \in DOMAIN registry /\ registry[id].role = "parameter" /\ FitsField(values'[id], registry[id])
  BY DEF ReadsScalars
<1>4. ASSUME NEW id \in DOMAIN values'
      PROVE  /\ {id, GeneratedRole(id)} \subseteq Names
             /\ Normal(GeneratedPath(id)) = GeneratedPath(id)
             /\ BandCount(id)' \in Nat \ {0}
  <2>1. values'[id].layers \in Nat
    BY <1>3 DEF FitsField, RegistryRead
  <2>2. BandCount(id)' = IF values'[id].layers = 0 THEN 1 ELSE values'[id].layers
    BY DEF BandCount
  <2> QED
    BY <1>3, <2>1, <2>2 DEF RegistryRead
<1> QED
  BY <1>1, <1>2, <1>4 DEF ScalarsRead

\* Manifest, registry, scalars and grid make sense when they are read, and stay
\* as they were read.
LEMMA ReadingInvHolds == Spec => []ReadingInv
<1>1. Init => ReadingInv
  BY DEF Init, ReadingInv, AfterManifest, AfterRegistry, AfterScalars, AfterGrid, AfterPlans
<1>2. ASSUME WorldInv, ReadingInv, [Next]_vars
      PROVE  ReadingInv'
  <2>1. ASSUME pc' \in AfterManifest
        PROVE  ManifestRead'
    <3>1. CASE pc \in AfterManifest
      BY <1>2, <3>1, ReadOnce DEF ReadingInv, ManifestRead
    <3>2. CASE ReadManifest
      <4>1. base' = [domains |-> disk.domains, mappings |-> disk.mappings,
                     artifacts |-> disk.artifacts, grid |-> disk.grid]
        BY <3>2 DEF ReadManifest
      <4> QED
        BY <1>2, <4>1 DEF WorldInv, IsBase, IsPackage, IsManifest, ManifestRead, Indices
    <3> QED
      BY <1>2, <2>1, <3>1, <3>2, ReadOnce
  <2>2. ASSUME pc' \in AfterRegistry
        PROVE  RegistryRead'
    <3>1. CASE pc \in AfterRegistry
      BY <1>2, <3>1, ReadOnce DEF ReadingInv, RegistryRead
    <3>2. CASE LoadRegistry
      <4>1. RegistryLoads(Seen) /\ registry' = Registry(Seen)
        BY <2>2, <3>2 DEF LoadRegistry, Fail, AfterRegistry, AfterScalars, AfterGrid, AfterPlans
      <4> QED
        BY <1>2, <4>1, RegistryCanBeGenerated
    <3> QED
      BY <1>2, <2>2, <3>1, <3>2, ReadOnce
  <2>3. ASSUME pc' \in AfterScalars
        PROVE  ScalarsRead'
    <3>1. CASE pc \in AfterScalars
      <4>1. base' = base /\ values' = values
        BY <1>2, <3>1, ReadOnce DEF AfterRegistry, AfterManifest
      <4>2. /\ TheScalars' = TheScalars /\ WithFormat(base, "scalars")' = WithFormat(base, "scalars")
            /\ \A id : BandCount(id)' = BandCount(id)
        BY <4>1 DEF TheScalars, WithFormat, Indices, BandCount
      <4> QED
        BY <1>2, <3>1, <4>1, <4>2 DEF ReadingInv, ScalarsRead
    <3>2. CASE ReadTheScalars
      <4>1. /\ pc = "scalars"
            /\ Cardinality(WithFormat(base, "scalars")) = 1
            /\ ReadsScalars(Content(Seen, TheScalars), registry)
            /\ values' = Content(Seen, TheScalars).values /\ base' = base
        BY <2>3, <3>2 DEF ReadTheScalars, Fail, AfterScalars, AfterGrid, AfterPlans
      <4>2. ManifestRead /\ RegistryRead
        BY <1>2, <4>1 DEF ReadingInv, AfterManifest, AfterRegistry
      <4> QED
        BY <4>1, <4>2, ScalarsCanBeGenerated
    <3> QED
      BY <1>2, <2>3, <3>1, <3>2, ReadOnce
  <2>4. ASSUME pc' \in AfterGrid
        PROVE  PreflightGrid(base'.grid)
    <3>1. CASE pc \in AfterGrid
      BY <1>2, <3>1, ReadOnce DEF ReadingInv, AfterScalars, AfterRegistry, AfterManifest
    <3>2. CASE CheckGrid
      BY <2>4, <3>2 DEF CheckGrid, Fail, Proceed, reading, AfterGrid, AfterPlans
    <3> QED
      BY <1>2, <2>4, <3>1, <3>2, ReadOnce
  <2> QED
    BY <2>1, <2>2, <2>3, <2>4 DEF ReadingInv
<1> QED
  BY <1>1, <1>2, WorldInvHolds, PTL DEF Spec

\* One field after the other gets its plan, and none gets two.
LEMMA PlanningInvHolds == Spec => []PlanningInv
<1>1. Init => PlanningInv
  BY DEF Init, PlanningInv, AfterGrid, AfterPlans
<1>2. ASSUME PlanningInv, [Next]_vars
      PROVE  PlanningInv'
  <2>1. ASSUME pc' \notin AfterGrid \cup {"failed"}
        PROVE  plans' = <<>>
    <3>1. pc \notin AfterGrid \cup {"failed"}
      BY <1>2, <2>1, StagedOnce
    <3>2. ~PlanField
      BY <3>1 DEF PlanField, AfterGrid
    <3> QED
      BY <1>2, <3>1, <3>2, ReadOnce DEF PlanningInv
  <2>2. ASSUME pc \in AfterGrid
        PROVE  /\ base' = base /\ values' = values
               /\ \A id : IsPlanned(id)' <=> IsPlanned(id)
    <3>1. base' = base /\ values' = values
      BY <1>2, <2>2, ReadOnce DEF AfterScalars, AfterRegistry, AfterManifest
    <3>2. \A id : IsPlanned(id)' <=> IsPlanned(id)
      BY <3>1 DEF IsPlanned, BandCount, Indices, TheScalars, WithFormat
    <3> QED
      BY <3>1, <3>2
  <2>3. ASSUME pc' \in AfterGrid
        PROVE  FieldsPlanned'
    <3>1. CASE PlanField
      <4> DEFINE n == Len(plans)
      <4>1. PICK id \in DOMAIN values \ Range(plans) :
              /\ SupportedBandCount(BandCount(id))
              /\ \A i \in Indices(base) \ {TheScalars} :
                   ~PathConflicts(base.artifacts[i].path, GeneratedPath(id))
              /\ plans' = Append(plans, id)
        BY <2>3, <3>1 DEF PlanField, Fail, AfterGrid, AfterPlans
      <4>2. IsPlanned(id)
        BY <4>1 DEF IsPlanned
      <4>3. pc \in AfterGrid
        BY <3>1 DEF PlanField, AfterGrid
      <4>4. FieldsPlanned
        BY <1>2, <4>3 DEF PlanningInv
      <4>5. n \in Nat /\ DOMAIN plans = 1 .. n
        BY <4>4, SequencePlaces DEF FieldsPlanned
      <4>6. /\ IsSequence(plans') /\ DOMAIN plans' = 1 .. n + 1 /\ plans'[n + 1] = id
            /\ \A k \in 1 .. n : plans'[k] = plans[k] /\ k # n + 1
            /\ \A k \in 1 .. n + 1 : k = n + 1 \/ k \in 1 .. n
        <5>1. IsSequence(plans) /\ plans' = Append(plans, id)
          BY <4>1, <4>4 DEF FieldsPlanned
        <5> QED
          BY <5>1, AppendedSequence
      <4> HIDE DEF n
      <4>7. \A k \in 1 .. n : plans[k] # id
        BY <4>1, <4>5 DEF Range
      <4>11. \A k \in DOMAIN plans' : IsPlanned(plans'[k])
        BY <4>2, <4>4, <4>5, <4>6 DEF FieldsPlanned
      <4>12. \A k \in DOMAIN plans' : IsPlanned(plans[k])'
        <5>1. ASSUME NEW x, IsPlanned(x)
              PROVE  IsPlanned(x)'
          BY <2>2, <4>3, <5>1
        <5>2. ASSUME NEW k \in DOMAIN plans', NEW x, x = plans'[k]
              PROVE  IsPlanned(x)'
          BY <4>11, <5>1, <5>2
        <5> QED
          BY <5>2
      <4>13. \A k, m \in DOMAIN plans' : plans'[k] = plans'[m] => k = m
        BY <4>4, <4>5, <4>6, <4>7 DEF FieldsPlanned
      <4> QED
        BY <4>6, <4>12, <4>13 DEF FieldsPlanned
    <3>2. CASE CheckGrid
      <4>1. plans' = plans /\ pc \notin AfterGrid \cup {"failed"}
        BY <2>3, <3>2 DEF CheckGrid, Fail, Proceed, AfterGrid, AfterPlans
      <4>2. plans' = <<>>
        BY <1>2, <4>1 DEF PlanningInv
      <4>3. IsSequence(plans') /\ DOMAIN plans' = {}
        BY <4>2 DEF IsSequence
      <4> QED
        BY <4>3 DEF FieldsPlanned
    <3>3. CASE pc \in AfterGrid /\ plans' = plans
      <4>1. FieldsPlanned
        BY <1>2, <3>3 DEF PlanningInv
      <4>2. \A k \in DOMAIN plans' : IsPlanned(plans[k])'
        <5>1. ASSUME NEW k \in DOMAIN plans', NEW x, x = plans'[k]
              PROVE  IsPlanned(x)'
          BY <2>2, <3>3, <4>1, <5>1 DEF FieldsPlanned
        <5> QED
          BY <5>1
      <4> QED
        BY <3>3, <4>1, <4>2 DEF FieldsPlanned
    <3> QED
      BY <1>2, <2>3, <3>1, <3>2, <3>3, ReadOnce
  <2>4. ASSUME pc' \in AfterPlans
        PROVE  Range(plans') = DOMAIN values'
    <3>1. CASE pc \in AfterPlans
      BY <1>2, <2>2, <3>1, ReadOnce DEF PlanningInv, AfterGrid
    <3>2. CASE StartStaging
      BY <3>2 DEF StartStaging, Proceed, reading
    <3> QED
      BY <1>2, <2>4, <3>1, <3>2, ReadOnce
  <2> QED
    BY <2>1, <2>3, <2>4 DEF PlanningInv
<1> QED
  BY <1>1, <1>2, PTL DEF Spec

-----------------------------------------------------------------------------
\* Generated paths are sequences of three, and differ where the fields do.
LEMMA GeneratedPathsAreApart ==
  ASSUME NEW id, NEW other
  PROVE  /\ IsSequence(GeneratedPath(id))
         /\ IsPrefix(GeneratedPath(id), GeneratedPath(other)) => id = other
<1>1. \A x : /\ IsSequence(GeneratedPath(x))
             /\ Len(GeneratedPath(x)) = 3 /\ GeneratedPath(x)[3] = x
  BY DEF GeneratedPath, IsSequence
<1>2. ASSUME IsPrefix(GeneratedPath(id), GeneratedPath(other))
      PROVE  id = other
  <2>1. \A k \in 1 .. Len(GeneratedPath(id)) : GeneratedPath(id)[k] = GeneratedPath(other)[k]
    BY <1>1, <1>2, PrefixByPlaces
  <2>2. 3 \in 1 .. Len(GeneratedPath(id))
    BY <1>1
  <2> QED
    BY <1>1, <2>1, <2>2
<1> QED
  BY <1>1, <1>2

\* What staging works from no longer changes.
LEMMA PlansAreFixed ==
  ASSUME [Next]_vars, pc \in AfterPlans
  PROVE  /\ base' = base /\ values' = values /\ plans' = plans
         /\ TheScalars' = TheScalars /\ Indices(base)' = Indices(base)
         /\ \A i : PathOf(base, i)' = PathOf(base, i)
         /\ \A id : BandCount(id)' = BandCount(id)
         /\ \A id : ConstantTiff(id)' = ConstantTiff(id)
<1>1. base' = base /\ values' = values /\ plans' = plans
  BY ReadOnce DEF AfterGrid, AfterScalars, AfterRegistry, AfterManifest
<1>2. /\ TheScalars' = TheScalars /\ Indices(base)' = Indices(base)
      /\ \A i : PathOf(base, i)' = PathOf(base, i)
      /\ \A id : BandCount(id)' = BandCount(id)
  BY <1>1 DEF TheScalars, WithFormat, Indices, PathOf, BandCount
<1>3. ASSUME NEW id
      PROVE  ConstantTiff(id)' = ConstantTiff(id)
  <2>1. BandCount(id)' = BandCount(id) /\ base'.grid = base.grid /\ values'[id] = values[id]
    BY <1>1, <1>2
  <2> QED
    BY <2>1 DEF ConstantTiff
<1> QED
  BY <1>1, <1>2, <1>3

\* One round of the copy loop.
LEMMA CopyArtifactCopies ==
  ASSUME WorldInv, ReadingInv, PlanningInv, StagingInv, CopyArtifact, pc' \in AfterPlans
  PROVE  /\ copied' \in 0 .. Len(base'.artifacts)
         /\ generated' = <<>>
         /\ FilesStaged' /\ TreesStaged' /\ RastersGenerated'
<1> DEFINE i == copied + 1
           path == PathOf(base, i)
<1>1. /\ pc = "copy" /\ copied < Len(base.artifacts) /\ copied' = i
      /\ i # TheScalars => CanCopy(disk.files, staged, path)
      /\ staged' = IF i = TheScalars THEN staged ELSE Copied(disk.files, staged, path)
      /\ UNCHANGED <<pc, world, reading, plans, generated, record>>
  BY DEF CopyArtifact, Fail, AfterPlans
<1>2. pc \in AfterPlans /\ [Next]_vars
  BY <1>1 DEF AfterPlans, Next
<1>3. /\ ManifestRead /\ FieldsPlanned /\ FilesStaged /\ TreesStaged
      /\ copied \in 0 .. Len(base.artifacts)
  BY <1>2 DEF StagingInv, PlanningInv, ReadingInv, AfterGrid, AfterScalars, AfterRegistry,
              AfterManifest
<1>4. generated = <<>> /\ generated' = <<>>
  <2>1. Len(base.artifacts) \in Nat
    BY <1>3, SequencePlaces DEF ManifestRead, AreArtifacts
  <2> QED
    BY <1>1, <1>2, <1>3, <2>1 DEF StagingInv
<1>5. /\ base' = base /\ TheScalars' = TheScalars /\ Indices(base)' = Indices(base)
      /\ \A n : PathOf(base, n)' = PathOf(base, n)
      /\ disk' = disk /\ disturbed' = disturbed /\ plans' = plans
  BY <1>1, <1>2, PlansAreFixed DEF world
<1>6. /\ Indices(base) = 1 .. Len(base.artifacts) /\ Len(base.artifacts) \in Nat
  BY <1>3, SequencePlaces DEF ManifestRead, AreArtifacts, Indices
<1>7. copied' \in 0 .. Len(base'.artifacts)
  BY <1>1, <1>3, <1>5, <1>6
<1>8. /\ CopiedOnes \subseteq CopiedOnes'
      /\ i # TheScalars => i \in CopiedOnes'
      /\ \A n \in CopiedOnes' : n \in CopiedOnes \/ (n = i /\ i # TheScalars)
  <2>1. /\ CopiedOnes = {n \in Indices(base) \ {TheScalars} : n <= copied}
        /\ CopiedOnes' = {n \in Indices(base) \ {TheScalars} : n <= i}
    BY <1>1, <1>5 DEF CopiedOnes
  <2>2. i \in Indices(base) /\ \A n \in Indices(base) : (n <= copied => n <= i) /\ (n <= i => n <= copied \/ n = i)
    BY <1>1, <1>3, <1>6
  <2>3. i <= i
    BY <1>3
  <2> HIDE DEF i
  <2> QED
    BY <2>1, <2>2, <2>3
<1>9. \A other : ~IsGeneratedPath(other)
  BY <1>4 DEF IsGeneratedPath
<1>10. DOMAIN staged \subseteq DOMAIN staged'
  BY <1>1 DEF Copied
<1>11. ASSUME NEW other \in DOMAIN staged'
       PROVE  /\ staged'[other].kind # "link" /\ IsContent(staged'[other])
              /\ \E n \in CopiedOnes' : IsPrefix(PathOf(base, n), other)
              /\ ~disturbed => other \in DOMAIN disk.files /\ staged'[other] = disk.files[other]
  <2>1. CASE other \in DOMAIN staged /\ staged'[other] = staged[other]
    <3>1. /\ staged[other].kind # "link" /\ IsContent(staged[other])
          /\ \E n \in CopiedOnes : IsPrefix(PathOf(base, n), other)
          /\ ~disturbed => other \in DOMAIN disk.files /\ staged[other] = disk.files[other]
      BY <1>3, <1>9, <2>1 DEF FilesStaged
    <3> QED
      BY <1>8, <2>1, <3>1
  <2>2. CASE ~(other \in DOMAIN staged /\ staged'[other] = staged[other])
    <3>1. i # TheScalars /\ CanCopy(disk.files, staged, path) /\ staged' = Copied(disk.files, staged, path)
      BY <1>1, <2>2
    <3>2. other \in DOMAIN TreeAt(disk.files, path) /\ staged'[other] = TreeAt(disk.files, path)[other]
      BY <2>2, <3>1 DEF Copied
    <3>3. other \in DOMAIN disk.files /\ IsPrefix(path, other) /\ staged'[other] = disk.files[other]
      BY <3>2 DEF TreeAt
    <3>4. disk.files[other].kind # "link"
      BY <3>1, <3>2 DEF CanCopy
    <3>5. IsContent(Followed(disk.files[other]))
      BY <3>3 DEF WorldInv, IsBase, IsBaseFile
    <3> QED
      BY <1>8, <3>1, <3>3, <3>4, <3>5 DEF Followed
  <2> QED
    BY <2>1, <2>2
<1>12. FilesStaged'
  BY <1>5, <1>11 DEF FilesStaged
<1>13. TreesStaged'
  <2>1. i # TheScalars => DOMAIN TreeAt(disk.files, path) \subseteq DOMAIN staged'
    BY <1>1 DEF Copied
  <2>2. ASSUME ~disturbed, NEW n \in CopiedOnes'
        PROVE  DOMAIN TreeAt(disk.files, PathOf(base, n)) \subseteq DOMAIN staged'
    <3>1. CASE n \in CopiedOnes
      BY <1>3, <1>10, <2>2, <3>1 DEF TreesStaged
    <3>2. CASE n = i /\ i # TheScalars
      BY <2>1, <3>2
    <3> QED
      BY <1>8, <3>1, <3>2
  <2>3. TreesStaged' <=>
          (~disturbed' => \A n \in CopiedOnes' :
             DOMAIN TreeAt(disk'.files, PathOf(base, n)') \subseteq DOMAIN staged')
    BY DEF TreesStaged
  <2> QED
    BY <1>5, <2>2, <2>3
<1>14. RastersGenerated'
  <2>1. Len(plans) \in Nat
    BY <1>3, SequencePlaces DEF FieldsPlanned
  <2>2. IsSequence(generated') /\ Len(generated') = 0 /\ DOMAIN generated' = {}
    BY <1>4 DEF IsSequence
  <2> QED
    BY <1>5, <2>1, <2>2 DEF RastersGenerated
<1> QED
  BY <1>4, <1>7, <1>12, <1>13, <1>14

\* One round of the loop over the plans: no raster is written over another one,
\* or below it.
LEMMA GenerateRasterGenerates ==
  ASSUME WorldInv, ReadingInv, PlanningInv, StagingInv, GenerateRaster, pc' \in AfterPlans
  PROVE  /\ copied' = copied /\ copied = Len(base.artifacts)
         /\ FilesStaged' /\ TreesStaged' /\ RastersGenerated'
<1> DEFINE n == Len(generated)
           id == plans[n + 1]
           path == GeneratedPath(id)
           raster == [role |-> GeneratedRole(id), path |-> path, format |-> "cog",
                      variable |-> id, sha |-> TreeAt(staged', path)]
<1>1. /\ pc = "copy" /\ copied = Len(base.artifacts) /\ n < Len(plans)
      /\ CanWrite(staged, path)
      /\ staged' = Written(staged, path, ConstantTiff(id))
      /\ generated' = Append(generated, raster)
      /\ UNCHANGED <<pc, world, reading, plans, copied, record>>
  BY DEF GenerateRaster, Fail, AfterPlans
<1>2. pc \in AfterPlans /\ [Next]_vars
  BY <1>1 DEF AfterPlans, Next
<1>3. ManifestRead /\ FieldsPlanned /\ FilesStaged /\ TreesStaged /\ RastersGenerated
  BY <1>2 DEF StagingInv, PlanningInv, ReadingInv, AfterGrid, AfterScalars, AfterRegistry,
              AfterManifest
<1>4. /\ base' = base /\ TheScalars' = TheScalars /\ Indices(base)' = Indices(base)
      /\ \A i : PathOf(base, i)' = PathOf(base, i)
      /\ \A x : ConstantTiff(x)' = ConstantTiff(x)
      /\ disk' = disk /\ disturbed' = disturbed /\ plans' = plans /\ copied' = copied
  BY <1>1, <1>2, PlansAreFixed DEF world
<1>5. /\ n \in Nat /\ DOMAIN generated = 1 .. n
      /\ Len(plans) \in Nat /\ DOMAIN plans = 1 .. Len(plans)
  BY <1>3, SequencePlaces DEF RastersGenerated, FieldsPlanned
<1>6. /\ IsSequence(generated') /\ Len(generated') = n + 1 /\ DOMAIN generated' = 1 .. n + 1
      /\ generated'[n + 1] = raster
      /\ \A k \in 1 .. n : generated'[k] = generated[k] /\ k # n + 1
      /\ \A k \in 1 .. n + 1 : k = n + 1 \/ k \in 1 .. n
  <2>1. IsSequence(generated)
    BY <1>3 DEF RastersGenerated
  <2> HIDE DEF raster
  <2> QED
    BY <1>1, <2>1, AppendedSequence
<1> HIDE DEF n
<1>7. n + 1 \in 1 .. n + 1 /\ \A k \in 1 .. n : k \in 1 .. n + 1
  BY <1>5
<1>8. /\ n + 1 \in DOMAIN plans
      /\ \A k \in 1 .. n : k \in DOMAIN plans /\ plans[k] # id
  <2>1. n + 1 \in 1 .. Len(plans) /\ \A k \in 1 .. n : k \in 1 .. Len(plans) /\ k # n + 1
    BY <1>1, <1>5 DEF n
  <2> HIDE DEF id
  <2>2. id = plans[n + 1]
    BY DEF id
  <2> QED
    BY <1>3, <1>5, <2>1, <2>2 DEF FieldsPlanned
<1>9. ASSUME NEW k \in 1 .. n
      PROVE  /\ GeneratedPath(plans[k]) # path
             /\ ~IsPrefix(GeneratedPath(plans[k]), path)
  <2>1. IsSequence(GeneratedPath(plans[k])) /\ ~IsPrefix(GeneratedPath(plans[k]), GeneratedPath(id))
    BY <1>8, GeneratedPathsAreApart
  <2>2. IsPrefix(GeneratedPath(plans[k]), GeneratedPath(plans[k]))
    BY <2>1, PrefixesAreOrdered
  <2> QED
    BY <2>1, <2>2
<1>10. /\ path \in DOMAIN staged' /\ staged'[path] = ConstantTiff(id)
       /\ \A other \in DOMAIN staged : other \in DOMAIN staged'
       /\ \A other \in DOMAIN staged' \ {path} :
            other \in DOMAIN staged /\ staged'[other] = staged[other]
  BY <1>1 DEF Written
<1>11. \A other : IsGeneratedPath(other) \/ other = path => IsGeneratedPath(other)'
  <2>1. \A other : IsGeneratedPath(other)' <=> \E k \in DOMAIN generated' : other = GeneratedPath(plans[k])
    BY <1>4 DEF IsGeneratedPath
  <2>2. path = GeneratedPath(plans[n + 1])
    OBVIOUS
  <2> HIDE DEF path
  <2> QED
    BY <1>5, <1>6, <1>7, <2>1, <2>2 DEF IsGeneratedPath
<1>12. CopiedOnes' = CopiedOnes
  BY <1>4 DEF CopiedOnes
<1>13. FilesStaged'
  <2>1. ConstantTiff(id).kind # "link" /\ IsContent(ConstantTiff(id))
    BY DEF ConstantTiff, IsContent
  <2>2. ASSUME NEW other \in DOMAIN staged'
        PROVE  /\ staged'[other].kind # "link" /\ IsContent(staged'[other])
               /\ IsGeneratedPath(other)' \/ \E i \in CopiedOnes : IsPrefix(PathOf(base, i), other)
               /\ ~disturbed => \/ IsGeneratedPath(other)'
                                \/ other \in DOMAIN disk.files /\ staged'[other] = disk.files[other]
    <3>1. CASE other = path
      BY <1>10, <1>11, <2>1, <3>1
    <3>2. CASE other # path
      <4>1. other \in DOMAIN staged /\ staged'[other] = staged[other]
        BY <1>10, <3>2
      <4>2. /\ staged[other].kind # "link" /\ IsContent(staged[other])
            /\ IsGeneratedPath(other) \/ \E i \in CopiedOnes : IsPrefix(PathOf(base, i), other)
            /\ ~disturbed => \/ IsGeneratedPath(other)
                             \/ other \in DOMAIN disk.files /\ staged[other] = disk.files[other]
        BY <1>3, <4>1 DEF FilesStaged
      <4> QED
        BY <1>11, <4>1, <4>2
    <3> QED
      BY <3>1, <3>2
  <2> HIDE DEF path
  <2>3. ASSUME NEW other \in DOMAIN staged'
        PROVE  /\ (staged[other].kind # "link" /\ IsContent(staged[other]))'
               /\ IsGeneratedPath(other)' \/ \E i \in CopiedOnes' : IsPrefix(PathOf(base, i)', other)
               /\ ~disturbed' => \/ IsGeneratedPath(other)'
                                 \/ other \in DOMAIN disk'.files /\ staged'[other] = disk'.files[other]
    <3>1. IsContent(staged'[other]) <=> IsContent(staged[other])'
      BY DEF IsContent
    <3> QED
      BY <1>4, <1>12, <2>2, <2>3, <3>1
  <2> QED
    BY <2>3 DEF FilesStaged
<1>14. TreesStaged'
  <2>1. TreesStaged' <=>
          (~disturbed' => \A i \in CopiedOnes' :
             DOMAIN TreeAt(disk'.files, PathOf(base, i)') \subseteq DOMAIN staged')
    BY DEF TreesStaged
  <2> QED
    BY <1>3, <1>4, <1>10, <1>12, <2>1 DEF TreesStaged
<1>15. ASSUME NEW k \in 1 .. n + 1
       PROVE  IsGenerated(k)'
  <2>1. CASE k \in 1 .. n
    <3> DEFINE mine == GeneratedPath(plans[k])
    <3>1. /\ generated[k].role = GeneratedRole(plans[k]) /\ generated[k].path = mine
          /\ generated[k].format = "cog" /\ generated[k].variable = plans[k]
          /\ mine \in DOMAIN staged /\ staged[mine] = ConstantTiff(plans[k])
          /\ generated[k].sha = TreeAt(staged, mine)
      BY <1>3, <1>5, <2>1 DEF RastersGenerated, IsGenerated
    <3>2. generated'[k] = generated[k]
      BY <1>6, <2>1
    <3>3. mine \in DOMAIN staged' /\ staged'[mine] = staged[mine]
      BY <1>9, <1>10, <2>1, <3>1
    <3>4. TreeAt(staged', mine) = TreeAt(staged, mine)
      BY <1>1, <1>9, <2>1, WritingKeepsTrees
    <3> HIDE DEF mine
    <3>5. /\ generated'[k].role = GeneratedRole(plans[k]) /\ generated'[k].path = mine
          /\ generated'[k].format = "cog" /\ generated'[k].variable = plans[k]
          /\ mine \in DOMAIN staged' /\ staged'[mine] = ConstantTiff(plans[k])
          /\ generated'[k].sha = TreeAt(staged', mine)
      BY <3>1, <3>2, <3>3, <3>4
    <3> QED
      BY <1>4, <3>5 DEF IsGenerated, mine
  <2>2. CASE k = n + 1
    <3>1. generated'[k] = raster /\ plans[k] = id
      BY <1>6, <2>2
    <3>2. ConstantTiff(plans[k])' = ConstantTiff(id)
      BY <1>4, <3>1
    <3> QED
      BY <1>4, <1>10, <3>1, <3>2 DEF IsGenerated
  <2> QED
    BY <1>6, <2>1, <2>2
<1>16. RastersGenerated'
  <2>1. n + 1 <= Len(plans)
    BY <1>1, <1>5 DEF n
  <2> QED
    BY <1>4, <1>6, <1>15, <2>1 DEF RastersGenerated
<1> QED
  BY <1>1, <1>13, <1>14, <1>16

\* The directory fills from the base first and then from the plans; nothing that
\* is staged is lost.
LEMMA StagingInvHolds == Spec => []StagingInv
<1>1. Init => StagingInv
  BY DEF Init, StagingInv, AfterPlans
<1>2. ASSUME WorldInv, ReadingInv, PlanningInv, StagingInv, [Next]_vars
      PROVE  StagingInv'
  <2>1. ASSUME pc' \notin AfterPlans \cup {"failed"}
        PROVE  copied' = 0 /\ staged' = <<>> /\ generated' = <<>>
    <3>1. pc \notin AfterPlans \cup {"failed"}
      BY <1>2, <2>1, StagedOnce
    <3>2. ~CopyArtifact /\ ~GenerateRaster
      BY <3>1 DEF CopyArtifact, GenerateRaster, AfterPlans
    <3> QED
      BY <1>2, <3>1, <3>2, StagedOnce DEF StagingInv
  <2>2. CASE CopyArtifact /\ pc' \in AfterPlans
    BY <1>2, <2>1, <2>2, CopyArtifactCopies DEF StagingInv
  <2>3. CASE GenerateRaster /\ pc' \in AfterPlans
    <3>1. /\ copied' = copied /\ copied = Len(base.artifacts) /\ base' = base
          /\ FilesStaged' /\ TreesStaged' /\ RastersGenerated'
      BY <1>2, <2>3, GenerateRasterGenerates DEF GenerateRaster, Fail, reading
    <3>2. copied \in 0 .. Len(base.artifacts)
      BY <1>2, <2>3 DEF StagingInv, GenerateRaster, AfterPlans
    <3> QED
      BY <2>1, <2>3, <3>1, <3>2 DEF StagingInv
  <2>4. CASE StartStaging
    <3>1. /\ pc = "plan" /\ pc' = "copy" /\ base' = base /\ disk' = disk /\ plans' = plans
          /\ copied' = copied /\ staged' = staged /\ generated' = generated
      BY <2>4 DEF StartStaging, Proceed, output, reading, world
    <3>2. copied' = 0 /\ staged' = <<>> /\ generated' = <<>>
      BY <1>2, <3>1 DEF StagingInv, AfterPlans
    <3>3. ManifestRead /\ FieldsPlanned
      BY <1>2, <3>1 DEF ReadingInv, PlanningInv, AfterGrid, AfterScalars, AfterRegistry, AfterManifest
    <3>4. /\ Len(base.artifacts) \in Nat /\ DOMAIN base.artifacts = 1 .. Len(base.artifacts)
          /\ Len(plans) \in Nat
      BY <3>3, SequencePlaces DEF ManifestRead, AreArtifacts, FieldsPlanned
    <3>5. /\ IsSequence(generated') /\ Len(generated') = 0
          /\ DOMAIN generated' = {} /\ DOMAIN staged' = {}
      BY <3>2 DEF IsSequence
    <3>6. \A i \in Indices(base') : ~(i <= copied')
      BY <3>1, <3>2, <3>4 DEF Indices
    <3>7. CopiedOnes' = {}
      BY <3>6 DEF CopiedOnes, Indices
    <3>8. FilesStaged' /\ TreesStaged'
      BY <3>5, <3>7 DEF FilesStaged, TreesStaged
    <3>9. RastersGenerated'
      BY <3>1, <3>4, <3>5 DEF RastersGenerated
    <3> QED
      BY <2>1, <3>1, <3>2, <3>4, <3>8, <3>9 DEF StagingInv
  <2>5. CASE pc' \in AfterPlans /\ pc \in AfterPlans /\ UNCHANGED <<copied, staged, generated>>
    <3>1. /\ copied \in 0 .. Len(base.artifacts)
          /\ generated # <<>> => copied = Len(base.artifacts)
          /\ FilesStaged /\ TreesStaged /\ RastersGenerated
      BY <1>2, <2>5 DEF StagingInv
    <3>2. /\ base' = base /\ TheScalars' = TheScalars /\ Indices(base)' = Indices(base)
          /\ \A i : PathOf(base, i)' = PathOf(base, i)
          /\ \A id : ConstantTiff(id)' = ConstantTiff(id)
          /\ plans' = plans
          /\ ~disturbed' => ~disturbed /\ disk' = disk
      BY <1>2, <2>5, PlansAreFixed, StagedOnce
    <3>3. CopiedOnes' = CopiedOnes
      BY <2>5, <3>2 DEF CopiedOnes
    <3>4. \A path : IsGeneratedPath(path)' <=> IsGeneratedPath(path)
      BY <2>5, <3>2 DEF IsGeneratedPath
    <3>5. FilesStaged'
      BY <2>5, <3>1, <3>2, <3>3, <3>4 DEF FilesStaged
    <3>6. TreesStaged'
      BY <2>5, <3>1, <3>2, <3>3 DEF TreesStaged
    <3>7. ASSUME NEW k \in DOMAIN generated
          PROVE  IsGenerated(k)'
      <4>1. IsGenerated(k)
        BY <3>1 DEF RastersGenerated
      <4> QED
        BY <2>5, <3>2, <4>1 DEF IsGenerated
    <3>8. RastersGenerated'
      BY <2>5, <3>1, <3>2, <3>7 DEF RastersGenerated
    <3> QED
      BY <2>1, <2>5, <3>1, <3>2, <3>5, <3>6, <3>8 DEF StagingInv
  <2>6. CASE pc' \notin AfterPlans
    BY <2>1, <2>6 DEF StagingInv
  <2> QED
    BY <1>2, <2>2, <2>3, <2>4, <2>5, <2>6, StagedOnce, ReadOnce
<1> QED
  BY <1>1, <1>2, WorldInvHolds, ReadingInvHolds, PlanningInvHolds, PTL DEF Spec

\* The staged package was validated, and is as it was then.
LEMMA ResultInvHolds == Spec => []ResultInv
<1>1. Init => ResultInv
  BY DEF Init, ResultInv
<1>2. ASSUME ResultInv, [Next]_vars
      PROVE  ResultInv'
  <2>1. base' = base /\ plans' = plans /\ staged' = staged /\ generated' = generated
          => TheScalars' = TheScalars /\ Materialized' = Materialized /\ Entries' = Entries
    BY DEF Materialized, NewArtifacts, Entries, TheScalars, WithFormat, Indices
  <2>2. ASSUME pc' = "done", UNCHANGED vars, pc = "done"
        PROVE  ResultInv'
    <3>1. /\ base' = base /\ staged' = staged /\ generated' = generated /\ record' = record
          /\ plans' = plans /\ copied' = copied
      BY <2>2 DEF vars, world, reading, output
    <3> QED
      BY <1>2, <2>1, <2>2, <3>1 DEF ResultInv
  <2>3. ASSUME pc' = "done", ValidateStaged
        PROVE  ResultInv'
    <3>1. /\ base' = base /\ staged' = staged /\ generated' = generated
          /\ plans' = plans /\ copied' = copied
          /\ copied = Len(base.artifacts) /\ Len(generated) = Len(plans)
          /\ Conformant(Materialized)
          /\ record' = DerivationRecord(ManifestOf(base), ManifestOf(Materialized), {}, Entries)
      BY <2>3 DEF ValidateStaged, Fail, world, reading
    <3> QED
      BY <2>1, <3>1 DEF ResultInv
  <2> QED
    BY <1>2, <2>2, <2>3, StagedOnce DEF ResultInv
<1> QED
  BY <1>1, <1>2, PTL DEF Spec

-----------------------------------------------------------------------------
(***************************************************************************)
(* The materialization that has succeeded.                                 *)
(***************************************************************************)
MaterializationInv == WorldInv /\ ReadingInv /\ PlanningInv /\ StagingInv /\ ResultInv

\* The base that was read, the plans, the staging directory and the record stand
\* in the relations that the code builds on, at every step and whoever writes.
THEOREM MaterializationInvHolds == Spec => []MaterializationInv
<1>1. WorldInv /\ ReadingInv /\ PlanningInv /\ StagingInv /\ ResultInv <=> MaterializationInv
  BY DEF MaterializationInv
<1> QED
  BY <1>1, WorldInvHolds, ReadingInvHolds, PlanningInvHolds, StagingInvHolds, ResultInvHolds, PTL

\* What holds at the end.
LEMMA AtTheEnd ==
  ASSUME MaterializationInv, Succeeded
  PROVE  /\ WorldInv /\ ManifestRead /\ ScalarsRead /\ PreflightGrid(base.grid)
         /\ FieldsPlanned /\ Range(plans) = DOMAIN values
         /\ FilesStaged /\ TreesStaged /\ RastersGenerated
         /\ DOMAIN generated = DOMAIN plans
         /\ Len(base.artifacts) \in Nat /\ Indices(base) = 1 .. Len(base.artifacts)
         /\ TheScalars \in Indices(base)
         /\ CopiedOnes = Indices(base) \ {TheScalars}
         /\ Conformant(Materialized)
         /\ record = DerivationRecord(ManifestOf(base), ManifestOf(Materialized), {}, Entries)
<1>1. pc \in AfterPlans /\ pc \in AfterGrid /\ pc \in AfterScalars /\ pc \in AfterRegistry
      /\ pc \in AfterManifest
  BY DEF Succeeded, AfterPlans, AfterGrid, AfterScalars, AfterRegistry, AfterManifest
<1>2. /\ WorldInv /\ ManifestRead /\ ScalarsRead /\ PreflightGrid(base.grid)
      /\ FieldsPlanned /\ Range(plans) = DOMAIN values
      /\ FilesStaged /\ TreesStaged /\ RastersGenerated
  BY <1>1 DEF MaterializationInv, ReadingInv, PlanningInv, StagingInv
<1>3. /\ copied = Len(base.artifacts) /\ Len(generated) = Len(plans)
      /\ Conformant(Materialized)
      /\ record = DerivationRecord(ManifestOf(base), ManifestOf(Materialized), {}, Entries)
  BY DEF MaterializationInv, ResultInv, Succeeded
<1>4. /\ Len(base.artifacts) \in Nat /\ Indices(base) = 1 .. Len(base.artifacts)
  BY <1>2, SequencePlaces DEF ManifestRead, AreArtifacts, Indices
<1>5. DOMAIN generated = DOMAIN plans
  BY <1>2, <1>3, SequencePlaces DEF RastersGenerated, FieldsPlanned
<1>6. TheScalars \in Indices(base)
  <2>1. TheScalars \in WithFormat(base, "scalars")
    BY <1>2 DEF ScalarsRead
  <2> QED
    BY <2>1 DEF WithFormat
<1>7. \A i \in Indices(base) : i <= copied
  BY <1>3, <1>4
<1> QED
  BY <1>2, <1>3, <1>4, <1>5, <1>6, <1>7 DEF CopiedOnes

\* The generated artifacts take the place of one artifact.
LEMMA TheNewArtifacts ==
  ASSUME MaterializationInv, Succeeded
  PROVE  /\ IsSequence(NewArtifacts)
         /\ Range(NewArtifacts) =
              {base.artifacts[i] : i \in Indices(base) \ {TheScalars}} \cup Range(generated)
<1> DEFINE t == TheScalars
           m == Len(base.artifacts)
           before == SubSeq(base.artifacts, 1, t - 1)
           after == SubSeq(base.artifacts, t + 1, m)
<1>1. m \in Nat /\ Indices(base) = 1 .. m /\ t \in 1 .. m
  BY AtTheEnd
<1>2. IsSequence(base.artifacts) /\ IsSequence(generated)
  BY AtTheEnd DEF ManifestRead, AreArtifacts, RastersGenerated
<1>3. NewArtifacts = before \o generated \o after
  BY DEF NewArtifacts
<1> HIDE DEF t, m
<1>4. /\ t - 1 \in Nat /\ t + 1 \in Nat \ {0} /\ 1 <= (t - 1) + 1 /\ t + 1 <= m + 1
      /\ 1 .. m \ {t} = (1 .. t - 1) \cup (t + 1 .. m)
  BY <1>1
<1>5. IsSequence(before) /\ Range(before) = {base.artifacts[k] : k \in 1 .. t - 1}
  <2>1. ASSUME NEW n \in Nat
        PROVE  /\ IsSequence(SubSeq(base.artifacts, 1, n))
               /\ Range(SubSeq(base.artifacts, 1, n)) = {base.artifacts[k] : k \in 1 .. n}
    <3>1. 1 \in Nat \ {0} /\ 1 <= n + 1
      OBVIOUS
    <3> QED
      BY <1>2, <3>1, PartOfSequence
  <2> QED
    BY <1>4, <2>1
<1>6. IsSequence(after) /\ Range(after) = {base.artifacts[k] : k \in t + 1 .. m}
  BY <1>1, <1>2, <1>4, PartOfSequence
<1> HIDE DEF before, after
<1>7. /\ IsSequence(NewArtifacts)
      /\ Range(NewArtifacts) = Range(before) \cup Range(generated) \cup Range(after)
  BY <1>2, <1>3, <1>5, <1>6, JoinedSequences
<1>8. {base.artifacts[i] : i \in 1 .. m \ {t}} = Range(before) \cup Range(after)
  <2>1. ASSUME NEW J, NEW K
        PROVE  {base.artifacts[i] : i \in J \cup K}
                 = {base.artifacts[i] : i \in J} \cup {base.artifacts[i] : i \in K}
    OBVIOUS
  <2>2. {base.artifacts[i] : i \in 1 .. m \ {t}}
          = {base.artifacts[i] : i \in (1 .. t - 1) \cup (t + 1 .. m)}
    BY <1>4
  <2> QED
    BY <1>5, <1>6, <2>1, <2>2
<1>9. Indices(base) \ {TheScalars} = 1 .. m \ {t}
  BY <1>1 DEF t
<1> QED
  BY <1>7, <1>8, <1>9

\* An artifact of the output is a declared one of the base, or a raster.
LEMMA OutputArtifact ==
  ASSUME MaterializationInv, Succeeded, NEW i \in Indices(Materialized)
  PROVE  \/ \E k \in Indices(base) \ {TheScalars} : Materialized.artifacts[i] = base.artifacts[k]
         \/ \E k \in DOMAIN generated : Materialized.artifacts[i] = generated[k]
<1>1. Materialized.artifacts = NewArtifacts
  BY DEF Materialized
<1>2. NewArtifacts[i] \in Range(NewArtifacts)
  BY <1>1 DEF Indices, Range
<1> QED
  BY <1>1, <1>2, TheNewArtifacts DEF Range

\* Both are in the output.
LEMMA ArtifactIsInOutput ==
  ASSUME MaterializationInv, Succeeded, NEW artifact,
         \/ \E k \in Indices(base) \ {TheScalars} : artifact = base.artifacts[k]
         \/ \E k \in DOMAIN generated : artifact = generated[k]
  PROVE  \E i \in Indices(Materialized) : Materialized.artifacts[i] = artifact
<1>1. Materialized.artifacts = NewArtifacts
  BY DEF Materialized
<1>2. artifact \in Range(NewArtifacts)
  BY TheNewArtifacts DEF Range
<1> QED
  BY <1>1, <1>2 DEF Indices, Range

\* The output is a package.
LEMMA OutputIsPackage ==
  ASSUME MaterializationInv, Succeeded
  PROVE  IsPackage(Materialized)
<1>1. /\ Materialized.artifacts = NewArtifacts /\ Materialized.files = staged
      /\ Materialized.domains = base.domains
  BY DEF Materialized
<1>2. /\ ManifestRead /\ FilesStaged /\ RastersGenerated /\ IsSequence(NewArtifacts)
  BY AtTheEnd, TheNewArtifacts
<1>3. ASSUME NEW i \in Indices(Materialized)
      PROVE  Materialized.artifacts[i].format \in Formats
  <2>1. \A k \in Indices(base) : base.artifacts[k].format \in Formats
    BY <1>2 DEF ManifestRead, IsManifest
  <2>2. \A k \in DOMAIN generated : generated[k].format \in Formats
    BY <1>2 DEF RastersGenerated, IsGenerated, Formats
  <2> QED
    BY <2>1, <2>2, OutputArtifact
<1>4. IsManifest(Materialized)
  BY <1>1, <1>2, <1>3 DEF ManifestRead, IsManifest
<1>5. AreFiles(staged)
  BY <1>2 DEF FilesStaged, AreFiles, FileAt, Followed
<1> QED
  BY <1>1, <1>4, <1>5 DEF IsPackage

\* The output of a materialization meets the checklist as far as a validator
\* can tell, whatever the base holds and whoever writes to it meanwhile.
THEOREM MaterializedPackagesConform == Spec => []OutputConforms
<1>1. ASSUME MaterializationInv, Succeeded
      PROVE  MeetsChecklistAsRead(Materialized)
  BY <1>1, AtTheEnd, OutputIsPackage, ConformantMeansChecklist
<1>2. MaterializationInv => OutputConforms
  BY <1>1 DEF OutputConforms
<1> QED
  BY <1>2, MaterializationInvHolds, PTL

\* What is not converted is kept, entry and bytes: no raster is written into
\* another artifact, and nothing of a store is left behind.
THEOREM OthersAreKept == Spec => []OthersKept
<1>1. ASSUME MaterializationInv, Succeeded,
             NEW i \in {k \in Indices(base) \ {TheScalars} : Plain(base.artifacts[k])}
      PROVE  LET path == PathOf(base, i) IN
             /\ base.artifacts[i] \in Range(Materialized.artifacts)
             /\ ~disturbed => TreeAt(staged, path) = TreeAt(disk.files, path)
  <2> DEFINE path == PathOf(base, i)
  <2>1. path = base.artifacts[i].path /\ i \in Indices(base) \ {TheScalars}
    BY DEF Plain, PathOf
  <2>2. base.artifacts[i] \in Range(Materialized.artifacts)
    <3>1. Materialized.artifacts = NewArtifacts
      BY DEF Materialized
    <3> QED
      BY <1>1, <2>1, <3>1, TheNewArtifacts
  <2>3. /\ FieldsPlanned /\ FilesStaged /\ TreesStaged
        /\ DOMAIN generated = DOMAIN plans /\ i \in CopiedOnes
    BY <1>1, <2>1, AtTheEnd
  <2>4. ASSUME NEW other, IsPrefix(path, other)
        PROVE  ~IsGeneratedPath(other)
    BY <2>1, <2>3, <2>4 DEF FieldsPlanned, IsPlanned, PathConflicts, IsGeneratedPath
  <2>5. ASSUME ~disturbed
        PROVE  TreeAt(staged, path) = TreeAt(disk.files, path)
    <3>1. \A other \in DOMAIN staged :
            IsPrefix(path, other) => other \in DOMAIN disk.files /\ staged[other] = disk.files[other]
      BY <2>3, <2>4, <2>5 DEF FilesStaged
    <3>2. \A other \in DOMAIN disk.files : IsPrefix(path, other) => other \in DOMAIN staged
      BY <2>3, <2>5 DEF TreesStaged, TreeAt
    <3> HIDE DEF path
    <3> QED
      BY <3>1, <3>2 DEF TreeAt
  <2> QED
    BY <2>2, <2>5
<1>2. MaterializationInv => OthersKept
  BY <1>1 DEF OthersKept
<1> QED
  BY <1>2, MaterializationInvHolds, PTL

\* The raster of a plan is in the output, at the path of its artifact.
LEMMA RasterIsInOutput ==
  ASSUME MaterializationInv, Succeeded, NEW k \in DOMAIN generated,
         NEW i \in Indices(Materialized), Materialized.artifacts[i] = generated[k]
  PROVE  /\ Materialized.artifacts[i].format = "cog"
         /\ Materialized.artifacts[i].variable = plans[k]
         /\ Content(Materialized, i) = ConstantTiff(plans[k])
         /\ staged[generated[k].path] = ConstantTiff(plans[k])
         /\ plans[k] \in DOMAIN values
         /\ BandCount(plans[k]) \in 1 .. MaxBands
<1>1. IsGenerated(k) /\ FieldsPlanned /\ ScalarsRead /\ k \in DOMAIN plans
  BY AtTheEnd DEF RastersGenerated
<1>2. IsPlanned(plans[k])
  BY <1>1 DEF FieldsPlanned
<1>3. /\ plans[k] \in DOMAIN values
      /\ Normal(GeneratedPath(plans[k])) = GeneratedPath(plans[k])
      /\ BandCount(plans[k]) \in Nat \ {0} /\ BandCount(plans[k]) <= MaxBands
  BY <1>1, <1>2 DEF IsPlanned, ScalarsRead, SupportedBandCount
<1>4. Content(Materialized, i) = FileAt(staged, GeneratedPath(plans[k]))
  BY <1>1, <1>3 DEF Content, PathOf, Materialized, IsGenerated
<1>5. FileAt(staged, GeneratedPath(plans[k])) = ConstantTiff(plans[k])
  <2>1. ConstantTiff(plans[k]).kind # "link"
    BY DEF ConstantTiff
  <2> QED
    BY <1>1, <2>1 DEF IsGenerated, FileAt, Followed
<1>6. BandCount(plans[k]) \in 1 .. MaxBands
  BY <1>3, MaterializationAssumption
<1> QED
  BY <1>1, <1>3, <1>4, <1>5, <1>6 DEF IsGenerated

\* The keys of a generated raster say its EPSG code, and nothing else does.
LEMMA GeneratedKeysSayEpsg ==
  ASSUME NEW code \in Int
  PROVE  EpsgOf(<<1, 1, 0, 3, 1024, 0, 1, 1, 1025, 0, 1, 1, 3072, 0, 1, code>>) = code
<1> DEFINE d == <<1, 1, 0, 3, 1024, 0, 1, 1, 1025, 0, 1, 1, 3072, 0, 1, code>>
           keys == {k \in 1 .. 3 : 4 * k + 4 <= 16}
           projected == {k \in keys : d[4 * k + 1] = 3072 /\ d[4 * k + 2] = 0}
<1>1. /\ Len(d) = 16 /\ d[4] = 3
      /\ d[5] = 1024 /\ d[9] = 1025 /\ d[13] = 3072 /\ d[14] = 0 /\ d[16] = code
  OBVIOUS
<1> HIDE DEF d
<1>2. keys = {1, 2, 3}
  OBVIOUS
<1>3. projected = {3}
  <2>1. d[4 * 1 + 1] # 3072 /\ d[4 * 2 + 1] # 3072 /\ d[4 * 3 + 1] = 3072 /\ d[4 * 3 + 2] = 0
    BY <1>1
  <2> HIDE DEF keys
  <2> QED
    BY <1>2, <2>1
<1> DEFINE last == CHOOSE k \in projected : \A other \in projected : other <= k
<1>4. last = 3
  <2>1. \A k \in projected : k = 3
    BY <1>3
  <2>2. \E k \in projected : \A other \in projected : other <= k
    BY <1>3
  <2> HIDE DEF projected
  <2> QED
    BY <2>1, <2>2
<1>5. EpsgOf(d) = d[4 * last + 4]
  BY <1>1, <1>3 DEF EpsgOf
<1> HIDE DEF projected, last
<1>6. EpsgOf(d) = code
  BY <1>1, <1>4, <1>5
<1> QED
  BY <1>6 DEF d

\* A generated raster fits the grid, and the validator has read it.
LEMMA RasterFits ==
  ASSUME MaterializationInv, Succeeded, NEW k \in DOMAIN generated,
         NEW raster, raster = staged[generated[k].path]
  PROVE  /\ generated[k].sha = TreeAt(staged, generated[k].path)
         /\ raster.tie.x + raster.nx * raster.scale = base.grid.xmax
         /\ raster.tie.y - raster.ny * raster.scale = base.grid.ymin
         /\ ReadsCog(raster)
         /\ EpsgOf(raster.keys) = base.grid.epsg
<1> DEFINE grid == base.grid
<1>1. PICK i \in Indices(Materialized) : Materialized.artifacts[i] = generated[k]
  BY ArtifactIsInOutput
<1>2. /\ raster = ConstantTiff(plans[k]) /\ Content(Materialized, i) = raster
      /\ Materialized.artifacts[i].format = "cog"
  BY <1>1, RasterIsInOutput
<1>3. IsGenerated(k) /\ ManifestRead /\ PreflightGrid(base.grid) /\ Conformant(Materialized)
  BY AtTheEnd DEF RastersGenerated
<1>4. generated[k].sha = TreeAt(staged, generated[k].path)
  BY <1>3 DEF IsGenerated
<1>5. /\ raster.nx = grid.nx /\ raster.ny = grid.ny /\ raster.scale = grid.cell
      /\ raster.tie.x = grid.xmin /\ raster.tie.y = grid.ymax
      /\ raster.keys = <<1, 1, 0, 3, 1024, 0, 1, 1, 1025, 0, 1, 1, 3072, 0, 1, grid.epsg>>
  BY <1>2 DEF ConstantTiff
<1> HIDE DEF grid
<1>6. /\ grid.xmax - grid.xmin = grid.nx * grid.cell
      /\ grid.ymax - grid.ymin = grid.ny * grid.cell
      /\ {grid.nx, grid.ny} \subseteq Nat
      /\ {grid.cell, grid.xmin, grid.xmax, grid.ymin, grid.ymax, grid.epsg} \subseteq Int
  BY <1>3 DEF ManifestRead, IsGrid, PreflightGrid, grid
<1>7. \A a, b, c \in Int : b - a = c => a + c = b /\ b - c = a
  OBVIOUS
<1>8. grid.nx * grid.cell \in Int /\ grid.ny * grid.cell \in Int
  BY <1>6
<1>9. /\ grid.xmin + grid.nx * grid.cell = grid.xmax
      /\ grid.ymax - grid.ny * grid.cell = grid.ymin
  BY <1>6, <1>7, <1>8
<1>10. ReadsCog(raster)
  <2>1. HasShape(Content(Materialized, i), "cog")
    BY <1>2, <1>3, AllChecksHold DEF CheckF1
  <2> QED
    BY <1>2, <2>1 DEF HasShape, RequiredColumns
<1>11. EpsgOf(raster.keys) = grid.epsg
  BY <1>5, <1>6, GeneratedKeysSayEpsg
<1> QED
  BY <1>4, <1>5, <1>9, <1>10, <1>11 DEF grid

\* The rasters cover the grid, can be read back with its EPSG code, and are
\* declared with their digests, for grids of any size.
THEOREM RastersAlwaysFit == Spec => []RastersFitGrid
<1>1. MaterializationInv => RastersFitGrid
  BY RasterFits DEF RastersFitGrid
<1> QED
  BY <1>1, MaterializationInvHolds, PTL

\* In the output a parameter has one source, and that is its raster.
LEMMA RasterIsTheSource ==
  ASSUME MaterializationInv, Succeeded, NEW id, NEW i \in VariableSources(Materialized, id),
         id \in Parameters(Registry(Materialized))
  PROVE  Carries(i, id)
<1> DEFINE p == Materialized
           keys == KeySources(p, id)
           columns == ColumnSources(p, id)
           variables == VariableSources(p, id)
<1>1. IsPackage(p) /\ Conformant(p)
  BY AtTheEnd, OutputIsPackage
<1>2. CountParameterSources(p, id) = 1
  BY <1>1, AllChecksHold DEF CheckPARAM1
<1>3. /\ keys \in SUBSET Indices(p) /\ columns \in SUBSET Indices(p)
      /\ variables \in SUBSET Indices(p)
  BY DEF KeySources, ColumnSources, VariableSources, WithFormat
<1>4. Cardinality(keys) + Cardinality(columns) + Cardinality(variables) = 1
  BY <1>2 DEF CountParameterSources
<1> HIDE DEF p, keys, columns, variables
<1>5. /\ IsFiniteSet(keys) /\ Cardinality(keys) \in Nat
      /\ IsFiniteSet(columns) /\ Cardinality(columns) \in Nat
      /\ IsFiniteSet(variables) /\ Cardinality(variables) \in Nat
  BY <1>1, <1>3, FiniteArtifacts DEF IsPackage
<1>6. i \in variables
  BY DEF variables, p
<1>7. Cardinality(variables) # 0
  BY <1>5, <1>6, FS_EmptySet
<1>8. Cardinality(keys) = 0 /\ Cardinality(columns) = 0 /\ Cardinality(variables) = 1
  BY <1>4, <1>5, <1>7
<1>9. keys = {} /\ columns = {}
  BY <1>5, <1>8, FS_EmptySet
<1>10. variables = {i}
  BY <1>5, <1>6, <1>8, OnlyElement
<1> QED
  BY <1>9, <1>10 DEF Carries, p, keys, columns, variables

\* A count of bands is written to the header as it is.
LEMMA BandsAreWritten ==
  ASSUME NEW count \in 1 .. MaxBands
  PROVE  count % (MaxBands + 1) = count
<1>1. MaxBands \in Nat
  BY MaterializationAssumption
<1>2. ASSUME NEW m \in Nat, NEW n \in 1 .. m
      PROVE  n % (m + 1) = n
  OBVIOUS
<1> QED
  BY <1>1, <1>2

\* Every value that was read is in a raster, which is its only source if it is a
\* parameter still; the scalars object is gone, whoever writes to the base.
THEOREM ConversionIsComplete == Spec => []ConversionComplete
<1>1. ASSUME MaterializationInv, Succeeded
      PROVE  WithFormat(Materialized, "scalars") = {}
  <2>1. \A i \in Indices(base) \ {TheScalars} : base.artifacts[i].format # "scalars"
    BY <1>1, AtTheEnd DEF ScalarsRead, WithFormat
  <2>2. \A k \in DOMAIN generated : generated[k].format = "cog"
    BY <1>1, AtTheEnd DEF RastersGenerated, IsGenerated
  <2>3. \A i \in Indices(Materialized) : Materialized.artifacts[i].format # "scalars"
    BY <1>1, <2>1, <2>2, OutputArtifact
  <2> QED
    BY <2>3 DEF WithFormat
<1>2. ASSUME MaterializationInv, Succeeded, PathOf(base, TheScalars) \in DOMAIN staged
      PROVE  ScalarsShared \/ PathOf(base, TheScalars) \in {generated[k].path : k \in DOMAIN generated}
  <2>1. FilesStaged /\ RastersGenerated /\ CopiedOnes = Indices(base) \ {TheScalars}
    BY <1>2, AtTheEnd
  <2>2. CASE IsGeneratedPath(PathOf(base, TheScalars))
    BY <2>1, <2>2 DEF IsGeneratedPath, RastersGenerated, IsGenerated
  <2>3. CASE \E i \in CopiedOnes : IsPrefix(PathOf(base, i), PathOf(base, TheScalars))
    BY <2>1, <2>3 DEF ScalarsShared
  <2> QED
    BY <1>2, <2>1, <2>2, <2>3 DEF FilesStaged
<1>3. ASSUME MaterializationInv, Succeeded, NEW id \in DOMAIN values
      PROVE  \E i \in Indices(Materialized) :
               /\ i \in VariableSources(Materialized, id)
               /\ id \in Parameters(Registry(Materialized)) => Carries(i, id)
               /\ Content(Materialized, i).kind = "cog"
               /\ Content(Materialized, i).value = values[id]
               /\ Content(Materialized, i).bands = BandCount(id)
  <2>1. PICK k \in DOMAIN generated : plans[k] = id
    BY <1>3, AtTheEnd DEF Range
  <2>2. PICK i \in Indices(Materialized) : Materialized.artifacts[i] = generated[k]
    BY <1>3, ArtifactIsInOutput
  <2>3. /\ Materialized.artifacts[i].format = "cog" /\ Materialized.artifacts[i].variable = id
        /\ Content(Materialized, i) = ConstantTiff(id)
        /\ BandCount(id) \in 1 .. MaxBands
    BY <1>3, <2>1, <2>2, RasterIsInOutput
  <2>4. i \in VariableSources(Materialized, id)
    BY <2>3 DEF VariableSources, WithFormat
  <2>5. BandCount(id) % (MaxBands + 1) = BandCount(id)
    BY <2>3, BandsAreWritten
  <2>6. /\ Content(Materialized, i).kind = "cog" /\ Content(Materialized, i).value = values[id]
        /\ Content(Materialized, i).bands = BandCount(id)
    BY <2>3, <2>5 DEF ConstantTiff
  <2> QED
    BY <1>3, <2>4, <2>6, RasterIsTheSource
<1>4. MaterializationInv => ConversionComplete
  BY <1>1, <1>2, <1>3 DEF ConversionComplete
<1> QED
  BY <1>4, MaterializationInvHolds, PTL

-----------------------------------------------------------------------------
(***************************************************************************)
(* The record.                                                             *)
(***************************************************************************)
AdditionOf(k) == Addition(generated[k].role, {generated[k].variable}, generated[k].sha)
TheRemoval == Removal(base.artifacts[TheScalars].role, Range(plans), base.artifacts[TheScalars].sha)

Declared(artifacts) == {<<artifact.role, <<artifact.sha>>>> : artifact \in artifacts}

\* The entry of a raster names its field.
LEMMA AdditionsAdd ==
  ASSUME MaterializationInv, Succeeded, NEW k \in DOMAIN generated
  PROVE  /\ IsEntry(AdditionOf(k)) /\ IsAscending(AdditionOf(k).ids)
         /\ AdditionOf(k).role = generated[k].role
         /\ AdditionOf(k).old = <<>> /\ AdditionOf(k).new = <<generated[k].sha>>
         /\ Range(AdditionOf(k).ids) = {plans[k]}
<1>1. IsGenerated(k) /\ FieldsPlanned /\ ScalarsRead /\ k \in DOMAIN plans
  BY AtTheEnd DEF RastersGenerated
<1>2. plans[k] \in DOMAIN values
  BY <1>1 DEF FieldsPlanned, IsPlanned
<1>3. generated[k].role \in Names /\ {generated[k].variable} \in SUBSET Names
      /\ generated[k].variable = plans[k]
  BY <1>1, <1>2 DEF ScalarsRead, IsGenerated
<1> DEFINE ids == InOrder({generated[k].variable}, Before)
<1>4. IsAscending(ids) /\ Range(ids) = {generated[k].variable}
  BY <1>3, NamesInOrder, ScenariosAssumption
<1>5. IsSequence(ids)
  BY <1>4 DEF IsAscending
<1>6. AdditionOf(k) = [role |-> generated[k].role, ids |-> ids,
                       old |-> <<>>, new |-> <<generated[k].sha>>]
  BY DEF AdditionOf, Addition, Entry
<1> HIDE DEF ids
<1> QED
  BY <1>3, <1>4, <1>5, <1>6 DEF IsEntry, IsList

\* The entry of the scalars names all fields.
LEMMA RemovalRemoves ==
  ASSUME MaterializationInv, Succeeded
  PROVE  /\ IsEntry(TheRemoval) /\ IsAscending(TheRemoval.ids)
         /\ TheRemoval.role = base.artifacts[TheScalars].role
         /\ TheRemoval.old = <<base.artifacts[TheScalars].sha>> /\ TheRemoval.new = <<>>
         /\ Range(TheRemoval.ids) = Range(plans)
<1>1. /\ ManifestRead /\ ScalarsRead /\ TheScalars \in Indices(base)
      /\ Range(plans) = DOMAIN values
  BY AtTheEnd
<1>2. base.artifacts[TheScalars].role \in Names
  BY <1>1 DEF ManifestRead, AreArtifacts, Indices
<1>3. Range(plans) \in SUBSET Names
  BY <1>1 DEF ScalarsRead
<1> DEFINE ids == InOrder(Range(plans), Before)
<1>4. IsAscending(ids) /\ Range(ids) = Range(plans)
  BY <1>3, NamesInOrder, ScenariosAssumption
<1>5. IsSequence(ids)
  BY <1>4 DEF IsAscending
<1>6. TheRemoval = [role |-> base.artifacts[TheScalars].role, ids |-> ids,
                    old |-> <<base.artifacts[TheScalars].sha>>, new |-> <<>>]
  BY DEF TheRemoval, Removal, Entry
<1> HIDE DEF ids
<1> QED
  BY <1>2, <1>3, <1>4, <1>5, <1>6 DEF IsEntry, IsList

\* There are no other entries, and the record has them in order.
LEMMA EntriesOfTheRecord ==
  ASSUME MaterializationInv, Succeeded
  PROVE  /\ Range(record.replaced) = {AdditionOf(k) : k \in DOMAIN generated} \cup {TheRemoval}
         /\ Ordered(record.replaced)
         /\ record.base.artifacts = base.artifacts
         /\ record.derived.artifacts = NewArtifacts
<1> DEFINE additions == [k \in DOMAIN generated |-> AdditionOf(k)]
<1>1. Entries = additions \o <<TheRemoval>>
  BY DEF Entries, AdditionOf, TheRemoval
<1>2. IsSequence(additions) /\ DOMAIN additions = DOMAIN generated
  <2>1. Len(generated) \in Nat /\ DOMAIN generated = 1 .. Len(generated)
    BY AtTheEnd, SequencePlaces DEF RastersGenerated
  <2>2. additions = [k \in 1 .. Len(generated) |-> additions[k]]
    BY <2>1
  <2> QED
    BY <2>1, <2>2, SequenceOf
<1>3. Range(additions) = {AdditionOf(k) : k \in DOMAIN generated}
  BY DEF Range
<1>4. IsSequence(<<TheRemoval>>) /\ Range(<<TheRemoval>>) = {TheRemoval}
  BY DEF IsSequence, Range
<1> HIDE DEF additions
<1>5. /\ IsSequence(Entries)
      /\ Range(Entries) = {AdditionOf(k) : k \in DOMAIN generated} \cup {TheRemoval}
  BY <1>1, <1>2, <1>3, <1>4, JoinedSequences
<1>6. \A entry \in Range(Entries) : IsEntry(entry) /\ IsAscending(entry.ids)
  BY <1>5, AdditionsAdd, RemovalRemoves
<1>7. \A k \in DOMAIN Entries : IsEntry(Entries[k]) /\ IsAscending(Entries[k].ids)
  BY <1>6 DEF Range
<1>8. /\ record.replaced = Sorted(Entries) /\ record.base.artifacts = base.artifacts
      /\ record.derived.artifacts = NewArtifacts
  BY AtTheEnd DEF DerivationRecord, ManifestOf, Materialized
<1> QED
  BY <1>5, <1>7, <1>8, SortedSorts, SortedIsOrdered, ScenariosAssumption

\* From the base manifest that it names, the record leads to the derived one: one
\* artifact goes, one comes for each of its fields, all others stay.
THEOREM RecordOfConversionAudits == Spec => []RecordAudits
<1>1. ASSUME MaterializationInv, Succeeded
      PROVE  LET before == record.base.artifacts
                 after == record.derived.artifacts
                 removals == {entry \in Range(record.replaced) : entry.new = <<>>}
                 additions == {entry \in Range(record.replaced) : entry.old = <<>>}
             IN
             /\ \E i \in DOMAIN before :
                  /\ {<<entry.role, entry.old>> : entry \in removals} = Declarations(before, {i})
                  /\ Declarations(after, DOMAIN after) =
                       Declarations(before, DOMAIN before \ {i})
                         \cup {<<entry.role, entry.new>> : entry \in additions}
             /\ UNION {Range(entry.ids) : entry \in additions} =
                  UNION {Range(entry.ids) : entry \in removals}
  <2> DEFINE before == record.base.artifacts
             after == record.derived.artifacts
             removals == {entry \in Range(record.replaced) : entry.new = <<>>}
             additions == {entry \in Range(record.replaced) : entry.old = <<>>}
  <2>1. /\ before = base.artifacts /\ after = NewArtifacts
        /\ Range(record.replaced) = {AdditionOf(k) : k \in DOMAIN generated} \cup {TheRemoval}
    BY <1>1, EntriesOfTheRecord
  <2>2. \A x : <<x>> # <<>>
    OBVIOUS
  <2>3. removals = {TheRemoval} /\ additions = {AdditionOf(k) : k \in DOMAIN generated}
    BY <1>1, <2>1, <2>2, AdditionsAdd, RemovalRemoves
  <2> HIDE DEF before, after, removals, additions
  <2>4. TheScalars \in DOMAIN before /\ Range(plans) = {plans[k] : k \in DOMAIN generated}
    BY <1>1, <2>1, AtTheEnd DEF Indices, Range
  <2>5. {<<entry.role, entry.old>> : entry \in removals} = Declarations(before, {TheScalars})
    BY <1>1, <2>1, <2>3, RemovalRemoves DEF Declarations
  <2>6. {<<entry.role, entry.new>> : entry \in additions} = Declarations(generated, DOMAIN generated)
    <3>1. {<<entry.role, entry.new>> : entry \in additions} =
            {<<AdditionOf(k).role, AdditionOf(k).new>> : k \in DOMAIN generated}
      BY <2>3
    <3>2. \A k \in DOMAIN generated :
            AdditionOf(k).role = generated[k].role /\ AdditionOf(k).new = <<generated[k].sha>>
      BY <1>1, AdditionsAdd
    <3> QED
      BY <3>1, <3>2 DEF Declarations
  <2>7. Declarations(after, DOMAIN after) =
          Declarations(before, DOMAIN before \ {TheScalars}) \cup Declarations(generated, DOMAIN generated)
    <3>1. Range(after) = {before[i] : i \in DOMAIN before \ {TheScalars}} \cup Range(generated)
      BY <1>1, <2>1, TheNewArtifacts DEF Indices
    <3> DEFINE others == {before[i] : i \in DOMAIN before \ {TheScalars}}
    <3>2. \A list : Declarations(list, DOMAIN list) = Declared(Range(list))
      BY DEF Declarations, Declared, Range
    <3>3. Declarations(before, DOMAIN before \ {TheScalars}) = Declared(others)
      BY DEF Declarations, Declared
    <3>4. \A A, B : Declared(A \cup B) = Declared(A) \cup Declared(B)
      BY DEF Declared
    <3> HIDE DEF others
    <3>5. Range(after) = others \cup Range(generated)
      BY <3>1 DEF others
    <3> QED
      BY <3>2, <3>3, <3>4, <3>5
  <2>8. UNION {Range(entry.ids) : entry \in additions} = Range(plans)
    <3>1. {Range(entry.ids) : entry \in additions} = {Range(AdditionOf(k).ids) : k \in DOMAIN generated}
      BY <2>3
    <3>2. \A k \in DOMAIN generated : Range(AdditionOf(k).ids) = {plans[k]}
      BY <1>1, AdditionsAdd
    <3>3. {Range(entry.ids) : entry \in additions} = {{plans[k]} : k \in DOMAIN generated}
      BY <3>1, <3>2
    <3> QED
      BY <2>4, <3>3
  <2>9. UNION {Range(entry.ids) : entry \in removals} = Range(plans)
    BY <1>1, <2>3, RemovalRemoves
  <2> QED
    BY <2>4, <2>5, <2>6, <2>7, <2>8, <2>9 DEF before, after, removals, additions
<1>2. MaterializationInv => RecordAudits
  BY <1>1, EntriesOfTheRecord DEF RecordAudits
<1> QED
  BY <1>2, MaterializationInvHolds, PTL
=============================================================================
