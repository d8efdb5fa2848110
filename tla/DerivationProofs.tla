-------------------------- MODULE DerivationProofs --------------------------
(***************************************************************************)
(* What a derivation publishes: for bases, requests and replacement files  *)
(* of any size, and for any number of writes by other programs.            *)
(***************************************************************************)
EXTENDS Derivation, PackageProofs

-----------------------------------------------------------------------------
(***************************************************************************)
(* The order of the steps.  A variable is set by one of them and stays as  *)
(* it is from then on.                                                     *)
(***************************************************************************)
AfterStaging == {"validate", "done"}
AfterPlans == {"stage"} \cup AfterStaging
AfterSets == {"replacements"} \cup AfterPlans
AfterTables == {"sets"} \cup AfterSets
AfterValues == {"tables"} \cup AfterTables
AfterTypes == {"values"} \cup AfterValues
AfterRegistry == {"scalars"} \cup AfterTypes
AfterManifest == {"require", "registry"} \cup AfterRegistry

\* What is read stays what it was.
LEMMA ReadOnce ==
  ASSUME [Next]_vars
  PROVE  /\ pc \in AfterManifest => base' = base
         /\ pc' \in AfterManifest => pc \in AfterManifest \/ ReadManifest
         /\ pc \in AfterRegistry => registry' = registry
         /\ pc' \in AfterRegistry => pc \in AfterRegistry \/ LoadRegistry
         /\ pc' \in AfterTypes => pc \in AfterTypes \/ TypeScalars
         /\ pc \in AfterValues => values' = values
         /\ pc' \in AfterValues => pc \in AfterValues \/ ReadValues
         /\ pc \in AfterTables => inventory' = inventory
         /\ pc' \in AfterTables => pc \in AfterTables \/ ReadTables
<1> USE DEF Next, vars, world, reading, planning, output, Fail, Proceed, AfterManifest,
            AfterRegistry, AfterTypes, AfterValues, AfterTables, AfterSets, AfterPlans,
            AfterStaging, ParseRequest, ReadManifest, RequireConformant, LoadRegistry,
            TypeScalars, ReadValues, ReadTables, PlanSets, PlanReplacement, StartStaging,
            StageArtifact, TakeDigests, ValidateStaged, EditSource, EditBase, MayWrite
<1>1. /\ pc \in AfterManifest => base' = base
      /\ pc' \in AfterManifest => pc \in AfterManifest \/ ReadManifest
  OBVIOUS
<1>2. /\ pc \in AfterRegistry => registry' = registry
      /\ pc' \in AfterRegistry => pc \in AfterRegistry \/ LoadRegistry
  OBVIOUS
<1>3. /\ pc' \in AfterTypes => pc \in AfterTypes \/ TypeScalars
      /\ pc \in AfterValues => values' = values
      /\ pc' \in AfterValues => pc \in AfterValues \/ ReadValues
  OBVIOUS
<1>4. /\ pc \in AfterTables => inventory' = inventory
      /\ pc' \in AfterTables => pc \in AfterTables \/ ReadTables
  OBVIOUS
<1> QED
  BY <1>1, <1>2, <1>3, <1>4

\* What is planned and staged, too.
LEMMA PlannedOnce ==
  ASSUME [Next]_vars
  PROVE  /\ request' = request
         /\ pc \in AfterSets => rewrite' = rewrite
         /\ pc' \in AfterSets => pc \in AfterSets \/ PlanSets
         /\ plans' = plans \/ PlanReplacement
         /\ pc' \in AfterPlans => pc \in AfterPlans \/ StartStaging
         /\ pc \in AfterPlans => plans' = plans
         /\ staged' = staged \/ StageArtifact
         /\ artifacts' = artifacts \/ StageArtifact \/ TakeDigests
         /\ pc' \in AfterStaging => pc \in AfterStaging \/ TakeDigests
         /\ pc \in AfterStaging => staged' = staged /\ artifacts' = artifacts
         /\ pc' = "done" => (pc = "done" /\ UNCHANGED vars) \/ ValidateStaged
         /\ pc \in AfterSets \cup {"failed"} => pc' \in AfterSets \cup {"failed"}
         /\ pc \in AfterPlans \cup {"failed"} => pc' \in AfterPlans \cup {"failed"}
<1> USE DEF Next, vars, world, reading, planning, output, Fail, Proceed,
            AfterSets, AfterPlans,
            AfterStaging, ParseRequest, ReadManifest, RequireConformant, LoadRegistry,
            TypeScalars, ReadValues, ReadTables, PlanSets, PlanReplacement, StartStaging,
            StageArtifact, TakeDigests, ValidateStaged, EditSource, EditBase, MayWrite
<1>1. /\ request' = request
      /\ pc \in AfterSets => rewrite' = rewrite
      /\ pc' \in AfterSets => pc \in AfterSets \/ PlanSets
  OBVIOUS
<1>2. /\ plans' = plans \/ PlanReplacement
      /\ pc' \in AfterPlans => pc \in AfterPlans \/ StartStaging
      /\ pc \in AfterPlans => plans' = plans
  OBVIOUS
<1>3. /\ staged' = staged \/ StageArtifact
      /\ artifacts' = artifacts \/ StageArtifact \/ TakeDigests
      /\ pc' \in AfterStaging => pc \in AfterStaging \/ TakeDigests
      /\ pc \in AfterStaging => staged' = staged /\ artifacts' = artifacts
  OBVIOUS
<1>4. /\ pc' = "done" => (pc = "done" /\ UNCHANGED vars) \/ ValidateStaged
      /\ pc \in AfterSets \cup {"failed"} => pc' \in AfterSets \cup {"failed"}
      /\ pc \in AfterPlans \cup {"failed"} => pc' \in AfterPlans \cup {"failed"}
  OBVIOUS
<1> QED
  BY <1>1, <1>2, <1>3, <1>4

\* Who writes leaves a trace.
LEMMA WritersAreKnown ==
  ASSUME [Next]_vars
  PROVE  /\ disk' = disk \/ EditBase
         /\ files' = files \/ EditSource
         /\ "base" \notin disturbed' => "base" \notin disturbed /\ disk' = disk
         /\ Undisturbed' => Undisturbed /\ disk' = disk /\ files' = files
<1> USE DEF Next, vars, world, reading, planning, output, Fail, Proceed, Undisturbed,
            ParseRequest, ReadManifest, RequireConformant, LoadRegistry,
            TypeScalars, ReadValues, ReadTables, PlanSets, PlanReplacement, StartStaging,
            StageArtifact, TakeDigests, ValidateStaged, EditSource, EditBase, MayWrite
<1>1. disk' = disk \/ EditBase
  OBVIOUS
<1>2. files' = files \/ EditSource
  OBVIOUS
<1>3. "base" \notin disturbed' => "base" \notin disturbed /\ disk' = disk
  OBVIOUS
<1>4. Undisturbed' => Undisturbed /\ disk' = disk /\ files' = files
  OBVIOUS
<1> QED
  BY <1>1, <1>2, <1>3, <1>4

-----------------------------------------------------------------------------
(***************************************************************************)
(* The inductive invariant, in the order of the steps.                     *)
(***************************************************************************)

\* Whatever is written, the base stays a package and the files stay files.
WorldInv ==
  /\ IsBase(disk)
  /\ AreFiles(files)
  /\ IsSequence(request.replace) /\ IsSequence(request.set)

ManifestRead ==
  /\ IsManifest(base)
  /\ AreArtifacts(base.artifacts)
  /\ "base" \notin disturbed => base = ManifestOf(disk)

\* The values are those of the one scalars object.
ValuesRead ==
  /\ WithFormat(base, "scalars") = {} => values = <<>>
  /\ "base" \notin disturbed /\ WithFormat(base, "scalars") # {} =>
       /\ Content(Seen, TheScalars).kind = "scalars"
       /\ values = Content(Seen, TheScalars).values

\* A scalar source is the scalars object; a physical one is another artifact,
\* which has the field as its variable or is a table.
IsSource(source, id) ==
  \/ /\ source = [index |-> TheScalars, kind |-> "scalar"]
     /\ WithFormat(base, "scalars") # {}
  \/ /\ source.kind = "physical"
     /\ source.index \in Indices(base)
     /\ base.artifacts[source.index].format # "scalars"
     /\ base.artifacts[source.index].format # "attributes" =>
          base.artifacts[source.index].variable = id

TablesRead ==
  /\ DOMAIN inventory = DOMAIN registry
  /\ \A id \in DOMAIN registry : \A source \in inventory[id] : IsSource(source, id)
  /\ "base" \notin disturbed => \A id \in DOMAIN registry : inventory[id] = SourcesOf(id)

ReadingInv ==
  /\ pc \in AfterManifest => ManifestRead
  /\ pc \in AfterRegistry => DOMAIN registry \subseteq Names
  /\ pc \in AfterTypes => \A i \in WithFormat(base, "scalars") : i = TheScalars
  /\ pc \in AfterValues => ValuesRead
  /\ pc \in AfterTables => TablesRead

SetsPlanned ==
  /\ \A k \in DOMAIN request.set : CanSet(request.set[k])
  /\ request.set # <<>> =>
       rewrite = [id \in DOMAIN values |-> IF id \in SetIds THEN NewValue(id) ELSE values[id]]

\* The k-th plan is that of the k-th --replace: it has its target's one source,
\* it may do what it does, and it knows all that it does if nobody else writes.
IsPlanned(k) == LET mutation == request.replace[k]  plan == plans[k] IN
  /\ HasSource(mutation.id, "physical")
  /\ plan.index = ArtifactOf(mutation.id)
  /\ plan.file = mutation.file
  /\ plan.file \in DOMAIN files
  /\ plan.affected \subseteq DOMAIN registry
  /\ ~Refused(mutation.id, plan.affected)
  /\ Undisturbed => plan.affected = AffectedFields(plan.index, FileAt(files, plan.file))

ReplacementsPlanned ==
  /\ IsSequence(plans) /\ Len(plans) <= Len(request.replace)
  /\ \A k \in DOMAIN plans : IsPlanned(k)
  /\ \A k, n \in DOMAIN plans : plans[k].index = plans[n].index => k = n

PlanningInv ==
  /\ pc \notin AfterSets \cup {"failed"} => plans = <<>>
  /\ pc \in AfterSets => SetsPlanned /\ ReplacementsPlanned
  /\ pc \in AfterPlans => Len(plans) = Len(request.replace)

\* What is staged at the path of the i-th artifact, if nobody else writes.
SourceContent(i) ==
  IF i \in Replaced THEN Replacing(i)
  ELSE IF i \in Rewritten THEN [kind |-> "scalars", values |-> rewrite]
  ELSE FileAt(disk.files, PathOf(base, i))

IsStaged(i) ==
  /\ PathOf(base, i) \in DOMAIN staged
  /\ Undisturbed /\ HasOwnPath(i) => staged[PathOf(base, i)] = SourceContent(i)
  /\ "base" \notin disturbed /\ HasOwnTree(i) /\ i \notin Replaced \cup Rewritten =>
       TreeAt(staged, PathOf(base, i)) = TreeAt(disk.files, PathOf(base, i))

\* No link is staged, and each round has staged its artifact for good.
FilesStaged ==
  /\ \A path \in DOMAIN staged : staged[path].kind # "link" /\ IsContent(staged[path])
  /\ \A i \in DOMAIN artifacts : IsStaged(i)

ArtifactsKept == \A i \in DOMAIN artifacts : artifacts[i] = base.artifacts[i]

\* Only the digests of what was replaced or rewritten are new, and they are true.
DigestsTaken ==
  \A i \in DOMAIN artifacts :
    /\ artifacts[i].role = base.artifacts[i].role
    /\ artifacts[i].path = base.artifacts[i].path
    /\ artifacts[i].format = base.artifacts[i].format
    /\ artifacts[i].variable = base.artifacts[i].variable
    /\ artifacts[i].sha = IF i \in Replaced \cup Rewritten
                          THEN DigestOf(i) ELSE base.artifacts[i].sha

StagingInv ==
  /\ pc \notin AfterPlans \cup {"failed"} => staged = <<>> /\ artifacts = <<>>
  /\ pc \in AfterPlans =>
       /\ IsSequence(artifacts) /\ Len(artifacts) <= Len(base.artifacts)
       /\ FilesStaged
  /\ pc = "stage" => ArtifactsKept
  /\ pc \in AfterStaging => Len(artifacts) = Len(base.artifacts) /\ DigestsTaken

ResultInv ==
  pc = "done" => Conformant(DerivedPackage) /\ record = TheRecord

-----------------------------------------------------------------------------
\* EditBase writes to a file that is there, or a whole list of artifacts;
\* EditSource writes to a file that is there.
LEMMA WorldInvHolds == Spec => []WorldInv
<1>1. Init => WorldInv
  BY ScenariosAssumption DEF Init, WorldInv
<1>2. ASSUME WorldInv, [Next]_vars
      PROVE  WorldInv'
  <2>1. request' = request
    BY <1>2, PlannedOnce
  <2>2. AreFiles(files)'
    <3>1. CASE files' = files
      BY <1>2, <3>1 DEF WorldInv, AreFiles, FileAt
    <3>2. CASE EditSource
      <4>1. PICK file \in Shared \cap Requested, content \in Edits :
                 files' = [files EXCEPT ![file] = content]
        BY <3>2 DEF EditSource
      <4>2. IsContent(Followed(content))
        BY <4>1, ScenariosAssumption
      <4>3. ASSUME NEW path \in DOMAIN files'
            PROVE  IsContent(FileAt(files', path))
        <5>1. path \in DOMAIN files /\ IsContent(FileAt(files, path))
          BY <1>2, <4>1, <4>3 DEF WorldInv, AreFiles
        <5>2. FileAt(files', path) = Followed(files'[path]) /\ FileAt(files, path) = Followed(files[path])
          BY <5>1, <4>3 DEF FileAt
        <5>3. files'[path] = content \/ files'[path] = files[path]
          BY <5>1, <4>1
        <5> QED
          BY <5>1, <5>2, <5>3, <4>2
      <4> QED
        BY <4>3 DEF AreFiles
    <3> QED
      BY <1>2, <3>1, <3>2, WritersAreKnown
  <2>3. IsBase(disk)'
    <3>1. CASE disk' = disk
      BY <1>2, <3>1 DEF WorldInv
    <3>2. ASSUME NEW edit \in FileEdits, edit.path \in DOMAIN disk.files,
                 disk' = [disk EXCEPT !.files[edit.path] = edit.content]
          PROVE  IsBase(disk)'
      BY <1>2, <3>2, EditedFile, ScenariosAssumption DEF WorldInv
    <3>3. ASSUME NEW list \in ManifestEdits, disk' = [disk EXCEPT !.artifacts = list]
          PROVE  IsBase(disk)'
      BY <1>2, <3>3, EditedArtifacts, ScenariosAssumption DEF WorldInv
    <3> QED
      BY <1>2, <3>1, <3>2, <3>3, WritersAreKnown DEF EditBase
  <2> QED
    BY <1>2, <2>1, <2>2, <2>3 DEF WorldInv
<1> QED
  BY <1>1, <1>2, PTL DEF Spec

-----------------------------------------------------------------------------
\* The ids of a registry that parses are names.
LEMMA RegistryHasNames ==
  ASSUME WorldInv, RegistryLoads(Seen)
  PROVE  DOMAIN Registry(Seen) \subseteq Names
<1> DEFINE content == Content(Seen, TheRegistry(Seen))
           path == PathOf(Seen, TheRegistry(Seen))
<1>1. content.kind = "registry" /\ content = FileAt(disk.files, path)
  BY DEF RegistryLoads, ParsesAsRegistry, Content, Seen
<1>2. path \in DOMAIN disk.files /\ content = Followed(disk.files[path])
  BY <1>1 DEF FileAt, Absent
<1>3. \A i \in DOMAIN content.fields : content.fields[i].id \in Names
  BY <1>1, <1>2 DEF WorldInv, IsBase, IsBaseFile
<1>4. DOMAIN Registry(Seen) = {content.fields[i].id : i \in DOMAIN content.fields}
  BY DEF Registry
<1> QED
  BY <1>3, <1>4

\* What inventory says of a field is what its sources are.
LEMMA SourcesAreSources ==
  ASSUME ManifestRead, WithFormat(base, "scalars") = {} => values = <<>>,
         \A i \in WithFormat(base, "scalars") : i = TheScalars,
         NEW id, NEW source \in SourcesOf(id)
  PROVE  IsSource(source, id)
<1>1. /\ Indices(Seen) = Indices(base) /\ Seen.artifacts = base.artifacts
      /\ WithFormat(Seen, "scalars") = WithFormat(base, "scalars")
      /\ WithFormat(Seen, "attributes") = WithFormat(base, "attributes")
  BY DEF Seen, Indices, WithFormat
<1>2. ASSUME source = [index |-> TheScalars, kind |-> "scalar"], id \in DOMAIN values
      PROVE  IsSource(source, id)
  BY <1>2 DEF IsSource
<1>3. ASSUME NEW i \in ColumnSources(Seen, id), source = [index |-> i, kind |-> "physical"]
      PROVE  IsSource(source, id)
  BY <1>1, <1>3 DEF IsSource, ColumnSources, WithFormat
<1>4. ASSUME NEW i \in VariableSources(Seen, id) \ WithFormat(Seen, "scalars"),
             source = [index |-> i, kind |-> "physical"]
      PROVE  IsSource(source, id)
  BY <1>1, <1>4 DEF IsSource, VariableSources, WithFormat
<1> QED
  BY <1>2, <1>3, <1>4 DEF SourcesOf

\* Every one of the five things read is what the step that reads it makes of the
\* base, and others change the base but not what was read of it.
LEMMA ReadingInvHolds == Spec => []ReadingInv
<1>1. Init => ReadingInv
  BY DEF Init, ReadingInv, AfterManifest, AfterRegistry, AfterTypes, AfterValues, AfterTables,
         AfterSets, AfterPlans, AfterStaging
<1>2. ASSUME WorldInv, ReadingInv, [Next]_vars
      PROVE  ReadingInv'
  <2>1. ASSUME pc' \in AfterManifest
        PROVE  ManifestRead'
    <3>1. CASE pc \in AfterManifest
      <4>1. base' = base
        BY <3>1, <1>2, ReadOnce
      <4>2. ManifestRead
        BY <3>1, <1>2 DEF ReadingInv
      <4>3. "base" \notin disturbed' => "base" \notin disturbed /\ disk' = disk
        BY <1>2, WritersAreKnown
      <4> QED
        BY <4>1, <4>2, <4>3 DEF ManifestRead
    <3>2. CASE ReadManifest
      <4>1. base' = ManifestOf(disk) /\ disk' = disk
        BY <3>2 DEF ReadManifest, world
      <4>2. IsManifest(ManifestOf(disk)) /\ AreArtifacts(ManifestOf(disk).artifacts)
        BY <1>2 DEF WorldInv, IsBase, IsPackage, IsManifest, ManifestOf, Indices
      <4> QED
        BY <4>1, <4>2 DEF ManifestRead
    <3> QED
      BY <1>2, <2>1, <3>1, <3>2, ReadOnce
  <2>2. ASSUME pc' \in AfterRegistry
        PROVE  DOMAIN registry' \subseteq Names
    <3>1. CASE pc \in AfterRegistry
      BY <3>1, <1>2, ReadOnce DEF ReadingInv
    <3>2. CASE LoadRegistry
      <4>1. RegistryLoads(Seen) /\ registry' = Registry(Seen)
        BY <3>2, <2>2 DEF LoadRegistry, Fail, AfterRegistry, AfterTypes, AfterValues,
                          AfterTables, AfterSets, AfterPlans, AfterStaging
      <4> QED
        BY <4>1, <1>2, RegistryHasNames
    <3> QED
      BY <1>2, <2>2, <3>1, <3>2, ReadOnce
  <2>3. ASSUME pc' \in AfterTypes
        PROVE  (\A i \in WithFormat(base, "scalars") : i = TheScalars)'
    <3>1. CASE pc \in AfterTypes
      <4>1. base' = base
        BY <3>1, <1>2, ReadOnce DEF AfterManifest, AfterRegistry
      <4>2. TheScalars' = TheScalars /\ (WithFormat(base, "scalars"))' = WithFormat(base, "scalars")
        BY <4>1 DEF TheScalars, WithFormat, Indices
      <4> QED
        BY <3>1, <1>2, <4>1, <4>2 DEF ReadingInv
    <3>2. CASE TypeScalars
      <4> DEFINE S == WithFormat(base, "scalars")
      <4>1. ~(Cardinality(S) > 1) /\ base' = base /\ pc = "scalars"
        BY <3>2, <2>3 DEF TypeScalars, Fail, Proceed, reading, AfterTypes, AfterValues,
                          AfterTables, AfterSets, AfterPlans, AfterStaging
      <4>2. IsManifest(base)
        BY <4>1, <1>2 DEF ReadingInv, ManifestRead, AfterManifest, AfterRegistry
      <4>3. S \in SUBSET Indices(base)
        BY DEF WithFormat
      <4>4. IsFiniteSet(S) /\ Cardinality(S) \in Nat
        BY <4>2, <4>3, FiniteArtifacts
      <4>5. Cardinality(S) = 0 \/ Cardinality(S) = 1
        BY <4>1, <4>4
      <4>6. S = {} \/ \E x \in S : S = {x}
        BY <4>4, <4>5, FS_EmptySet, OnlyElement
      <4>7. \A i \in S : i = TheScalars
        BY <4>6 DEF TheScalars
      <4>8. TheScalars' = TheScalars /\ (WithFormat(base, "scalars"))' = S
        BY <4>1 DEF TheScalars, WithFormat, Indices
      <4> QED
        BY <4>7, <4>8
    <3> QED
      BY <1>2, <2>3, <3>1, <3>2, ReadOnce
  <2>4. ASSUME pc' \in AfterValues
        PROVE  ValuesRead'
    <3>1. /\ pc \in AfterValues => base' = base /\ values' = values
          /\ pc \in AfterValues => ValuesRead
          /\ pc \in AfterValues \/ ReadValues
      BY <1>2, <2>4, ReadOnce DEF ReadingInv, AfterManifest, AfterRegistry, AfterTypes
    <3>2. "base" \notin disturbed' => "base" \notin disturbed /\ disk' = disk
      BY <1>2, WritersAreKnown
    <3>3. base' = base => TheScalars' = TheScalars
                          /\ (WithFormat(base, "scalars"))' = WithFormat(base, "scalars")
      BY DEF TheScalars, WithFormat, Indices
    <3>4. base' = base /\ disk' = disk /\ TheScalars' = TheScalars =>
            (Content(Seen, TheScalars))' = Content(Seen, TheScalars)
      BY DEF Seen, Content, PathOf
    <3>5. CASE pc \in AfterValues
      BY <3>1, <3>2, <3>3, <3>4, <3>5 DEF ValuesRead
    <3>6. CASE ReadValues
      <4>1. /\ base' = base /\ disk' = disk /\ disturbed' = disturbed
            /\ WithFormat(base, "scalars") # {} => Content(Seen, TheScalars).kind = "scalars"
            /\ values' = IF WithFormat(base, "scalars") = {} THEN <<>>
                         ELSE Content(Seen, TheScalars).values
        BY <3>6, <2>4 DEF ReadValues, Fail, world, AfterValues, AfterTables, AfterSets,
                          AfterPlans, AfterStaging
      <4> QED
        BY <4>1, <3>3, <3>4 DEF ValuesRead
    <3> QED
      BY <3>1, <3>5, <3>6
  <2>5. ASSUME pc' \in AfterTables
        PROVE  TablesRead'
    <3>1. /\ pc \in AfterTables \cup {"tables"}
          /\ base' = base /\ registry' = registry /\ values' = values
          /\ pc \in AfterTables => inventory' = inventory
          /\ pc \in AfterTables \/ ReadTables
      BY <1>2, <2>5, ReadOnce
      DEF ReadTables, AfterManifest, AfterRegistry, AfterTypes, AfterValues
    <3>2. "base" \notin disturbed' => "base" \notin disturbed /\ disk' = disk
      BY <1>2, WritersAreKnown
    <3>3. /\ TheScalars' = TheScalars
          /\ (WithFormat(base, "scalars"))' = WithFormat(base, "scalars")
          /\ Indices(base)' = Indices(base)
      BY <3>1 DEF TheScalars, WithFormat, Indices
    <3>4. \A source, id : IsSource(source, id)' <=> IsSource(source, id)
      BY <3>1, <3>3 DEF IsSource
    <3>5. disk' = disk => \A id : SourcesOf(id)' = SourcesOf(id)
      BY <3>1, <3>3 DEF SourcesOf, Seen, ColumnSources, VariableSources, WithFormat, Indices,
                        Content, PathOf
    <3>6. CASE pc \in AfterTables
      <4>1. TablesRead
        BY <3>6, <1>2 DEF ReadingInv
      <4> QED
        BY <4>1, <3>1, <3>2, <3>4, <3>5, <3>6 DEF TablesRead
    <3>7. CASE ReadTables
      <4>1. inventory' = [id \in DOMAIN registry |-> SourcesOf(id)] /\ disk' = disk
        BY <3>7, <2>5 DEF ReadTables, Fail, world, AfterTables, AfterSets, AfterPlans, AfterStaging
      <4>2. /\ ManifestRead /\ ValuesRead
            /\ \A i \in WithFormat(base, "scalars") : i = TheScalars
        BY <1>2, <3>1 DEF ReadingInv, AfterManifest, AfterRegistry, AfterTypes, AfterValues
      <4>3. \A id : \A source \in SourcesOf(id) : IsSource(source, id)
        BY <4>2, SourcesAreSources DEF ValuesRead
      <4> QED
        BY <4>1, <4>3, <3>1, <3>4, <3>5 DEF TablesRead
    <3> QED
      BY <3>1, <3>6, <3>7
  <2> QED
    BY <2>1, <2>2, <2>3, <2>4, <2>5 DEF ReadingInv
<1> QED
  BY <1>1, <1>2, WorldInvHolds, PTL DEF Spec

-----------------------------------------------------------------------------
\* The one source of a target.
LEMMA TheSource ==
  ASSUME TablesRead, NEW id, NEW kind, HasSource(id, kind)
  PROVE  /\ id \in DOMAIN registry
         /\ \E source \in inventory[id] :
              /\ inventory[id] = {source} /\ source.kind = kind
              /\ IsSource(source, id) /\ ArtifactOf(id) = source.index
<1>1. id \in DOMAIN registry
  BY DEF HasSource
<1>2. PICK source \in inventory[id] : inventory[id] = {source} /\ source.kind = kind
  BY DEF HasSource
<1>3. ArtifactOf(id) = source.index
  BY <1>2 DEF ArtifactOf
<1>4. IsSource(source, id)
  BY <1>1 DEF TablesRead
<1> QED
  BY <1>1, <1>2, <1>3, <1>4

\* The artifact that a --replace replaces is no scalars object; the fields it
\* affects are registered.
LEMMA ReplacedArtifact ==
  ASSUME TablesRead, NEW id, HasSource(id, "physical"), NEW content
  PROVE  /\ ArtifactOf(id) \in Indices(base)
         /\ base.artifacts[ArtifactOf(id)].format # "scalars"
         /\ base.artifacts[ArtifactOf(id)].format # "attributes" =>
              base.artifacts[ArtifactOf(id)].variable = id
         /\ AffectedFields(ArtifactOf(id), content) \subseteq DOMAIN registry
<1>1. PICK source \in inventory[id] : /\ source.kind = "physical"
                                      /\ IsSource(source, id) /\ ArtifactOf(id) = source.index
  BY TheSource
<1>2. /\ source.index \in Indices(base)
      /\ base.artifacts[source.index].format # "scalars"
      /\ base.artifacts[source.index].format # "attributes" =>
           base.artifacts[source.index].variable = id
  BY <1>1 DEF IsSource
<1>3. id \in DOMAIN registry
  BY TheSource
<1> QED
  BY <1>1, <1>2, <1>3 DEF AffectedFields

\* Others change what the files hold, not which there are.
LEMMA FilesStay ==
  ASSUME [Next]_vars
  PROVE  DOMAIN files' = DOMAIN files
<1>1. CASE files' = files
  BY <1>1
<1>2. CASE EditSource
  BY <1>2 DEF EditSource
<1> QED
  BY <1>1, <1>2, WritersAreKnown

\* A plan stays a plan whatever the others write.
LEMMA PlansStay ==
  ASSUME [Next]_vars, pc \in AfterSets, NEW k, IsPlanned(k), plans'[k] = plans[k]
  PROVE  IsPlanned(k)'
<1> DEFINE mutation == request.replace[k]
           plan == plans[k]
<1>1. /\ request' = request /\ inventory' = inventory /\ registry' = registry /\ base' = base
  BY PlannedOnce, ReadOnce DEF AfterManifest, AfterRegistry, AfterTypes, AfterValues, AfterTables
<1>2. /\ HasSource(mutation.id, "physical")' = HasSource(mutation.id, "physical")
      /\ ArtifactOf(mutation.id)' = ArtifactOf(mutation.id)
      /\ Refused(mutation.id, plan.affected)' = Refused(mutation.id, plan.affected)
  BY <1>1 DEF HasSource, ArtifactOf, Refused, IsParameter
<1>3. DOMAIN files' = DOMAIN files
  BY FilesStay
<1>4. Undisturbed' => Undisturbed /\ disk' = disk /\ files' = files
  BY WritersAreKnown
<1>5. disk' = disk /\ files' = files =>
        AffectedFields(plan.index, FileAt(files, plan.file))'
          = AffectedFields(plan.index, FileAt(files, plan.file))
  BY <1>1 DEF AffectedFields, Seen, Content, PathOf
<1> QED
  BY <1>1, <1>2, <1>3, <1>4, <1>5 DEF IsPlanned

\* One --replace after the other gets its plan, and the --set get one together.
LEMMA PlanningInvHolds == Spec => []PlanningInv
<1>1. Init => PlanningInv
  BY DEF Init, PlanningInv, AfterSets, AfterPlans, AfterStaging
<1>2. ASSUME WorldInv, ReadingInv, PlanningInv, [Next]_vars
      PROVE  PlanningInv'
  <2>1. request' = request /\ IsSequence(request.replace)
    BY <1>2, PlannedOnce DEF WorldInv
  <2>2. ASSUME pc' \notin AfterSets \cup {"failed"}
        PROVE  plans' = <<>>
    <3>1. pc \notin AfterSets \cup {"failed"}
      BY <1>2, <2>2, PlannedOnce
    <3>2. ~PlanReplacement
      BY <3>1 DEF PlanReplacement, AfterSets
    <3> QED
      BY <1>2, <3>1, <3>2, PlannedOnce DEF PlanningInv
  <2>3. ASSUME pc' \in AfterSets
        PROVE  SetsPlanned'
    <3>1. /\ registry' = registry /\ inventory' = inventory /\ values' = values
          /\ pc \in AfterSets => rewrite' = rewrite
          /\ pc \in AfterSets \/ PlanSets
      BY <1>2, <2>3, PlannedOnce, ReadOnce
      DEF PlanSets, AfterManifest, AfterRegistry, AfterTypes, AfterValues, AfterTables
    <3>2. /\ \A mutation : CanSet(mutation)' = CanSet(mutation)
          /\ SetIds' = SetIds
          /\ \A id : NewValue(id)' = NewValue(id)
      BY <2>1, <3>1 DEF CanSet, HasSource, IsParameter, SetIds, NewValue
    <3>3. CASE pc \in AfterSets
      <4>1. SetsPlanned
        BY <3>3, <1>2 DEF PlanningInv
      <4> QED
        BY <4>1, <3>1, <3>2, <3>3, <2>1 DEF SetsPlanned
    <3>4. CASE PlanSets
      <4>1. /\ \A k \in DOMAIN request.set : CanSet(request.set[k])
            /\ rewrite' = IF request.set = <<>> THEN <<>>
                          ELSE [id \in DOMAIN values |->
                                  IF id \in SetIds THEN NewValue(id) ELSE values[id]]
        BY <3>4, <2>3 DEF PlanSets, Fail, AfterSets, AfterPlans, AfterStaging
      <4> QED
        BY <4>1, <3>1, <3>2, <2>1 DEF SetsPlanned
    <3> QED
      BY <3>1, <3>3, <3>4
  <2>4. ASSUME pc' \in AfterSets
        PROVE  ReplacementsPlanned'
    <3>1. CASE PlanReplacement
      <4> DEFINE n == Len(plans)
                 mutation == request.replace[n + 1]
                 content == FileAt(files, mutation.file)
                 i == ArtifactOf(mutation.id)
                 affected == AffectedFields(i, content)
                 plan == [index |-> i, file |-> mutation.file, affected |-> affected]
      <4>1. /\ pc = "replacements" /\ n < Len(request.replace)
            /\ HasSource(mutation.id, "physical")
            /\ \A k \in DOMAIN plans : plans[k].index # i
            /\ CanReplace(i, mutation.id, content)
            /\ ~Refused(mutation.id, affected)
            /\ plans' = Append(plans, plan)
            /\ UNCHANGED <<pc, world, reading, rewrite, output>>
        BY <3>1, <2>4 DEF PlanReplacement, Fail, AfterSets, AfterPlans, AfterStaging
      <4>2. pc \in AfterSets
        BY <4>1 DEF AfterSets
      <4>3. TablesRead /\ ReplacementsPlanned
        BY <4>2, <1>2 DEF ReadingInv, PlanningInv, AfterTables
      <4>4. /\ n \in Nat /\ DOMAIN plans = 1 .. n /\ plans = [k \in 1 .. n |-> plans[k]]
        BY <4>3, SequencePlaces DEF ReplacementsPlanned
      <4>5. plans' = [k \in 1 .. n + 1 |-> IF k = n + 1 THEN plan ELSE plans[k]]
        BY <4>1, <4>3, <4>4 DEF ReplacementsPlanned, IsSequence
      <4> HIDE DEF n, plan
      <4>6. IsSequence(plans') /\ Len(plans') = n + 1 /\ DOMAIN plans' = 1 .. n + 1
        <5>1. n + 1 \in Nat
          BY <4>4
        <5>2. plans' = [k \in 1 .. n + 1 |-> plans'[k]]
          BY <4>5
        <5> QED
          BY <5>1, <5>2, SequenceOf
      <4>7. Len(request.replace) \in Nat
        BY <2>1, SequencePlaces
      <4>8. Len(plans') <= Len(request'.replace)
        BY <4>1, <4>4, <4>6, <4>7, <2>1
      <4>9. \A k \in 1 .. n : plans'[k] = plans[k] /\ k # n + 1
        BY <4>4, <4>5
      <4>10. n + 1 \in DOMAIN plans' /\ plans'[n + 1] = plan
        BY <4>4, <4>5, <4>6
      <4>11. \A k \in 1 .. n : IsPlanned(k)'
        <5>1. ASSUME NEW k \in 1 .. n
              PROVE  IsPlanned(k)'
          <6>1. IsPlanned(k) /\ plans'[k] = plans[k]
            BY <4>3, <4>4, <4>9 DEF ReplacementsPlanned
          <6> QED
            BY <6>1, <4>2, <1>2, PlansStay
        <5> QED
          BY <5>1
      <4>12. ASSUME NEW m, m = n + 1
             PROVE  IsPlanned(m)'
        <5>1. /\ request' = request /\ files' = files /\ disk' = disk /\ base' = base
              /\ registry' = registry /\ inventory' = inventory
          BY <4>1 DEF world, reading
        <5>2. plan.index = i /\ plan.file = mutation.file /\ plan.affected = affected
          BY DEF plan
        <5>3. mutation.file \in DOMAIN files
          BY <4>1 DEF CanReplace, FileAt, Absent
        <5>4. affected \subseteq DOMAIN registry
          BY <4>1, <4>3, ReplacedArtifact
        <5>5. /\ \A id, kind : HasSource(id, kind)' <=> HasSource(id, kind)
              /\ \A id : ArtifactOf(id)' = ArtifactOf(id)
              /\ \A id, ids : Refused(id, ids)' <=> Refused(id, ids)
          BY <5>1 DEF HasSource, ArtifactOf, Refused, IsParameter
        <5>6. \A k, new : AffectedFields(k, new)' = AffectedFields(k, new)
          BY <5>1 DEF AffectedFields, Seen, Content, PathOf
        <5>7. plans'[m] = plan /\ request'.replace[m] = mutation
          BY <4>10, <4>12, <5>1
        <5>8. FileAt(files', plan.file) = content
          BY <5>1, <5>2
        <5> HIDE DEF i, content, affected, mutation
        <5>9. /\ HasSource(mutation.id, "physical") /\ ~Refused(mutation.id, affected)
              /\ i = ArtifactOf(mutation.id) /\ affected = AffectedFields(i, content)
          BY <4>1 DEF i, content, affected, mutation
        <5> QED
          BY <5>1, <5>2, <5>3, <5>4, <5>5, <5>6, <5>7, <5>8, <5>9 DEF IsPlanned
      <4>13. \A k, m \in DOMAIN plans' : plans'[k].index = plans'[m].index => k = m
        <5>1. plan.index = i
          BY DEF plan
        <5>2. \A k, m \in 1 .. n : plans[k].index = plans[m].index => k = m
          BY <4>3, <4>4 DEF ReplacementsPlanned
        <5>3. \A k \in 1 .. n : plans[k].index # i
          BY <4>1, <4>4
        <5>4. \A k \in DOMAIN plans' : k \in 1 .. n \/ k = n + 1
          BY <4>4, <4>6
        <5> HIDE DEF i
        <5> QED
          BY <5>1, <5>2, <5>3, <5>4, <4>9, <4>10
      <4>14. \A k \in DOMAIN plans' : IsPlanned(k)'
        <5>1. \A k \in DOMAIN plans' : k \in 1 .. n \/ k = n + 1
          BY <4>4, <4>6
        <5> QED
          BY <5>1, <4>11, <4>12
      <4> QED
        BY <4>6, <4>8, <4>13, <4>14 DEF ReplacementsPlanned
    <3>2. CASE PlanSets
      <4>1. plans' = plans /\ pc \notin AfterSets \cup {"failed"}
        BY <3>2, <2>4 DEF PlanSets, Fail, AfterSets, AfterPlans, AfterStaging
      <4>2. plans' = <<>>
        BY <4>1, <1>2 DEF PlanningInv
      <4>3. IsSequence(plans') /\ Len(plans') = 0 /\ DOMAIN plans' = {}
        BY <4>2 DEF IsSequence
      <4>4. Len(request.replace) \in Nat
        BY <2>1, SequencePlaces
      <4> QED
        BY <4>3, <4>4, <2>1 DEF ReplacementsPlanned
    <3>3. CASE pc \in AfterSets /\ plans' = plans
      <4>1. ReplacementsPlanned
        BY <3>3, <1>2 DEF PlanningInv
      <4>2. \A k \in DOMAIN plans : IsPlanned(k)'
        BY <4>1, <3>3, <1>2, PlansStay DEF ReplacementsPlanned
      <4> QED
        BY <4>1, <4>2, <3>3, <2>1 DEF ReplacementsPlanned
    <3> QED
      BY <1>2, <2>4, <3>1, <3>2, <3>3, PlannedOnce
  <2>5. ASSUME pc' \in AfterPlans
        PROVE  Len(plans') = Len(request'.replace)
    <3>1. CASE pc \in AfterPlans
      BY <3>1, <1>2, <2>1, PlannedOnce DEF PlanningInv
    <3>2. CASE StartStaging
      BY <3>2, <2>1 DEF StartStaging, Proceed, planning
    <3> QED
      BY <1>2, <2>5, <3>1, <3>2, PlannedOnce
  <2> QED
    BY <2>2, <2>3, <2>4, <2>5 DEF PlanningInv
<1> QED
  BY <1>1, <1>2, WorldInvHolds, ReadingInvHolds, PTL DEF Spec

-----------------------------------------------------------------------------
\* What staging works from no longer changes.
LEMMA PlansAreFixed ==
  ASSUME [Next]_vars, pc \in AfterPlans
  PROVE  /\ base' = base /\ plans' = plans /\ request' = request /\ rewrite' = rewrite
         /\ registry' = registry
         /\ TheScalars' = TheScalars /\ Replaced' = Replaced /\ Rewritten' = Rewritten
         /\ \A i : PathOf(base, i)' = PathOf(base, i)
         /\ \A i : HasOwnPath(i)' <=> HasOwnPath(i)
         /\ \A i : HasOwnTree(i)' <=> HasOwnTree(i)
<1>1. /\ base' = base /\ plans' = plans /\ request' = request /\ rewrite' = rewrite
      /\ registry' = registry
  BY ReadOnce, PlannedOnce DEF AfterManifest, AfterRegistry, AfterTypes, AfterValues,
                               AfterTables, AfterSets
<1>2. /\ TheScalars' = TheScalars /\ Replaced' = Replaced /\ Rewritten' = Rewritten
      /\ \A i : PathOf(base, i)' = PathOf(base, i)
  BY <1>1 DEF TheScalars, WithFormat, Indices, Replaced, Rewritten, PathOf
<1>3. /\ \A i : HasOwnPath(i)' <=> HasOwnPath(i)
      /\ \A i : HasOwnTree(i)' <=> HasOwnTree(i)
  BY <1>1 DEF HasOwnPath, HasOwnTree, PathOf, Indices
<1> QED
  BY <1>1, <1>2, <1>3

\* An artifact stays staged when its own file and its own tree are left alone.
LEMMA StagedStays ==
  ASSUME [Next]_vars, pc \in AfterPlans, NEW i, IsStaged(i),
         PathOf(base, i) \in DOMAIN staged',
         HasOwnPath(i) => staged'[PathOf(base, i)] = staged[PathOf(base, i)],
         HasOwnTree(i) => TreeAt(staged', PathOf(base, i)) = TreeAt(staged, PathOf(base, i))
  PROVE  IsStaged(i)'
<1>1. /\ base' = base /\ plans' = plans /\ rewrite' = rewrite
      /\ Replaced' = Replaced /\ Rewritten' = Rewritten
      /\ PathOf(base, i)' = PathOf(base, i)
      /\ HasOwnPath(i)' <=> HasOwnPath(i)
      /\ HasOwnTree(i)' <=> HasOwnTree(i)
  BY PlansAreFixed
<1>2. /\ Undisturbed' => Undisturbed /\ disk' = disk /\ files' = files
      /\ "base" \notin disturbed' => "base" \notin disturbed /\ disk' = disk
  BY WritersAreKnown
<1>3. disk' = disk /\ files' = files => SourceContent(i)' = SourceContent(i)
  BY <1>1 DEF SourceContent, Replacing
<1> QED
  BY <1>1, <1>2, <1>3 DEF IsStaged

\* A replacement file that is staged holds a content of its own.
LEMMA ReplacingIsContent ==
  ASSUME WorldInv, ReplacementsPlanned, NEW i \in Replaced, Regular(Replacing(i))
  PROVE  Replacing(i).kind # "link" /\ IsContent(Replacing(i))
<1> DEFINE k == CHOOSE n \in DOMAIN plans : plans[n].index = i
           file == plans[k].file
<1>1. k \in DOMAIN plans
  BY DEF Replaced
<1>2. file \in DOMAIN files
  BY <1>1 DEF ReplacementsPlanned, IsPlanned
<1>3. IsContent(FileAt(files, file))
  BY <1>2 DEF WorldInv, AreFiles
<1>4. Replacing(i) = files[file] /\ Replacing(i).kind # "link"
  BY DEF Replacing, Regular
<1> QED
  BY <1>2, <1>3, <1>4 DEF FileAt, Followed

\* Staging the i-th artifact leaves what is at other paths.
LEMMA StagingKeeps ==
  ASSUME NEW i, CanStage(i), NEW path \in DOMAIN staged, path # PathOf(base, i)
  PROVE  path \in DOMAIN Stage(i) /\ Stage(i)[path] = staged[path]
<1>1. CASE i \in Replaced
  BY <1>1, WritingKeeps DEF Stage
<1>2. CASE i \notin Replaced /\ i \in Rewritten
  BY <1>2, WritingKeeps DEF Stage
<1>3. CASE i \notin Replaced /\ i \notin Rewritten
  BY <1>3, CopyingKeeps DEF Stage, CanStage
<1> QED
  BY <1>1, <1>2, <1>3

\* It leaves the trees that its path is not part of.
LEMMA StagingKeepsTrees ==
  ASSUME NEW i, CanStage(i), NEW top \in DOMAIN staged, ~IsPrefix(top, PathOf(base, i)),
         IsSequence(top), IsSequence(PathOf(base, i)), WorldInv
  PROVE  TreeAt(Stage(i), top) = TreeAt(staged, top)
<1>1. CASE i \in Replaced
  BY <1>1, WritingKeepsTrees DEF Stage
<1>2. CASE i \notin Replaced /\ i \in Rewritten
  BY <1>2, WritingKeepsTrees DEF Stage
<1>3. CASE i \notin Replaced /\ i \notin Rewritten
  <2>1. CanCopy(disk.files, staged, PathOf(base, i))
    BY <1>3 DEF CanStage
  <2>2. \A other \in DOMAIN disk.files : IsSequence(other)
    BY DEF WorldInv, IsBase
  <2> QED
    BY <1>3, <2>1, <2>2, CopyingKeepsTrees DEF Stage
<1> QED
  BY <1>1, <1>2, <1>3

\* It puts the artifact's source at the artifact's path, a copied one with its
\* whole tree.
LEMMA StagingStages ==
  ASSUME NEW i, CanStage(i), IsSequence(PathOf(base, i))
  PROVE  /\ PathOf(base, i) \in DOMAIN Stage(i)
         /\ Stage(i)[PathOf(base, i)] = SourceContent(i)
         /\ i \notin Replaced \cup Rewritten =>
              TreeAt(Stage(i), PathOf(base, i)) = TreeAt(disk.files, PathOf(base, i))
<1>1. CASE i \in Replaced
  BY <1>1 DEF Stage, Written, SourceContent
<1>2. CASE i \notin Replaced /\ i \in Rewritten
  BY <1>2 DEF Stage, Written, SourceContent
<1>3. CASE i \notin Replaced /\ i \notin Rewritten
  <2>1. CanCopy(disk.files, staged, PathOf(base, i))
    BY <1>3 DEF CanStage
  <2>2. FileAt(disk.files, PathOf(base, i)) = disk.files[PathOf(base, i)]
    BY <2>1, CopyingCopies DEF CanCopy, FileAt, Followed
  <2> QED
    BY <1>3, <2>1, <2>2, CopyingCopies DEF Stage, SourceContent
<1> QED
  BY <1>1, <1>2, <1>3

\* It brings in no link and nothing that is not a content.
LEMMA StagingIsContent ==
  ASSUME WorldInv, SetsPlanned, ReplacementsPlanned, NEW i, CanStage(i),
         NEW path \in DOMAIN Stage(i), path \notin DOMAIN staged \/ Stage(i)[path] # staged[path]
  PROVE  Stage(i)[path].kind # "link" /\ IsContent(Stage(i)[path])
<1>1. CASE i \in Replaced
  <2>1. Stage(i)[path] = Replacing(i)
    BY <1>1 DEF Stage, Written
  <2>2. Regular(Replacing(i))
    BY <1>1 DEF CanStage
  <2> QED
    BY <1>1, <2>1, <2>2, ReplacingIsContent
<1>2. CASE i \notin Replaced /\ i \in Rewritten
  <2> DEFINE content == [kind |-> "scalars", values |-> rewrite]
  <2>1. Stage(i)[path] = content
    BY <1>2 DEF Stage, Written
  <2>2. rewrite = [id \in DOMAIN values |-> IF id \in SetIds THEN NewValue(id) ELSE values[id]]
    BY <1>2 DEF SetsPlanned, Rewritten
  <2>3. rewrite = [id \in DOMAIN rewrite |-> rewrite[id]]
    BY <2>2
  <2>4. content.kind = "scalars" /\ content.values = rewrite
    OBVIOUS
  <2>5. IsContent(content)
    BY <2>3, <2>4 DEF IsContent
  <2> QED
    BY <2>1, <2>4, <2>5
<1>3. CASE i \notin Replaced /\ i \notin Rewritten
  <2> DEFINE tree == TreeAt(disk.files, PathOf(base, i))
  <2>1. CanCopy(disk.files, staged, PathOf(base, i))
    BY <1>3 DEF CanStage
  <2>2. Stage(i) = Copied(disk.files, staged, PathOf(base, i))
    BY <1>3 DEF Stage
  <2>3. path \in DOMAIN tree /\ Stage(i)[path] = tree[path]
    BY <2>2 DEF Copied
  <2>4. path \in DOMAIN disk.files /\ Stage(i)[path] = disk.files[path]
    BY <2>3 DEF TreeAt
  <2>5. disk.files[path].kind # "link"
    BY <2>1, <2>3 DEF CanCopy
  <2>6. IsContent(Followed(disk.files[path]))
    BY <2>4 DEF WorldInv, IsBase, IsBaseFile
  <2> QED
    BY <2>4, <2>5, <2>6 DEF Followed
<1> QED
  BY <1>1, <1>2, <1>3

\* One round of the staging loop.
LEMMA StageArtifactStages ==
  ASSUME WorldInv, ReadingInv, PlanningInv, StagingInv, StageArtifact, pc' \in AfterPlans
  PROVE  /\ IsSequence(artifacts') /\ Len(artifacts') <= Len(base'.artifacts)
         /\ FilesStaged' /\ ArtifactsKept'
         /\ pc' = "stage"
<1> DEFINE n == Len(artifacts)
           path == PathOf(base, n + 1)
<1>1. /\ pc = "stage" /\ n < Len(base.artifacts)
      /\ CanStage(n + 1) /\ staged' = Stage(n + 1)
      /\ artifacts' = Append(artifacts, base.artifacts[n + 1])
      /\ UNCHANGED <<pc, world, reading, planning, record>>
  BY DEF StageArtifact, Fail, AfterPlans, AfterStaging
<1>2. pc \in AfterPlans
  BY <1>1 DEF AfterPlans
<1>3. /\ IsSequence(artifacts) /\ FilesStaged /\ ArtifactsKept
      /\ SetsPlanned /\ ReplacementsPlanned
      /\ ManifestRead
  BY <1>1, <1>2 DEF StagingInv, PlanningInv, ReadingInv, AfterSets, AfterTables, AfterValues,
                    AfterTypes, AfterRegistry, AfterManifest
<1>4. /\ n \in Nat /\ DOMAIN artifacts = 1 .. n
      /\ artifacts = [k \in 1 .. n |-> artifacts[k]]
  BY <1>3, SequencePlaces
<1>5. /\ Len(base.artifacts) \in Nat /\ DOMAIN base.artifacts = 1 .. Len(base.artifacts)
  BY <1>3, SequencePlaces DEF ManifestRead, AreArtifacts
<1>6. artifacts' = [k \in 1 .. n + 1 |-> IF k = n + 1 THEN base.artifacts[n + 1] ELSE artifacts[k]]
  BY <1>1, <1>3, <1>4 DEF IsSequence
<1>7. \A i \in 1 .. n + 1 : i \in Indices(base) /\ IsSequence(PathOf(base, i))
  BY <1>1, <1>3, <1>4, <1>5 DEF ManifestRead, AreArtifacts, Indices, PathOf
<1>8. base' = base /\ disk' = disk
  BY <1>1 DEF reading, world
<1>9. [Next]_vars
  BY DEF Next
<1> HIDE DEF n
<1>10. IsSequence(artifacts') /\ Len(artifacts') = n + 1 /\ DOMAIN artifacts' = 1 .. n + 1
  <2>1. n + 1 \in Nat
    BY <1>4
  <2>2. artifacts' = [k \in 1 .. n + 1 |-> artifacts'[k]]
    BY <1>6
  <2> QED
    BY <2>1, <2>2, SequenceOf
<1>11. Len(artifacts') <= Len(base'.artifacts)
  BY <1>1, <1>4, <1>5, <1>8, <1>10
<1>12. ArtifactsKept'
  <2>1. \A k \in 1 .. n : artifacts[k] = base.artifacts[k]
    BY <1>3, <1>4 DEF ArtifactsKept
  <2>2. \A k \in 1 .. n + 1 : k = n + 1 \/ k \in 1 .. n
    BY <1>4
  <2>3. \A k \in 1 .. n + 1 : artifacts'[k] = base.artifacts[k]
    BY <1>6, <2>1, <2>2
  <2> QED
    BY <2>3, <1>8, <1>10 DEF ArtifactsKept
<1>13. ASSUME NEW i \in 1 .. n
       PROVE  IsStaged(i)'
  <2>1. IsStaged(i) /\ PathOf(base, i) \in DOMAIN staged
    BY <1>3, <1>4 DEF FilesStaged, IsStaged
  <2>2. i \in Indices(base) /\ n + 1 \in Indices(base) /\ i # n + 1
        /\ IsSequence(PathOf(base, i)) /\ IsSequence(path)
    BY <1>4, <1>7
  <2>3. PathOf(base, i) # path =>
          /\ PathOf(base, i) \in DOMAIN staged'
          /\ staged'[PathOf(base, i)] = staged[PathOf(base, i)]
    BY <1>1, <2>1, StagingKeeps
  <2>4. PathOf(base, i) \in DOMAIN staged'
    BY <1>1, <2>2, <2>3, StagingStages
  <2>5. HasOwnPath(i) => PathOf(base, i) # path
    BY <2>2 DEF HasOwnPath
  <2>6. HasOwnTree(i) => ~IsPrefix(PathOf(base, i), path)
    BY <2>2 DEF HasOwnTree
  <2>7. HasOwnTree(i) => TreeAt(staged', PathOf(base, i)) = TreeAt(staged, PathOf(base, i))
    BY <1>1, <2>1, <2>2, <2>6, StagingKeepsTrees
  <2> QED
    BY <1>2, <1>9, <2>1, <2>3, <2>4, <2>5, <2>7, StagedStays
<1>14. ASSUME NEW i, i = n + 1
       PROVE  IsStaged(i)'
  <2>1. IsSequence(PathOf(base, i)) /\ CanStage(i) /\ staged' = Stage(i)
    BY <1>1, <1>4, <1>7, <1>14
  <2>2. /\ PathOf(base, i) \in DOMAIN staged'
        /\ staged'[PathOf(base, i)] = SourceContent(i)
        /\ i \notin Replaced \cup Rewritten =>
             TreeAt(staged', PathOf(base, i)) = TreeAt(disk.files, PathOf(base, i))
    BY <2>1, StagingStages
  <2>3. /\ PathOf(base, i)' = PathOf(base, i)
        /\ Replaced' = Replaced /\ Rewritten' = Rewritten
    BY <1>2, <1>9, PlansAreFixed
  <2>4. SourceContent(i)' = SourceContent(i)
    BY <1>1, <2>3 DEF SourceContent, Replacing, world, planning
  <2> QED
    BY <2>2, <2>3, <2>4, <1>8 DEF IsStaged
<1>15. ASSUME NEW other \in DOMAIN staged'
       PROVE  staged'[other].kind # "link" /\ IsContent(staged'[other])
  <2>1. CASE other \in DOMAIN staged /\ staged'[other] = staged[other]
    BY <2>1, <1>3 DEF FilesStaged
  <2>2. CASE other \notin DOMAIN staged \/ staged'[other] # staged[other]
    BY <2>2, <1>1, <1>3, StagingIsContent
  <2> QED
    BY <2>1, <2>2
<1>16. FilesStaged'
  <2>1. \A i \in DOMAIN artifacts' : i \in 1 .. n \/ i = n + 1
    BY <1>4, <1>10
  <2> QED
    BY <1>13, <1>14, <1>15, <2>1 DEF FilesStaged
<1> QED
  BY <1>1, <1>10, <1>11, <1>12, <1>16

\* The end of the staging loop.
LEMMA TakeDigestsTakes ==
  ASSUME WorldInv, ReadingInv, StagingInv, TakeDigests
  PROVE  /\ IsSequence(artifacts') /\ Len(artifacts') = Len(base'.artifacts)
         /\ FilesStaged' /\ DigestsTaken'
<1>1. /\ pc = "stage" /\ Len(artifacts) = Len(base.artifacts)
      /\ artifacts' = [i \in DOMAIN artifacts |->
                         IF i \in Replaced \cup Rewritten
                         THEN [artifacts[i] EXCEPT !.sha = DigestOf(i)]
                         ELSE artifacts[i]]
      /\ UNCHANGED <<world, reading, planning, staged, record>>
  BY DEF TakeDigests
<1>2. pc \in AfterPlans /\ [Next]_vars
  BY <1>1 DEF AfterPlans, Next
<1>3. IsSequence(artifacts) /\ FilesStaged /\ ArtifactsKept /\ ManifestRead
  BY <1>1, <1>2 DEF StagingInv, ReadingInv, AfterSets, AfterTables, AfterValues,
                    AfterTypes, AfterRegistry, AfterManifest
<1>4. /\ Len(artifacts) \in Nat /\ DOMAIN artifacts = 1 .. Len(artifacts)
  BY <1>3, SequencePlaces
<1>5. IsSequence(artifacts') /\ Len(artifacts') = Len(artifacts) /\ DOMAIN artifacts' = DOMAIN artifacts
  <2>1. artifacts' = [k \in 1 .. Len(artifacts) |-> artifacts'[k]]
    BY <1>1, <1>4
  <2> QED
    BY <1>4, <2>1, SequenceOf
<1>6. base' = base /\ staged' = staged
  BY <1>1 DEF reading
<1>7. FilesStaged'
  <2>1. \A i \in DOMAIN artifacts : IsStaged(i)'
    BY <1>2, <1>3, <1>6, StagedStays DEF FilesStaged, IsStaged
  <2> QED
    BY <1>3, <1>5, <1>6, <2>1 DEF FilesStaged
<1>8. /\ Replaced' = Replaced /\ Rewritten' = Rewritten
      /\ \A i : DigestOf(i)' = DigestOf(i)
  BY <1>1, <1>6, <1>2, PlansAreFixed DEF DigestOf
<1>9. ASSUME NEW i \in DOMAIN artifacts
      PROVE  /\ artifacts'[i].role = base.artifacts[i].role
             /\ artifacts'[i].path = base.artifacts[i].path
             /\ artifacts'[i].format = base.artifacts[i].format
             /\ artifacts'[i].variable = base.artifacts[i].variable
             /\ artifacts'[i].sha = IF i \in Replaced \cup Rewritten
                                    THEN DigestOf(i) ELSE base.artifacts[i].sha
  <2>1. artifacts[i] = base.artifacts[i]
    BY <1>3 DEF ArtifactsKept
  <2>2. {"role", "path", "format", "variable", "sha"} \subseteq DOMAIN base.artifacts[i]
    <3>1. DOMAIN base.artifacts = DOMAIN artifacts
      BY <1>1, <1>3, <1>4, SequencePlaces DEF ManifestRead, AreArtifacts
    <3> QED
      BY <1>3, <3>1 DEF ManifestRead, AreArtifacts
  <2>3. artifacts'[i] = IF i \in Replaced \cup Rewritten
                        THEN [base.artifacts[i] EXCEPT !.sha = DigestOf(i)]
                        ELSE base.artifacts[i]
    BY <1>1, <2>1
  <2> QED
    BY <2>2, <2>3
<1>10. DigestsTaken'
  BY <1>5, <1>6, <1>8, <1>9 DEF DigestsTaken
<1> QED
  BY <1>1, <1>5, <1>6, <1>7, <1>10

\* Round by round the directory fills; what is staged stays as it is.
LEMMA StagingInvHolds == Spec => []StagingInv
<1>1. Init => StagingInv
  BY DEF Init, StagingInv, AfterPlans, AfterStaging
<1>2. ASSUME WorldInv, ReadingInv, PlanningInv, StagingInv, [Next]_vars
      PROVE  StagingInv'
  <2>1. ASSUME pc' \notin AfterPlans \cup {"failed"}
        PROVE  staged' = <<>> /\ artifacts' = <<>>
    <3>1. pc \notin AfterPlans \cup {"failed"}
      BY <1>2, <2>1, PlannedOnce
    <3>2. ~StageArtifact /\ ~TakeDigests
      BY <3>1 DEF StageArtifact, TakeDigests, AfterPlans
    <3> QED
      BY <1>2, <3>1, <3>2, PlannedOnce DEF StagingInv
  <2>2. CASE StageArtifact /\ pc' \in AfterPlans
    BY <1>2, <2>1, <2>2, StageArtifactStages DEF StagingInv, AfterStaging
  <2>3. CASE TakeDigests
    <3>1. pc' = "validate"
      BY <2>3 DEF TakeDigests
    <3>2. /\ IsSequence(artifacts') /\ Len(artifacts') = Len(base'.artifacts)
          /\ FilesStaged' /\ DigestsTaken'
      BY <1>2, <2>3, TakeDigestsTakes
    <3>3. Len(artifacts') \in Nat
      BY <3>2, SequencePlaces
    <3> QED
      BY <2>1, <3>1, <3>2, <3>3 DEF StagingInv, AfterStaging, AfterPlans
  <2>4. CASE StartStaging
    <3>1. pc' = "stage" /\ staged' = staged /\ artifacts' = artifacts /\ base' = base
          /\ pc = "replacements"
      BY <2>4 DEF StartStaging, Proceed, output, reading
    <3>2. staged' = <<>> /\ artifacts' = <<>>
      BY <1>2, <3>1 DEF StagingInv, AfterPlans, AfterStaging
    <3>3. ManifestRead
      BY <1>2, <3>1 DEF ReadingInv, AfterSets, AfterTables, AfterValues,
                        AfterTypes, AfterRegistry, AfterManifest
    <3>4. Len(base.artifacts) \in Nat
      BY <3>3, SequencePlaces DEF ManifestRead, AreArtifacts
    <3>5. /\ IsSequence(artifacts') /\ Len(artifacts') = 0
          /\ DOMAIN artifacts' = {} /\ DOMAIN staged' = {}
      BY <3>2 DEF IsSequence
    <3>6. FilesStaged' /\ ArtifactsKept'
      BY <3>5 DEF FilesStaged, ArtifactsKept
    <3> QED
      BY <2>1, <3>1, <3>4, <3>5, <3>6 DEF StagingInv, AfterStaging
  <2>5. CASE pc' \in AfterPlans /\ pc \in AfterPlans /\ staged' = staged /\ artifacts' = artifacts
             /\ ~TakeDigests
    <3>1. /\ IsSequence(artifacts) /\ Len(artifacts) <= Len(base.artifacts)
          /\ FilesStaged
      BY <1>2, <2>5 DEF StagingInv
    <3>2. FilesStaged'
      <4>1. \A i \in DOMAIN artifacts : IsStaged(i)'
        BY <1>2, <2>5, <3>1, StagedStays DEF FilesStaged, IsStaged
      <4> QED
        BY <2>5, <3>1, <4>1 DEF FilesStaged
    <3>3. /\ base' = base /\ Replaced' = Replaced /\ Rewritten' = Rewritten
          /\ \A i : DigestOf(i)' = DigestOf(i)
      BY <1>2, <2>5, PlansAreFixed DEF DigestOf
    <3>4. pc' \in AfterStaging => pc \in AfterStaging
      BY <1>2, <2>5, PlannedOnce
    <3>5. pc' = "stage" => pc = "stage"
      BY <1>2, <2>5 DEF AfterPlans, AfterStaging, Next, vars, ParseRequest, ReadManifest,
                        RequireConformant, LoadRegistry, TypeScalars, ReadValues, ReadTables,
                        PlanSets, PlanReplacement, StartStaging, StageArtifact, TakeDigests,
                        ValidateStaged, EditSource, EditBase, Fail, Proceed
    <3>6. pc' \in AfterStaging => Len(artifacts') = Len(base'.artifacts) /\ DigestsTaken'
      BY <1>2, <2>5, <3>3, <3>4 DEF StagingInv, DigestsTaken
    <3>7. pc' = "stage" => ArtifactsKept'
      BY <1>2, <2>5, <3>3, <3>5 DEF StagingInv, ArtifactsKept
    <3> QED
      BY <2>1, <2>5, <3>1, <3>2, <3>3, <3>6, <3>7 DEF StagingInv
  <2>6. CASE pc' \notin AfterPlans
    BY <2>1, <2>6 DEF StagingInv, AfterPlans
  <2> QED
    <3>1. pc' \in AfterPlans => pc \in AfterPlans \/ StartStaging
      BY <1>2, PlannedOnce
    <3>2. (staged' = staged /\ artifacts' = artifacts) \/ StageArtifact \/ TakeDigests
      BY <1>2, PlannedOnce
    <3> QED
      BY <2>2, <2>3, <2>4, <2>5, <2>6, <3>1, <3>2
<1> QED
  BY <1>1, <1>2, WorldInvHolds, ReadingInvHolds, PlanningInvHolds, PTL DEF Spec

\* The staged package was validated, and is as it was then.
LEMMA ResultInvHolds == Spec => []ResultInv
<1>1. Init => ResultInv
  BY DEF Init, ResultInv
<1>2. ASSUME ResultInv, [Next]_vars
      PROVE  ResultInv'
  <2>1. ASSUME pc' = "done", UNCHANGED vars, pc = "done"
        PROVE  Conformant(DerivedPackage)' /\ record' = TheRecord'
    <3>1. /\ base' = base /\ staged' = staged /\ artifacts' = artifacts /\ record' = record
          /\ plans' = plans /\ request' = request /\ registry' = registry
      BY <2>1 DEF vars, world, reading, planning, output
    <3>2. DerivedPackage' = DerivedPackage
      BY <3>1 DEF DerivedPackage
    <3>3. TheRecord' = TheRecord
      BY <3>1, <3>2 DEF TheRecord, Overrides, IsParameter, Entries, EntryOf, TheScalars,
                        WithFormat, Indices, SetIds
    <3> QED
      BY <1>2, <2>1, <3>1, <3>2, <3>3 DEF ResultInv
  <2>2. ASSUME pc' = "done", ValidateStaged
        PROVE  Conformant(DerivedPackage)' /\ record' = TheRecord'
    <3>1. /\ base' = base /\ staged' = staged /\ artifacts' = artifacts /\ record' = TheRecord
          /\ plans' = plans /\ request' = request /\ registry' = registry
          /\ Conformant(DerivedPackage)
      BY <2>2 DEF ValidateStaged, Fail, world, reading, planning
    <3>2. DerivedPackage' = DerivedPackage
      BY <3>1 DEF DerivedPackage
    <3>3. TheRecord' = TheRecord
      BY <3>1, <3>2 DEF TheRecord, Overrides, IsParameter, Entries, EntryOf, TheScalars,
                        WithFormat, Indices, SetIds
    <3> QED
      BY <3>1, <3>2, <3>3
  <2> QED
    BY <1>2, <2>1, <2>2, PlannedOnce DEF ResultInv
<1> QED
  BY <1>1, <1>2, PTL DEF Spec

-----------------------------------------------------------------------------
(***************************************************************************)
(* The derivation that has succeeded.                                      *)
(***************************************************************************)
DerivationInv == WorldInv /\ ReadingInv /\ PlanningInv /\ StagingInv /\ ResultInv

\* The base that was read, the plans, the staging directory and the record stand
\* in the relations that the code builds on, at every step and whoever writes.
THEOREM DerivationInvHolds == Spec => []DerivationInv
<1>1. WorldInv /\ ReadingInv /\ PlanningInv /\ StagingInv /\ ResultInv <=> DerivationInv
  BY DEF DerivationInv
<1> QED
  BY <1>1, WorldInvHolds, ReadingInvHolds, PlanningInvHolds, StagingInvHolds, ResultInvHolds, PTL

\* What holds at the end.
LEMMA AtTheEnd ==
  ASSUME DerivationInv, Succeeded
  PROVE  /\ WorldInv /\ ManifestRead /\ ValuesRead /\ TablesRead
         /\ SetsPlanned /\ ReplacementsPlanned /\ FilesStaged /\ DigestsTaken
         /\ DOMAIN registry \subseteq Names
         /\ \A i \in WithFormat(base, "scalars") : i = TheScalars
         /\ Len(plans) = Len(request.replace)
         /\ IsSequence(artifacts)
         /\ Len(artifacts) \in Nat /\ DOMAIN artifacts = 1 .. Len(artifacts)
         /\ Indices(base) = DOMAIN artifacts
         /\ Conformant(DerivedPackage) /\ record = TheRecord
<1>1. pc \in AfterStaging /\ pc \in AfterPlans /\ pc \in AfterSets /\ pc \in AfterTables
      /\ pc \in AfterValues /\ pc \in AfterTypes /\ pc \in AfterRegistry /\ pc \in AfterManifest
  BY DEF Succeeded, AfterStaging, AfterPlans, AfterSets, AfterTables, AfterValues, AfterTypes,
         AfterRegistry, AfterManifest
<1>2. /\ WorldInv /\ ManifestRead /\ ValuesRead /\ TablesRead
      /\ DOMAIN registry \subseteq Names
      /\ \A i \in WithFormat(base, "scalars") : i = TheScalars
  BY <1>1 DEF DerivationInv, ReadingInv
<1>3. /\ SetsPlanned /\ ReplacementsPlanned /\ Len(plans) = Len(request.replace)
  BY <1>1 DEF DerivationInv, PlanningInv
<1>4. /\ FilesStaged /\ DigestsTaken /\ IsSequence(artifacts)
      /\ Len(artifacts) = Len(base.artifacts)
  BY <1>1 DEF DerivationInv, StagingInv
<1>5. /\ Len(artifacts) \in Nat /\ DOMAIN artifacts = 1 .. Len(artifacts)
      /\ DOMAIN base.artifacts = 1 .. Len(base.artifacts)
  BY <1>2, <1>4, SequencePlaces DEF ManifestRead, AreArtifacts
<1>6. Conformant(DerivedPackage) /\ record = TheRecord
  BY DEF DerivationInv, ResultInv, Succeeded
<1> QED
  BY <1>2, <1>3, <1>4, <1>5, <1>6 DEF Indices

\* The output is a package of the base's domains and mappings, and its artifacts
\* are declared as those of the base.
LEMMA DerivedAsBase ==
  ASSUME DerivationInv, Succeeded
  PROVE  /\ IsPackage(DerivedPackage)
         /\ Indices(DerivedPackage) = Indices(base)
         /\ \A i \in Indices(base) :
              /\ DerivedPackage.artifacts[i].format = base.artifacts[i].format
              /\ DerivedPackage.artifacts[i].variable = base.artifacts[i].variable
              /\ DerivedPackage.artifacts[i].role = base.artifacts[i].role
              /\ PathOf(DerivedPackage, i) = PathOf(base, i)
         /\ \A format : WithFormat(DerivedPackage, format) = WithFormat(base, format)
<1>1. /\ DerivedPackage.artifacts = artifacts /\ DerivedPackage.files = staged
      /\ DerivedPackage.domains = base.domains
  BY DEF DerivedPackage
<1>2. /\ ManifestRead /\ DigestsTaken /\ FilesStaged /\ IsSequence(artifacts)
      /\ Indices(base) = DOMAIN artifacts
  BY AtTheEnd
<1>3. Indices(DerivedPackage) = Indices(base)
  BY <1>1, <1>2 DEF Indices
<1>4. ASSUME NEW i \in Indices(base)
      PROVE  /\ DerivedPackage.artifacts[i].format = base.artifacts[i].format
             /\ DerivedPackage.artifacts[i].variable = base.artifacts[i].variable
             /\ DerivedPackage.artifacts[i].role = base.artifacts[i].role
             /\ PathOf(DerivedPackage, i) = PathOf(base, i)
  BY <1>1, <1>2, <1>4 DEF DigestsTaken, PathOf
<1>5. IsManifest(DerivedPackage)
  BY <1>1, <1>2, <1>3, <1>4 DEF ManifestRead, IsManifest
<1>6. AreFiles(staged)
  BY <1>2 DEF FilesStaged, AreFiles, FileAt, Followed
<1>7. \A format : WithFormat(DerivedPackage, format) = WithFormat(base, format)
  BY <1>3, <1>4 DEF WithFormat
<1> QED
  BY <1>1, <1>3, <1>4, <1>5, <1>6, <1>7 DEF IsPackage

\* No symbolic link gets into the output, at the path of an artifact or inside a
\* store, even when a file becomes one between planning and staging.
THEOREM NoLinkIsPublished == Spec => []SelfContained
<1>1. DerivationInv => SelfContained
  BY AtTheEnd DEF SelfContained, FilesStaged
<1> QED
  BY <1>1, DerivationInvHolds, PTL

\* The output of a derivation meets the checklist as far as a validator can
\* tell, whatever the replacement files hold and whoever writes meanwhile.
THEOREM DerivedPackagesConform == Spec => []OutputConforms
<1>1. ASSUME DerivationInv, Succeeded
      PROVE  MeetsChecklistAsRead(DerivedPackage)
  BY <1>1, AtTheEnd, DerivedAsBase, ConformantMeansChecklist
<1>2. DerivationInv => OutputConforms
  BY <1>1 DEF OutputConforms
<1> QED
  BY <1>2, DerivationInvHolds, PTL

\* The digests in the derived manifest are those of the staged files, and stay
\* it while later artifacts are staged.
THEOREM DeclaredDigestsAreTrue == Spec => []DigestsTrue
<1>1. ASSUME DerivationInv, Succeeded, NEW i \in DOMAIN artifacts, HasOwnTree(i),
             i \in Replaced \cup Rewritten \/ CopiedTruly(i)
      PROVE  artifacts[i].sha = TreeAt(staged, PathOf(base, i))
  <2>1. DigestsTaken /\ IsStaged(i)
    BY <1>1, AtTheEnd DEF FilesStaged
  <2>2. CASE i \in Replaced \cup Rewritten
    BY <2>1, <2>2 DEF DigestsTaken, DigestOf
  <2>3. CASE i \notin Replaced \cup Rewritten /\ CopiedTruly(i)
    <3>1. artifacts[i].sha = base.artifacts[i].sha
      BY <2>1, <2>3 DEF DigestsTaken
    <3>2. TreeAt(staged, PathOf(base, i)) = TreeAt(disk.files, PathOf(base, i))
      BY <1>1, <2>1, <2>3 DEF IsStaged, CopiedTruly
    <3> QED
      BY <2>3, <3>1, <3>2 DEF CopiedTruly
  <2> QED
    BY <1>1, <2>2, <2>3
<1>2. DerivationInv => DigestsTrue
  BY <1>1 DEF DigestsTrue
<1> QED
  BY <1>2, DerivationInvHolds, PTL

-----------------------------------------------------------------------------
(***************************************************************************)
(* The record.                                                             *)
(***************************************************************************)

\* An entry lists its fields in ascending order.
LEMMA EntryIsEntry ==
  ASSUME ManifestRead, NEW i \in Indices(base), NEW ids \in SUBSET Names
  PROVE  /\ IsEntry(EntryOf(i, ids))
         /\ EntryOf(i, ids).role = base.artifacts[i].role
         /\ EntryOf(i, ids).old = <<base.artifacts[i].sha>>
         /\ EntryOf(i, ids).new = <<artifacts[i].sha>>
         /\ Range(EntryOf(i, ids).ids) = ids
         /\ IsAscending(EntryOf(i, ids).ids)
<1>1. base.artifacts[i].role \in Names
  BY DEF ManifestRead, AreArtifacts, Indices
<1>2. IsAscending(InOrder(ids, Before)) /\ Range(InOrder(ids, Before)) = ids
  BY NamesInOrder, ScenariosAssumption
<1> HIDE DEF IsAscending
<1>3. EntryOf(i, ids) = [role |-> base.artifacts[i].role, ids |-> InOrder(ids, Before),
                         old |-> <<base.artifacts[i].sha>>, new |-> <<artifacts[i].sha>>]
  BY DEF EntryOf, Replacement, Entry
<1>4. IsSequence(InOrder(ids, Before))
  BY <1>2 DEF IsAscending
<1> QED
  BY <1>1, <1>2, <1>3, <1>4 DEF IsEntry, IsList

\* A --set has a scalars object to go to, and its target is registered.
LEMMA RewrittenIsThere ==
  ASSUME DerivationInv, Succeeded, NEW i \in Rewritten
  PROVE  i \in WithFormat(base, "scalars") /\ SetIds \subseteq DOMAIN registry
<1>1. SetsPlanned /\ TablesRead /\ WorldInv
  BY AtTheEnd
<1>2. request.set # <<>> /\ i = TheScalars
  BY DEF Rewritten
<1>3. ASSUME NEW k \in DOMAIN request.set
      PROVE  request.set[k].id \in DOMAIN registry /\ WithFormat(base, "scalars") # {}
  <2>1. HasSource(request.set[k].id, "scalar")
    BY <1>1 DEF SetsPlanned, CanSet
  <2>2. \E source : IsSource(source, request.set[k].id) /\ source.kind = "scalar"
    BY <1>1, <2>1, TheSource
  <2>3. request.set[k].id \in DOMAIN registry
    BY <1>1, <2>1, TheSource
  <2> QED
    BY <2>2, <2>3 DEF IsSource
<1>4. DOMAIN request.set # {}
  <2>1. /\ Len(request.set) \in Nat /\ DOMAIN request.set = 1 .. Len(request.set)
        /\ request.set = [k \in 1 .. Len(request.set) |-> request.set[k]]
    BY <1>1, SequencePlaces DEF WorldInv
  <2>2. SUFFICES ASSUME DOMAIN request.set = {} PROVE FALSE
    OBVIOUS
  <2>3. request.set = <<>>
    BY <2>1, <2>2
  <2> QED
    BY <1>2, <2>3
<1>5. TheScalars \in WithFormat(base, "scalars")
  BY <1>3, <1>4 DEF TheScalars
<1> QED
  BY <1>2, <1>3, <1>5 DEF SetIds

\* There is an entry for each plan and one for all --set together.
LEMMA EntriesAreThePlans ==
  ASSUME DerivationInv, Succeeded
  PROVE  /\ IsSequence(Entries)
         /\ Range(Entries) = {EntryOf(plans[k].index, plans[k].affected) : k \in DOMAIN plans}
                               \cup {EntryOf(i, SetIds) : i \in Rewritten}
         /\ \A k \in DOMAIN plans : plans[k].index \in Indices(base)
                                      /\ plans[k].affected \subseteq Names
         /\ \A i \in Rewritten : i \in Indices(base) /\ SetIds \subseteq Names
<1> USE DEF IsAscending
<1>1. /\ ReplacementsPlanned /\ SetsPlanned /\ TablesRead /\ DOMAIN registry \subseteq Names
      /\ WorldInv
  BY AtTheEnd
<1> DEFINE planned == [k \in DOMAIN plans |-> EntryOf(plans[k].index, plans[k].affected)]
           set == IF request.set = <<>> THEN <<>> ELSE <<EntryOf(TheScalars, SetIds)>>
<1>2. IsSequence(planned) /\ DOMAIN planned = DOMAIN plans
  <2>1. Len(plans) \in Nat /\ DOMAIN plans = 1 .. Len(plans)
    BY <1>1, SequencePlaces DEF ReplacementsPlanned
  <2> HIDE DEF EntryOf
  <2>2. planned = [k \in 1 .. Len(plans) |-> planned[k]]
    BY <2>1
  <2> QED
    BY <2>1, <2>2, SequenceOf
<1>3. IsSequence(set) /\ Range(set) = {EntryOf(i, SetIds) : i \in Rewritten}
  <2>1. CASE request.set = <<>>
    BY <2>1 DEF Rewritten, IsSequence, Range
  <2>2. CASE request.set # <<>>
    <3> DEFINE e == EntryOf(TheScalars, SetIds)
    <3>1. set = <<e>> /\ Rewritten = {TheScalars}
      BY <2>2 DEF Rewritten
    <3> HIDE DEF e, set
    <3>2. IsSequence(<<e>>) /\ Range(<<e>>) = {e}
      BY DEF IsSequence, Range
    <3> QED
      BY <3>1, <3>2 DEF e
  <2> QED
    BY <2>1, <2>2
<1>4. Entries = planned \o set
  BY DEF Entries
<1>5. Range(planned) = {EntryOf(plans[k].index, plans[k].affected) : k \in DOMAIN plans}
  BY DEF Range
<1>6. ASSUME NEW k \in DOMAIN plans
      PROVE  plans[k].index \in Indices(base) /\ plans[k].affected \subseteq Names
  <2>1. IsPlanned(k)
    BY <1>1 DEF ReplacementsPlanned
  <2> QED
    BY <1>1, <2>1, ReplacedArtifact DEF IsPlanned
<1>7. ASSUME NEW i \in Rewritten
      PROVE  i \in Indices(base) /\ SetIds \subseteq Names
  BY <1>1, <1>7, RewrittenIsThere DEF WithFormat
<1> HIDE DEF planned, set
<1> QED
  BY <1>2, <1>3, <1>4, <1>5, <1>6, <1>7, JoinedSequences

\* All entries are entries of the record, and no others; there they are sorted.
LEMMA RecordHasTheEntries ==
  ASSUME DerivationInv, Succeeded
  PROVE  /\ Range(record.replaced) = Range(Entries)
         /\ IsSequence(record.replaced)
         /\ \A entry \in Range(Entries) : IsEntry(entry) /\ IsAscending(entry.ids)
         /\ \A k \in 1 .. Len(record.replaced) - 1 :
              ~EntryBefore(record.replaced[k + 1], record.replaced[k])
         /\ record.overrides = InOrder(Overrides, Before)
         /\ record.base = base /\ record.derived = ManifestOf(DerivedPackage)
<1>1. record = TheRecord /\ ManifestRead
  BY AtTheEnd
<1>2. /\ record.replaced = Sorted(Entries) /\ record.overrides = InOrder(Overrides, Before)
      /\ record.base = base /\ record.derived = ManifestOf(DerivedPackage)
  BY <1>1 DEF TheRecord, DerivationRecord
<1>3. IsSequence(Entries)
  BY EntriesAreThePlans
<1>4. ASSUME NEW entry \in Range(Entries)
      PROVE  IsEntry(entry) /\ IsAscending(entry.ids)
  BY <1>1, <1>4, EntriesAreThePlans, EntryIsEntry
<1>5. \A k \in DOMAIN Entries : IsEntry(Entries[k])
  BY <1>4 DEF Range
<1> QED
  BY <1>2, <1>3, <1>4, <1>5, SortedSorts, ScenariosAssumption

\* From the base manifest that it names, the record leads to the derived one: the
\* entries have the old and the new digest of each artifact that was changed.
THEOREM RecordAlwaysAudits == Spec => []RecordAudits
<1>1. ASSUME DerivationInv, Succeeded
      PROVE  /\ DigestsTaken /\ ManifestRead /\ Indices(base) = DOMAIN artifacts
             /\ record.base = base /\ record.derived.artifacts = artifacts
             /\ Range(record.replaced) = Range(Entries)
  BY <1>1, AtTheEnd, RecordHasTheEntries DEF ManifestOf, DerivedPackage
<1>2. ASSUME DerivationInv, Succeeded, NEW i \in Indices(base),
             base.artifacts[i].sha # artifacts[i].sha
      PROVE  \E entry \in Range(Entries) :
               <<entry.role, entry.old, entry.new>> =
                 <<base.artifacts[i].role, <<base.artifacts[i].sha>>, <<artifacts[i].sha>>>>
  <2>1. i \in Replaced \cup Rewritten
    BY <1>1, <1>2 DEF DigestsTaken
  <2>2. \E ids \in SUBSET Names : EntryOf(i, ids) \in Range(Entries)
    BY <1>2, <2>1, EntriesAreThePlans DEF Replaced
  <2> QED
    BY <1>1, <1>2, <2>2, EntryIsEntry
<1>3. ASSUME DerivationInv, Succeeded, NEW entry \in Range(Entries)
      PROVE  \E i \in Indices(base) :
               <<entry.role, entry.old, entry.new>> =
                 <<base.artifacts[i].role, <<base.artifacts[i].sha>>, <<artifacts[i].sha>>>>
  <2>1. PICK i \in Indices(base), ids \in SUBSET Names : entry = EntryOf(i, ids)
    BY <1>3, EntriesAreThePlans
  <2> QED
    BY <1>1, <1>3, <2>1, EntryIsEntry
<1>4. ASSUME DerivationInv
      PROVE  RecordAudits
  BY <1>1, <1>2, <1>3, <1>4 DEF RecordAudits, Indices
<1> QED
  BY <1>4, DerivationInvHolds, PTL

\* The entries are in the order of their roles and fields, the fields of each in
\* ascending order, whatever the order of the options.
THEOREM RecordIsOrdered == Spec => []RecordOrdered
<1>1. ASSUME DerivationInv, Succeeded
      PROVE  Ordered(record.replaced)
  <2>1. record.replaced = Sorted(Entries) /\ IsSequence(Entries)
    BY <1>1, AtTheEnd, EntriesAreThePlans DEF TheRecord, DerivationRecord
  <2>2. \A k \in DOMAIN Entries : IsEntry(Entries[k]) /\ IsAscending(Entries[k].ids)
    BY <1>1, RecordHasTheEntries DEF Range
  <2> QED
    BY <2>1, <2>2, SortedIsOrdered, ScenariosAssumption
<1>2. DerivationInv => RecordOrdered
  BY <1>1 DEF RecordOrdered
<1> QED
  BY <1>2, DerivationInvHolds, PTL

-----------------------------------------------------------------------------
(***************************************************************************)
(* What becomes of the base when nobody else writes.                       *)
(***************************************************************************)

\* The manifest that was read is the base's.
LEMMA BaseAsOnDisk ==
  ASSUME DerivationInv, Succeeded, Undisturbed
  PROVE  /\ base = ManifestOf(disk)
         /\ base.artifacts = disk.artifacts
         /\ Indices(disk) = Indices(base)
         /\ \A format : WithFormat(disk, format) = WithFormat(base, format)
         /\ \A i : PathOf(disk, i) = PathOf(base, i) /\ Content(disk, i) = Content(Seen, i)
         /\ \A id : /\ ColumnSources(Seen, id) = ColumnSources(disk, id)
                    /\ VariableSources(Seen, id) = VariableSources(disk, id)
                    /\ KeySources(Seen, id) = KeySources(disk, id)
<1>1. base = ManifestOf(disk)
  BY AtTheEnd DEF ManifestRead, Undisturbed
<1>2. base.artifacts = disk.artifacts
  BY <1>1 DEF ManifestOf
<1>3. Seen.artifacts = disk.artifacts /\ Seen.files = disk.files
  BY <1>2 DEF Seen
<1>4. /\ Indices(disk) = Indices(base)
      /\ \A format : WithFormat(disk, format) = WithFormat(base, format)
      /\ \A i : PathOf(disk, i) = PathOf(base, i)
  BY <1>2 DEF Indices, WithFormat, PathOf
<1>5. \A i : Content(disk, i) = Content(Seen, i)
  BY <1>3 DEF Content, PathOf
<1>6. \A id : /\ ColumnSources(Seen, id) = ColumnSources(disk, id)
              /\ VariableSources(Seen, id) = VariableSources(disk, id)
              /\ KeySources(Seen, id) = KeySources(disk, id)
  BY <1>3, <1>5 DEF ColumnSources, VariableSources, KeySources, WithFormat, Indices
<1> QED
  BY <1>1, <1>2, <1>4, <1>5, <1>6

\* What is read at an artifact's own path is what was staged for it.
LEMMA ReadAsStaged ==
  ASSUME DerivationInv, Succeeded, Undisturbed, NEW i \in Indices(base), HasOwnPath(i)
  PROVE  Content(DerivedPackage, i) = SourceContent(i)
<1> DEFINE path == PathOf(base, i)
<1>1. FilesStaged /\ i \in DOMAIN artifacts
  BY AtTheEnd
<1>2. path \in DOMAIN staged /\ staged[path] = SourceContent(i) /\ staged[path].kind # "link"
  BY <1>1 DEF FilesStaged, IsStaged
<1>3. Content(DerivedPackage, i) = FileAt(staged, path)
  BY DerivedAsBase DEF Content, DerivedPackage
<1> QED
  BY <1>2, <1>3 DEF FileAt, Followed

\* The plan that replaces the i-th artifact.
LEMMA ThePlan ==
  ASSUME ReplacementsPlanned, TablesRead, NEW k \in DOMAIN plans
  PROVE  /\ plans[k].index \in Replaced
         /\ Replacing(plans[k].index) = files[plans[k].file]
         /\ plans[k].index \in Indices(base)
         /\ base.artifacts[plans[k].index].format # "scalars"
<1> DEFINE i == plans[k].index
           n == CHOOSE n \in DOMAIN plans : plans[n].index = i
<1>1. i \in Replaced
  BY DEF Replaced
<1>2. n \in DOMAIN plans /\ plans[n].index = i
  OBVIOUS
<1>3. n = k
  BY <1>2 DEF ReplacementsPlanned
<1>4. Replacing(i) = files[plans[n].file]
  BY DEF Replacing
<1>5. IsPlanned(k)
  BY DEF ReplacementsPlanned
<1>6. i \in Indices(base) /\ base.artifacts[i].format # "scalars"
  BY <1>5, ReplacedArtifact DEF IsPlanned
<1> QED
  BY <1>1, <1>3, <1>4, <1>6

\* A --replace asks for the artifact that its plan replaces, and for no other.
LEMMA PlansAnswerRequests ==
  ASSUME DerivationInv, Succeeded, Undisturbed, NEW k \in DOMAIN request.replace,
         NEW i \in Indices(base), base.artifacts[i].format # "scalars"
  PROVE  /\ k \in DOMAIN plans /\ plans[k].file = request.replace[k].file
         /\ plans[k].index = i <=>
              i \in ColumnSources(disk, request.replace[k].id)
                      \cup VariableSources(disk, request.replace[k].id)
<1> DEFINE id == request.replace[k].id
<1>1. /\ ReplacementsPlanned /\ TablesRead /\ WorldInv
      /\ Len(plans) = Len(request.replace)
      /\ \A j \in WithFormat(base, "scalars") : j = TheScalars
  BY AtTheEnd
<1>2. k \in DOMAIN plans
  BY <1>1, SequencePlaces DEF ReplacementsPlanned, WorldInv
<1>3. IsPlanned(k)
  BY <1>1, <1>2 DEF ReplacementsPlanned
<1>4. PICK source \in inventory[id] : /\ inventory[id] = {source} /\ source.kind = "physical"
                                      /\ ArtifactOf(id) = source.index
  BY <1>1, <1>3, TheSource DEF IsPlanned
<1>5. plans[k].index = source.index /\ plans[k].file = request.replace[k].file
  BY <1>3, <1>4 DEF IsPlanned
<1>6. id \in DOMAIN registry /\ inventory[id] = SourcesOf(id)
  BY <1>1, <1>3 DEF IsPlanned, HasSource, TablesRead, Undisturbed
<1>7. /\ WithFormat(Seen, "scalars") = WithFormat(base, "scalars")
      /\ ColumnSources(Seen, id) = ColumnSources(disk, id)
      /\ VariableSources(Seen, id) = VariableSources(disk, id)
  BY BaseAsOnDisk DEF Seen, WithFormat, Indices
<1>8. i \notin WithFormat(Seen, "scalars")
  BY <1>7 DEF WithFormat
<1>9. ASSUME i \in ColumnSources(disk, id) \cup VariableSources(disk, id)
      PROVE  source.index = i
  <2>1. [index |-> i, kind |-> "physical"] \in SourcesOf(id)
    BY <1>7, <1>8, <1>9 DEF SourcesOf
  <2> QED
    BY <1>4, <1>6, <2>1
<1>10. ASSUME source.index = i
       PROVE  i \in ColumnSources(disk, id) \cup VariableSources(disk, id)
  <2>1. source \in SourcesOf(id)
    BY <1>4, <1>6
  <2>2. \E j \in ColumnSources(Seen, id) \cup VariableSources(Seen, id) :
          source = [index |-> j, kind |-> "physical"]
    BY <1>4, <2>1 DEF SourcesOf
  <2> QED
    BY <1>7, <1>10, <2>2
<1> QED
  BY <1>2, <1>5, <1>9, <1>10

\* Every artifact is what the request makes of it.
LEMMA ArtifactIsAsExpected ==
  ASSUME DerivationInv, Succeeded, Undisturbed, NEW i \in Indices(base), HasOwnPath(i)
  PROVE  Content(DerivedPackage, i) = Expected(i)
<1>1. /\ ReplacementsPlanned /\ SetsPlanned /\ TablesRead /\ ValuesRead /\ WorldInv
      /\ Len(plans) = Len(request.replace)
      /\ \A j \in WithFormat(base, "scalars") : j = TheScalars
  BY AtTheEnd
<1>2. Content(DerivedPackage, i) = SourceContent(i)
  BY ReadAsStaged
<1>3. FileAt(disk.files, PathOf(base, i)) = Content(disk, i)
  BY BaseAsOnDisk DEF Content
<1>4. DOMAIN plans = DOMAIN request.replace
  BY <1>1, SequencePlaces DEF ReplacementsPlanned, WorldInv
<1>5. ASSUME base.artifacts[i].format = "scalars"
      PROVE  SourceContent(i) = Expected(i)
  <2>1. i \in WithFormat(base, "scalars") /\ i = TheScalars
    BY <1>1, <1>5 DEF WithFormat
  <2>2. i \notin Replaced
    BY <1>1, <1>5, ThePlan DEF Replaced
  <2>3. Content(disk, i).kind = "scalars" /\ values = Content(disk, i).values
    BY <1>1, <2>1, BaseAsOnDisk DEF ValuesRead, Undisturbed
  <2>4. Expected(i) = [kind |-> "scalars",
                       values |-> [id \in DOMAIN values |->
                                     IF id \in SetIds THEN NewValue(id) ELSE values[id]]]
    BY <1>5, <2>3 DEF Expected
  <2>5. CASE request.set = <<>>
    <3>1. SetIds = {} /\ i \notin Rewritten
      BY <2>5 DEF SetIds, Rewritten
    <3>2. IsContent(Content(disk, i))
      BY <1>1, ContentTyped DEF WorldInv, IsBase
    <3>3. Content(disk, i) = [kind |-> "scalars", values |-> [id \in DOMAIN values |-> values[id]]]
      BY <2>3, <3>2 DEF IsContent
    <3> QED
      BY <1>3, <2>2, <2>4, <3>1, <3>3 DEF SourceContent
  <2>6. CASE request.set # <<>>
    <3>1. i \in Rewritten
      BY <2>1, <2>6 DEF Rewritten
    <3>2. rewrite = [id \in DOMAIN values |-> IF id \in SetIds THEN NewValue(id) ELSE values[id]]
      BY <1>1, <2>6 DEF SetsPlanned
    <3> QED
      BY <2>2, <2>4, <3>1, <3>2 DEF SourceContent
  <2> QED
    BY <2>5, <2>6
<1>6. ASSUME base.artifacts[i].format # "scalars"
      PROVE  SourceContent(i) = Expected(i)
  <2> DEFINE asked == {mutation \in Range(request.replace) :
                         i \in ColumnSources(disk, mutation.id)
                                 \cup VariableSources(disk, mutation.id)}
  <2>1. Expected(i) = IF asked = {} THEN Content(disk, i)
                      ELSE files[(CHOOSE mutation \in asked : TRUE).file]
    BY <1>6 DEF Expected
  <2>2. \A k \in DOMAIN request.replace :
          /\ plans[k].file = request.replace[k].file
          /\ plans[k].index = i <=> request.replace[k] \in asked
    BY <1>6, PlansAnswerRequests DEF Range
  <2>3. i \notin Rewritten
    BY <1>6, RewrittenIsThere DEF WithFormat
  <2>4. CASE i \in Replaced
    <3>1. PICK k \in DOMAIN plans : plans[k].index = i
      BY <2>4 DEF Replaced
    <3>2. request.replace[k] \in asked
      BY <1>4, <2>2, <3>1
    <3>3. \A mutation \in asked : mutation = request.replace[k]
      <4>1. ASSUME NEW mutation \in asked
            PROVE  mutation = request.replace[k]
        <5>1. PICK n \in DOMAIN request.replace : mutation = request.replace[n]
          BY DEF Range
        <5>2. plans[n].index = i
          BY <2>2, <5>1
        <5>3. n = k
          BY <1>1, <1>4, <3>1, <5>2 DEF ReplacementsPlanned
        <5> QED
          BY <5>1, <5>3
      <4> QED
        BY <4>1
    <3>4. (CHOOSE mutation \in asked : TRUE) = request.replace[k]
      BY <3>2, <3>3
    <3>5. Replacing(i) = files[plans[k].file] /\ plans[k].file = request.replace[k].file
      BY <1>1, <1>4, <2>2, <3>1, ThePlan
    <3> QED
      BY <2>1, <2>4, <3>2, <3>4, <3>5 DEF SourceContent
  <2>5. CASE i \notin Replaced
    <3>1. asked = {}
      <4>1. ASSUME NEW mutation \in asked
            PROVE  FALSE
        <5>1. PICK n \in DOMAIN request.replace : mutation = request.replace[n]
          BY DEF Range
        <5>2. plans[n].index = i /\ n \in DOMAIN plans
          BY <1>4, <2>2, <5>1
        <5> QED
          BY <2>5, <5>2 DEF Replaced
      <4> QED
        BY <4>1
    <3> QED
      BY <1>3, <2>1, <2>3, <2>5, <3>1 DEF SourceContent
  <2> QED
    BY <2>4, <2>5
<1> QED
  BY <1>2, <1>5, <1>6

\* A derived package is its base with the mutations of the request, each in the
\* one artifact that supplies its target, and with nothing else changed.
THEOREM OutputIsItsBaseMutated == Spec => []OutputIsMutatedBase
<1>1. DerivationInv => OutputIsMutatedBase
  BY ArtifactIsAsExpected DEF OutputIsMutatedBase
<1> QED
  BY <1>1, DerivationInvHolds, PTL

-----------------------------------------------------------------------------
(***************************************************************************)
(* Which fields change, and who is told.                                   *)
(***************************************************************************)
IsAffected(id) == id \in SetIds \/ \E k \in DOMAIN plans : id \in plans[k].affected

\* An artifact that says something of a field that is not affected says the same
\* afterwards.
LEMMA ArtifactSaysTheSame ==
  ASSUME DerivationInv, Succeeded, Undisturbed, NEW id \in DOMAIN registry, ~IsAffected(id),
         NEW i \in Indices(base), HasOwnPath(i)
  PROVE  /\ i \in KeySources(DerivedPackage, id) <=> i \in KeySources(disk, id)
         /\ i \in KeySources(disk, id) =>
              Content(DerivedPackage, i).values[id] = Content(disk, i).values[id]
         /\ base.artifacts[i].format # "scalars" =>
              /\ i \in ColumnSources(DerivedPackage, id) <=> i \in ColumnSources(disk, id)
              /\ i \in VariableSources(DerivedPackage, id) <=> i \in VariableSources(disk, id)
              /\ i \in ColumnSources(disk, id) \cup VariableSources(disk, id) =>
                   Content(DerivedPackage, i) = Content(disk, i)
<1>1. /\ ReplacementsPlanned /\ TablesRead
  BY AtTheEnd
<1>2. /\ \A format : /\ WithFormat(DerivedPackage, format) = WithFormat(base, format)
                     /\ WithFormat(disk, format) = WithFormat(base, format)
      /\ Indices(DerivedPackage) = Indices(base) /\ Indices(disk) = Indices(base)
      /\ DerivedPackage.artifacts[i].variable = disk.artifacts[i].variable
      /\ base.artifacts[i].variable = disk.artifacts[i].variable
  BY DerivedAsBase, BaseAsOnDisk
<1>3. Content(DerivedPackage, i) = SourceContent(i) /\ Content(DerivedPackage, i) = Expected(i)
  BY ReadAsStaged, ArtifactIsAsExpected
<1>4. /\ i \in KeySources(DerivedPackage, id) <=> i \in KeySources(disk, id)
      /\ i \in KeySources(disk, id) =>
           Content(DerivedPackage, i).values[id] = Content(disk, i).values[id]
  <2>1. CASE i \in WithFormat(base, "scalars")
    <3>1. Expected(i) = [kind |-> "scalars",
                         values |-> [key \in DOMAIN Content(disk, i).values |->
                                       IF key \in SetIds THEN NewValue(key)
                                       ELSE Content(disk, i).values[key]]]
      BY <2>1 DEF Expected, WithFormat
    <3>2. id \notin SetIds
      BY DEF IsAffected
    <3>3. /\ DOMAIN Expected(i).values = DOMAIN Content(disk, i).values
          /\ id \in DOMAIN Content(disk, i).values =>
               Expected(i).values[id] = Content(disk, i).values[id]
      BY <3>1, <3>2
    <3> QED
      BY <1>2, <1>3, <2>1, <3>3 DEF KeySources
  <2>2. CASE i \notin WithFormat(base, "scalars")
    BY <1>2, <2>2 DEF KeySources
  <2> QED
    BY <2>1, <2>2
<1>5. ASSUME base.artifacts[i].format # "scalars"
      PROVE  /\ i \in ColumnSources(DerivedPackage, id) <=> i \in ColumnSources(disk, id)
             /\ i \in VariableSources(DerivedPackage, id) <=> i \in VariableSources(disk, id)
             /\ i \in ColumnSources(disk, id) \cup VariableSources(disk, id) =>
                  Content(DerivedPackage, i) = Content(disk, i)
  <2>1. i \in VariableSources(DerivedPackage, id) <=> i \in VariableSources(disk, id)
    BY <1>2 DEF VariableSources
  <2>2. CASE i \notin Replaced
    <3>1. i \notin Rewritten
      BY <1>5, RewrittenIsThere DEF WithFormat
    <3>2. Content(DerivedPackage, i) = Content(disk, i)
      BY <1>3, <2>2, <3>1, BaseAsOnDisk DEF SourceContent, Content
    <3> QED
      BY <1>2, <2>1, <3>2 DEF ColumnSources
  <2>3. CASE i \in Replaced
    <3>1. PICK k \in DOMAIN plans : plans[k].index = i
      BY <2>3 DEF Replaced
    <3>2. /\ IsPlanned(k) /\ id \notin plans[k].affected
      BY <1>1 DEF ReplacementsPlanned, IsAffected
    <3>3. id \notin AffectedFields(i, FileAt(files, plans[k].file))
      BY <3>1, <3>2 DEF IsPlanned
    <3>4. Content(DerivedPackage, i) = files[plans[k].file] /\ plans[k].file \in DOMAIN files
      BY <1>1, <1>3, <2>3, <3>1, <3>2, ThePlan DEF SourceContent, IsPlanned
    <3>5. files[plans[k].file].kind # "link"
      <4>1. PathOf(base, i) \in DOMAIN staged
        BY AtTheEnd DEF FilesStaged, IsStaged
      <4>2. staged[PathOf(base, i)] = SourceContent(i)
        BY AtTheEnd DEF FilesStaged, IsStaged
      <4> QED
        BY <1>3, <3>4, <4>1, <4>2, AtTheEnd DEF FilesStaged
    <3>6. FileAt(files, plans[k].file) = Content(DerivedPackage, i)
      BY <3>4, <3>5 DEF FileAt, Followed
    <3>7. CASE base.artifacts[i].format = "attributes"
      <4>1. Content(Seen, i) = Content(disk, i)
        BY BaseAsOnDisk
      <4>2. /\ id \notin AttributeColumns(Content(disk, i))
            /\ id \notin AttributeColumns(Content(DerivedPackage, i))
        BY <3>3, <3>6, <3>7, <4>1 DEF AffectedFields
      <4>3. i \in WithFormat(disk, "attributes")
        BY <1>2, <3>7 DEF WithFormat
      <4> QED
        BY <2>1, <4>2, <4>3 DEF ColumnSources, VariableSources
    <3>8. CASE base.artifacts[i].format # "attributes"
      <4>1. base.artifacts[i].variable # id
        BY <3>3, <3>8 DEF AffectedFields
      <4>2. i \notin WithFormat(base, "attributes")
        BY <3>8 DEF WithFormat
      <4> QED
        BY <1>2, <2>1, <4>1, <4>2 DEF ColumnSources, VariableSources
    <3> QED
      BY <3>7, <3>8
  <2> QED
    BY <2>2, <2>3
<1> QED
  BY <1>4, <1>5

\* A field whose values change is affected by a plan or set.
LEMMA ChangedIsAffected ==
  ASSUME DerivationInv, Succeeded, Undisturbed, NEW id \in Changed
  PROVE  IsAffected(id)
<1>1. /\ id \in DOMAIN registry /\ ReadApart(id)
      /\ Readings(DerivedPackage, id) # Readings(disk, id)
  BY DEF Changed
<1>2. SUFFICES ASSUME ~IsAffected(id)
               PROVE  FALSE
  OBVIOUS
<1> DEFINE Physical(p) == ColumnSources(p, id) \cup (VariableSources(p, id) \ WithFormat(p, "scalars"))
           D == DerivedPackage
<1>3. /\ \A format : /\ WithFormat(D, format) = WithFormat(base, format)
                     /\ WithFormat(disk, format) = WithFormat(base, format)
      /\ Indices(D) = Indices(base) /\ Indices(disk) = Indices(base)
  BY DerivedAsBase, BaseAsOnDisk
<1>4. ASSUME NEW i \in KeySources(D, id) \cup KeySources(disk, id)
      PROVE  i \in Indices(base) /\ HasOwnPath(i)
  BY <1>1, <1>3, <1>4 DEF ReadApart, KeySources, WithFormat
<1>5. ASSUME NEW i \in Physical(D) \cup Physical(disk)
      PROVE  i \in Indices(base) /\ HasOwnPath(i) /\ base.artifacts[i].format # "scalars"
  <2>1. i \in Indices(base) /\ i \notin WithFormat(base, "scalars")
    BY <1>3, <1>5 DEF ColumnSources, VariableSources, WithFormat
  <2>2. HasOwnPath(i)
    BY <1>1, <1>5 DEF ReadApart
  <2> QED
    BY <2>1, <2>2 DEF WithFormat
<1>6. /\ KeySources(D, id) = KeySources(disk, id)
      /\ \A i \in KeySources(disk, id) : Content(D, i).values[id] = Content(disk, i).values[id]
  BY <1>1, <1>2, <1>4, ArtifactSaysTheSame
<1>7. ASSUME NEW i
      PROVE  /\ i \in Physical(D) <=> i \in Physical(disk)
             /\ i \in Physical(disk) => Content(D, i) = Content(disk, i)
  <2>1. CASE i \in Physical(D) \cup Physical(disk)
    BY <1>1, <1>2, <1>3, <1>5, <2>1, ArtifactSaysTheSame
  <2>2. CASE i \notin Physical(D) \cup Physical(disk)
    BY <2>2
  <2> QED
    BY <2>1, <2>2
<1> HIDE DEF D
<1>8. {[artifact |-> i, says |-> Content(D, i).values[id]] : i \in KeySources(D, id)}
        = {[artifact |-> i, says |-> Content(disk, i).values[id]] : i \in KeySources(disk, id)}
  BY <1>6
<1>9. {[artifact |-> i, says |-> Content(D, i)] : i \in Physical(D)}
        = {[artifact |-> i, says |-> Content(disk, i)] : i \in Physical(disk)}
  <2>1. Physical(D) = Physical(disk)
    BY <1>7
  <2> HIDE DEF Physical
  <2> QED
    BY <1>7, <2>1
<1>10. Readings(D, id) = Readings(disk, id)
  BY <1>8, <1>9 DEF Readings
<1> QED
  BY <1>1, <1>10 DEF D

\* An affected field is named in the record.
LEMMA AffectedIsRecorded ==
  ASSUME DerivationInv, Succeeded, NEW id, IsAffected(id)
  PROVE  \E entry \in Range(record.replaced) : id \in Range(entry.ids)
<1>1. ManifestRead
  BY AtTheEnd
<1>2. ASSUME NEW k \in DOMAIN plans, id \in plans[k].affected
      PROVE  \E entry \in Range(Entries) : id \in Range(entry.ids)
  BY <1>1, <1>2, EntriesAreThePlans, EntryIsEntry
<1>3. ASSUME id \in SetIds
      PROVE  \E entry \in Range(Entries) : id \in Range(entry.ids)
  <2>1. request.set # <<>>
    BY <1>3 DEF SetIds
  <2>2. TheScalars \in Rewritten
    BY <2>1 DEF Rewritten
  <2> QED
    BY <1>1, <1>3, <2>2, EntriesAreThePlans, EntryIsEntry
<1> QED
  BY <1>2, <1>3, RecordHasTheEntries DEF IsAffected

\* The record names every registered field that reads differently from the base:
\* those set, those of a replaced table, and those that come with its replacement.
THEOREM ChangesAreRecorded == Spec => []EveryChangeRecorded
<1>1. ASSUME DerivationInv, Succeeded, Undisturbed, NEW id \in Changed
      PROVE  id \in UNION {Range(entry.ids) : entry \in Range(record.replaced)}
  BY <1>1, ChangedIsAffected, AffectedIsRecorded
<1>2. DerivationInv => EveryChangeRecorded
  BY <1>1 DEF EveryChangeRecorded
<1> QED
  BY <1>2, DerivationInvHolds, PTL

\* A field that is no parameter keeps its values, unless the caller allowed it;
\* then it is among the overrides.
THEOREM OnlyParametersChangeUnasked == Spec => []NonParametersNeedConsent
<1>1. ASSUME DerivationInv, Succeeded, Undisturbed, NEW id \in Changed, ~IsParameter(id)
      PROVE  Consented(id)
  <2>1. /\ SetsPlanned /\ ReplacementsPlanned /\ DOMAIN registry \subseteq Names
    BY <1>1, AtTheEnd
  <2>2. id \notin SetIds
    <3>1. \A k \in DOMAIN request.set : IsParameter(request.set[k].id)
      BY <2>1 DEF SetsPlanned, CanSet
    <3> QED
      BY <1>1, <3>1 DEF SetIds
  <2>3. PICK k \in DOMAIN plans : id \in plans[k].affected
    BY <1>1, <2>2, ChangedIsAffected DEF IsAffected
  <2>4. request.allow
    BY <1>1, <2>1, <2>3 DEF ReplacementsPlanned, IsPlanned, Refused
  <2>5. id \in Overrides
    BY <1>1, <2>3 DEF Overrides
  <2>6. Overrides \subseteq Names
    BY <2>1 DEF Overrides, ReplacementsPlanned, IsPlanned
  <2>7. record.overrides = InOrder(Overrides, Before)
    BY <1>1, RecordHasTheEntries
  <2>8. Range(record.overrides) = Overrides
    BY <2>6, <2>7, NamesInOrder, ScenariosAssumption
  <2> QED
    BY <2>4, <2>5, <2>8 DEF Consented
<1>2. DerivationInv => NonParametersNeedConsent
  BY <1>1 DEF NonParametersNeedConsent
<1> QED
  BY <1>2, DerivationInvHolds, PTL
=============================================================================
