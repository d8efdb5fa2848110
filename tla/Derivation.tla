----------------------------- MODULE Derivation -----------------------------
(***************************************************************************)
(* `hmx derive` from the parsed request to the staged package: read the    *)
(* base, resolve the targets, plan the edits, stage the artifacts one by   *)
(* one, take digests, validate the staged package, write the record.  How  *)
(* the two get to their destinations is the subject of Publication.        *)
(*                                                                         *)
(* Other programs may write to the base and to the replacement files       *)
(* meanwhile: every read is a step of its own.                             *)
(***************************************************************************)
EXTENDS Conformance, Staging, Record

CONSTANTS
  Scenarios,      \* a set of [bases, requests, sources, writes]: base packages
                  \* with a declared digest `sha` for each artifact; requests
                  \* [replace : Seq([id, file]), set : Seq([id, value]), allow : BOOLEAN];
                  \* what the replacement files may hold; how often others write
  Shared,         \* the replacement files that another program writes to
  Edits,          \* what it may write there
  FileEdits,      \* what it may write to a file of the base
  ManifestEdits   \* what it may make of the artifacts in the base manifest

ASSUME ScenariosAssumption ==
  /\ IsSequence(Bytewise)
  /\ \A scenario \in Scenarios :
       /\ \A p \in scenario.bases : IsBase(p)
       /\ \A asked \in scenario.requests : IsSequence(asked.replace) /\ IsSequence(asked.set)
       /\ \A sources \in scenario.sources : AreFiles(sources)
  /\ \A content \in Edits : IsContent(Followed(content))
  /\ \A edit \in FileEdits : IsBaseFile(edit.content)
  /\ \A list \in ManifestEdits : AreArtifacts(list)

VARIABLES
  pc,         \* the next step; "done" or "failed" at the end
  disk,       \* the base package as it is on disk
  request,    \* the mutations
  files,      \* the replacement files; a file that is missing has kind "absent"
  writes,     \* how often other programs may still write
  disturbed,  \* what they have written to, of "sources" and "base"
  base,       \* the base manifest, as it was read
  registry,   \* the registry, as it was read
  values,     \* the scalars, as they were read; <<>> without a scalars artifact
  inventory,  \* registered field -> set of [index, kind]
  rewrite,    \* the new values of the scalars object, <<>> without a --set
  plans,      \* the replacement plans, one per --replace
  staged,     \* the staging directory
  artifacts,  \* the artifacts of the derived manifest
  record      \* the derivation record

world == <<disk, request, files, writes, disturbed>>
reading == <<base, registry, values, inventory>>
planning == <<rewrite, plans>>
output == <<staged, artifacts, record>>
vars == <<pc, world, reading, planning, output>>

\* What the command sees of its base: the manifest it has read, and the files.
Seen == [domains |-> base.domains, mappings |-> base.mappings,
         artifacts |-> base.artifacts, files |-> disk.files]

IsParameter(id) == registry[id].role = "parameter"

Fail ==
  /\ pc' = "failed"
  /\ UNCHANGED <<world, reading, planning, output>>

Proceed(next) ==
  /\ pc' = next
  /\ UNCHANGED <<world, reading, planning, output>>

-----------------------------------------------------------------------------
Init ==
  /\ pc = "parse"
  /\ \E scenario \in Scenarios :
       /\ disk \in scenario.bases
       /\ request \in scenario.requests
       /\ files \in scenario.sources
       /\ writes = scenario.writes
  /\ disturbed = {}
  /\ base = None
  /\ registry = <<>>
  /\ values = <<>>
  /\ inventory = <<>>
  /\ rewrite = <<>>
  /\ plans = <<>>
  /\ staged = <<>>
  /\ artifacts = <<>>
  /\ record = None

Targets ==
  [k \in DOMAIN request.replace |-> request.replace[k].id]
    \o [k \in DOMAIN request.set |-> request.set[k].id]

\* DeriveRequest::new: at least one mutation, and no target twice.
ParseRequest ==
  /\ pc = "parse"
  /\ IF Targets = <<>> \/ ~IsInjective(Targets) THEN Fail ELSE Proceed("manifest")

ReadManifest ==
  /\ pc = "manifest"
  /\ base' = ManifestOf(disk)
  /\ pc' = "require"
  /\ UNCHANGED <<world, registry, values, inventory, planning, output>>

\* validate reads the manifest again.
RequireConformant ==
  /\ pc = "require"
  /\ IF Conformant(disk) THEN Proceed("registry") ELSE Fail

LoadRegistry ==
  /\ pc = "registry"
  /\ IF ~RegistryLoads(Seen)
     THEN Fail
     ELSE /\ registry' = Registry(Seen)
          /\ pc' = "scalars"
          /\ UNCHANGED <<world, base, values, inventory, planning, output>>

-----------------------------------------------------------------------------
(***************************************************************************)
(* build_inventory.                                                        *)
(***************************************************************************)
TheScalars == CHOOSE i \in WithFormat(base, "scalars") : TRUE

\* The scalars object is read twice, for its types and for its values.
TypeScalars ==
  /\ pc = "scalars"
  /\ IF \/ Cardinality(WithFormat(base, "scalars")) > 1
        \/ /\ WithFormat(base, "scalars") # {}
           /\ ~ReadsScalars(Content(Seen, TheScalars), registry)
     THEN Fail
     ELSE Proceed("values")

ReadValues ==
  /\ pc = "values"
  /\ IF WithFormat(base, "scalars") # {} /\ Content(Seen, TheScalars).kind # "scalars"
     THEN Fail
     ELSE /\ values' = IF WithFormat(base, "scalars") = {} THEN <<>>
                       ELSE Content(Seen, TheScalars).values
          /\ pc' = "tables"
          /\ UNCHANGED <<world, base, registry, inventory, planning, output>>

\* The physical and scalar sources of a registered field.  A scalars artifact
\* supplies its keys, not its variable.
SourcesOf(id) ==
  {[index |-> TheScalars, kind |-> "scalar"] : key \in {id} \cap DOMAIN values}
    \cup {[index |-> i, kind |-> "physical"] :
            i \in ColumnSources(Seen, id)
                    \cup (VariableSources(Seen, id) \ WithFormat(Seen, "scalars"))}

ReadTables ==
  /\ pc = "tables"
  /\ IF \E i \in WithFormat(base, "attributes") : ~ReadsAttributes(Content(Seen, i))
     THEN Fail
     ELSE /\ inventory' = [id \in DOMAIN registry |-> SourcesOf(id)]
          /\ pc' = "sets"
          /\ UNCHANGED <<world, base, registry, values, planning, output>>

\* Mistake: any of several sources of the kind will do.
HasSourceAny(id, kind) ==
  /\ id \in DOMAIN registry
  /\ inventory[id] # {}
  /\ \A source \in inventory[id] : source.kind = kind

\* exact_source: a registered field with exactly one source, of this kind.
HasSource(id, kind) ==
  /\ id \in DOMAIN registry
  /\ \E source \in inventory[id] : inventory[id] = {source} /\ source.kind = kind

\* The artifact that supplies it (ArtifactOf is used only when HasSource holds).
ArtifactOf(id) == (CHOOSE source \in inventory[id] : TRUE).index

CanSet(mutation) ==
  /\ HasSource(mutation.id, "scalar")
  /\ IsParameter(mutation.id)
  /\ FitsField(mutation.value, registry[mutation.id])

SetIds == {request.set[k].id : k \in DOMAIN request.set}
NewValue(id) == (CHOOSE mutation \in Range(request.set) : mutation.id = id).value

\* plan_sets
PlanSets ==
  /\ pc = "sets"
  /\ IF \E k \in DOMAIN request.set : ~CanSet(request.set[k])
     THEN Fail
     ELSE /\ rewrite' = IF request.set = <<>> THEN <<>>
                        ELSE [id \in DOMAIN values |->
                                IF id \in SetIds THEN NewValue(id) ELSE values[id]]
          /\ pc' = "replacements"
          /\ UNCHANGED <<world, reading, plans, output>>

-----------------------------------------------------------------------------
\* Mistake: columns that only the replacement has are not counted as affected.
AffectedFieldsOld(i, content) ==
  IF base.artifacts[i].format = "attributes"
  THEN AttributeColumns(Content(Seen, i)) \cap DOMAIN registry
  ELSE {base.artifacts[i].variable}

\* affected_fields, for a replacement table that has the target.
AffectedFields(i, content) ==
  IF base.artifacts[i].format = "attributes"
  THEN (AttributeColumns(Content(Seen, i)) \cup AttributeColumns(content)) \cap DOMAIN registry
  ELSE {base.artifacts[i].variable}

\* require_single_band
SingleBand(content) == ReadsCog(content) /\ BandsOf(content) = 1

\* The replacement is a file; both tables must be readable and the new one keep
\* the target; both COGs have one band.  Other formats are left to the validation
\* of the staged package.
CanReplace(i, id, content) ==
  /\ content.kind \notin {"absent", "zarr"}
  /\ base.artifacts[i].format = "attributes" =>
       /\ ReadsAttributes(Content(Seen, i))
       /\ ReadsAttributes(content)
       /\ id \in AttributeColumns(content)
  /\ base.artifacts[i].format = "cog" => SingleBand(Content(Seen, i)) /\ SingleBand(content)

\* Mistake: only the target itself has to be a parameter.
RefusedTargetOnly(id, affected) == ~request.allow /\ ~IsParameter(id)

Refused(id, affected) == ~request.allow /\ \E other \in affected : ~IsParameter(other)

\* One round of plan_replacements; fs::metadata and the readers follow links.
PlanReplacement ==
  /\ pc = "replacements"
  /\ Len(plans) < Len(request.replace)
  /\ LET mutation == request.replace[Len(plans) + 1]
         content == FileAt(files, mutation.file)
         i == ArtifactOf(mutation.id)
         affected == AffectedFields(i, content)
     IN IF \/ ~HasSource(mutation.id, "physical")
           \/ \E k \in DOMAIN plans : plans[k].index = i
           \/ ~CanReplace(i, mutation.id, content)
           \/ Refused(mutation.id, affected)
        THEN Fail
        ELSE /\ plans' = Append(plans, [index |-> i, file |-> mutation.file,
                                        affected |-> affected])
             /\ UNCHANGED <<pc, world, reading, rewrite, output>>

StartStaging ==
  /\ pc = "replacements"
  /\ Len(plans) = Len(request.replace)
  /\ Proceed("stage")

-----------------------------------------------------------------------------
(***************************************************************************)
(* stage_and_publish, up to the publication.                               *)
(***************************************************************************)
Replaced == {plans[k].index : k \in DOMAIN plans}
Rewritten == IF request.set = <<>> THEN {} ELSE {TheScalars}

Replacing(i) == files[plans[CHOOSE k \in DOMAIN plans : plans[k].index = i].file]

CanStage(i) == LET path == PathOf(base, i) IN
  IF i \in Replaced THEN Regular(Replacing(i)) /\ CanWrite(staged, path)
  ELSE IF i \in Rewritten THEN CanWrite(staged, path)
  ELSE CanCopy(disk.files, staged, path)

Stage(i) == LET path == PathOf(base, i) IN
  IF i \in Replaced THEN Written(staged, path, Replacing(i))
  ELSE IF i \in Rewritten THEN Written(staged, path, [kind |-> "scalars", values |-> rewrite])
  ELSE Copied(disk.files, staged, path)

\* One round of the staging loop.  `artifacts` counts the rounds: until the
\* digests are taken, they are those of the base.
StageArtifact ==
  /\ pc = "stage"
  /\ Len(artifacts) < Len(base.artifacts)
  /\ LET i == Len(artifacts) + 1 IN
     IF ~CanStage(i)
     THEN Fail
     ELSE /\ staged' = Stage(i)
          /\ artifacts' = Append(artifacts, base.artifacts[i])
          /\ UNCHANGED <<pc, world, reading, planning, record>>

\* Mistake: the digest is that of the replacement file, not of the copy.
DigestOfSource(i) ==
  IF i \in Replaced THEN PathOf(base, i) :> Replacing(i) ELSE TreeAt(staged, PathOf(base, i))

DigestOf(i) == TreeAt(staged, PathOf(base, i))

\* The digests of the staged copies go to the manifest, which is staged too.
TakeDigests ==
  /\ pc = "stage"
  /\ Len(artifacts) = Len(base.artifacts)
  /\ artifacts' = [i \in DOMAIN artifacts |->
                     IF i \in Replaced \cup Rewritten
                     THEN [artifacts[i] EXCEPT !.sha = DigestOf(i)]
                     ELSE artifacts[i]]
  /\ pc' = "validate"
  /\ UNCHANGED <<world, reading, planning, staged, record>>

DerivedPackage ==
  [domains |-> base.domains, mappings |-> base.mappings,
   artifacts |-> artifacts, files |-> staged]

\* Mistake: the old digest is looked up after the new one was put in its place.
EntryOfNew(i, ids) ==
  Replacement(base.artifacts[i].role, ids, artifacts[i].sha, artifacts[i].sha)

EntryOf(i, ids) ==
  Replacement(base.artifacts[i].role, ids, base.artifacts[i].sha, artifacts[i].sha)

Entries ==
  [k \in DOMAIN plans |-> EntryOf(plans[k].index, plans[k].affected)]
    \o IF request.set = <<>> THEN <<>> ELSE <<EntryOf(TheScalars, SetIds)>>

Overrides == {id \in UNION {plans[k].affected : k \in DOMAIN plans} : ~IsParameter(id)}

TheRecord == DerivationRecord(base, ManifestOf(DerivedPackage), Overrides, Entries)

\* Mistake: the base was validated, so the staged package need not be.
ValidateStagedNot ==
  /\ pc = "validate"
  /\ record' = TheRecord
  /\ pc' = "done"
  /\ UNCHANGED <<world, reading, planning, staged, artifacts>>

ValidateStaged ==
  /\ pc = "validate"
  /\ IF ~Conformant(DerivedPackage)
     THEN Fail
     ELSE /\ record' = TheRecord
          /\ pc' = "done"
          /\ UNCHANGED <<world, reading, planning, staged, artifacts>>

-----------------------------------------------------------------------------
(***************************************************************************)
(* Other programs.                                                         *)
(***************************************************************************)
Requested == {request.replace[k].file : k \in DOMAIN request.replace}

MayWrite == writes > 0 /\ pc \notin {"done", "failed"} /\ writes' = writes - 1

EditSource ==
  /\ MayWrite
  /\ \E file \in Shared \cap Requested, content \in Edits :
       content # files[file] /\ files' = [files EXCEPT ![file] = content]
  /\ disturbed' = disturbed \cup {"sources"}
  /\ UNCHANGED <<pc, disk, request, reading, planning, output>>

EditBase ==
  /\ MayWrite
  /\ \/ \E edit \in FileEdits :
          /\ edit.path \in DOMAIN disk.files
          /\ disk' = [disk EXCEPT !.files[edit.path] = edit.content]
     \/ \E edit \in ManifestEdits : disk' = [disk EXCEPT !.artifacts = edit]
  /\ disk' # disk
  /\ disturbed' = disturbed \cup {"base"}
  /\ UNCHANGED <<pc, request, files, reading, planning, output>>

Next ==
  \/ ParseRequest
  \/ ReadManifest
  \/ RequireConformant
  \/ LoadRegistry
  \/ TypeScalars
  \/ ReadValues
  \/ ReadTables
  \/ PlanSets
  \/ PlanReplacement
  \/ StartStaging
  \/ StageArtifact
  \/ TakeDigests
  \/ ValidateStaged
  \/ EditSource
  \/ EditBase

Spec == Init /\ [][Next]_vars

-----------------------------------------------------------------------------
(***************************************************************************)
(* Properties.                                                             *)
(***************************************************************************)
Succeeded == pc = "done"

\* Nobody else has written to the files of the command.
Undisturbed == disturbed = {}

\* No other artifact is declared at the path of the i-th one (two artifacts at
\* one path are staged on top of each other, and the validator does not mind).
HasOwnPath(i) ==
  \A j \in Indices(base) : PathOf(base, j) = PathOf(base, i) => i = j

\* Nor is one declared below it.
HasOwnTree(i) ==
  \A j \in Indices(base) : IsPrefix(PathOf(base, i), PathOf(base, j)) => i = j

\* What a package says about a field: the value of the scalar, or the file that
\* has it as a column or as its variable.
Readings(p, id) ==
  {[artifact |-> i, says |-> Content(p, i).values[id]] : i \in KeySources(p, id)}
    \cup {[artifact |-> i, says |-> Content(p, i)] :
            i \in ColumnSources(p, id) \cup (VariableSources(p, id) \ WithFormat(p, "scalars"))}

\* Its path is its own wherever a field is read, before and after.
ReadApart(id) ==
  \A p \in {disk, DerivedPackage} :
    \A i \in KeySources(p, id) \cup ColumnSources(p, id) \cup VariableSources(p, id) :
      HasOwnPath(i)

Changed ==
  {id \in DOMAIN registry : ReadApart(id) /\ Readings(DerivedPackage, id) # Readings(disk, id)}

\* The record of a derivation names every registered field whose values differ
\* from the base, those that come and go with a replaced table included.
EveryChangeRecorded ==
  Succeeded /\ Undisturbed =>
    Changed \subseteq UNION {Range(entry.ids) : entry \in Range(record.replaced)}

Consented(id) == request.allow /\ id \in Range(record.overrides)

\* Fields that are not parameters keep their values, unless the caller asked
\* with --allow-non-parameter; then the record lists them as overrides.
NonParametersNeedConsent ==
  Succeeded /\ Undisturbed => \A id \in Changed : IsParameter(id) \/ Consented(id)

\* The same as HMX_SPEC 10.7 has it, whoever writes to the replacement files.
ConsentAlways == Succeeded => \A id \in Changed : IsParameter(id) \/ Consented(id)

\* What the request makes of the i-th artifact of the base, said from the
\* request alone.
Expected(i) ==
  IF base.artifacts[i].format = "scalars"
  THEN [kind |-> "scalars",
        values |-> [id \in DOMAIN Content(disk, i).values |->
                      IF id \in SetIds THEN NewValue(id) ELSE Content(disk, i).values[id]]]
  ELSE LET asked == {mutation \in Range(request.replace) :
                       i \in ColumnSources(disk, mutation.id)
                               \cup VariableSources(disk, mutation.id)}
       IN IF asked = {} THEN Content(disk, i)
          ELSE files[(CHOOSE mutation \in asked : TRUE).file]

\* A derived package is its base with all the mutations of the request, each in
\* the one artifact that supplies its target, and with nothing else changed, a
\* raster inside the directory of a zarr store included.
OutputIsMutatedBase ==
  Succeeded /\ Undisturbed =>
    \A i \in Indices(base) : HasOwnPath(i) => Content(DerivedPackage, i) = Expected(i)

\* A derived package meets the checklist of 11.1 as far as the checks read it,
\* whatever the replacement files bring in or leave out, and whoever writes to
\* them or to the base, its manifest included, between two reads.
OutputConforms == Succeeded => MeetsChecklistAsRead(DerivedPackage)

\* The base declares a true digest of it, and nobody has written to the base.
CopiedTruly(i) ==
  "base" \notin disturbed /\ base.artifacts[i].sha = TreeAt(disk.files, PathOf(base, i))

\* The digest that the derived manifest declares for an artifact is the digest
\* of the staged one (validate never compares the two): of a changed one whoever
\* writes to the files and when, of a copied one if it was true in the base and
\* nobody writes to that.
DigestsTrue ==
  Succeeded =>
    \A i \in DOMAIN artifacts :
      HasOwnTree(i) /\ (i \in Replaced \cup Rewritten \/ CopiedTruly(i)) =>
        artifacts[i].sha = TreeAt(staged, PathOf(base, i))

\* From the base manifest that the record names, the record leads to the derived
\* one: for every artifact with a new digest there is an entry with the old and
\* the new one, and for no other, whoever writes to the files and when.
RecordAudits ==
  Succeeded =>
    /\ \A i \in DOMAIN record.base.artifacts :
         LET old == record.base.artifacts[i]
             new == record.derived.artifacts[i]
         IN old.sha # new.sha =>
              \E entry \in Range(record.replaced) :
                <<entry.role, entry.old, entry.new>> = <<old.role, <<old.sha>>, <<new.sha>>>>
    /\ \A entry \in Range(record.replaced) :
         \E i \in DOMAIN record.base.artifacts :
           <<entry.role, entry.old, entry.new>> =
             <<record.base.artifacts[i].role, <<record.base.artifacts[i].sha>>,
               <<record.derived.artifacts[i].sha>>>>

\* The record is in the one order that does not depend on the command line.
RecordOrdered == Succeeded => Ordered(record.replaced)

\* The output has no symbolic link, at the path of an artifact or in a
\* directory, even when a file becomes a link between planning and staging.
SelfContained ==
  Succeeded => \A path \in DOMAIN staged : staged[path].kind # "link"
=============================================================================
