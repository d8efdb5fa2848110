# A verification model of hmx

`hmx` reads, validates and derives *packages*: directories with a
`manifest.json`, a field registry, and artifacts (rasters, tables, zarr stores,
a JSON object of parameter scalars). Four verbs: `validate` and `describe` read a
package, `derive` makes a new one from a base with some artifacts or scalars
replaced, `materialize` makes one in which the scalars are constant rasters.
Paths below are relative to the repository root; `core/` is
`crates/core/src/`, "spec" is `spec/HMX_SPEC.md`.

This directory holds TLA+ modules for the program's own logic, TLC
configurations, and proofs for TLAPS. `tlc -config X.cfg M` with the pairs of the
table *Runs*; `tlapm M.tla` for each of the eight modules whose name ends in
`Proofs`.

## Inventory

| part | state | operations | works with |
|---|---|---|---|
| publication transaction (`src/derivation.rs`, frame of `execute` in `src/derive.rs`, `src/materialize.rs`) | staging directory, temporary record, `CleanupGuard.paths`, `UNIQUE_COUNTER` | create unique names, write, rename record, rename package, cleanup | the file system, other invocations |
| derive, planning and staging (`src/derive.rs`) | inventory, plans, staged files, derived manifest, record | parse mutations, resolve targets, plan, copy, digest, validate | validator, registry, readers |
| materialize, planning and staging (`src/materialize.rs`) | plans, staged files, generated artifacts | preflight of the grid, plan, copy, write TIFFs, validate | the same |
| validator and report (`core/validate.rs`, `core/report.rs`) | the outcomes | ten checks in a fixed order, the verdict | everything in core |
| domains and mappings (`core/domains.rs`, `core/mappings.rs`) | none | cardinality, cross-check, additive projection | validator |
| field registry (`core/registry.rs`) | the parsed fields | parse, look up | validator, derive |
| manifest boundary (`core/manifest.rs`, `core/dto.rs`) | the typed manifest | two-stage parse, reconstruction | every verb |
| readers (`core/readers/`) | none | decide whether a file is of its format | validator, derive |
| front ends (`src/main.rs`, `crates/python/src/lib.rs`) | none | exit codes, exceptions, output | core |
| describe (`core/describe.rs`) | none | manifest, hash and registry as JSON | front ends |
| content hash (`core/hash.rs`, `core/canonical.rs`) | none | canonical bytes, SHA-256 | derive, describe |
| conformance suite (`conformance/`) | none | generates fixtures in Python | tests only |

There are no threads, callbacks or messages inside the program. What is hard is
around it:

* several invocations of a deriving verb, and other programs, work in the same
  directories; the code checks with `exists()` and acts with `rename`, and its
  errors, a failing cleanup or a kill may come between any two calls;
* a file of the base or of a replacement is read, planned with, validated,
  copied and digested at different times;
* a derivation is right only if the inventory, the plan, the copy, the digests,
  the record and the validator agree on what an artifact supplies;
* the verdict is spread over ten checks, each of which leaves cases to another;
* the rules for the two JSON documents are written three times: in the
  conversions, in the way back to text, and in the committed schemas;
* index arithmetic at zero, at the last index and at `i64::MAX`.

`PROJECT.json` lists each of these hazards with its line and its properties.

What makes each part correct:

* transaction: all or nothing to the caller, nobody else's files touched, record
  and package together, everyone ends;
* derive: exactly the requested change, consented to, with true digests and no
  links, and a record that leads from the base to the output;
* materialize: everything converted, nothing else changed, recorded alike;
* validator: conformant iff the package meets the checklist that spec 11.1 gives
  a validator;
* domains: the indices of a mapping are the entities, no overflow;
* documents: parser, checks and schemas agree, writing is the inverse of reading;
* front ends: one answer per package, the version cut never softened.

## Modules

| module | what it is |
|---|---|
| `Publication` | the transaction, one action per file-system call |
| `Transaction` | what it promises: commit, abort or get lost, atomically |
| `PublicationRefinement` | the mapping from the first to the second |
| `MCPublication` | instances: who publishes where |
| `PublicationProofs` | types, cleanup, publication and record theorems, and the refinement |
| `Domains` | `from_domain`, `derive_cardinality`, `cross_check` as operators, and `Covers`, what spec 5.4 asks |
| `Coverage` | a mapping read row by row against a domain |
| `CoverageProofs` | `cross_check` is exact and does not overflow, for all sizes |
| `Attributes` | `check_attribute_index` and the additive projection |
| `AttributesProofs` | `check_attribute_index` is exact and the projection adds up, for all sizes |
| `Readers` | what a file holds (columns, types, nulls, tags, member maps, chunks) and what each reader makes of it |
| `Packages` | a package, its paths, its registry, and the sources of its fields |
| `Conformance` | the ten checks, the verdict, and `MeetsChecklist` |
| `Validation`, `MCValidation` | `validate` step by step; the packages it is run on |
| `PackageProofs` | lemmas for the three modules below: the verdict, the staged tree, sorted records |
| `ValidationProofs` | what a report means |
| `Staging` | the directory tree that a derivation fills: writing, copying, links |
| `Record` | the derivation record, its entries and their order |
| `Derivation`, `MCDerivation` | `derive` from the request to the record; bases, requests, files, what others write |
| `DerivationProofs` | what a derivation publishes |
| `Materialization`, `MCMaterialization` | `materialize` up to the record; bases, grids, what others write |
| `MaterializationProofs` | what a materialization publishes |
| `Samples` | helpers that build packages for the MC modules |
| `Documents` | manifest and registry as JSON: parse, conversions, canonical bytes; the two schemas |
| `Boundary`, `MCBoundary` | both front ends of `validate` and `describe`; documents with one or two deviations |
| `BoundaryProofs` | the front ends, the schemas, and writing what was read |

`Coverage` and `Readers` extend `Domains`; `Packages` extends `Readers`, and
`Conformance`, `Staging` and `Record` extend `Packages`. `Validation` extends
`Conformance`; `Derivation` and `Materialization` extend all three, and
`Boundary` extends `Documents`. Two components are modelled at two levels:
`Boundary` has the text of the documents and one flag for the checks of the other
artifacts, `Validation` and its extensions start from the typed manifest and have
those checks; `UniqueIds`, `RegistryArtifacts` and the conditions on layers are
in both. The part of
`derive` and `materialize` after the staged package is `Publication`, whose action
`Stage` and `Validate` stand for all of `Derivation` and `Materialization`: those
touch only the invocation's own staging directory, so the two are composed by
that interface rather than by a product of their states.

Operators introduced by a comment "Mistake: ..." are wrong variants of the next
definition, used to see that a property fails when the code is changed that way;
no specification uses them.

### How the state corresponds to the code

*Publication.* `fs` has an entry per name: its type, who made it, and whether it
is complete (`whole`). A dangling link is an entry of its own because
`Path::exists()` does not see it and `rename` does. `guard[p]` is
`CleanupGuard.paths`, empty when no guard is armed; `counter[p]` is the process's
`UNIQUE_COUNTER`; `pc[p]` names the next call. `RecheckRecord`/`RenameRecord` and
`RecheckOut`/`RenameOut` are separate actions because the code's `exists()` and
`rename` are. `RemovePath` is one round of the loop in `cleanup()`, in reverse
order; a removal that fails may have taken a part of a directory away.

*Packages.* `pkg.artifacts` is the manifest's sequence, `pkg.files[path]` what
the file holds. A path is a sequence of segments, and files are keyed by what the
file system makes of it (`Normal`), so that two spellings are one file. A file's
content has one `kind`, the format in which it is well-formed, or "junk", or a
symbolic link with what it leads to; two contents that differ in what is not
modelled differ in `tag`. A zarr store is a directory, and what lies below it has
paths of its own.

*Derivation.* `disk` is the base as it is now, `base`, `registry` and `values`
what the command has read of it. There is one action per read, one per round of
the loops over `--replace` and over the artifacts, one per digest: between any
two of them `EditSource` and `EditBase` write to the replacement files, the files
of the base and its manifest. A whole `validate` is one step; a write in the
middle of it is not modelled. A digest is what it is the digest of, for a
directory the tree at its path. `record` has the two manifests in the place of
their hashes, which is what lets `RecordAudits` compare them with the entries; an
`Option<String>` of the record is a sequence of at most one digest.

*Materialization.* The same, with one action per planned field, per copied
artifact and per generated raster. A raster is its tags, its GeoKey directory and
its constant.

*Boundary and Documents.* A JSON object is the sequence of its keys, as they are
spelled, and their values; an array in its place is what serde takes for the
object of its first keys. `Deserialized` finds the first error in the order of
the text, `Converts` is the second stage. `manifest` and `registry` are the texts
of the two documents. The two front ends work on them independently. `payloads`
says whether the checks of the other artifacts pass; it is free, so the front
ends are also tried on verdicts that only some packages with that manifest get.

## Runs

Deadlock is not checked in any run: invocations end, tables stop at their bound.

| run | module, cfg | shows |
|---|---|---|
| `faults` | `MCPublication`, `PublicationFaults` | two invocations for one output, each with its own record, I/O errors, failing removals, kills, a failing stdout, another program creating anything at free destinations: clean failures, safe packages, record with package, destinations always whole, what is lost at a taken output or record path and to what, refinement of `Transaction` |
| `race` | `PublicationRace` | four invocations sharing outputs, a record and the pid, any of them killed at any step: the others end, someone publishes |
| `shared_record` | `PublicationSharedRecord` | **violated** `RecordAtSuccess`: one record path, two outputs |
| `stdout` | `PublicationStdout` | **violated** `ErrorExitLeavesNothing`: stdout fails after publication |
| `coverage` | `Coverage` | `cross_check` is exact and does not overflow |
| `attributes` | `Attributes` | dense index and sums |
| `validation` | `MCValidation`, `Validation` | ten checks against `MeetsChecklist`: registries and sources of parameters, domains and mappings, a file of every format with one fault |
| `derivation` | `MCDerivation`, `Derivation` | what `derive` publishes is the base with exactly the request; conformance, digests, absence of links and the record survive writes to the replacement files and to the base |
| `derivation_consent` | `DerivationConsent` | **violated** `ConsentAlways`: consent does not survive an edit |
| `materialization` | `MCMaterialization`, `Materialization` | complete conversion, nothing else changed, rasters on the grid, the record leads from base to output, under writes to the base |
| `boundary` | `MCBoundary`, `Boundary` | front ends agree, the version cut is hard, parser and schemas accept the same documents up to named exceptions, rewriting is faithful |
| `boundary_version` | `BoundaryVersion` | **violated** `VersionReadFirst`: the version is not read first |

### Bounds

* Publication: two invocations with every fault and a foreign program at once,
  four with kills only. Every clash (record with record, output with output, a
  record that is its own output) is between two; the third and fourth are there
  for crossed pairs, in which a cycle of invocations could give way to each
  other. Every invocation has the pid of the others (processes in different
  containers), the hardest case for unique names. `MaxTries` is two per
  invocation, as many names as can ever be taken. No symmetry is declared: the
  invocations have different arguments. The safety theorems remove the bound.
* Coverage: `MaxIndex = 7` stands for `i64::MAX`, domains up to three entities,
  three rows, so that a gap, a repeat, an excess and the largest index all
  occur. The theorems remove the bounds.
* Attributes: up to two entities, two tables, three rows, values 1 and 10 so that
  a sum tells which rows it is made of.
* Validation: two fields, every artifact present or absent, each with good
  and bad content (`ParameterPackages`); one or two domains, one mapping, up to
  two rows (`MappingPackages`); one artifact of every format, good, without rows,
  with a column that is missing, of another type or null, with each of the faults
  of a raster or a store (`FormatPackages`). The checks of formats look at one
  artifact at a time.
* Derivation: two parameters and a state, up to four artifacts besides the
  registry, up to two `--replace` and two `--set`, in three scenarios: `Quiet`,
  where nobody else writes, over all bases (shared paths, nested stores, links);
  `SourceEdited`, with two writes to the replacement files, so that one can change
  between plan and copy and again between copy and digest (only one of the files
  is written to, for rounds of the loop on different files do not read each
  other's); `BaseEdited`, with two writes to the base or its manifest, a change and
  a change back, or one that a check lets pass and one that it would not.
  About 1.7 million states.
* Materialization: fields of up to three layers with `MaxBands = 2` for
  `u16::MAX`, `MaxEpsg = 3`; every grid fault; one other artifact at every
  relation to a generated path, before or after the scalars, or around them; bases
  with a table whose stray column has a parameter's name, and with an artifact of
  the scalars' role and digest; three writes to a base that has an artifact of each
  kind, among them one that makes a parameter a state and one that gives the table
  a column, so that the manifest, the registry and a table can change between the
  three reads of them.
* Boundary: a good manifest with one deviation at every place, and two in two
  of its lists or in the grid and a list; a good registry with one. `MaxSize = 3` stands for
  `u32::MAX`, `MaxCount = 5` for `u64::MAX`, `MaxId = 9` for `i64::MAX`; every number
  is tried at its bound, above it, as a float, and `external_ids` with each kind of
  element. Errors of different places meet in the pairs; a third adds nothing,
  as the parse stops at the first.

### Fairness

Only `race` has a liveness property. `FairSpec` assumes weak fairness of each
invocation's next step: a process that is not killed is scheduled again, and
each step is one terminating system call. Nothing is assumed of other programs
or of kills. Without it a process may stop forever.

## Findings

Four statements of the specification or of comments are violated by what the
code does; each is a run that expects the violation, with the quote in
`PROJECT.json`:

* `shared_record`: of two invocations with one `--record` path both can succeed,
  and the second replaces the record of the first (`src/derivation.rs:426`).
  Without a shared path `RecordAtSuccess` holds (`faults`, and a theorem).
* `stdout`: a write error on stdout after publication exits with an error while
  the package and its record stay (`src/main.rs:174`).
* `derivation_consent`: affected fields are determined when a replacement file
  is planned; a write before the copy brings in a state field without consent
  (`src/derive.rs:608`). Undisturbed, `NonParametersNeedConsent` holds.
* `boundary_version`: a manifest of another version with an unknown key is
  rejected for the key, before its version is looked at (`core/manifest.rs:41`).

Other places where code and documents part are named exceptions of properties
that hold otherwise, so that the property would fail without the exception:

| where | code | document | exception in |
|---|---|---|---|
| `core/domains.rs:106` | a domain without entities is never covered | spec 5.4 (line 107), `schemas/manifest.schema.json:138` | `CoverageExact` (`count > 0`), `EmptyIdentified` |
| `core/validate.rs:182` | D1 reads every encoding of a mapping as `domain_mapping_v1` | spec 8.3 (line 223) | `OtherEncoding` |
| `core/validate.rs:86` | P1 rejects `a..b`; `tests/conformance.rs:67` pins it | spec line 49: a `..` segment | `Dotted` |
| `src/derive.rs:602` | two artifacts at one path overwrite each other when staged | spec line 176: `sha256` of the artifact bytes | `HasOwnPath` |
| `src/materialize.rs:263` | conflicts of generated paths are found by spelling, `./x` escapes | spec line 386: other artifacts unchanged | `Plain` in `OthersKept` |
| `core/validate.rs:419` | F1 compares names of columns; types and nulls go unnoticed unless the table is read, and `downstream_reach_id` and the `geo` block are not asked for | spec 7.1 | `Unread` in `ConformantMeetsChecklist` |
| `core/readers/control_plane.rs:279` | an attribute column of another type than float64 is passed over, in the count of sources and in the fields `derive` enumerates | spec 7.1, 7.3, 10.6 | `StrayColumns` |
| `core/validate.rs` | the index of an attribute table is not checked for density by any check (`check_attribute_index` is only in the projection) | spec 7.1 | `Unread` |
| `core/readers/zarr_reader.rs:234`, `cog_reader.rs:146` | a store without the chunk `c/0` of a coordinate, one whose member map has a group, and a raster with bands of several types are refused | spec 7.1 names the format only | `OddRaster` in `RejectionsJustified` |
| `src/materialize.rs:286` | scalars inside the directory of a store stay in the copied tree | spec 10.11: no scalars in the output | `ScalarsShared` |
| `core/types.rs:250` | the comment leaves ranges (`cell_size > 0`, `nx >= 1`) to the validator, which has no such check; nor is one domain required | `schemas/manifest.schema.json` `minItems`, `minimum` | `Unchecked` |
| `core/dto.rs` | `null` for an optional key, and an array for any object, are accepted | the schemas' `type` | `Somewhere(None, ...)`, `ArraysIn...` |
| `core/dto.rs:28, 43, 47, 68`, `registry.rs:34` | a whole number spelled `3.0`, a count above the largest u32, u64 or usize, an external id that is no i64, and a number beyond f64 are refused | the schemas' `integer` and `number` have no such limits | `Unrepresentable` in `SchemasSuffice` |
| `src/derivation.rs:436` | an empty directory that another program makes after `out.exists()` is replaced by the package | the error for it, `output path appeared before publication` (`src/derivation.rs:437`) | `OutputsNeverClobbered` |
| `src/derivation.rs:420` | a file or link that another program makes after `final_path.exists()`, or a dangling link, is replaced by the record | the error for it (`src/derivation.rs:422`) | `RecordPathsKept` |
| `src/main.rs:203` | `println!` on a closed pipe panics, exit code 101 | spec line 249: 0, 1 or 2 | `FrontEndsAgree` |

`MeetsChecklist` has the clauses that spec 11.1 lists for a validator whose manifest has
been read: 5.4, 6.1, 6.2, 6.5, the formats and columns of 7.1, 7.3 and 8.3. The
specification asks more of a package that is not on that list and that no check looks at:
that a declared `sha256` is that of the bytes (7.2; the fixtures have placeholders,
`conformance/README.md:51`), that a raster lies on the package grid (7.1), that the indices
of an attribute table, and those of a mapping of a domain without `external_ids`, are those
of the domain's `entity_count` entities (5.3), and that additive tables name their domain
(5.5). A package that violates them
can be reported conformant, and `ConformantMeetsChecklist` does not say otherwise. What
`derive` and `materialize` write themselves is checked further: `DigestsTrue`,
`RastersFitGrid`.

`SharedRole`, one of the five exceptions of `RejectionsJustified`, is no divergence: of
two artifacts with the role of a mapping the validator takes the first, and the
specification does not say which.

## Proofs

TLAPS checks the following for any values of the constants that meet the named
assumptions of the modules. Those assumptions type the constants and say what
parsing leaves open: `ProcsAssumption` (arguments are paths, temporary names are
not destinations, for which `create_unique_*` has a leading dot, kind, pid and
counter), `CandidatesAssumption` and the two `ScenariosAssumption` (a package is one
that serde and the readers can return: `IsPackage`, `IsBase`, `IsGrid`; ids and roles
are strings, of which `Bytewise` is the order), `PackagesAssumption` and
`DocumentsAssumption` (a text is a JSON object; what the tool spells of a timestamp is a
timestamp in its own spelling) and `AscendingAssumption` (every key has one place). TLC evaluates each of them.

| module | theorem | states | further hypotheses |
|---|---|---|---|
| `PublicationProofs` | `TypeCorrect` | `TypeOK` | |
| | `FailureIsClean` | `FailureLeavesNothing` | |
| | `OutputsAreNeverClobbered` | `OutputsNeverClobbered` | |
| | `RecordPathsAreKept` | `RecordPathsKept` | `RecordsNotOutputs`, `RecordsDistinct` |
| | `PackagesAreSafe` | `PublishedStays` | `RecordsNotOutputs` |
| | `DestinationsAreWhole` | `DestinationsWhole` | `RecordsNotOutputs` |
| | `RecordsAccompanyPackages` | `RecordAccompanies` | and `RecordsDistinct` |
| | `RecordsAtSuccess` | `RecordAtSuccess` | and `RecordsDistinct` |
| | `SomeoneAlwaysPublishes` | `SomeonePublishes` | `RecordsRefusedOrApart`, `Undisturbed`, somebody's record is not its own output |
| | `TransactionIsImplemented` | `ImplementsTransaction` | `RecordsNotOutputs`, `RecordsDistinct` |
| `CoverageProofs` | `TypeCorrect`, `CoverageIsExact`, `NoOverflowEver` | `TypeOK`, `CoverageExact`, `NoOverflow` | |
| `AttributesProofs` | `DenseIsExact`, `SumsAreExact` | `DenseExact`, `SumsExact` | |
| `PackageProofs` | `ConformantMeansChecklist` | a conformant package meets the checklist as far as it is read | `IsPackage` |
| `ValidationProofs` | `NoSkipConforms`, `ReportMeansChecklist`, `RejectionsAreJustified` | `SkipsNeverConform`, `ConformantMeetsChecklist`, `RejectionsJustified` | |
| `BoundaryProofs` | `FrontEndsAlwaysAgree`, `OtherVersionsAreRefused` | `FrontEndsAgree`, `HardCut` | |
| | `ConformantDocumentsMeetSchemas`, `SchemasAreSufficient` | `ConformantMeetsSchemas`, `SchemasSuffice` | |
| | `RewritingIsFaithful` | `RewrittenFaithfully` | `MarksApart` |
| `DerivationProofs` | `DerivedPackagesConform`, `NoLinkIsPublished`, `DeclaredDigestsAreTrue` | `OutputConforms`, `SelfContained`, `DigestsTrue` | |
| | `RecordAlwaysAudits`, `RecordIsOrdered` | `RecordAudits`, `RecordOrdered` | |
| | `OutputIsItsBaseMutated`, `ChangesAreRecorded`, `OnlyParametersChangeUnasked` | `OutputIsMutatedBase`, `EveryChangeRecorded`, `NonParametersNeedConsent` | |
| `MaterializationProofs` | `MaterializedPackagesConform`, `ConversionIsComplete`, `RastersAlwaysFit` | `OutputConforms`, `ConversionComplete`, `RastersFitGrid` | |
| | `OthersAreKept`, `RecordOfConversionAudits` | `OthersKept`, `RecordAudits` | |

The hypotheses on records are conditions on the arguments of the invocations, and
the runs `shared_record` and `faults` show what fails without them and that they
can be met. `Undisturbed` of `PublicationProofs` says that `Faults` has
at most kills and a failing stdout: I/O errors, failing removals and foreign programs
may each defeat everybody. `MarksApart` says that the values that stand for `null`, for
a value of another type and for a fraction are neither objects nor arrays, as
the model values are that TLC has there. Of the
theorems about derivations, those that hold only if nobody else writes say so in
the property.

*The transaction.* `FailureLeavesNothing` is not inductive: it
says nothing of an invocation that is still running. `CleanupInv` adds that a
guard holds exactly the names its step has created (`GuardShape`), that a
temporary name under a guard belongs to it (`GuardOwnsTemp`; unique names are
created only when free), and that every entry is under a guard, reported,
published or lost by a kill (`EverythingAccountedFor`). `PublishInv` adds that
the staged package is complete from validation on; then a renamed package can
only be removed through another's guard, which holds temporary names and a
record path, or be replaced by a rename, which a nonempty directory refuses.
`RecordInv` adds the same for records, whose paths are one invocation's own.
`WholeInv` follows a record from its sync to its rename and says that only outputs ever
have directories. `YieldInv` is for contenders: until somebody has won, no record
is withdrawn, and among those who may publish somebody has not given up.

*The refinement.* `RefinementInv` adds to `RecordInv` that only a cleanup reports
failures, that an invocation's entries at destinations are at its own, and that a
cleanup with the record still under its guard finds it in place, complete, which is also
why no cleanup removes anybody else's (`RecordPathsKept`). Then each
call of an invocation, a kill and a foreign program's entry are a step of
`Transaction` or a stutter, one lemma each.

*Coverage.* A finite nonempty set of integers has a largest
element (`LargestExists`), and a set of naturals below `n` with `n` elements is
`0 .. n - 1`. `cross_check` bounds the indices by `entity_count` before it
computes `max + 1`, which is why nothing overflows. An index of `n` rows in which each
of `n` entities occurs has no other and none twice (`NoOtherEntities`).

*The projection.* The sums are functions defined by recursion over rows, tables and
sets, so that they must be shown to exist before anything follows from their
definitions (`RowsExist`, `TablesExist`, `SumExists`). A dense table has one row per
entity and adds it once (`DenseAdds`); a sum over a finite set may take its elements in
any order (`SumTakesAny`), which is what makes the order of the tables irrelevant. The
library's induction theorems cannot be used here; the induction is over a set, from its
smallest missing number (`NumbersFollow`, `SubsetsFollow`).

*The validator.* `OutcomesSoFar` says that the outcomes are those of a prefix of the
ten checks, each of the package under validation. What remains is about one package:
`ConformantMeansChecklist` takes each clause of `MeetsChecklist` to the check that
establishes it, or to the exceptions `Unread` and `StrayColumns`; `ChecklistMeansConformant` goes the other way.

*The boundary.* `BoundaryInv` ties what a front end may answer to how far it is
(`FoundOut`): an answer follows from the texts alone, so two front ends cannot differ.
The schemas are compared with the conversions object by object: an object without
an error has the keys it must have and no others, with values of the declared type
(`Flat`), and the elements of a list one by one.

*Writing.* `Ordered` puts every key of an object at one place (`OrderedKeys`, by induction
over the places), so a typed value is written in the shape that its schema wants and read
as the same value (`WrittenObject`): first the flat objects, then lists, the grid with its
extent, and the manifest. That the bytes are the same again follows from the values; that
the schema is met is `ConformantDocumentsMeetSchemas` again, now without the exceptions for
arrays and nulls, which a written manifest does not have.

*Derivations.* `DerivationInv` and `MaterializationInv` have five parts, each resting
on those before it: the base on disk stays a base (`WorldInv`); what was read is
typed and, undisturbed, what the disk has (`ReadingInv`); a plan has its target's one
source and knows what it does (`PlanningInv`); what is staged comes from its artifact
or its plan and is no link, and what a copy brings stays whole below later writes
(`StagingInv`); at the end the record is that of a package the validator has passed
(`ResultInv`). The properties follow at the last step. `OutputConforms` of both is
`ConformantMeansChecklist` applied to the staged package. `RecordOrdered` needs that
`Sorted` sorts: entries ascend by role and fields, and a finite set of names has
exactly one ascending sequence (`SortedIsOrdered`).

*What the attempts corrected.* Five statements that TLC had found true of its
instances turned out too strong or too loose for arbitrary ones; the model now has
a case for each.

* A table of an attribute is read by D1 only if its column is float64, so `TableFits`
  is asked of the tables in `ReadByD1`, and a column of another type is a `StrayColumns`.
* Whether the sources of a field are apart is read off the derived package, not the
  base (`ReadApart`): a replacement can bring a column of a name that is there.
* A generated raster is the field's only source only as long as the field is a
  parameter in the published registry: the manifest, the registry and the tables are read one
  after the other, and writes between the reads can leave a column of a state under the
  name of a planned parameter (`ConversionComplete`).
* The same goes for a stray column: `Carries` speaks of float64 columns.
* `RecordAudits` of `materialize` took the removed artifact to be the one with the
  scalars' role and digest; another artifact may have both. It asks for one
  artifact with them whose removal leads to the new list.

*Only model-checked.* Liveness under fairness (`Termination` in `race`), out of the
prover's reach. The four violated properties are counterexamples, found by TLC.

## What is not modelled

* Power loss. A kill here is the end of a process; the file system stays as the
  calls left it. Only the record is synced by the code.
* Removal of one path is atomic, or fails and leaves a part of a directory.
* `resolve_new_path` and `validate_record_path`: the first is
  `fs::canonicalize` of the parent, the kernel's walk over links, the second
  compares two results. `Publication` starts from resolved paths. A record
  strictly inside its own output would need its parent to exist before the output
  does; the remaining case, the record at the output, is modelled.
* An output or a record inside the base package, which the code does not refuse;
  in a zarr store of the base the copy would descend into itself.
* Other programs create entries at free destinations; they do not delete or
  replace what is there. They do write to the base and to replacement files, but
  not in the middle of one `validate` or of the copy of one artifact, and not to
  the staging directory.
* Spelling of JSON strings and numbers (but for whole numbers spelled as floats), SHA-256, Arrow, TIFF and zarr encodings,
  float rounding (the grid and the sums are integers, so `require_close` is
  equality).
* The write of `manifest.json` into the staging directory (`src/derive.rs:668`,
  `src/materialize.rs:358`) does not touch `staged`: an artifact declared at that path,
  which no check refuses, would be overwritten. Its declared digest cannot be true of
  the base's manifest, which contains it.
* A file that is well-formed in two formats.
* Argument parsing by clap, tracing, the fields that `describe` prints, and the
  conformance generator, which never runs with the tool.

## Plan

Done: every component that decides something is modelled and checked, except
path resolution; every safety property that a passing run checks is proved, as is the
refinement of `Transaction`. Left: nothing that this model can say; a change of the
code starts at the definition that `map` in `PROJECT.json` gives for its lines.
