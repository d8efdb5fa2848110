-------------------------- MODULE ValidationProofs --------------------------
(***************************************************************************)
(* The report of `hmx validate`: it skips nothing when it says conformant, *)
(* and it says so of the packages that meet the checklist of 11.1, up to   *)
(* what Validation names on either side.                                   *)
(***************************************************************************)
EXTENDS Validation, PackageProofs

(***************************************************************************)
(* The invariant: the outcomes are those of the first checks, each on the  *)
(* package that is validated.                                              *)
(***************************************************************************)

\* The outcomes are those of a prefix of the checks.
OutcomesSoFar ==
  /\ IsPackage(pkg)
  /\ outcomes \in Seq({"pass", "fail", "skipped"})
  /\ Len(outcomes) <= Len(Checks)
  /\ \A k \in DOMAIN outcomes : outcomes[k] = Outcome(Checks[k], pkg)

\* A check passes, fails or is skipped.
LEMMA OutcomeType ==
  ASSUME NEW id, NEW p
  PROVE  Outcome(id, p) \in {"pass", "fail", "skipped"}
BY DEF Outcome, Ran

\* The invariant holds of every report under way.
LEMMA OutcomesSoFarHolds == Spec => []OutcomesSoFar
<1>1. Init => OutcomesSoFar
  BY CandidatesAssumption DEF Init, OutcomesSoFar, Checks
<1>2. OutcomesSoFar /\ [Next]_vars => OutcomesSoFar'
  <2> SUFFICES ASSUME OutcomesSoFar, [Next]_vars PROVE OutcomesSoFar'
    OBVIOUS
  <2>1. CASE RunCheck
    <3> DEFINE n == Len(outcomes)
               outcome == Outcome(Checks[n + 1], pkg)
    <3>1. /\ pkg' = pkg /\ n \in Nat /\ n < Len(Checks) /\ Len(Checks) = 10
          /\ outcomes' = Append(outcomes, outcome)
          /\ outcome \in {"pass", "fail", "skipped"}
      BY <2>1, OutcomeType DEF RunCheck, OutcomesSoFar, Checks
    <3> HIDE DEF outcome
    <3>2. /\ outcomes' \in Seq({"pass", "fail", "skipped"})
          /\ Len(outcomes') = n + 1
          /\ \A k \in 1 .. n : outcomes'[k] = outcomes[k]
          /\ outcomes'[n + 1] = outcome
          /\ DOMAIN outcomes = 1 .. n /\ DOMAIN outcomes' = 1 .. n + 1
      BY <3>1 DEF OutcomesSoFar
    <3>3. ASSUME NEW k \in DOMAIN outcomes'
          PROVE  outcomes'[k] = Outcome(Checks[k], pkg)
      <4>1. CASE k \in 1 .. n
        BY <3>2, <4>1 DEF OutcomesSoFar
      <4>2. CASE k = n + 1
        BY <3>2, <4>2 DEF outcome
      <4> QED
        BY <3>1, <3>2, <4>1, <4>2
    <3> QED
      BY <3>1, <3>2, <3>3 DEF OutcomesSoFar
  <2>2. CASE UNCHANGED vars
    BY <2>2 DEF vars, OutcomesSoFar
  <2> QED
    BY <2>1, <2>2 DEF Next
<1> QED
  BY <1>1, <1>2, PTL DEF Spec

\* A complete report has the outcome of every check.
LEMMA CompleteReport ==
  ASSUME OutcomesSoFar, Reported
  PROVE  /\ DOMAIN outcomes = DOMAIN Checks
         /\ \A k \in DOMAIN Checks : outcomes[k] = Outcome(Checks[k], pkg)
         /\ FromOutcomes(outcomes) <=> Conformant(pkg)
<1>1. DOMAIN outcomes = DOMAIN Checks
  BY DEF OutcomesSoFar, Reported, Checks
<1> QED
  BY <1>1 DEF OutcomesSoFar, FromOutcomes, Conformant

-----------------------------------------------------------------------------
\* SkipsNeverConform for packages of any size: R2 and PARAM1 are skipped only
\* without a registry, and R1 fails then.
THEOREM NoSkipConforms == Spec => []SkipsNeverConform
<1>1. OutcomesSoFar => SkipsNeverConform
  <2> SUFFICES ASSUME OutcomesSoFar, Reported, FromOutcomes(outcomes),
                      NEW k \in DOMAIN outcomes
               PROVE  outcomes[k] # "skipped"
    BY DEF SkipsNeverConform
  <2>1. outcomes[k] = Outcome(Checks[k], pkg)
    BY CompleteReport
  <2>2. CheckR1(pkg)
    BY CompleteReport, AllChecksHold
  <2> QED
    BY <2>1, <2>2 DEF Outcome, Ran
<1> QED
  BY <1>1, OutcomesSoFarHolds, PTL

\* ConformantMeetsChecklist for packages of any size: on the clauses of 11.1 there
\* is no gap between the checks but for what Unread and StrayColumns name.
THEOREM ReportMeansChecklist == Spec => []ConformantMeetsChecklist
<1>1. OutcomesSoFar => ConformantMeetsChecklist
  BY CompleteReport, ConformantMeansChecklist DEF ConformantMeetsChecklist, OutcomesSoFar
<1> QED
  BY <1>1, OutcomesSoFarHolds, PTL

-----------------------------------------------------------------------------
(***************************************************************************)
(* The other direction: a package that meets the checklist passes each     *)
(* check, but for the five ways in which the validator is narrower.        *)
(***************************************************************************)

\* A payload that fits an attribute table is read as one.
LEMMA FittingAttributesAreRead ==
  ASSUME NEW p, NEW i \in WithFormat(p, "attributes"), PayloadFits(p, i)
  PROVE  /\ ReadsAttributes(Content(p, i))
         /\ AttributeColumns(Content(p, i)) \subseteq DOMAIN Registry(p)
         /\ ~StrayColumns(Content(p, i))
<1> DEFINE content == Content(p, i)
<1>1. TableFits(content, "attributes")
  BY DEF PayloadFits, WithFormat, ColumnTypes
<1>2. /\ "entity_index" \in DOMAIN content.columns
      /\ content.columns["entity_index"] = "int64"
  BY <1>1 DEF TableFits, HasTypes, ColumnTypes
<1>3. ReadsAttributes(content)
  BY <1>1, <1>2 DEF TableFits, ReadsAttributes, HasColumn, AttributeColumns
<1>4. ~StrayColumns(content)
  BY <1>1, <1>2 DEF TableFits, StrayColumns, AttributeColumns
<1> QED
  BY <1>3, <1>4 DEF PayloadFits, WithFormat

\* A single candidate is counted once.
LEMMA SingleSourceCounts ==
  ASSUME NEW p, IsPackage(p), NEW id,
         \A i \in WithFormat(p, "attributes") : ~StrayColumns(Content(p, i)),
         NEW s \in SourceCandidates(p, id), SourceCandidates(p, id) = {s}
  PROVE  CountParameterSources(p, id) = 1
<1> DEFINE keys == KeySources(p, id)
           columns == ColumnSources(p, id)
           variables == VariableSources(p, id)
<1>1. columns = {i \in WithFormat(p, "attributes") :
                   id \in DOMAIN Content(p, i).columns \ {"entity_index"}}
  BY DEF ColumnSources, StrayColumns
<1>2. SourceCandidates(p, id) =
        {<<i, "key">> : i \in keys} \cup {<<i, "column">> : i \in columns}
          \cup {<<i, "variable">> : i \in variables}
  BY <1>1 DEF SourceCandidates
<1> SUFFICES Cardinality(keys) + Cardinality(columns) + Cardinality(variables) = 1
  BY DEF CountParameterSources
<1> HIDE DEF keys, columns, variables
<1>3. /\ \A i \in keys : <<i, "key">> = s
      /\ \A i \in columns : <<i, "column">> = s
      /\ \A i \in variables : <<i, "variable">> = s
  BY <1>2
<1>4. CASE \E i \in keys : TRUE
  <2>1. PICK i \in keys : TRUE
    BY <1>4
  <2>2. keys = {i} /\ columns = {} /\ variables = {}
    BY <1>3, <2>1
  <2>3. Cardinality(keys) = 1
    BY <2>2, FS_Singleton
  <2>4. Cardinality(columns) = 0 /\ Cardinality(variables) = 0
    BY <2>2, FS_EmptySet
  <2> QED
    BY <2>3, <2>4
<1>5. CASE \E i \in columns : TRUE
  <2>1. PICK i \in columns : TRUE
    BY <1>5
  <2>2. columns = {i} /\ keys = {} /\ variables = {}
    BY <1>3, <2>1
  <2>3. Cardinality(columns) = 1
    BY <2>2, FS_Singleton
  <2>4. Cardinality(keys) = 0 /\ Cardinality(variables) = 0
    BY <2>2, FS_EmptySet
  <2> QED
    BY <2>3, <2>4
<1>6. CASE \E i \in variables : TRUE
  <2>1. PICK i \in variables : TRUE
    BY <1>6
  <2>2. variables = {i} /\ keys = {} /\ columns = {}
    BY <1>3, <2>1
  <2>3. Cardinality(variables) = 1
    BY <2>2, FS_Singleton
  <2>4. Cardinality(keys) = 0 /\ Cardinality(columns) = 0
    BY <2>2, FS_EmptySet
  <2> QED
    BY <2>3, <2>4
<1> QED
  BY <1>2, <1>4, <1>5, <1>6

\* derive_cardinality accepts 0 .. n - 1 as n entities.
LEMMA DenseIndicesAccepted ==
  ASSUME NEW n \in 1 .. MaxIndex
  PROVE  DeriveCardinality(0 .. n - 1) = Derived(n)
<1> DEFINE S == 0 .. n - 1
<1>1. n \in Nat \ {0} /\ MaxIndex \in Nat
  BY DomainsAssumption
<1>2. S # {} /\ IsFirst(0, S) /\ Cardinality(S) = n
  <2>1. Cardinality(S) = n
    BY <1>1, Interval
  <2> QED
    BY <1>1, <2>1 DEF IsFirst
<1>3. Largest(S) = n - 1
  <2>1. n - 1 \in S /\ \A y \in S : y <= n - 1
    BY <1>1
  <2>2. \A x \in S : (\A y \in S : y <= x) => x = n - 1
    BY <2>1
  <2> QED
    BY <2>1, <2>2 DEF Largest
<1>4. Largest(S) # MaxIndex /\ ~(Largest(S) < 0) /\ Largest(S) + 1 = n
  BY <1>1, <1>3
<1> HIDE DEF S
<1>5. DeriveCardinality(S) = Derived(n)
  BY <1>2, <1>4 DEF DeriveCardinality
<1> QED
  BY <1>5 DEF S

\* A cover of a domain with entities is accepted.
LEMMA CoverAccepted ==
  ASSUME NEW d, d.count \in 1 .. MaxIndex, NEW m, Covers(d, m)
  PROVE  CrossCheck(d, m) = "none"
<1> DEFINE n == d.count
<1>1. n \in Nat \ {0} /\ MaxIndex \in Nat
  BY DomainsAssumption
<1>2. SideForDomain(m, d.id) # "none" /\ IndicesOn(m, SideForDomain(m, d.id)) = 0 .. n - 1
  BY DEF Covers
<1>3. \A x \in 0 .. n - 1 : InRange(x, d)
  BY <1>1 DEF InRange
<1>4. DeriveCardinality(0 .. n - 1) = Derived(n)
  BY DenseIndicesAccepted
<1> QED
  BY <1>2, <1>3, <1>4 DEF CrossCheck, Derived

\* The mapping's role leads to the one artifact that may be meant.
LEMMA OnlyArtifactOfRole ==
  ASSUME NEW p, IsPackage(p), ~SharedRole(p), NEW j \in DOMAIN p.mappings,
         NEW i \in MappingArtifacts(p, p.mappings[j])
  PROVE  ArtifactForRole(p, p.mappings[j].role) = i
<1> DEFINE role == p.mappings[j].role
           S == {k \in 1 .. Len(p.artifacts) : p.artifacts[k].role = role}
           Values == {p.artifacts[k] : k \in DOMAIN p.artifacts}
<1>1. p.artifacts \in Seq(Values)
  BY DEF IsPackage, IsManifest, IsSequence
<1>2. Indices(p) = 1 .. Len(p.artifacts) /\ Len(p.artifacts) \in Nat
  <2> HIDE DEF Values
  <2> QED
    BY <1>1 DEF Indices
<1>3. i \in Indices(p) /\ p.artifacts[i].role = role
  BY DEF MappingArtifacts
<1>4. S = {i}
  BY <1>2, <1>3 DEF SharedRole
<1>5. S \in SUBSET Nat /\ S # {}
  BY <1>2, <1>3
<1>6. Min(S) = i
  <2> HIDE DEF S
  <2>1. Min(S) \in S
    BY <1>5, SmallestExists
  <2> QED
    BY <1>4, <2>1
<1> QED
  BY <1>4, <1>6 DEF ArtifactForRole, SelectInSeq

\* A payload that fits opens as its format says, but for the odd rasters.
LEMMA FittingShape ==
  ASSUME NEW p, IsPackage(p), ~OddRaster(p), NEW i \in Indices(p), PayloadFits(p, i)
  PROVE  HasShape(Content(p, i), p.artifacts[i].format)
<1> DEFINE content == Content(p, i)
           format == p.artifacts[i].format
<1>1. format \in Formats
  BY DEF IsPackage, IsManifest
<1>2. CASE format \in {"registry", "scalars"}
  BY <1>2 DEF HasShape, RequiredColumns
<1>3. CASE format = "cog"
  <2>1. ReadsCog(content)
    BY <1>3 DEF PayloadFits, OddRaster
  <2> QED
    BY <1>3, <2>1 DEF HasShape, RequiredColumns
<1>4. CASE format = "zarr"
  <2>1. ReadsZarr(content)
    BY <1>4 DEF PayloadFits, OddRaster
  <2> QED
    BY <1>4, <2>1 DEF HasShape, RequiredColumns
<1>5. CASE format \in DOMAIN RequiredColumns
  <2>1. TableFits(content, format)
    BY <1>5 DEF PayloadFits, RequiredColumns, ColumnTypes
  <2>2. RequiredColumns[format] \subseteq DOMAIN ColumnTypes[format]
    BY <1>5 DEF RequiredColumns, ColumnTypes
  <2>3. RequiredColumns[format] \subseteq DOMAIN content.columns
    BY <2>1, <2>2 DEF TableFits, HasTypes
  <2>4. /\ content.kind = "parquet"
        /\ format = "reach_topology" => ReadsGeoparquet(content)
    BY <2>1 DEF TableFits, ReadsGeoparquet
  <2>5. format \notin {"cog", "zarr"}
    BY <1>5 DEF RequiredColumns
  <2> QED
    BY <1>5, <2>3, <2>4, <2>5 DEF HasShape
<1> QED
  BY <1>1, <1>2, <1>3, <1>4, <1>5 DEF Formats

\* D1 accepts the domains whose entities are identified.
LEMMA IdentifiedPassesD1 ==
  ASSUME NEW p, IsPackage(p), MeetsChecklist(p),
         ~OtherEncoding(p), ~EmptyIdentified(p), ~SharedRole(p)
  PROVE  CheckD1(p)
<1> SUFFICES ASSUME NEW k \in DOMAIN p.domains
             PROVE  LET d == p.domains[k] IN
                      /\ FromDomain(d)
                      /\ d.externalIds # None =>
                           \A j \in DOMAIN p.mappings : LET m == p.mappings[j] IN
                             d.id \in {m.source, m.target} /\ ArtifactForRole(p, m.role) # 0 =>
                               /\ ReadsMapping(Content(p, ArtifactForRole(p, m.role)))
                               /\ CrossCheck(d, Geometry(p, m)) = "none"
  BY DEF CheckD1
<1> DEFINE d == p.domains[k]
<1>1. IdentifiesEntities(p, d)
  BY DEF MeetsChecklist
<1>2. FromDomain(d)
  BY <1>1 DEF IdentifiesEntities, FromDomain
<1>3. ASSUME d.externalIds # None, NEW j \in DOMAIN p.mappings,
             d.id \in {p.mappings[j].source, p.mappings[j].target}
      PROVE  /\ ReadsMapping(Content(p, ArtifactForRole(p, p.mappings[j].role)))
             /\ CrossCheck(d, Geometry(p, p.mappings[j])) = "none"
  <2> DEFINE m == p.mappings[j]
             g(i) == [source |-> m.source, target |-> m.target,
                      entries |-> Content(p, i).rows]
  <2>1. PICK i \in MappingArtifacts(p, m) :
          TableFits(Content(p, i), "domain_mapping") => Covers(d, g(i))
    BY <1>1, <1>3 DEF IdentifiesEntities
  <2>2. ArtifactForRole(p, m.role) = i
    BY OnlyArtifactOfRole
  <2>3. i \in Indices(p) /\ p.artifacts[i].format = "domain_mapping"
    BY <1>3 DEF MappingArtifacts, OtherEncoding, Identifies
  <2>4. TableFits(Content(p, i), "domain_mapping")
    BY <2>3 DEF MeetsChecklist, PayloadFits, ColumnTypes
  <2>5. ReadsMapping(Content(p, i))
    BY <2>4 DEF TableFits, HasTypes, ColumnTypes, MappingFormats, ReadsMapping, HasColumn
  <2>6. d.count \in 1 .. MaxIndex
    <3>1. d.count # 0
      BY <1>3 DEF EmptyIdentified, Identifies
    <3>2. d.externalIds = d.count /\ d.externalIds \in 0 .. MaxIndex
      BY <1>1, <1>3 DEF IdentifiesEntities, IsPackage, IsManifest
    <3>3. MaxIndex \in Nat
      BY DomainsAssumption
    <3> HIDE DEF d
    <3> QED
      BY <3>1, <3>2, <3>3
  <2>7. Geometry(p, m) = g(i)
    BY <2>2 DEF Geometry
  <2>8. CrossCheck(d, g(i)) = "none"
    <3>1. Covers(d, g(i))
      BY <2>1, <2>4
    <3> HIDE DEF d, g
    <3> QED
      BY <2>6, <3>1, CoverAccepted
  <2> QED
    BY <2>2, <2>5, <2>7, <2>8
<1> QED
  BY <1>2, <1>3

\* What the checklist allows the validator accepts, but for the five.
LEMMA ChecklistMeansConformant ==
  ASSUME NEW p, IsPackage(p), MeetsChecklist(p), ~Dotted(p), ~OtherEncoding(p),
         ~EmptyIdentified(p), ~SharedRole(p), ~OddRaster(p)
  PROVE  Conformant(p)
<1>1. CheckP1(p)
  BY DEF CheckP1, Dotted
<1>2. CheckR1(p)
  <2>1. PICK i \in Indices(p) :
          RegistryArtifacts(p) = {i} /\ ParsesAsRegistry(Content(p, i))
    BY DEF MeetsChecklist, HasRegistry
  <2>2. Cardinality(RegistryArtifacts(p)) = 1 /\ TheRegistry(p) = i
    BY <2>1, FS_Singleton DEF TheRegistry
  <2> QED
    BY <2>1, <2>2 DEF CheckR1, RegistryLoads
<1>3. CheckR2(p)
  BY FittingAttributesAreRead DEF CheckR2, MeetsChecklist, WithFormat
<1>4. CheckD1(p)
  BY IdentifiedPassesD1
<1>5. CheckMAP1(p)
  <2> SUFFICES ASSUME NEW j \in DOMAIN p.mappings
               PROVE  LET i == ArtifactForRole(p, p.mappings[j].role) IN
                        i # 0 /\ p.artifacts[i].format \in MappingFormats
    BY DEF CheckMAP1
  <2>1. PICK i \in MappingArtifacts(p, p.mappings[j]) : TRUE
    BY DEF MeetsChecklist
  <2>2. i \in Indices(p) /\ p.artifacts[i].format \in MappingFormats
    BY DEF MappingArtifacts
  <2>3. i # 0
    BY <2>2, FiniteArtifacts DEF IsPackage
  <2> QED
    BY <2>2, <2>3, OnlyArtifactOfRole
<1>6. CheckF1(p)
  BY FittingShape DEF CheckF1, MeetsChecklist
<1>7. CheckPARAM1(p)
  <2>1. \A i \in WithFormat(p, "scalars") : ReadsScalars(Content(p, i), Registry(p))
    BY DEF MeetsChecklist, PayloadFits, WithFormat
  <2>2. \A i \in WithFormat(p, "attributes") :
          ReadsAttributes(Content(p, i)) /\ ~StrayColumns(Content(p, i))
    BY FittingAttributesAreRead DEF MeetsChecklist, WithFormat
  <2>3. \A id \in Parameters(Registry(p)) : CountParameterSources(p, id) = 1
    BY <2>2, SingleSourceCounts DEF MeetsChecklist, SingleSources
  <2> QED
    BY <2>1, <2>2, <2>3 DEF CheckPARAM1
<1> QED
  BY <1>1, <1>2, <1>3, <1>4, <1>5, <1>6, <1>7 DEF Conformant, Checks, Outcome, Ran

\* RejectionsJustified for packages of any size: the checks refuse nothing that
\* the checklist allows, but for the five named exceptions.
THEOREM RejectionsAreJustified == Spec => []RejectionsJustified
<1>1. OutcomesSoFar => RejectionsJustified
  BY CompleteReport, ChecklistMeansConformant DEF RejectionsJustified, OutcomesSoFar
<1> QED
  BY <1>1, OutcomesSoFarHolds, PTL
=============================================================================
