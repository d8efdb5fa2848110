--------------------------- MODULE PackageProofs ---------------------------
(***************************************************************************)
(* What the proofs about packages share: a package with the verdict of the *)
(* validator meets the checklist but for what no check reads; a            *)
(* staging directory keeps what it holds; and a sort sorts.  All that for  *)
(* packages, directories and records of any size.                          *)
(***************************************************************************)
EXTENDS Conformance, Staging, Record, FiniteSetTheorems, WellFoundedInduction, TLAPS

-----------------------------------------------------------------------------
(***************************************************************************)
(* Numbers and finite sets.                                                *)
(***************************************************************************)

\* 0 .. n - 1 is finite and has n elements.
LEMMA Interval ==
  ASSUME NEW n \in Nat
  PROVE  /\ IsFiniteSet(0 .. n - 1)
         /\ Cardinality(0 .. n - 1) = n
         /\ IsFiniteSet(1 .. n)
<1> DEFINE b == n - 1
<1>1. 0 \in Int /\ b \in Int
  OBVIOUS
<1>2. IsFiniteSet(0 .. b) /\ Cardinality(0 .. b) = IF 0 > b THEN 0 ELSE b - 0 + 1
  <2> HIDE DEF b
  <2> QED
    BY <1>1, FS_Interval
<1>3. IsFiniteSet(1 .. n)
  BY FS_Interval
<1> QED
  BY <1>2, <1>3

\* A set of natural numbers that is not empty has a smallest one.
LEMMA SmallestExists ==
  ASSUME NEW S \in SUBSET Nat, S # {}
  PROVE  Min(S) \in S /\ \A n \in S : Min(S) <= n
<1> DEFINE R == {ss \in Nat \X Nat : ss[1] < ss[2]}
<1>1. IsWellFoundedOn(R, Nat)
  BY NatLessThanWellFounded DEF OpToRel
<1>2. PICK n \in S : \A k \in S : ~(<<k, n>> \in R)
  BY <1>1, WFMin
<1>3. \A k \in S : k \in Nat
  OBVIOUS
<1>4. \A k \in S : ~(k < n)
  BY <1>2, <1>3
<1>5. \A k \in S : n <= k
  <2> HIDE DEF R
  <2> QED
    BY <1>3, <1>4
<1> QED
  BY <1>5 DEF Min

\* A finite set with one element is that element's.
LEMMA OnlyElement ==
  ASSUME NEW S, IsFiniteSet(S), Cardinality(S) = 1
  PROVE  \E x \in S : S = {x}
BY FS_Singleton

-----------------------------------------------------------------------------
(***************************************************************************)
(* The parts of a package.                                                 *)
(***************************************************************************)

\* The artifacts of a manifest are finitely many.
LEMMA FiniteArtifacts ==
  ASSUME NEW p, IsManifest(p), NEW S \in SUBSET Indices(p)
  PROVE  IsFiniteSet(S) /\ Cardinality(S) \in Nat /\ S \subseteq Nat \ {0}
<1> DEFINE Values == {p.artifacts[k] : k \in DOMAIN p.artifacts}
<1>1. p.artifacts \in Seq(Values)
  BY DEF IsManifest, IsSequence
<1>2. Indices(p) = 1 .. Len(p.artifacts) /\ Len(p.artifacts) \in Nat
  <2> HIDE DEF Values
  <2> QED
    BY <1>1 DEF Indices
<1>3. IsFiniteSet(Indices(p))
  BY <1>2, Interval
<1>4. IsFiniteSet(S)
  BY <1>3, FS_Subset
<1> QED
  BY <1>2, <1>4, FS_CardinalityType

\* artifact_for_role finds an artifact with that role.
LEMMA ArtifactForRoleFinds ==
  ASSUME NEW p, IsManifest(p), NEW role, ArtifactForRole(p, role) # 0
  PROVE  /\ ArtifactForRole(p, role) \in Indices(p)
         /\ p.artifacts[ArtifactForRole(p, role)].role = role
<1> DEFINE S == {i \in 1 .. Len(p.artifacts) : p.artifacts[i].role = role}
           Values == {p.artifacts[k] : k \in DOMAIN p.artifacts}
<1>1. ArtifactForRole(p, role) = IF S # {} THEN Min(S) ELSE 0
  BY DEF ArtifactForRole, SelectInSeq
<1>2. p.artifacts \in Seq(Values)
  BY DEF IsManifest, IsSequence
<1>3. Indices(p) = 1 .. Len(p.artifacts) /\ Len(p.artifacts) \in Nat
  <2> HIDE DEF Values
  <2> QED
    BY <1>2 DEF Indices
<1>4. S # {} /\ S \in SUBSET Nat
  BY <1>1, <1>3
<1>5. Min(S) \in S
  BY <1>4, SmallestExists
<1> QED
  BY <1>1, <1>3, <1>4, <1>5

\* What the file of an artifact holds is typed.
LEMMA ContentTyped ==
  ASSUME NEW p, IsPackage(p), NEW i
  PROVE  IsContent(Content(p, i))
BY DEF IsPackage, AreFiles, Content, FileAt, IsContent, Absent

\* A conformant package has passed every check: without a registry R1 fails,
\* so that nothing is skipped.
LEMMA AllChecksHold ==
  ASSUME NEW p, Conformant(p)
  PROVE  /\ CheckP1(p) /\ CheckR1(p) /\ CheckR2(p) /\ CheckD1(p)
         /\ CheckMAP1(p) /\ CheckF1(p) /\ CheckPARAM1(p)
<1>1. \A id \in {"P1", "R1", "R2", "D1", "MAP1", "F1", "PARAM1"} :
        Outcome(id, p) # "fail"
  BY DEF Conformant, Checks
<1>2. CheckP1(p) /\ CheckR1(p) /\ CheckD1(p) /\ CheckMAP1(p) /\ CheckF1(p)
  BY <1>1 DEF Outcome, Ran
<1>3. CheckR2(p) /\ CheckPARAM1(p)
  BY <1>1, <1>2 DEF Outcome, Ran
<1> QED
  BY <1>2, <1>3

-----------------------------------------------------------------------------
(***************************************************************************)
(* What the checks establish, one part of the checklist after the          *)
(* other.                                                                  *)
(***************************************************************************)

\* R1: exactly one registry, which parses.
LEMMA RegistryIsThere ==
  ASSUME NEW p, IsPackage(p), CheckR1(p)
  PROVE  HasRegistry(p)
<1>1. RegistryArtifacts(p) \subseteq Indices(p)
  BY DEF RegistryArtifacts, WithFormat
<1>2. \E x \in RegistryArtifacts(p) : RegistryArtifacts(p) = {x}
  BY <1>1, FiniteArtifacts, OnlyElement DEF CheckR1, RegistryLoads, IsPackage
<1>3. PICK x \in RegistryArtifacts(p) : RegistryArtifacts(p) = {x}
  BY <1>2
<1>4. TheRegistry(p) = x
  BY <1>3 DEF TheRegistry
<1> QED
  BY <1>1, <1>3, <1>4 DEF HasRegistry, CheckR1, RegistryLoads

\* F1, R2, PARAM1, D1 and MAP1: a payload is as its format says, or what is
\* wrong with it is what nobody reads.
LEMMA PayloadIsRead ==
  ASSUME NEW p, IsPackage(p), Conformant(p), NEW i \in Indices(p)
  PROVE  PayloadFits(p, i) \/ Unread(p, i)
<1> DEFINE content == Content(p, i)
           format == p.artifacts[i].format
<1>1. format \in Formats /\ IsContent(content)
  BY ContentTyped DEF IsPackage, IsManifest
<1>2. HasShape(content, format)
  BY AllChecksHold DEF CheckF1
<1>3. CASE format = "scalars"
  BY <1>3, AllChecksHold
     DEF PayloadFits, CheckPARAM1, WithFormat, ColumnTypes
<1>4. CASE format = "registry"
  BY <1>4 DEF PayloadFits, ColumnTypes
<1>5. CASE format \in {"cog", "zarr"}
  <2>1. CASE format = "cog"
    <3>1. ReadsCog(content)
      BY <1>2, <2>1 DEF HasShape, RequiredColumns
    <3>2. content.kind = "cog"
      BY <3>1 DEF ReadsCog
    <3> QED
      BY <2>1, <3>2 DEF PayloadFits, ColumnTypes
  <2>2. CASE format = "zarr"
    <3>1. ReadsZarr(content)
      BY <1>2, <2>2 DEF HasShape, RequiredColumns
    <3>2. content.kind = "zarr"
      BY <3>1 DEF ReadsZarr
    <3> QED
      BY <2>2, <3>2 DEF PayloadFits, ColumnTypes
  <2> QED
    BY <1>5, <2>1, <2>2
<1>6. CASE format \in DOMAIN RequiredColumns
  <2>1. /\ content.kind = "parquet"
        /\ RequiredColumns[format] \subseteq DOMAIN content.columns
    BY <1>2, <1>6 DEF HasShape, ReadsGeoparquet, RequiredColumns
  <2>2. CASE content.rows = <<>>
    BY <1>6, <2>1, <2>2 DEF Unread
  <2>3. CASE content.rows # <<>> /\ format = "attributes"
    <3>1. /\ ReadsAttributes(content)
          /\ AttributeColumns(content) \subseteq DOMAIN Registry(p)
      BY <2>3, AllChecksHold DEF CheckR2, WithFormat
    <3>2. CASE StrayColumns(content) \/ ~DenselyIndexed(content)
      BY <1>6, <2>1, <2>3, <3>2 DEF Unread
    <3>3. CASE ~StrayColumns(content) /\ DenselyIndexed(content)
      <4>1. /\ "entity_index" \in DOMAIN content.columns
            /\ content.columns["entity_index"] = "int64"
            /\ "entity_index" \notin content.nulls
            /\ AttributeColumns(content) # {}
            /\ AttributeColumns(content) \cap content.nulls = {}
        BY <2>3, <3>1 DEF ReadsAttributes, HasColumn
      <4>2. DOMAIN content.columns = {"entity_index"} \cup AttributeColumns(content)
        BY <3>3, <4>1 DEF StrayColumns
      <4>3. content.nulls = {}
        BY <1>1, <2>1, <4>1, <4>2 DEF IsContent
      <4>4. TableFits(content, format)
        BY <2>1, <2>3, <3>3, <4>1, <4>2, <4>3
           DEF TableFits, HasTypes, ColumnTypes, MappingFormats
      <4> QED
        BY <2>3, <3>1, <4>4 DEF PayloadFits
    <3> QED
      BY <3>2, <3>3
  <2>4. CASE content.rows # <<>> /\ format # "attributes" /\ ~ReadByD1(p, i)
    BY <1>6, <2>1, <2>4 DEF Unread
  <2>5. CASE content.rows # <<>> /\ ReadByD1(p, i)
    <3>1. format = "domain_mapping"
      BY <2>5 DEF ReadByD1
    <3>2. PICK k \in DOMAIN p.domains, j \in DOMAIN p.mappings :
            /\ Identifies(p.mappings[j], p.domains[k])
            /\ ArtifactForRole(p, p.mappings[j].role) = i
      BY <2>5 DEF ReadByD1
    <3>3. i # 0
      BY FiniteArtifacts DEF IsPackage
    <3>4. ReadsMapping(content)
      BY <3>2, <3>3, AllChecksHold DEF CheckD1, Identifies
    <3>5. TableFits(content, format)
      BY <2>1, <2>5, <3>1, <3>4
         DEF TableFits, HasTypes, ColumnTypes, MappingFormats, ReadsMapping, HasColumn
    <3> QED
      BY <3>1, <3>5 DEF PayloadFits
  <2> QED
    BY <2>2, <2>3, <2>4, <2>5
<1> QED
  BY <1>1, <1>3, <1>4, <1>5, <1>6 DEF Formats

-----------------------------------------------------------------------------
(***************************************************************************)
(* The source of a parameter.                                              *)
(***************************************************************************)

\* Counting once per kind of source is counting the candidates, where every
\* column besides the index is of an attribute.
LEMMA ParameterHasOneSource ==
  ASSUME NEW p, IsPackage(p), NEW id, CountParameterSources(p, id) = 1,
         \A i \in WithFormat(p, "attributes") : ~StrayColumns(Content(p, i))
  PROVE  \E s \in SourceCandidates(p, id) : SourceCandidates(p, id) = {s}
<1> DEFINE keys == KeySources(p, id)
           columns == ColumnSources(p, id)
           variables == VariableSources(p, id)
<1>1. keys \subseteq Indices(p) /\ columns \subseteq Indices(p) /\ variables \subseteq Indices(p)
  BY DEF KeySources, ColumnSources, VariableSources, WithFormat
<1>2. /\ IsFiniteSet(keys) /\ IsFiniteSet(columns) /\ IsFiniteSet(variables)
      /\ Cardinality(keys) \in Nat /\ Cardinality(columns) \in Nat
      /\ Cardinality(variables) \in Nat
  BY <1>1, FiniteArtifacts DEF IsPackage
<1>3. Cardinality(keys) + Cardinality(columns) + Cardinality(variables) = 1
  BY DEF CountParameterSources
<1>4. columns = {i \in WithFormat(p, "attributes") :
                   id \in DOMAIN Content(p, i).columns \ {"entity_index"}}
  BY DEF ColumnSources, StrayColumns
<1>5. SourceCandidates(p, id) =
        {<<i, "key">> : i \in keys} \cup {<<i, "column">> : i \in columns}
          \cup {<<i, "variable">> : i \in variables}
  BY <1>4 DEF SourceCandidates
<1> HIDE DEF keys, columns, variables
<1>6. CASE Cardinality(keys) = 1
  <2>1. Cardinality(columns) = 0 /\ Cardinality(variables) = 0
    BY <1>2, <1>3, <1>6
  <2>2. columns = {} /\ variables = {}
    BY <1>2, <2>1, FS_EmptySet
  <2>3. PICK x : keys = {x}
    BY <1>2, <1>6, OnlyElement
  <2>4. SourceCandidates(p, id) = {<<x, "key">>}
    BY <1>5, <2>2, <2>3
  <2> QED
    BY <2>4
<1>7. CASE Cardinality(columns) = 1
  <2>1. Cardinality(keys) = 0 /\ Cardinality(variables) = 0
    BY <1>2, <1>3, <1>7
  <2>2. keys = {} /\ variables = {}
    BY <1>2, <2>1, FS_EmptySet
  <2>3. PICK x : columns = {x}
    BY <1>2, <1>7, OnlyElement
  <2>4. SourceCandidates(p, id) = {<<x, "column">>}
    BY <1>5, <2>2, <2>3
  <2> QED
    BY <2>4
<1>8. CASE Cardinality(variables) = 1
  <2>1. Cardinality(keys) = 0 /\ Cardinality(columns) = 0
    BY <1>2, <1>3, <1>8
  <2>2. keys = {} /\ columns = {}
    BY <1>2, <2>1, FS_EmptySet
  <2>3. PICK x : variables = {x}
    BY <1>2, <1>8, OnlyElement
  <2>4. SourceCandidates(p, id) = {<<x, "variable">>}
    BY <1>5, <2>2, <2>3
  <2> QED
    BY <2>4
<1> QED
  BY <1>2, <1>3, <1>6, <1>7, <1>8

\* PARAM1: every parameter has a single source, unless a table has columns that
\* are no attributes.
LEMMA SourcesAreSingle ==
  ASSUME NEW p, IsPackage(p), Conformant(p)
  PROVE  \/ SingleSources(p)
         \/ \E i \in WithFormat(p, "attributes") : StrayColumns(Content(p, i))
BY AllChecksHold, ParameterHasOneSource DEF SingleSources, CheckPARAM1

-----------------------------------------------------------------------------
(***************************************************************************)
(* The mappings of a domain.                                               *)
(***************************************************************************)

\* MAP1: the role of a mapping leads to an artifact of a mapping format.
LEMMA MappingIsThere ==
  ASSUME NEW p, IsPackage(p), Conformant(p), NEW j \in DOMAIN p.mappings
  PROVE  ArtifactForRole(p, p.mappings[j].role) \in MappingArtifacts(p, p.mappings[j])
BY AllChecksHold, ArtifactForRoleFinds DEF CheckMAP1, MappingArtifacts, IsPackage

\* An accepted cross-check is a cover, where the side of the domain is read as
\* integers.
LEMMA AcceptedCovers ==
  ASSUME NEW d, d.count \in Nat, NEW m, CrossCheck(d, m) = "none",
         IndicesOn(m, SideForDomain(m, d.id)) \subseteq Int
  PROVE  Covers(d, m)
<1> DEFINE side == SideForDomain(m, d.id)
           S == IndicesOn(m, side)
           n == d.count
           derived == DeriveCardinality(S)
<1>1. side # "none"
  BY DEF CrossCheck
<1>2. \A x \in S : x >= 0 /\ x < n
  BY DEF CrossCheck, InRange
<1>3. derived.error = "none" /\ derived.count = n
  BY <1>1, <1>2 DEF CrossCheck
<1> HIDE DEF side
<1>4. Cardinality(S) = n
  <2> HIDE DEF S, n
  <2> QED
    BY <1>3 DEF DeriveCardinality, Failed, Derived
<1>5. S \subseteq 0 .. n - 1
  <2> SUFFICES ASSUME NEW x \in S PROVE x \in 0 .. n - 1
    OBVIOUS
  <2>1. x \in Int /\ x >= 0 /\ x < n
    BY <1>2 DEF side
  <2> QED
    BY <2>1
<1>6. S = 0 .. n - 1
  BY <1>4, <1>5, Interval, FS_Subset
<1> QED
  BY <1>1, <1>6 DEF Covers, side

\* A table that fits domain_mapping has integers on either side of its rows.
LEMMA IndicesAreRead ==
  ASSUME NEW p, IsPackage(p), NEW i, TableFits(Content(p, i), "domain_mapping"),
         NEW source, NEW target, NEW side \in {"source", "target"}
  PROVE  IndicesOn([source |-> source, target |-> target,
                    entries |-> Content(p, i).rows], side) \subseteq Int
<1> DEFINE content == Content(p, i)
           name == IF side = "source" THEN "source_index" ELSE "target_index"
<1>1. /\ content.kind = "parquet"
      /\ name \in DOMAIN content.columns
      /\ content.columns[name] = "int64"
      /\ name \notin content.nulls
  BY DEF TableFits, HasTypes, ColumnTypes, MappingFormats
<1>2. name \in DOMAIN FilledBy /\ FilledBy[name] = side
  BY DEF FilledBy
<1>3. \A k \in DOMAIN content.rows : content.rows[k][side] \in I64
  <2> HIDE DEF name
  <2>1. IsContent(content)
    BY ContentTyped
  <2> QED
    BY <1>1, <1>2, <2>1 DEF IsContent
<1>4. I64 \subseteq Int
  BY DomainsAssumption DEF I64
<1> QED
  BY <1>3, <1>4 DEF IndicesOn

\* D1: the mappings of a domain with external_ids identify its entities.
LEMMA EntitiesAreIdentified ==
  ASSUME NEW p, IsPackage(p), Conformant(p), NEW k \in DOMAIN p.domains
  PROVE  IdentifiesEntities(p, p.domains[k])
<1> DEFINE d == p.domains[k]
<1> SUFFICES ASSUME d.externalIds # None
             PROVE  /\ d.externalIds = d.count
                    /\ \A j \in DOMAIN p.mappings : LET m == p.mappings[j] IN
                         d.id \in {m.source, m.target} =>
                           \E i \in MappingArtifacts(p, m) :
                             TableFits(Content(p, i), "domain_mapping") =>
                               Covers(d, [source |-> m.source, target |-> m.target,
                                          entries |-> Content(p, i).rows])
  BY DEF IdentifiesEntities
<1>1. CheckD1(p)
  BY AllChecksHold
<1>2. FromDomain(d)
  BY <1>1 DEF CheckD1
<1>3. ASSUME NEW j \in DOMAIN p.mappings,
             d.id \in {p.mappings[j].source, p.mappings[j].target}
      PROVE  LET m == p.mappings[j] IN
               \E i \in MappingArtifacts(p, m) :
                 TableFits(Content(p, i), "domain_mapping") =>
                   Covers(d, [source |-> m.source, target |-> m.target,
                              entries |-> Content(p, i).rows])
  <2> DEFINE m == p.mappings[j]
             i == ArtifactForRole(p, m.role)
             g == [source |-> m.source, target |-> m.target,
                   entries |-> Content(p, i).rows]
  <2>1. i \in MappingArtifacts(p, m)
    BY MappingIsThere
  <2>2. i # 0
    BY <2>1, FiniteArtifacts DEF MappingArtifacts, IsPackage
  <2>3. CrossCheck(d, g) = "none"
    BY <1>1, <1>3, <2>2 DEF CheckD1, Geometry
  <2>4. ASSUME TableFits(Content(p, i), "domain_mapping")
        PROVE  Covers(d, g)
    <3>1. SideForDomain(g, d.id) \in {"source", "target"}
      BY <1>3 DEF SideForDomain
    <3>2. IndicesOn(g, SideForDomain(g, d.id)) \subseteq Int
      BY <2>4, <3>1, IndicesAreRead
    <3>3. d.count \in Nat
      BY DEF IsPackage, IsManifest
    <3> HIDE DEF d, g
    <3> QED
      BY <2>3, <3>2, <3>3, AcceptedCovers
  <2> QED
    BY <2>1, <2>4
<1> QED
  BY <1>2, <1>3 DEF FromDomain

-----------------------------------------------------------------------------
\* The verdict of the validator means the checklist of 11.1, but for what no
\* check reads of it: derive and materialize, which require the verdict of their input and
\* their output, rely on it.
THEOREM ConformantMeansChecklist ==
  ASSUME NEW p, IsPackage(p), Conformant(p)
  PROVE  MeetsChecklistAsRead(p)
BY AllChecksHold, RegistryIsThere, PayloadIsRead, SourcesAreSingle, MappingIsThere,
   EntitiesAreIdentified
   DEF MeetsChecklistAsRead

-----------------------------------------------------------------------------
(***************************************************************************)
(* Sequences and paths.                                                    *)
(***************************************************************************)

\* A sequence is a function from its places.
LEMMA SequencePlaces ==
  ASSUME NEW s, IsSequence(s)
  PROVE  /\ Len(s) \in Nat
         /\ DOMAIN s = 1 .. Len(s)
         /\ s = [k \in 1 .. Len(s) |-> s[k]]
<1> DEFINE Values == {s[k] : k \in DOMAIN s}
<1>1. s \in Seq(Values)
  BY DEF IsSequence
<1> HIDE DEF Values
<1> QED
  BY <1>1

\* A function from 1 .. n is a sequence of n values.
LEMMA SequenceOf ==
  ASSUME NEW n \in Nat, NEW s, s = [k \in 1 .. n |-> s[k]]
  PROVE  IsSequence(s) /\ Len(s) = n /\ DOMAIN s = 1 .. n
<1> DEFINE Values == {s[k] : k \in 1 .. n}
<1>1. s \in [1 .. n -> Values] /\ DOMAIN s = 1 .. n
  OBVIOUS
<1>2. s \in Seq(Values) /\ Len(s) = n
  <2> HIDE DEF Values
  <2> QED
    BY <1>1
<1> QED
  BY <1>1, <1>2 DEF IsSequence

\* One more value after a sequence.
LEMMA AppendedSequence ==
  ASSUME NEW s, IsSequence(s), NEW x
  PROVE  /\ IsSequence(Append(s, x)) /\ Len(Append(s, x)) = Len(s) + 1
         /\ DOMAIN Append(s, x) = 1 .. Len(s) + 1
         /\ Append(s, x)[Len(s) + 1] = x
         /\ \A k \in 1 .. Len(s) : Append(s, x)[k] = s[k] /\ k # Len(s) + 1
         /\ \A k \in 1 .. Len(s) + 1 : k = Len(s) + 1 \/ k \in 1 .. Len(s)
<1> DEFINE t == Append(s, x)
           S == {s[k] : k \in DOMAIN s} \cup {x}
           n == Len(s)
<1>1. n \in Nat /\ DOMAIN s = 1 .. n /\ s = [k \in 1 .. n |-> s[k]]
  BY SequencePlaces
<1>2. s \in Seq(S) /\ x \in S
  <2>1. \A k \in 1 .. n : s[k] \in S
    BY <1>1
  <2>2. x \in S
    OBVIOUS
  <2> HIDE DEF S, n
  <2>3. s \in [1 .. n -> S]
    BY <1>1, <2>1
  <2> QED
    BY <1>1, <2>2, <2>3
<1> HIDE DEF S
<1>3. /\ Append(s, x) \in Seq(S) /\ Len(Append(s, x)) = n + 1
      /\ \A k \in 1 .. n + 1 : Append(s, x)[k] = IF k = n + 1 THEN x ELSE s[k]
  BY <1>1, <1>2
<1>4. ASSUME NEW u \in Seq(S)
      PROVE  u = [k \in 1 .. Len(u) |-> u[k]]
  OBVIOUS
<1>5. IsSequence(t) /\ Len(t) = n + 1 /\ DOMAIN t = 1 .. n + 1
  <2>1. n + 1 \in Nat
    BY <1>1
  <2>2. t = [k \in 1 .. n + 1 |-> t[k]]
    BY <1>3, <1>4
  <2> QED
    BY <2>1, <2>2, SequenceOf
<1> HIDE DEF n
<1>6. \A k \in 1 .. n : k # n + 1 /\ k \in 1 .. n + 1
  BY <1>1
<1>7. \A k \in 1 .. n + 1 : k = n + 1 \/ k \in 1 .. n
  BY <1>1
<1>8. n + 1 \in 1 .. n + 1
  BY <1>1
<1>9. t[n + 1] = x /\ \A k \in 1 .. n : t[k] = s[k]
  BY <1>3, <1>6, <1>8
<1> QED
  BY <1>5, <1>6, <1>7, <1>9 DEF n, t

\* A part of a sequence, which may be empty.
LEMMA PartOfSequence ==
  ASSUME NEW s, IsSequence(s), NEW m \in Nat \ {0}, NEW n \in Nat, m <= n + 1
  PROVE  /\ IsSequence(SubSeq(s, m, n))
         /\ Range(SubSeq(s, m, n)) = {s[k] : k \in m .. n}
<1> DEFINE l == 1 + n - m
           t == SubSeq(s, m, n)
<1>1. l \in Nat
  OBVIOUS
<1>2. t = [k \in 1 .. l |-> s[k + m - 1]]
  OBVIOUS
<1>3. \A k \in 1 .. l : k + m - 1 \in m .. n
  OBVIOUS
<1>4. \A k \in m .. n : k - m + 1 \in 1 .. l /\ (k - m + 1) + m - 1 = k
  OBVIOUS
<1> HIDE DEF l, t
<1>5. t = [k \in 1 .. l |-> t[k]]
  BY <1>2
<1>6. IsSequence(t) /\ DOMAIN t = 1 .. l
  BY <1>1, <1>5, SequenceOf
<1>7. Range(t) = {t[k] : k \in 1 .. l}
  BY <1>6 DEF Range
<1>8. \A k \in 1 .. l : t[k] = s[k + m - 1]
  BY <1>2
<1>9. ASSUME NEW k \in m .. n
      PROVE  s[k] \in {t[i] : i \in 1 .. l}
  BY <1>4, <1>8
<1>10. \A k \in 1 .. l : t[k] \in {s[i] : i \in m .. n}
  BY <1>3, <1>8
<1> QED
  BY <1>6, <1>7, <1>9, <1>10 DEF t

\* Two sequences one after the other.
LEMMA JoinedSequences ==
  ASSUME NEW s, NEW t, IsSequence(s), IsSequence(t)
  PROVE  IsSequence(s \o t) /\ Range(s \o t) = Range(s) \cup Range(t)
<1> DEFINE S == Range(s) \cup Range(t)
           m == Len(s)
           n == Len(t)
<1>1. /\ m \in Nat /\ DOMAIN s = 1 .. m
      /\ n \in Nat /\ DOMAIN t = 1 .. n
  BY SequencePlaces
<1>2. s \in Seq(S) /\ t \in Seq(S)
  <2>1. s \in Seq({s[k] : k \in DOMAIN s}) /\ t \in Seq({t[k] : k \in DOMAIN t})
    BY DEF IsSequence
  <2>2. (\A k \in 1 .. m : s[k] \in S) /\ (\A k \in 1 .. n : t[k] \in S)
    BY <1>1 DEF Range
  <2>3. s = [k \in 1 .. m |-> s[k]] /\ t = [k \in 1 .. n |-> t[k]]
    BY SequencePlaces
  <2> HIDE DEF S, m, n
  <2>4. s \in [1 .. m -> S] /\ t \in [1 .. n -> S]
    BY <2>2, <2>3
  <2> QED
    BY <1>1, <2>4
<1> HIDE DEF S
<1>3. /\ s \o t \in Seq(S) /\ Len(s \o t) = m + n /\ DOMAIN (s \o t) = 1 .. m + n
      /\ \A k \in 1 .. m + n : (s \o t)[k] = IF k <= m THEN s[k] ELSE t[k - m]
  BY <1>1, <1>2
<1>4. IsSequence(s \o t)
  <2>1. m + n \in Nat
    BY <1>1
  <2>2. ASSUME NEW u \in Seq(S)
        PROVE  u = [k \in 1 .. Len(u) |-> u[k]]
    OBVIOUS
  <2>3. s \o t = [k \in 1 .. m + n |-> (s \o t)[k]]
    BY <1>3, <2>2
  <2> QED
    BY <2>1, <2>3, SequenceOf
<1>5. ASSUME NEW k \in 1 .. m + n
      PROVE  (s \o t)[k] \in Range(s) \cup Range(t)
  <2>1. CASE k <= m
    <3>1. k \in 1 .. m
      BY <1>1, <2>1
    <3> QED
      BY <1>1, <1>3, <2>1, <3>1 DEF Range
  <2>2. CASE ~(k <= m)
    <3>1. k - m \in 1 .. n
      BY <1>1, <2>2
    <3> QED
      BY <1>1, <1>3, <2>2, <3>1 DEF Range
  <2> QED
    BY <2>1, <2>2
<1>6. ASSUME NEW k \in 1 .. m
      PROVE  s[k] \in Range(s \o t)
  <2>1. k \in 1 .. m + n /\ k <= m
    BY <1>1
  <2> QED
    BY <1>3, <2>1 DEF Range
<1>7. ASSUME NEW k \in 1 .. n
      PROVE  t[k] \in Range(s \o t)
  <2>1. m + k \in 1 .. m + n /\ ~(m + k <= m) /\ (m + k) - m = k
    BY <1>1
  <2> QED
    BY <1>3, <2>1 DEF Range
<1>8. Range(s \o t) \subseteq Range(s) \cup Range(t)
  BY <1>3, <1>5 DEF Range
<1>9. Range(s) \subseteq Range(s \o t) /\ Range(t) \subseteq Range(s \o t)
  BY <1>1, <1>6, <1>7 DEF Range
<1> QED
  BY <1>4, <1>8, <1>9

\* A prefix is a shorter sequence with the same values.
LEMMA PrefixByPlaces ==
  ASSUME NEW s, NEW t, IsSequence(s), IsSequence(t)
  PROVE  IsPrefix(s, t) <=> /\ Len(s) <= Len(t)
                            /\ \A k \in 1 .. Len(s) : s[k] = t[k]
<1>1. /\ Len(s) \in Nat /\ s = [k \in 1 .. Len(s) |-> s[k]]
      /\ Len(t) \in Nat /\ t = [k \in 1 .. Len(t) |-> t[k]]
  BY SequencePlaces
<1>2. \A u : SubSeq(u, 1, Len(s)) = [k \in 1 .. Len(s) |-> u[k]]
  BY <1>1
<1> QED
  BY <1>1, <1>2 DEF IsPrefix

\* Two prefixes of one sequence are prefixes of each other.
LEMMA PrefixesCompare ==
  ASSUME NEW s, NEW t, NEW u, IsSequence(s), IsSequence(t), IsSequence(u),
         IsPrefix(s, u), IsPrefix(t, u)
  PROVE  IsPrefix(s, t) \/ IsPrefix(t, s)
<1>1. Len(s) \in Nat /\ Len(t) \in Nat
  BY SequencePlaces
<1>2. /\ \A k \in 1 .. Len(s) : s[k] = u[k]
      /\ \A k \in 1 .. Len(t) : t[k] = u[k]
  BY PrefixByPlaces
<1>3. CASE Len(s) <= Len(t)
  <2>1. \A k \in 1 .. Len(s) : s[k] = t[k]
    BY <1>1, <1>2, <1>3
  <2> QED
    BY <1>3, <2>1, PrefixByPlaces
<1>4. CASE Len(t) <= Len(s)
  <2>1. \A k \in 1 .. Len(t) : t[k] = s[k]
    BY <1>1, <1>2, <1>4
  <2> QED
    BY <1>4, <2>1, PrefixByPlaces
<1> QED
  BY <1>1, <1>3, <1>4

\* Prefixes of each other are equal.
LEMMA PrefixesAreOrdered ==
  ASSUME NEW s, NEW t, IsSequence(s), IsSequence(t)
  PROVE  /\ IsPrefix(s, s)
         /\ IsPrefix(s, t) /\ IsPrefix(t, s) => s = t
<1>1. /\ Len(s) \in Nat /\ s = [k \in 1 .. Len(s) |-> s[k]]
      /\ Len(t) \in Nat /\ t = [k \in 1 .. Len(t) |-> t[k]]
  BY SequencePlaces
<1>2. IsPrefix(s, s)
  BY <1>1, PrefixByPlaces
<1>3. ASSUME IsPrefix(s, t), IsPrefix(t, s)
      PROVE  s = t
  <2>1. Len(s) <= Len(t) /\ Len(t) <= Len(s) /\ \A k \in 1 .. Len(s) : s[k] = t[k]
    BY <1>3, PrefixByPlaces
  <2>2. Len(s) = Len(t)
    <3>1. Len(s) \in Nat /\ Len(t) \in Nat
      BY <1>1
    <3> QED
      BY <2>1, <3>1
  <2>3. s = [k \in 1 .. Len(s) |-> t[k]]
    BY <1>1, <2>1
  <2> QED
    BY <1>1, <2>2, <2>3
<1> QED
  BY <1>2, <1>3

-----------------------------------------------------------------------------
(***************************************************************************)
(* Staging directories.                                                    *)
(***************************************************************************)

\* What is there stays when a file is written next to it or something copied.
LEMMA WritingKeeps ==
  ASSUME NEW dir, NEW path, NEW content, NEW other \in DOMAIN dir, other # path
  PROVE  other \in DOMAIN Written(dir, path, content)
         /\ Written(dir, path, content)[other] = dir[other]
BY DEF Written

\* The same for a copy, which replaces nothing but a file at its own path.
LEMMA CopyingKeeps ==
  ASSUME NEW files, NEW dir, NEW path, CanCopy(files, dir, path),
         NEW other \in DOMAIN dir, other # path
  PROVE  other \in DOMAIN Copied(files, dir, path)
         /\ Copied(files, dir, path)[other] = dir[other]
<1>1. ~IsPrefix(path, other)
  BY DEF CanCopy, FreeForFile, FreeForDirectory, IsStrictPrefix
<1> QED
  BY <1>1 DEF Copied, TreeAt

\* And so does a whole tree, unless it gets something from inside.
LEMMA WritingKeepsTrees ==
  ASSUME NEW dir, NEW path, NEW content, NEW top, ~IsPrefix(top, path)
  PROVE  TreeAt(Written(dir, path, content), top) = TreeAt(dir, top)
BY DEF TreeAt, Written

\* The same for a copy.
LEMMA CopyingKeepsTrees ==
  ASSUME NEW files, NEW dir, NEW path, CanCopy(files, dir, path),
         NEW top \in DOMAIN dir, ~IsPrefix(top, path),
         IsSequence(path), IsSequence(top), \A other \in DOMAIN files : IsSequence(other)
  PROVE  TreeAt(Copied(files, dir, path), top) = TreeAt(dir, top)
<1>1. ~IsPrefix(path, top)
  BY PrefixesAreOrdered DEF CanCopy, FreeForFile, FreeForDirectory, IsStrictPrefix
<1>2. \A other \in DOMAIN TreeAt(files, path) : ~IsPrefix(top, other)
  BY <1>1, PrefixesCompare DEF TreeAt
<1> QED
  BY <1>2 DEF TreeAt, Copied

\* What was copied is there.
LEMMA CopyingCopies ==
  ASSUME NEW files, NEW dir, NEW path, CanCopy(files, dir, path), IsSequence(path)
  PROVE  /\ path \in DOMAIN Copied(files, dir, path)
         /\ Copied(files, dir, path)[path] = files[path]
         /\ files[path].kind # "link"
         /\ TreeAt(Copied(files, dir, path), path) = TreeAt(files, path)
<1>1. path \in DOMAIN TreeAt(files, path)
  BY PrefixesAreOrdered DEF CanCopy, TreeAt
<1>2. \A other \in DOMAIN dir : IsPrefix(path, other) => other = path
  BY DEF CanCopy, FreeForFile, FreeForDirectory, IsStrictPrefix
<1>3. TreeAt(Copied(files, dir, path), path) = TreeAt(files, path)
  BY <1>1, <1>2 DEF TreeAt, Copied
<1> QED
  BY <1>1, <1>3 DEF Copied, TreeAt, CanCopy

-----------------------------------------------------------------------------
(***************************************************************************)
(* Sorting.  An order on a set is a set of pairs.                          *)
(***************************************************************************)
IsOrderOn(R, T) ==
  /\ \A x \in T : <<x, x>> \notin R
  /\ \A x, y \in T : x = y \/ <<x, y>> \in R \/ <<y, x>> \in R
  /\ \A x, y, z \in T : <<x, y>> \in R /\ <<y, z>> \in R => <<x, z>> \in R

\* The last element of a set.
IsLast(m, R, T) == m \in T /\ \A x \in T : x = m \/ <<x, m>> \in R

\* A list of a set in ascending order.
IsSortOf(sequence, R, T) ==
  /\ sequence \in [1 .. Cardinality(T) -> T]
  /\ Range(sequence) = T
  /\ \A i, k \in 1 .. Cardinality(T) : i < k => <<sequence[i], sequence[k]>> \in R

\* A finite set that is not empty has a last element: take a smallest set that
\* had none, and one element away from it.
LEMMA LastExists ==
  ASSUME NEW R, NEW T, IsFiniteSet(T), T # {}, IsOrderOn(R, T)
  PROVE  \E m \in T : IsLast(m, R, T)
<1> DEFINE Without(U) == U # {} /\ ~ \E m \in U : IsLast(m, R, U)
           Sizes == {n \in Nat : \E U \in SUBSET T : Cardinality(U) = n /\ Without(U)}
<1> SUFFICES ASSUME Without(T)
             PROVE  FALSE
  OBVIOUS
<1>1. Sizes \in SUBSET Nat /\ Sizes # {}
  <2>1. Cardinality(T) \in Nat
    BY FS_CardinalityType
  <2> QED
    BY <2>1
<1>2. PICK n \in Sizes : \A k \in Sizes : n <= k
  <2> HIDE DEF Sizes
  <2> QED
    BY <1>1, SmallestExists
<1>3. PICK U \in SUBSET T : Cardinality(U) = n /\ Without(U)
  BY <1>2
<1>4. PICK x \in U : TRUE
  BY <1>3
<1> DEFINE V == U \ {x}
<1>5. IsFiniteSet(U) /\ IsFiniteSet(V) /\ Cardinality(V) = n - 1 /\ n - 1 \in Nat
  <2>1. IsFiniteSet(U)
    BY <1>3, FS_Subset
  <2>2. IsFiniteSet(V) /\ Cardinality(V) = Cardinality(U) - 1
    BY <1>4, <2>1, FS_RemoveElement
  <2>3. Cardinality(V) \in Nat
    BY <2>2, FS_CardinalityType
  <2> QED
    BY <1>3, <2>1, <2>2, <2>3
<1>6. n - 1 \notin Sizes
  <2>1. n \in Nat /\ ~(n <= n - 1)
    BY <1>2
  <2> HIDE DEF Sizes
  <2> QED
    BY <1>2, <2>1
<1>7. ~Without(V)
  BY <1>3, <1>5, <1>6
<1>8. CASE V = {}
  <2>1. IsLast(x, R, U)
    BY <1>4, <1>8 DEF IsLast
  <2> QED
    BY <1>3, <1>4, <2>1
<1>9. CASE V # {}
  <2>1. PICK m \in V : IsLast(m, R, V)
    BY <1>7, <1>9
  <2>2. m \in T /\ x \in T /\ V \subseteq T /\ m # x /\ U = V \cup {x}
    BY <1>3, <1>4, <2>1
  <2>3. CASE <<x, m>> \in R
    <3>1. IsLast(m, R, U)
      BY <2>1, <2>2, <2>3 DEF IsLast
    <3> QED
      BY <1>3, <2>2, <3>1
  <2>4. CASE <<m, x>> \in R
    <3>1. \A y \in V : <<y, x>> \in R
      BY <2>1, <2>2, <2>4 DEF IsLast, IsOrderOn
    <3>2. IsLast(x, R, U)
      BY <2>2, <3>1 DEF IsLast
    <3> QED
      BY <1>3, <1>4, <3>2
  <2> QED
    BY <2>2, <2>3, <2>4 DEF IsOrderOn
<1> QED
  BY <1>8, <1>9

\* A finite set can be sorted: take a smallest set that cannot, and its last
\* element away from it.
LEMMA SortExists ==
  ASSUME NEW R, NEW T, IsFiniteSet(T), IsOrderOn(R, T)
  PROVE  \E sequence : IsSortOf(sequence, R, T)
<1> DEFINE Without(U) == ~ \E sequence : IsSortOf(sequence, R, U)
           Sizes == {n \in Nat : \E U \in SUBSET T : Cardinality(U) = n /\ Without(U)}
<1> SUFFICES ASSUME Without(T)
             PROVE  FALSE
  OBVIOUS
<1>1. Sizes \in SUBSET Nat /\ Sizes # {}
  <2>1. Cardinality(T) \in Nat
    BY FS_CardinalityType
  <2> QED
    BY <2>1
<1>2. PICK n \in Sizes : \A k \in Sizes : n <= k
  <2> HIDE DEF Sizes
  <2> QED
    BY <1>1, SmallestExists
<1>3. PICK U \in SUBSET T : Cardinality(U) = n /\ Without(U)
  BY <1>2
<1>4. IsFiniteSet(U) /\ n \in Nat
  BY <1>2, <1>3, FS_Subset
<1>5. CASE U = {}
  <2> DEFINE s == [k \in 1 .. 0 |-> k]
  <2>1. Cardinality(U) = 0
    BY <1>5, FS_EmptySet
  <2>2. IsSortOf(s, R, U)
    BY <1>5, <2>1 DEF IsSortOf, Range
  <2> QED
    BY <1>3, <2>2
<1>6. CASE U # {}
  <2>1. IsOrderOn(R, U)
    BY <1>3 DEF IsOrderOn
  <2>2. PICK m \in U : IsLast(m, R, U)
    BY <1>4, <1>6, <2>1, LastExists
  <2> DEFINE V == U \ {m}
  <2>3. IsFiniteSet(V) /\ Cardinality(V) = n - 1 /\ n - 1 \in Nat
    <3>1. IsFiniteSet(V) /\ Cardinality(V) = Cardinality(U) - 1
      BY <1>4, <2>2, FS_RemoveElement
    <3>2. Cardinality(V) \in Nat
      BY <3>1, FS_CardinalityType
    <3> QED
      BY <1>3, <3>1, <3>2
  <2>4. n - 1 \notin Sizes
    <3>1. ~(n <= n - 1)
      BY <1>4
    <3> HIDE DEF Sizes
    <3> QED
      BY <1>2, <3>1
  <2>5. PICK sequence : IsSortOf(sequence, R, V)
    BY <1>3, <2>3, <2>4
  <2> DEFINE longer == [k \in 1 .. n |-> IF k = n THEN m ELSE sequence[k]]
  <2>6. /\ sequence \in [1 .. n - 1 -> V] /\ Range(sequence) = V
        /\ \A i, k \in 1 .. n - 1 : i < k => <<sequence[i], sequence[k]>> \in R
    BY <2>3, <2>5 DEF IsSortOf
  <2>7. n >= 1 /\ \A k \in 1 .. n : k = n \/ k \in 1 .. n - 1
    BY <1>4, <2>3
  <2>8. longer \in [1 .. n -> U]
    BY <2>2, <2>6, <2>7
  <2>9. Range(longer) = U
    <3>1. ASSUME NEW x \in U
          PROVE  \E k \in 1 .. n : longer[k] = x
      <4>1. CASE x = m
        BY <1>4, <2>7, <4>1
      <4>2. CASE x # m
        <5>1. PICK k \in 1 .. n - 1 : sequence[k] = x
          BY <2>6, <4>2 DEF Range
        <5>2. k \in 1 .. n /\ k # n
          BY <1>4
        <5> QED
          BY <5>1, <5>2
      <4> QED
        BY <4>1, <4>2
    <3> HIDE DEF longer
    <3> QED
      BY <2>8, <3>1 DEF Range
  <2>10. ASSUME NEW i \in 1 .. n, NEW k \in 1 .. n, i < k
         PROVE  <<longer[i], longer[k]>> \in R
    <3>1. i \in 1 .. n - 1 /\ longer[i] = sequence[i] /\ sequence[i] \in V
      BY <1>4, <2>6, <2>10
    <3>2. CASE k = n
      BY <2>2, <3>1, <3>2 DEF IsLast
    <3>3. CASE k # n
      BY <1>4, <2>6, <2>7, <2>10, <3>1, <3>3
    <3> QED
      BY <3>2, <3>3
  <2>11. IsSortOf(longer, R, U)
    <3> HIDE DEF longer
    <3> QED
      BY <1>3, <2>8, <2>9, <2>10 DEF IsSortOf
  <2> QED
    BY <1>3, <2>11
<1> QED
  BY <1>5, <1>6

-----------------------------------------------------------------------------
(***************************************************************************)
(* The orders of a record: of names, of lists of names, of entries.        *)
(***************************************************************************)
NameOrder == {pair \in Names \X Names : Before(pair[1], pair[2])}

\* Names are ordered by their places in Bytewise, and finitely many.
LEMMA NamesAreOrdered ==
  ASSUME IsSequence(Bytewise)
  PROVE  IsOrderOn(NameOrder, Names) /\ IsFiniteSet(Names)
<1> DEFINE Position(name) == SelectInSeq(Bytewise, LAMBDA other : other = name)
<1>1. Len(Bytewise) \in Nat /\ DOMAIN Bytewise = 1 .. Len(Bytewise)
  BY SequencePlaces
<1>2. ASSUME NEW name \in Names
      PROVE  Position(name) \in Nat /\ Bytewise[Position(name)] = name
  <2> DEFINE Places == {i \in 1 .. Len(Bytewise) : Bytewise[i] = name}
  <2>1. Position(name) = IF Places # {} THEN Min(Places) ELSE 0
    BY DEF SelectInSeq
  <2>2. Places # {} /\ Places \in SUBSET Nat
    BY <1>1 DEF Names, Range
  <2>3. Min(Places) \in Places
    <3> HIDE DEF Places
    <3> QED
      BY <2>2, SmallestExists
  <2> HIDE DEF Position
  <2> QED
    BY <2>1, <2>2, <2>3
<1>3. \A x, y \in Names : <<x, y>> \in NameOrder <=> Position(x) < Position(y)
  BY DEF NameOrder, Before, SelectInSeq
<1>4. IsOrderOn(NameOrder, Names)
  <2> HIDE DEF Position
  <2> QED
    BY <1>2, <1>3 DEF IsOrderOn
<1>5. IsFiniteSet(Names)
  <2>1. IsFiniteSet(1 .. Len(Bytewise))
    BY <1>1, Interval
  <2>2. Bytewise \in Surjection(1 .. Len(Bytewise), Names)
    <3>1. Bytewise = [k \in 1 .. Len(Bytewise) |-> Bytewise[k]]
      BY SequencePlaces
    <3> QED
      BY <1>1, <3>1 DEF Names, Range, Surjection
  <2> QED
    BY <2>1, <2>2, FS_Surjection
<1> QED
  BY <1>4, <1>5

\* A list of names in ascending order.
IsAscending(list) ==
  /\ IsSequence(list)
  /\ \A i, k \in 1 .. Len(list) : i < k => Before(list[i], list[k])

\* ReplacementRecord::new sorts any names.
LEMMA NamesInOrder ==
  ASSUME IsSequence(Bytewise), NEW S \in SUBSET Names
  PROVE  IsAscending(InOrder(S, Before)) /\ Range(InOrder(S, Before)) = S
<1> DEFINE Good(sequence) ==
             /\ Range(sequence) = S
             /\ \A i, k \in DOMAIN sequence : i < k => Before(sequence[i], sequence[k])
           list == CHOOSE sequence \in [1 .. Cardinality(S) -> S] : Good(sequence)
<1>1. IsFiniteSet(S) /\ Cardinality(S) \in Nat
  BY NamesAreOrdered, FS_Subset, FS_CardinalityType
<1>2. IsOrderOn(NameOrder, S)
  BY NamesAreOrdered DEF IsOrderOn
<1>3. PICK sequence : IsSortOf(sequence, NameOrder, S)
  BY <1>1, <1>2, SortExists
<1>4. sequence \in [1 .. Cardinality(S) -> S] /\ Good(sequence)
  BY <1>3 DEF IsSortOf, NameOrder
<1>5. list \in [1 .. Cardinality(S) -> S] /\ Good(list)
  <2> HIDE DEF Good
  <2> QED
    BY <1>4
<1>6. InOrder(S, Before) = list
  BY DEF InOrder
<1>7. IsSequence(list) /\ Len(list) = Cardinality(S)
  <2> HIDE DEF list, Good
  <2>1. list = [k \in 1 .. Cardinality(S) |-> list[k]]
    BY <1>5
  <2> QED
    BY <1>1, <2>1, SequenceOf
<1> QED
  <2> HIDE DEF list
  <2> QED
    BY <1>5, <1>6, <1>7 DEF IsAscending

IsList(list) == IsSequence(list) /\ Range(list) \subseteq Names

\* The first difference decides, and if there is none, the length.
DiffersAt(k, left, right) ==
  /\ k \in 1 .. Len(left) /\ k \in 1 .. Len(right)
  /\ \A j \in 1 .. k - 1 : left[j] = right[j]
  /\ Before(left[k], right[k])

Shorter(left, right) ==
  Len(left) < Len(right) /\ \A k \in 1 .. Len(left) : left[k] = right[k]

\* The order of Vec<String>, place by place.
LEMMA ListBeforeByPlaces ==
  ASSUME NEW left, NEW right, IsSequence(left), IsSequence(right)
  PROVE  ListBefore(left, right) <=>
           Shorter(left, right) \/ \E k \in 1 .. Len(left) : DiffersAt(k, left, right)
<1>1. Len(left) \in Nat /\ left = [k \in 1 .. Len(left) |-> left[k]]
  BY SequencePlaces
<1>2. Len(right) \in Nat /\ right = [k \in 1 .. Len(right) |-> right[k]]
  BY SequencePlaces
<1>3. IsStrictPrefix(left, right) <=> Shorter(left, right)
  <2>1. IsPrefix(left, right) /\ Len(left) = Len(right) => left = right
    BY <1>1, <1>2, PrefixByPlaces
  <2>2. IsPrefix(left, right) <=> /\ Len(left) <= Len(right)
                                  /\ \A k \in 1 .. Len(left) : left[k] = right[k]
    BY PrefixByPlaces
  <2>3. Len(left) \in Nat /\ Len(right) \in Nat
    BY <1>1, <1>2
  <2>4. Shorter(left, right) => left # right
    BY <2>3 DEF Shorter
  <2>5. IsStrictPrefix(left, right) => Shorter(left, right)
    BY <2>1, <2>2, <2>3 DEF IsStrictPrefix, Shorter
  <2>6. Shorter(left, right) => IsStrictPrefix(left, right)
    BY <2>2, <2>3, <2>4 DEF IsStrictPrefix, Shorter
  <2> QED
    BY <2>5, <2>6
<1>4. ASSUME NEW k \in 1 .. Len(left), k \in 1 .. Len(right)
      PROVE  SubSeq(left, 1, k - 1) = SubSeq(right, 1, k - 1) <=>
               \A j \in 1 .. k - 1 : left[j] = right[j]
  <2>1. k - 1 \in Nat
    BY <1>1
  <2>2. \A u : SubSeq(u, 1, k - 1) = [j \in 1 .. k - 1 |-> u[j]]
    BY <2>1
  <2> QED
    BY <2>2
<1>5. DOMAIN left \cap DOMAIN right = {k \in 1 .. Len(left) : k \in 1 .. Len(right)}
  BY <1>1, <1>2
<1> QED
  BY <1>3, <1>4, <1>5 DEF ListBefore, DiffersAt

\* Vec<String> has a total order.
LEMMA ListsAreOrdered ==
  ASSUME IsSequence(Bytewise), NEW a, NEW b, NEW c, IsList(a), IsList(b), IsList(c)
  PROVE  /\ ~ListBefore(a, a)
         /\ a = b \/ ListBefore(a, b) \/ ListBefore(b, a)
         /\ ListBefore(a, b) /\ ListBefore(b, c) => ListBefore(a, c)
<1>1. /\ Len(a) \in Nat /\ a = [k \in 1 .. Len(a) |-> a[k]]
      /\ Len(b) \in Nat /\ b = [k \in 1 .. Len(b) |-> b[k]]
      /\ Len(c) \in Nat /\ c = [k \in 1 .. Len(c) |-> c[k]]
  BY SequencePlaces DEF IsList
<1>2. /\ \A k \in 1 .. Len(a) : a[k] \in Names
      /\ \A k \in 1 .. Len(b) : b[k] \in Names
      /\ \A k \in 1 .. Len(c) : c[k] \in Names
  BY <1>1 DEF IsList, Range
<1>3. \A x, y \in Names : <<x, y>> \in NameOrder <=> Before(x, y)
  BY DEF NameOrder
<1>4. /\ \A x \in Names : ~Before(x, x)
      /\ \A x, y \in Names : x = y \/ Before(x, y) \/ Before(y, x)
      /\ \A x, y, z \in Names : Before(x, y) /\ Before(y, z) => Before(x, z)
  BY <1>3, NamesAreOrdered DEF IsOrderOn
<1>5. /\ ListBefore(a, a) <=> Shorter(a, a) \/ \E k \in 1 .. Len(a) : DiffersAt(k, a, a)
      /\ ListBefore(a, b) <=> Shorter(a, b) \/ \E k \in 1 .. Len(a) : DiffersAt(k, a, b)
      /\ ListBefore(b, a) <=> Shorter(b, a) \/ \E k \in 1 .. Len(b) : DiffersAt(k, b, a)
      /\ ListBefore(b, c) <=> Shorter(b, c) \/ \E k \in 1 .. Len(b) : DiffersAt(k, b, c)
      /\ ListBefore(a, c) <=> Shorter(a, c) \/ \E k \in 1 .. Len(a) : DiffersAt(k, a, c)
  BY ListBeforeByPlaces DEF IsList
<1>6. ~ListBefore(a, a)
  <2>1. ~Shorter(a, a)
    <3>1. Len(a) \in Nat
      BY <1>1
    <3> QED
      BY <3>1 DEF Shorter
  <2>2. \A k \in 1 .. Len(a) : ~DiffersAt(k, a, a)
    BY <1>2, <1>4 DEF DiffersAt
  <2> QED
    BY <1>5, <2>1, <2>2
<1>7. a = b \/ ListBefore(a, b) \/ ListBefore(b, a)
  <2> DEFINE Places == {k \in 1 .. Len(a) : k \in 1 .. Len(b) /\ a[k] # b[k]}
  <2>0. Len(a) \in Nat /\ Len(b) \in Nat
    BY <1>1
  <2>1. CASE Places = {}
    <3>1. \A k \in 1 .. Len(a) : k \in 1 .. Len(b) => a[k] = b[k]
      BY <2>1
    <3>2. CASE Len(a) < Len(b)
      <4>1. Shorter(a, b)
        BY <2>0, <3>1, <3>2 DEF Shorter
      <4> QED
        BY <1>5, <4>1
    <3>3. CASE Len(b) < Len(a)
      <4>1. Shorter(b, a)
        BY <2>0, <3>1, <3>3 DEF Shorter
      <4> QED
        BY <1>5, <4>1
    <3>4. CASE Len(a) = Len(b)
      <4>1. a = [k \in 1 .. Len(a) |-> b[k]]
        BY <1>1, <3>1, <3>4
      <4> QED
        BY <1>1, <3>4, <4>1
    <3> QED
      BY <2>0, <3>2, <3>3, <3>4
  <2>2. CASE Places # {}
    <3> DEFINE m == Min(Places)
    <3>1. Places \in SUBSET Nat
      BY <2>0
    <3>2. m \in Places /\ \A k \in Places : m <= k
      <4> HIDE DEF Places
      <4> QED
        BY <2>2, <3>1, SmallestExists
    <3> HIDE DEF m
    <3>3. m \in 1 .. Len(a) /\ m \in 1 .. Len(b) /\ a[m] # b[m]
      BY <3>2
    <3>4. \A j \in 1 .. m - 1 : a[j] = b[j]
      <4>1. ASSUME NEW j \in 1 .. m - 1
            PROVE  j \in 1 .. Len(a) /\ j \in 1 .. Len(b) /\ ~(m <= j)
        BY <2>0, <3>3
      <4>2. \A j \in 1 .. m - 1 : j \notin Places
        <5> HIDE DEF Places
        <5> QED
          BY <3>2, <4>1
      <4> QED
        BY <4>1, <4>2
    <3>5. Before(a[m], b[m]) \/ Before(b[m], a[m])
      BY <1>2, <1>4, <3>3
    <3>6. DiffersAt(m, a, b) \/ DiffersAt(m, b, a)
      BY <3>3, <3>4, <3>5 DEF DiffersAt
    <3> QED
      BY <1>5, <3>3, <3>6
  <2> QED
    BY <2>1, <2>2
<1>8. ASSUME ListBefore(a, b), ListBefore(b, c)
      PROVE  ListBefore(a, c)
  <2>0. Len(a) \in Nat /\ Len(b) \in Nat /\ Len(c) \in Nat
    BY <1>1
  <2>1. CASE Shorter(a, b) /\ Shorter(b, c)
    <3>1. Shorter(a, c)
      BY <2>0, <2>1 DEF Shorter
    <3> QED
      BY <1>5, <3>1
  <2>2. ASSUME Shorter(a, b), NEW k \in 1 .. Len(b), DiffersAt(k, b, c)
        PROVE  ListBefore(a, c)
    <3>1. CASE k \in 1 .. Len(a)
      <4>1. DiffersAt(k, a, c)
        BY <2>0, <2>2, <3>1 DEF Shorter, DiffersAt
      <4> QED
        BY <1>5, <3>1, <4>1
    <3>2. CASE k \notin 1 .. Len(a)
      <4>1. Shorter(a, c)
        BY <2>0, <2>2, <3>2 DEF Shorter, DiffersAt
      <4> QED
        BY <1>5, <4>1
    <3> QED
      BY <3>1, <3>2
  <2>3. ASSUME NEW k \in 1 .. Len(a), DiffersAt(k, a, b), Shorter(b, c)
        PROVE  ListBefore(a, c)
    <3>1. DiffersAt(k, a, c)
      BY <2>0, <2>3 DEF Shorter, DiffersAt
    <3> QED
      BY <1>5, <3>1
  <2>4. ASSUME NEW k \in 1 .. Len(a), DiffersAt(k, a, b),
               NEW n \in 1 .. Len(b), DiffersAt(n, b, c)
        PROVE  ListBefore(a, c)
    <3>1. CASE k < n
      <4>1. DiffersAt(k, a, c)
        BY <2>0, <2>4, <3>1 DEF DiffersAt
      <4> QED
        BY <1>5, <4>1
    <3>2. CASE n < k
      <4>1. n \in 1 .. Len(a) /\ DiffersAt(n, a, c)
        BY <2>0, <2>4, <3>2 DEF DiffersAt
      <4> QED
        BY <1>5, <4>1
    <3>3. CASE k = n
      <4>1. Before(a[k], c[k])
        BY <1>2, <1>4, <2>4, <3>3 DEF DiffersAt
      <4>2. DiffersAt(k, a, c)
        BY <2>0, <2>4, <3>3, <4>1 DEF DiffersAt
      <4> QED
        BY <1>5, <4>2
    <3> QED
      BY <2>0, <3>1, <3>2, <3>3
  <2> QED
    BY <1>5, <1>8, <2>1, <2>2, <2>3, <2>4
<1> QED
  BY <1>6, <1>7, <1>8

\* An entry that can be ordered.
IsEntry(entry) == entry.role \in Names /\ IsList(entry.ids)

Tied(left, right) == left.role = right.role /\ left.ids = right.ids

\* So do the entries, up to ties.
LEMMA EntriesAreOrdered ==
  ASSUME IsSequence(Bytewise), NEW a, NEW b, NEW c, IsEntry(a), IsEntry(b), IsEntry(c)
  PROVE  /\ ~EntryBefore(a, a)
         /\ Tied(a, b) \/ EntryBefore(a, b) \/ EntryBefore(b, a)
         /\ EntryBefore(a, b) /\ EntryBefore(b, c) => EntryBefore(a, c)
<1>1. \A x, y \in Names : <<x, y>> \in NameOrder <=> Before(x, y)
  BY DEF NameOrder
<1>2. /\ \A x \in Names : ~Before(x, x)
      /\ \A x, y \in Names : x = y \/ Before(x, y) \/ Before(y, x)
      /\ \A x, y, z \in Names : Before(x, y) /\ Before(y, z) => Before(x, z)
  BY <1>1, NamesAreOrdered DEF IsOrderOn
<1>3. /\ ~ListBefore(a.ids, a.ids)
      /\ a.ids = b.ids \/ ListBefore(a.ids, b.ids) \/ ListBefore(b.ids, a.ids)
      /\ ListBefore(a.ids, b.ids) /\ ListBefore(b.ids, c.ids) => ListBefore(a.ids, c.ids)
  BY ListsAreOrdered DEF IsEntry
<1> QED
  BY <1>2, <1>3 DEF EntryBefore, Tied, IsEntry

\* sort_by keeps all entries and puts them in order.
LEMMA SortedSorts ==
  ASSUME IsSequence(Bytewise), NEW entries, IsSequence(entries),
         \A k \in DOMAIN entries : IsEntry(entries[k])
  PROVE  /\ IsSequence(Sorted(entries)) /\ Len(Sorted(entries)) = Len(entries)
         /\ Range(Sorted(entries)) = Range(entries)
         /\ \A k \in 1 .. Len(entries) - 1 :
              ~EntryBefore(Sorted(entries)[k + 1], Sorted(entries)[k])
<1> DEFINE n == Len(entries)
           Places == DOMAIN entries
           Earlier(i, k) == \/ EntryBefore(entries[i], entries[k])
                            \/ i < k /\ ~EntryBefore(entries[k], entries[i])
           Order == {pair \in Places \X Places : Earlier(pair[1], pair[2])}
           Good(sequence) ==
             /\ Range(sequence) = Places
             /\ \A i, k \in DOMAIN sequence : i < k => Earlier(sequence[i], sequence[k])
           order == CHOOSE sequence \in [1 .. Cardinality(Places) -> Places] : Good(sequence)
<1>1. n \in Nat /\ Places = 1 .. n
  BY SequencePlaces
<1>2. IsFiniteSet(Places) /\ Cardinality(Places) = n
  <2>1. 1 \in Int /\ n \in Int /\ (IF 1 > n THEN 0 ELSE n - 1 + 1) = n
    BY <1>1
  <2>2. IsFiniteSet(1 .. n) /\ Cardinality(1 .. n) = IF 1 > n THEN 0 ELSE n - 1 + 1
    <3> HIDE DEF n
    <3> QED
      BY <2>1, FS_Interval
  <2> HIDE DEF n
  <2> QED
    BY <1>1, <2>1, <2>2
<1>3. \A i, k \in Places : <<i, k>> \in Order <=> Earlier(i, k)
  OBVIOUS
<1>4. IsOrderOn(Order, Places)
  <2>1. \A i \in Places : ~Earlier(i, i)
    BY <1>1, EntriesAreOrdered
  <2>2. ASSUME NEW i \in Places, NEW k \in Places
        PROVE  i = k \/ Earlier(i, k) \/ Earlier(k, i)
    BY <1>1
  <2>3. ASSUME NEW i \in Places, NEW j \in Places, NEW k \in Places, Earlier(i, j), Earlier(j, k)
        PROVE  Earlier(i, k)
    <3> DEFINE a == entries[i]  b == entries[j]  c == entries[k]
    <3>1. IsEntry(a) /\ IsEntry(b) /\ IsEntry(c)
      OBVIOUS
    <3>2. /\ EntryBefore(a, b) \/ (i < j /\ ~EntryBefore(b, a))
          /\ EntryBefore(b, c) \/ (j < k /\ ~EntryBefore(c, b))
      <4>1. EntryBefore(a, b) \/ (i < j /\ ~EntryBefore(b, a))
        BY <2>3, Zenon
      <4>2. EntryBefore(b, c) \/ (j < k /\ ~EntryBefore(c, b))
        BY <2>3, Zenon
      <4> QED
        BY <4>1, <4>2
    <3>3. i \in Nat /\ j \in Nat /\ k \in Nat
      BY <1>1
    <3>4. EntryBefore(a, c) \/ (i < k /\ ~EntryBefore(c, a))
      <4> HIDE DEF a, b, c
      <4>1. /\ Tied(a, b) \/ EntryBefore(a, b) \/ EntryBefore(b, a)
            /\ Tied(b, c) \/ EntryBefore(b, c) \/ EntryBefore(c, b)
            /\ EntryBefore(a, b) /\ EntryBefore(b, c) => EntryBefore(a, c)
            /\ ~EntryBefore(a, a)
            /\ EntryBefore(c, a) /\ EntryBefore(a, c) => EntryBefore(c, c)
            /\ ~EntryBefore(c, c)
        BY <3>1, EntriesAreOrdered
      <4>2. ASSUME Tied(a, b)
            PROVE  /\ EntryBefore(b, c) <=> EntryBefore(a, c)
                   /\ EntryBefore(c, b) <=> EntryBefore(c, a)
        BY <4>2 DEF Tied, EntryBefore
      <4>3. ASSUME Tied(b, c)
            PROVE  /\ EntryBefore(a, b) <=> EntryBefore(a, c)
                   /\ EntryBefore(b, a) <=> EntryBefore(c, a)
        BY <4>3 DEF Tied, EntryBefore
      <4> QED
        BY <3>2, <3>3, <4>1, <4>2, <4>3
    <3> QED
      BY <3>4
  <2> HIDE DEF Places, Earlier, Order
  <2> QED
    BY <1>3, <2>1, <2>2, <2>3 DEF IsOrderOn
<1>5. PICK sequence : IsSortOf(sequence, Order, Places)
  <2> HIDE DEF Places, Earlier, Order
  <2> QED
    BY <1>2, <1>4, SortExists
<1>6. sequence \in [1 .. Cardinality(Places) -> Places] /\ Good(sequence)
  <2>1. sequence \in [1 .. Cardinality(Places) -> Places]
    BY <1>5 DEF IsSortOf
  <2> HIDE DEF Places, Earlier, Order
  <2> QED
    BY <1>3, <1>5, <2>1 DEF IsSortOf
<1>7. order \in [1 .. Cardinality(Places) -> Places] /\ Good(order)
  <2> HIDE DEF Good, Places
  <2> QED
    BY <1>6
<1>8. Sorted(entries) = [k \in Places |-> entries[order[k]]]
  BY DEF Sorted, InOrder
<1> HIDE DEF order
<1>9. order \in [1 .. n -> 1 .. n] /\ Range(order) = 1 .. n
  BY <1>1, <1>2, <1>7
<1>10. Sorted(entries) = [k \in 1 .. n |-> entries[order[k]]]
  BY <1>1, <1>8
<1>11. IsSequence(Sorted(entries)) /\ Len(Sorted(entries)) = n
  <2>1. Sorted(entries) = [k \in 1 .. n |-> Sorted(entries)[k]]
    BY <1>10
  <2> QED
    BY <1>1, <2>1, SequenceOf
<1>12. Range(Sorted(entries)) = Range(entries)
  <2>1. \A k \in 1 .. n : order[k] \in 1 .. n /\ \E i \in 1 .. n : order[i] = k
    BY <1>9 DEF Range
  <2>2. Range(Sorted(entries)) = {entries[order[k]] : k \in 1 .. n}
    BY <1>10 DEF Range
  <2>3. Range(entries) = {entries[k] : k \in 1 .. n}
    BY <1>1 DEF Range
  <2> DEFINE left == {entries[order[k]] : k \in 1 .. n}
             right == {entries[k] : k \in 1 .. n}
  <2>4. ASSUME NEW k \in 1 .. n
        PROVE  entries[order[k]] \in right /\ entries[k] \in left
    <3>1. order[k] \in 1 .. n /\ \E i \in 1 .. n : order[i] = k
      BY <2>1
    <3> QED
      BY <3>1
  <2>5. left \subseteq right /\ right \subseteq left
    BY <2>4
  <2> HIDE DEF left, right
  <2> QED
    BY <2>2, <2>3, <2>5 DEF left, right
<1>13. ASSUME NEW k \in 1 .. n - 1
       PROVE  ~EntryBefore(Sorted(entries)[k + 1], Sorted(entries)[k])
  <2>1. k \in 1 .. n /\ k + 1 \in 1 .. n /\ k < k + 1
    BY <1>1
  <2>2. Earlier(order[k], order[k + 1])
    <3> HIDE DEF Earlier
    <3> QED
      BY <1>7, <1>9, <2>1
  <2>3. order[k] \in Places /\ order[k + 1] \in Places
    BY <1>1, <1>9, <2>1
  <2>4. /\ Sorted(entries)[k] = entries[order[k]]
        /\ Sorted(entries)[k + 1] = entries[order[k + 1]]
    BY <1>10, <2>1
  <2>5. EntryBefore(entries[order[k]], entries[order[k + 1]])
          => ~EntryBefore(entries[order[k + 1]], entries[order[k]])
    BY <2>3, EntriesAreOrdered
  <2> QED
    BY <2>2, <2>4, <2>5
<1> QED
  BY <1>11, <1>12, <1>13

\* Sorted entries, each with its fields in order, are ordered.
LEMMA SortedIsOrdered ==
  ASSUME IsSequence(Bytewise), NEW entries, IsSequence(entries),
         \A k \in DOMAIN entries : IsEntry(entries[k]) /\ IsAscending(entries[k].ids)
  PROVE  Ordered(Sorted(entries))
<1> DEFINE sorted == Sorted(entries)
<1>1. /\ Range(sorted) = Range(entries)
      /\ \A k \in 1 .. Len(entries) - 1 : ~EntryBefore(sorted[k + 1], sorted[k])
      /\ Len(sorted) = Len(entries)
  BY SortedSorts
<1> HIDE DEF sorted
<1>2. ASSUME NEW k \in DOMAIN sorted, NEW n \in 1 .. Len(sorted[k].ids) - 1
      PROVE  Before(sorted[k].ids[n], sorted[k].ids[n + 1])
  <2> DEFINE list == sorted[k].ids
  <2>1. sorted[k] \in Range(entries)
    BY <1>1, <1>2 DEF Range
  <2>2. IsAscending(list)
    BY <2>1 DEF Range
  <2>3. IsSequence(list)
    BY <2>2 DEF IsAscending
  <2>4. Len(list) \in Nat /\ DOMAIN list = 1 .. Len(list)
    BY <2>3, SequencePlaces
  <2>5. n \in DOMAIN list /\ n + 1 \in DOMAIN list /\ n < n + 1
    <3> HIDE DEF list
    <3> QED
      BY <2>4, <1>2 DEF list
  <2> QED
    BY <2>2, <2>4, <2>5 DEF IsAscending
<1> QED
  BY <1>1, <1>2 DEF Ordered, sorted

-----------------------------------------------------------------------------
(***************************************************************************)
(* What other programs write to a base.                                    *)
(***************************************************************************)

\* A file that is written over leaves the base a base.
LEMMA EditedFile ==
  ASSUME NEW d, IsBase(d), NEW path \in DOMAIN d.files, NEW content, IsBaseFile(content),
         NEW e, e = [d EXCEPT !.files[path] = content]
  PROVE  /\ IsBase(e)
         /\ DOMAIN e = DOMAIN d
         /\ "grid" \in DOMAIN d => e.grid = d.grid
         /\ \A p \in DOMAIN e.files :
              p \in DOMAIN d.files /\ (e.files[p] = content \/ e.files[p] = d.files[p])
<1>1. {"domains", "mappings", "artifacts", "files"} \subseteq DOMAIN d
  BY DEF IsBase
<1>2. /\ DOMAIN e = DOMAIN d
      /\ e.domains = d.domains /\ e.mappings = d.mappings /\ e.artifacts = d.artifacts
      /\ e.files = [d.files EXCEPT ![path] = content]
      /\ "grid" \in DOMAIN d => e.grid = d.grid
  BY <1>1
<1>3. \A p \in DOMAIN e.files :
        p \in DOMAIN d.files /\ (e.files[p] = content \/ e.files[p] = d.files[p])
  BY <1>2
<1>4. \A p \in DOMAIN e.files : IsSequence(p) /\ IsBaseFile(e.files[p])
  BY <1>3 DEF IsBase
<1>5. AreFiles(e.files)
  BY <1>4 DEF AreFiles, FileAt, IsBaseFile
<1>6. IsManifest(e)
  BY <1>2 DEF IsBase, IsPackage, IsManifest, Indices
<1> QED
  BY <1>2, <1>3, <1>4, <1>5, <1>6 DEF IsBase, IsPackage

\* Another list of artifacts does, too.
LEMMA EditedArtifacts ==
  ASSUME NEW d, IsBase(d), NEW list, AreArtifacts(list), NEW e, e = [d EXCEPT !.artifacts = list]
  PROVE  /\ IsBase(e)
         /\ DOMAIN e = DOMAIN d
         /\ "grid" \in DOMAIN d => e.grid = d.grid
         /\ e.files = d.files
<1>1. {"domains", "mappings", "artifacts", "files"} \subseteq DOMAIN d
  BY DEF IsBase
<1>2. /\ DOMAIN e = DOMAIN d
      /\ e.domains = d.domains /\ e.mappings = d.mappings /\ e.artifacts = list
      /\ e.files = d.files
      /\ "grid" \in DOMAIN d => e.grid = d.grid
  BY <1>1
<1>3. IsManifest(e)
  BY <1>2 DEF IsBase, IsPackage, IsManifest, AreArtifacts, Indices
<1> QED
  BY <1>2, <1>3 DEF IsBase, IsPackage
=============================================================================
