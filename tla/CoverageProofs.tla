-------------------------- MODULE CoverageProofs --------------------------
(***************************************************************************)
(* The validator's cross-check of a mapping is exact, for domains and      *)
(* mappings of any size.                                                   *)
(***************************************************************************)
EXTENDS Coverage, FiniteSetTheorems, WellFoundedInduction, TLAPS

\* The indices of a mapping's side are integers.
LEMMA IndicesAreIntegers ==
  ASSUME NEW m \in Mapping, NEW side \in {"source", "target"}
  PROVE  IndicesOn(m, side) \subseteq I64
<1>. SUFFICES ASSUME NEW i \in DOMAIN m.entries
              PROVE  m.entries[i][side] \in I64
  BY DEF IndicesOn
<1>. DEFINE Row == [source : I64, target : I64]
<1>1. m.entries \in Seq(Row)
  BY DEF Mapping
<1>2. m.entries[i] \in Row
  <2>. HIDE DEF Row
  <2>. QED
    BY <1>1
<1>. QED
  BY <1>2

\* An entity's side is one of the two columns, or "none".
LEMMA SideOfDomain ==
  ASSUME NEW m, NEW id
  PROVE  SideForDomain(m, id) \in {"source", "target", "none"}
BY DEF SideForDomain

\* 0 .. n - 1 has n elements.
LEMMA IntervalSize ==
  ASSUME NEW n \in Nat
  PROVE  IsFiniteSet(0 .. n - 1) /\ Cardinality(0 .. n - 1) = n
<1>. DEFINE b == n - 1
<1>1. 0 \in Int /\ b \in Int
  OBVIOUS
<1>2. IsFiniteSet(0 .. b) /\ Cardinality(0 .. b) = IF 0 > b THEN 0 ELSE b - 0 + 1
  <2>. HIDE DEF b
  <2>. QED
    BY <1>1, FS_Interval
<1>. QED
  BY <1>2

\* A set of n indices below n is all of 0 .. n - 1.
LEMMA FullInterval ==
  ASSUME NEW n \in Nat, NEW S \in SUBSET (0 .. n - 1), Cardinality(S) = n
  PROVE  S = 0 .. n - 1
BY IntervalSize, FS_Subset

\* The last index of 0 .. n - 1 is n - 1.
LEMMA LargestOfInterval ==
  ASSUME NEW n \in Nat \ {0}
  PROVE  Largest(0 .. n - 1) = n - 1
<1>1. n - 1 \in 0 .. n - 1 /\ \A y \in 0 .. n - 1 : y <= n - 1
  OBVIOUS
<1>2. \A x \in 0 .. n - 1 : (\A y \in 0 .. n - 1 : y <= x) => x = n - 1
  BY <1>1
<1>. QED
  BY <1>1, <1>2 DEF Largest

\* derive_cardinality accepts 0 .. n - 1 as n entities.
LEMMA DenseIsAccepted ==
  ASSUME NEW n \in 1 .. MaxIndex
  PROVE  DeriveCardinality(0 .. n - 1) = Derived(n)
<1>. DEFINE S == 0 .. n - 1
<1>1. n \in Nat \ {0} /\ MaxIndex \in Nat
  BY DomainsAssumption
<1>2. S # {} /\ IsFirst(0, S) /\ Cardinality(S) = n
  BY <1>1, IntervalSize DEF IsFirst
<1>3. Largest(S) = n - 1
  BY <1>1, LargestOfInterval
<1>4. Largest(S) # MaxIndex /\ ~(Largest(S) < 0) /\ Largest(S) + 1 = n
  BY <1>1, <1>3
<1>5. DeriveCardinality(S) = Derived(n)
  <2>. HIDE DEF S
  <2>. QED
    BY <1>2, <1>4 DEF DeriveCardinality
<1>. QED
  BY <1>5

\* What derive_cardinality accepts has as many indices as it derives.
LEMMA AcceptedCount ==
  ASSUME NEW S, DeriveCardinality(S).error = "none"
  PROVE  S # {} /\ Cardinality(S) = DeriveCardinality(S).count
BY DEF DeriveCardinality, Failed, Derived

\* cross_check is exact for one domain with entities and one mapping.
LEMMA CrossCheckExact ==
  ASSUME NEW d \in Domain, NEW m \in Mapping, d.count > 0
  PROVE  CrossCheck(d, m) = "none" <=> Covers(d, m)
<1>. DEFINE side == SideForDomain(m, d.id)
            S == IndicesOn(m, side)
<1>1. d.count \in 1 .. MaxIndex
  BY DomainsAssumption DEF Domain
<1>2. CASE side = "none"
  BY <1>2 DEF CrossCheck, Covers
<1>3. CASE side # "none"
  <2>1. S \subseteq I64
    BY <1>3, SideOfDomain, IndicesAreIntegers
  <2>2. CASE \E index \in S : ~InRange(index, d)
    <3>1. CrossCheck(d, m) = "DanglingEntityId"
      BY <1>3, <2>2 DEF CrossCheck
    <3>2. S # 0 .. d.count - 1
      BY <1>1, <2>2, DomainsAssumption DEF InRange
    <3>. QED
      BY <1>3, <3>1, <3>2 DEF Covers
  <2>3. CASE ~ \E index \in S : ~InRange(index, d)
    <3>1. S \subseteq 0 .. d.count - 1
      BY <1>1, <2>1, <2>3, DomainsAssumption DEF InRange, I64
    <3>2. CrossCheck(d, m) = "none" <=>
            /\ DeriveCardinality(S).error = "none"
            /\ DeriveCardinality(S).count = d.count
      BY <1>3, <2>3 DEF CrossCheck
    <3>3. ASSUME CrossCheck(d, m) = "none" PROVE S = 0 .. d.count - 1
      <4>1. Cardinality(S) = d.count
        BY <3>2, <3>3, AcceptedCount
      <4>. QED
        BY <1>1, <3>1, <4>1, FullInterval
    <3>4. ASSUME S = 0 .. d.count - 1 PROVE CrossCheck(d, m) = "none"
      <4>1. DeriveCardinality(S) = Derived(d.count)
        BY <1>1, <3>4, DenseIsAccepted
      <4>. QED
        BY <3>2, <4>1 DEF Derived
    <3>. QED
      BY <1>3, <3>3, <3>4 DEF Covers
  <2>. QED
    BY <2>2, <2>3
<1>. QED
  BY <1>2, <1>3

-----------------------------------------------------------------------------
\* A finite range below n has its last element: the natural numbers are
\* well-founded, here read downwards from n.
LEMMA LargestExists ==
  ASSUME NEW n \in Nat, NEW S \in SUBSET (0 .. n - 1), S # {}
  PROVE  Largest(S) \in S
<1>. DEFINE R == {ss \in Nat \X Nat : ss[1] < ss[2]}
            T == {k \in Nat : n - 1 - k \in S}
<1>1. IsWellFoundedOn(R, Nat)
  BY NatLessThanWellFounded DEF OpToRel
<1>2. T \subseteq Nat /\ T # {}
  <2>1. PICK s \in S : TRUE
    OBVIOUS
  <2>2. n - 1 - s \in Nat /\ n - 1 - (n - 1 - s) = s
    BY <2>1
  <2>. QED
    BY <2>2
<1>3. PICK k \in T : \A j \in T : <<j, k>> \notin R
  <2>. HIDE DEF R, T
  <2>. QED
    BY <1>1, <1>2, WFMin
<1>4. \A j \in T : ~(j < k)
  BY <1>3
<1>5. \A y \in S : y <= n - 1 - k
  <2>1. SUFFICES ASSUME NEW y \in S PROVE y <= n - 1 - k
    OBVIOUS
  <2>2. n - 1 - y \in T
    BY <2>1
  <2>3. ~(n - 1 - y < k)
    <3>. HIDE DEF T
    <3>. QED
      BY <1>4, <2>2
  <2>4. y \in Int /\ k \in Nat
    BY <1>3
  <2>. QED
    BY <2>3, <2>4
<1>. QED
  BY <1>5 DEF Largest

\* cross_check never evaluates `max + 1` at the largest i64.
LEMMA CrossCheckDoesNotOverflow ==
  ASSUME NEW d \in Domain, NEW m \in Mapping
  PROVE  CrossCheck(d, m) # "panic"
<1>. DEFINE side == SideForDomain(m, d.id)
            S == IndicesOn(m, side)
<1>1. d.count \in 0 .. MaxIndex
  BY DomainsAssumption DEF Domain
<1>2. CASE side = "none" \/ \E index \in S : ~InRange(index, d)
  BY <1>2 DEF CrossCheck
<1>3. CASE side # "none" /\ ~ \E index \in S : ~InRange(index, d)
  <2>1. S \subseteq I64
    BY <1>3, SideOfDomain, IndicesAreIntegers
  <2>2. S \subseteq 0 .. d.count - 1
    BY <1>1, <1>3, <2>1, DomainsAssumption DEF InRange, I64
  <2>3. DeriveCardinality(S).error # "panic"
    <3>1. CASE S = {}
      BY <3>1 DEF DeriveCardinality, Failed
    <3>2. CASE S # {}
      <4>1. Largest(S) \in 0 .. d.count - 1
        <5>1. d.count \in Nat /\ S \in SUBSET (0 .. d.count - 1)
          BY <1>1, <2>2, DomainsAssumption
        <5>2. Largest(S) \in S
          <6>. HIDE DEF S
          <6>. QED
            BY <3>2, <5>1, LargestExists
        <5>. QED
          BY <5>1, <5>2
      <4>2. Largest(S) # MaxIndex
        BY <1>1, <4>1, DomainsAssumption
      <4>. QED
        BY <3>2, <4>2 DEF DeriveCardinality, Failed, Derived
    <3>. QED
      BY <3>1, <3>2
  <2>. QED
    BY <1>3, <2>3 DEF CrossCheck
<1>. QED
  BY <1>2, <1>3

-----------------------------------------------------------------------------
\* The domain and the rows read from a mapping keep their types.
THEOREM TypeCorrect == Spec => []TypeOK
<1>1. Init => TypeOK
  <2>. SUFFICES ASSUME Init PROVE TypeOK
    OBVIOUS
  <2>. DEFINE Row == [source : I64, target : I64]
  <2>1. <<>> \in Seq(Row)
    <3>. HIDE DEF Row
    <3>. QED
      OBVIOUS
  <2>2. mapping \in [source : DomainIds, target : DomainIds, entries : Seq(Row)]
    <3>. HIDE DEF Row
    <3>. QED
      BY <2>1 DEF Init
  <2>. QED
    BY <2>2, DomainsAssumption, CoverageAssumption DEF Init, TypeOK, Mapping, Domain
<1>2. TypeOK /\ [Next]_vars => TypeOK'
  <2>. SUFFICES ASSUME TypeOK, [Next]_vars PROVE TypeOK'
    OBVIOUS
  <2>1. CASE ReadRow
    <3>. DEFINE Row == [source : I64, target : I64]
    <3>1. PICK s \in -1 .. MaxCount \cup {MaxIndex}, t \in -1 .. MaxCount \cup {MaxIndex} :
            mapping' = [mapping EXCEPT !.entries = Append(@, [source |-> s, target |-> t])]
      BY <2>1 DEF ReadRow
    <3>2. [source |-> s, target |-> t] \in Row
      BY DomainsAssumption, CoverageAssumption DEF I64
    <3>3. mapping.entries \in Seq(Row)
      BY DEF TypeOK, Mapping
    <3>4. Append(mapping.entries, [source |-> s, target |-> t]) \in Seq(Row)
      <4>. HIDE DEF Row
      <4>. QED
        BY <3>2, <3>3
    <3>5. mapping' \in Mapping
      BY <3>1, <3>4 DEF TypeOK, Mapping
    <3>. QED
      BY <2>1, <3>5 DEF ReadRow, TypeOK
  <2>2. CASE UNCHANGED vars
    BY <2>2 DEF vars, TypeOK
  <2>. QED
    BY <2>1, <2>2 DEF Next
<1>. QED
  BY <1>1, <1>2, PTL DEF Spec

\* A mapping is accepted for a domain with entities exactly when it covers
\* the domain, whatever their sizes.
THEOREM CoverageIsExact == Spec => []CoverageExact
<1>1. TypeOK => CoverageExact
  BY CrossCheckExact DEF TypeOK, CoverageExact
<1>. QED
  BY <1>1, TypeCorrect, PTL

\* The validator does not panic on the largest index.
THEOREM NoOverflowEver == Spec => []NoOverflow
<1>1. TypeOK => NoOverflow
  BY CrossCheckDoesNotOverflow DEF TypeOK, NoOverflow
<1>. QED
  BY <1>1, TypeCorrect, PTL
=============================================================================
