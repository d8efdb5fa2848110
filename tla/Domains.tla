------------------------------- MODULE Domains -------------------------------
(***************************************************************************)
(* The entity domains of a manifest and the mappings between them: whether *)
(* the index columns of a mapping cover a domain.  The validator asks it   *)
(* of every mapping of a domain that has external_ids.                     *)
(***************************************************************************)
EXTENDS Integers, Sequences, FiniteSets

CONSTANTS
  DomainIds,      \* names of domains
  None,           \* no external_ids in the manifest
  MaxIndex,       \* i64::MAX
  OverflowChecks  \* whether the build panics on integer overflow

ASSUME DomainsAssumption ==
  /\ MaxIndex \in Nat \ {0}
  /\ OverflowChecks \in BOOLEAN
  /\ None \notin Nat

I64 == -MaxIndex - 1 .. MaxIndex

\* externalIds is the number of external ids: only their number is checked.
\* (entity_count is a u64; no file has more than MaxIndex external ids.)
Domain == [id : DomainIds, count : 0 .. MaxIndex,
           externalIds : 0 .. MaxIndex \cup {None}]

\* A mapping declaration with the rows of its artifact.
Mapping == [source : DomainIds, target : DomainIds,
            entries : Seq([source : I64, target : I64])]

-----------------------------------------------------------------------------
\* DomainDescriptor::from_domain succeeds.
FromDomain(d) == d.externalIds = None \/ d.externalIds = d.count

\* The target wins when a mapping leads from a domain to itself.
SideForDomain(m, id) ==
  IF id = m.target THEN "target" ELSE IF id = m.source THEN "source" ELSE "none"

IndicesOn(m, side) == {m.entries[i][side] : i \in DOMAIN m.entries}

\* The first and the last index of the sorted set.
IsFirst(x, S) == x \in S /\ \A y \in S : x <= y
Largest(S) == CHOOSE x \in S : \A y \in S : y <= x

Failed(error) == [error |-> error, count |-> 0]
Derived(count) == [error |-> "none", count |-> count]

\* derive_cardinality of the distinct indices S: `max + 1` overflows an i64
\* at its largest value, and wraps when the build has no overflow checks.
DeriveCardinality(S) ==
  IF S = {} THEN Failed("EmptyMapping")
  ELSE LET derived == IF Largest(S) = MaxIndex \/ Largest(S) < 0 THEN 0 ELSE Largest(S) + 1
       IN IF Largest(S) = MaxIndex /\ OverflowChecks THEN Failed("panic")
          ELSE IF ~IsFirst(0, S) \/ Largest(S) < 0 \/ Cardinality(S) # derived
          THEN Failed("NonDenseMapping")
          ELSE Derived(derived)

InRange(index, d) == index >= 0 /\ index < d.count

\* Mistake: the derived count is not compared with the manifest's.
CrossCheckAnyCount(d, m) ==
  LET side == SideForDomain(m, d.id) IN
  IF side = "none" THEN "DomainNotInMapping"
  ELSE IF \E index \in IndicesOn(m, side) : ~InRange(index, d)
  THEN "DanglingEntityId"
  ELSE DeriveCardinality(IndicesOn(m, side)).error

\* Mistake: the cardinality is derived before the indices are bounded.
CrossCheckDeriveFirst(d, m) ==
  LET side == SideForDomain(m, d.id) IN
  IF side = "none" THEN "DomainNotInMapping"
  ELSE LET derived == DeriveCardinality(IndicesOn(m, side)) IN
       IF derived.error # "none" THEN derived.error
       ELSE IF \E index \in IndicesOn(m, side) : ~InRange(index, d)
       THEN "DanglingEntityId"
       ELSE IF derived.count # d.count THEN "CardinalityMismatch" ELSE "none"

\* The error of cross_check, or "none".
CrossCheck(d, m) ==
  LET side == SideForDomain(m, d.id) IN
  IF side = "none" THEN "DomainNotInMapping"
  ELSE IF \E index \in IndicesOn(m, side) : ~InRange(index, d)
  THEN "DanglingEntityId"
  ELSE LET derived == DeriveCardinality(IndicesOn(m, side)) IN
       IF derived.error # "none" THEN derived.error
       ELSE IF derived.count # d.count THEN "CardinalityMismatch"
       ELSE "none"

\* What the specification asks of the same mapping (HMX_SPEC 5.4): the
\* distinct indices of the domain's side are 0 .. entity_count - 1.
Covers(d, m) ==
  LET side == SideForDomain(m, d.id)
  IN side # "none" /\ IndicesOn(m, side) = 0 .. d.count - 1

=============================================================================
