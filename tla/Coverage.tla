------------------------------ MODULE Coverage ------------------------------
(***************************************************************************)
(* Mappings of any domain, read row after row: the answers of Domains      *)
(* about the rows read so far, as if the table ended there.                *)
(***************************************************************************)
EXTENDS Domains

CONSTANTS
  MaxCount,  \* bound on entity_count and on the indices of a row
  MaxRows    \* bound on the rows of a mapping

ASSUME CoverageAssumption == MaxCount \in 0 .. MaxIndex /\ MaxRows \in Nat

VARIABLES domain, mapping

vars == <<domain, mapping>>

\* Any domain the manifest can declare and any mapping declaration.
Init ==
  /\ domain \in [id : DomainIds, count : 0 .. MaxCount,
                  externalIds : 0 .. MaxCount \cup {None}]
  /\ mapping \in [source : DomainIds, target : DomainIds, entries : {<<>>}]

\* One more row of the mapping table is zipped into the geometry.
ReadRow ==
  /\ Len(mapping.entries) < MaxRows
  /\ \E s, t \in -1 .. MaxCount \cup {MaxIndex} :
       mapping' = [mapping EXCEPT !.entries = Append(@, [source |-> s, target |-> t])]
  /\ UNCHANGED domain

Next == ReadRow

Spec == Init /\ [][Next]_vars

-----------------------------------------------------------------------------
\* A domain and a mapping of the manifest; the indices of a row are i64.
TypeOK ==
  /\ domain \in Domain
  /\ mapping \in Mapping

\* check_d1 cross-checks a domain only after from_domain, and only when it
\* has external_ids.
Checked == FromDomain(domain) /\ domain.externalIds # None

\* The validator accepts a mapping for a domain that has entities exactly
\* when every entity occurs in it and nothing else does.  (A domain without
\* entities is never accepted: derive_cardinality refuses the empty set.)
CoverageExact ==
  Checked /\ domain.count > 0 =>
    (CrossCheck(domain, mapping) = "none" <=> Covers(domain, mapping))

\* The bound on the indices comes first, so that `max + 1` cannot overflow.
NoOverflow == Checked => CrossCheck(domain, mapping) # "panic"
=============================================================================
