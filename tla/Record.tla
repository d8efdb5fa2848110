------------------------------- MODULE Record -------------------------------
(***************************************************************************)
(* The derivation record: one entry per artifact that was replaced, taken  *)
(* away or added, in an order that does not depend on the command line.  A *)
(* digest is modelled by what it is the digest of; an optional one is a    *)
(* sequence of at most one.                                                *)
(***************************************************************************)
EXTENDS Packages, SequencesExt

CONSTANT Bytewise   \* the roles and field ids in ascending order

Names == Range(Bytewise)

Before(left, right) ==
  SelectInSeq(Bytewise, LAMBDA name : name = left)
    < SelectInSeq(Bytewise, LAMBDA name : name = right)

\* The elements of a finite set in the order of a sort.
InOrder(S, before(_, _)) ==
  CHOOSE sequence \in [1 .. Cardinality(S) -> S] :
    /\ Range(sequence) = S
    /\ \A i, k \in DOMAIN sequence : i < k => before(sequence[i], sequence[k])

\* ReplacementRecord::new: the field ids sorted and without repetition.
Entry(role, ids, old, new) ==
  [role |-> role, ids |-> InOrder(ids, Before), old |-> old, new |-> new]

Replacement(role, ids, old, new) == Entry(role, ids, <<old>>, <<new>>)
Removal(role, ids, old) == Entry(role, ids, <<old>>, <<>>)
Addition(role, ids, new) == Entry(role, ids, <<>>, <<new>>)

\* The order of Vec<String>.
ListBefore(left, right) ==
  \/ IsStrictPrefix(left, right)
  \/ \E k \in DOMAIN left \cap DOMAIN right :
       SubSeq(left, 1, k - 1) = SubSeq(right, 1, k - 1) /\ Before(left[k], right[k])

EntryBefore(left, right) ==
  \/ Before(left.role, right.role)
  \/ left.role = right.role /\ ListBefore(left.ids, right.ids)

\* Mistake: the entries stay in the order in which they were planned.
SortedAsPlanned(entries) == entries

\* sort_by is stable.
Sorted(entries) ==
  LET earlier(i, k) ==
        \/ EntryBefore(entries[i], entries[k])
        \/ i < k /\ ~EntryBefore(entries[k], entries[i])
      order == InOrder(DOMAIN entries, earlier)
  IN [n \in DOMAIN entries |-> entries[order[n]]]

\* What content_hash hashes: the manifest, without the files.
ManifestOf(p) == [domains |-> p.domains, mappings |-> p.mappings, artifacts |-> p.artifacts]

\* DerivationRecord::from_parts
DerivationRecord(base, derived, overrides, entries) ==
  [base      |-> base,
   derived   |-> derived,
   overrides |-> InOrder(overrides, Before),
   replaced  |-> Sorted(entries)]

-----------------------------------------------------------------------------
(***************************************************************************)
(* The packages that a derivation may start from: parsed, with a digest    *)
(* for every artifact, and with names from Bytewise.                       *)
(***************************************************************************)
AreArtifacts(list) ==
  /\ IsSequence(list)
  /\ \A i \in DOMAIN list :
       /\ {"role", "path", "format", "variable", "sha"} \subseteq DOMAIN list[i]
       /\ list[i].format \in Formats
       /\ list[i].role \in Names
       /\ IsSequence(Normal(list[i].path))

\* A layer_count is a usize.
IsBaseFile(file) ==
  /\ IsContent(Followed(file))
  /\ Followed(file).kind = "registry" =>
       \A i \in DOMAIN Followed(file).fields :
         /\ Followed(file).fields[i].id \in Names
         /\ Followed(file).fields[i].layers \in Nat \cup {None}

IsBase(p) ==
  /\ {"domains", "mappings", "artifacts", "files"} \subseteq DOMAIN p
  /\ IsPackage(p)
  /\ AreArtifacts(p.artifacts)
  /\ \A path \in DOMAIN p.files : IsSequence(path) /\ IsBaseFile(p.files[path])

-----------------------------------------------------------------------------
\* HMX_SPEC 10.10: the entries ascend by role and then by field ids, which
\* ascend themselves.
Ordered(entries) ==
  /\ \A k \in DOMAIN entries :
       \A n \in 1 .. Len(entries[k].ids) - 1 : Before(entries[k].ids[n], entries[k].ids[n + 1])
  /\ \A k \in 1 .. Len(entries) - 1 : ~EntryBefore(entries[k + 1], entries[k])
=============================================================================
