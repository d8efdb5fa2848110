----------------------------- MODULE Validation -----------------------------
(***************************************************************************)
(* `hmx validate` on a package whose manifest has been read: the closed    *)
(* list of checks in order, and the report derived from their outcomes.    *)
(***************************************************************************)
EXTENDS Conformance

CONSTANTS
  Candidates   \* the packages to validate, a sequence of sets

ASSUME CandidatesAssumption ==
  \A k \in DOMAIN Candidates : \A p \in Candidates[k] : IsPackage(p)

VARIABLES
  pkg,       \* the package
  outcomes   \* the outcomes so far: "pass", "fail" or "skipped"

vars == <<pkg, outcomes>>

-----------------------------------------------------------------------------
Init ==
  /\ \E k \in DOMAIN Candidates : pkg \in Candidates[k]
  /\ outcomes = <<>>

RunCheck ==
  /\ Len(outcomes) < Len(Checks)
  /\ outcomes' = Append(outcomes, Outcome(Checks[Len(outcomes) + 1], pkg))
  /\ UNCHANGED pkg

Next == RunCheck

Spec == Init /\ [][Next]_vars

Reported == Len(outcomes) = Len(Checks)

-----------------------------------------------------------------------------
(***************************************************************************)
(* Properties.                                                             *)
(***************************************************************************)

\* A report that says conformant has no skipped check: every condition under
\* which a check does not run makes another one fail (report.rs lets a skip
\* pass, so nothing else keeps an unchecked package from being conformant).
SkipsNeverConform ==
  Reported /\ FromOutcomes(outcomes) =>
    \A k \in DOMAIN outcomes : outcomes[k] # "skipped"

\* No gap between the checks: what one of them leaves to another (a mapping
\* without an artifact, a registry that does not load, a scalars object, the
\* type of a column) some check rejects, and a conformant package meets the
\* checklist of 11.1 but for what `Unread` and `StrayColumns` name.  What 11.1
\* does not list (see Conformance) a conformant package may violate.
ConformantMeetsChecklist ==
  Reported /\ FromOutcomes(outcomes) => MeetsChecklistAsRead(pkg)

\* Where the validator is narrower than the specification: P1 looks for `..`
\* anywhere in a path (2.2 asks about segments) ...
Dotted(p) == \E i \in Indices(p) : p.artifacts[i].path \in DottedPaths

\* ... D1 reads every encoding that 8.3 allows as a domain_mapping_v1 ...
OtherEncoding(p) ==
  \E k \in DOMAIN p.domains, j \in DOMAIN p.mappings, i \in Indices(p) :
    /\ Identifies(p.mappings[j], p.domains[k])
    /\ p.artifacts[i].role = p.mappings[j].role
    /\ p.artifacts[i].format \in MappingFormats \ {"domain_mapping"}

\* ... no mapping covers a domain without entities ...
EmptyIdentified(p) ==
  \E k \in DOMAIN p.domains, j \in DOMAIN p.mappings :
    Identifies(p.mappings[j], p.domains[k]) /\ p.domains[k].count = 0

\* ... and of several artifacts with the role of a mapping, D1 and MAP1 take
\* the first.
SharedRole(p) ==
  \E j \in DOMAIN p.mappings, i, k \in Indices(p) :
    /\ i # k
    /\ {p.artifacts[i].role, p.artifacts[k].role} = {p.mappings[j].role}

\* ... F1 wants the bands of a raster to be of one type, and of a zarr store the
\* whole member map and every coordinate in a chunk that it can decode.
OddRaster(p) ==
  \E i \in Indices(p) : LET content == Content(p, i) IN
    p.artifacts[i].format = content.kind
      /\ \/ content.kind = "cog" /\ ~ReadsCog(content)
         \/ content.kind = "zarr" /\ ~ReadsZarr(content)

\* A package that meets the checklist is conformant, but for these five.
RejectionsJustified ==
  Reported /\ MeetsChecklist(pkg) =>
    \/ FromOutcomes(outcomes)
    \/ Dotted(pkg) \/ OtherEncoding(pkg) \/ EmptyIdentified(pkg) \/ SharedRole(pkg)
    \/ OddRaster(pkg)
=============================================================================
