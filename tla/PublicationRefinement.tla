----------------------- MODULE PublicationRefinement -----------------------
(***************************************************************************)
(* Publication implements Transaction when no two invocations ask for the  *)
(* same record and no record path is another's output.  The point of       *)
(* commitment is the rename of the staging directory.                      *)
(***************************************************************************)
EXTENDS Publication

OutcomeBar ==
  [p \in Procs |->
     IF Published(p) THEN "committed"
     ELSE IF pc[p] = "failed" /\ failures[p] = {} THEN "aborted"
     ELSE IF pc[p] \in {"failed", "killed"} THEN "lost"
     ELSE "running"]

\* Whose finished entry of the given type a destination shows.
Holder(path, type) ==
  IF fs[path].type = type /\ fs[path].whole THEN fs[path].by ELSE Foreign

PackageBar == [path \in Paths |-> Holder(path, "dir")]
RecordBar  == [path \in Paths |-> Holder(path, "file")]

Abstract == INSTANCE Transaction WITH
  Nobody <- Foreign, outcome <- OutcomeBar, package <- PackageBar,
  record <- RecordBar

\* The transaction promised to the caller is what the filesystem calls do.
ImplementsTransaction == Abstract!Spec

-----------------------------------------------------------------------------
(***************************************************************************)
(* What the refinement needs beyond RecordInv.                             *)
(***************************************************************************)

\* Only a cleanup reports failures.
FailuresFromCleanup ==
  \A p \in Procs : pc[p] \notin {"cleanup", "failed", "killed"} => failures[p] = {}

\* An invocation's entries at destinations are at its own.
OwnDestinations ==
  \A p \in Procs, path \in Paths : fs[path].by = p => path \in {Out[p], Rec[p]}

\* A cleanup that still has the record under its guard finds it in place.
RecordUnderCleanup ==
  \A p \in Procs : pc[p] = "cleanup" /\ Rec[p] \in guard[p] =>
    fs[Rec[p]] = Made("file", p, TRUE)

RefinementInv ==
  RecordInv /\ FailuresFromCleanup /\ OwnDestinations /\ RecordUnderCleanup
=============================================================================
