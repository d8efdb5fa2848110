--------------------------- MODULE MCPublication ---------------------------
(***************************************************************************)
(* Small instances of Publication: who publishes where.                    *)
(***************************************************************************)
EXTENDS PublicationRefinement, TLC

CONSTANTS p1, p2, p3, p4, o1, o2, r1, r2, pid1, pid2

\* Each invocation makes at most one entry of each kind, so it meets at most
\* |Procs| - 1 taken names of each kind before a free one.
Tries2 == 4
Tries4 == 8

\* One output and one process id for all; everyone asks for a record of its
\* own, or everyone for the same.
ContendOut2 == [p \in Procs |-> o1]
OwnRec2     == p1 :> r1 @@ p2 :> r2
SharedRec   == [p \in Procs |-> r1]
SamePid     == [p \in Procs |-> pid1]

\* Two packages, one record path for both.
OwnOut2 == p1 :> o1 @@ p2 :> o2

\* Pairs share an output or a record; p4 asks for its record at its output.
MixedOut4 == p1 :> o1 @@ p2 :> o1 @@ p3 :> o2 @@ p4 :> o2
MixedRec4 == p1 :> r2 @@ p2 :> r1 @@ p3 :> r1 @@ p4 :> o2
=============================================================================
