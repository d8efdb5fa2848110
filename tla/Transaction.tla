---------------------------- MODULE Transaction ----------------------------
(***************************************************************************)
(* What a deriving verb promises its caller (HMX_SPEC 10.9 and 10.11): an  *)
(* invocation commits its package in one indivisible step, with the        *)
(* requested record already in place; an invocation that aborts leaves     *)
(* neither; only one that is lost (killed, or unable to clean up) may      *)
(* leave a record, and even that one leaves no package.                    *)
(***************************************************************************)
CONSTANTS Procs, Paths, Out, Rec, NoPath,
          Nobody   \* the owner of a destination nobody has filled

VARIABLES
  outcome,   \* how each invocation stands
  package,   \* package[path]: whose package is at that destination
  record     \* record[path]: whose record is at that destination

vars == <<outcome, package, record>>

Init ==
  /\ outcome = [p \in Procs |-> "running"]
  /\ package = [path \in Paths |-> Nobody]
  /\ record = [path \in Paths |-> Nobody]

RecordReady(p) == Rec[p] = NoPath \/ record[Rec[p]] = p

PlaceRecord(p) ==
  /\ outcome[p] = "running"
  /\ Rec[p] # NoPath
  /\ record[Rec[p]] = Nobody
  /\ record' = [record EXCEPT ![Rec[p]] = p]
  /\ UNCHANGED <<outcome, package>>

WithdrawRecord(p) ==
  /\ outcome[p] = "running"
  /\ Rec[p] # NoPath
  /\ record[Rec[p]] = p
  /\ record' = [record EXCEPT ![Rec[p]] = Nobody]
  /\ UNCHANGED <<outcome, package>>

Commit(p) ==
  /\ outcome[p] = "running"
  /\ RecordReady(p)
  /\ package[Out[p]] = Nobody
  /\ package' = [package EXCEPT ![Out[p]] = p]
  /\ outcome' = [outcome EXCEPT ![p] = "committed"]
  /\ UNCHANGED record

Abort(p) ==
  /\ outcome[p] = "running"
  /\ \A path \in Paths : record[path] # p
  /\ outcome' = [outcome EXCEPT ![p] = "aborted"]
  /\ UNCHANGED <<package, record>>

Lose(p) ==
  /\ outcome[p] = "running"
  /\ outcome' = [outcome EXCEPT ![p] = "lost"]
  /\ UNCHANGED <<package, record>>

Next ==
  \E p \in Procs :
    PlaceRecord(p) \/ WithdrawRecord(p) \/ Commit(p) \/ Abort(p) \/ Lose(p)

Spec == Init /\ [][Next]_vars
=============================================================================
