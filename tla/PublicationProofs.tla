------------------------- MODULE PublicationProofs -------------------------
(***************************************************************************)
(* Proofs, for every number of invocations and every choice of their       *)
(* destinations, of the safety of the publication transaction, and that it *)
(* implements Transaction.                                                 *)
(***************************************************************************)
EXTENDS PublicationRefinement, TLAPS

\* The name an attempt of create_unique_* tries is a temporary name.
LEMMA UniqueType ==
  ASSUME TypeOK, NEW p \in Procs, NEW d \in Paths, counter[p] < MaxTries
  PROVE  /\ Unique("staging", p, d) \in TempName
         /\ Unique("record", p, d) \in TempName
         /\ counter[p] + 1 \in 0 .. MaxTries
BY ProcsAssumption DEF TypeOK, Unique, TempName

\* The entries the code makes are entries.
LEMMA MadeType ==
  ASSUME NEW type \in Kinds, NEW by \in Procs \cup {Foreign}, NEW whole \in BOOLEAN
  PROVE  Made(type, by, whole) \in Entry
BY DEF Made, Entry

\* A free name is one of the entries that a name can have.
LEMMA AbsentType == Absent \in Entry
BY DEF Absent, Entry, Kinds

\* A rename keeps the filesystem a function from names to entries.
LEMMA RenamedType ==
  ASSUME TypeOK, NEW from \in Name, NEW to \in Name
  PROVE  Renamed(from, to) \in [Name -> Entry]
BY AbsentType DEF TypeOK, Renamed

-----------------------------------------------------------------------------
(***************************************************************************)
(* The inductive invariant behind FailureLeavesNothing.                    *)
(***************************************************************************)

\* Initially there is nothing to account for.
LEMMA CleanupInvInit == Init => CleanupInv
<1> SUFFICES ASSUME Init PROVE CleanupInv
  OBVIOUS
<1> USE ProcsAssumption DEF Init
<1>1. TypeOK
  BY AbsentType DEF TypeOK, Label, Unguarded
<1>2. FreeIsForeign
  BY DEF FreeIsForeign, Absent
<1>3. GuardShape
  BY DEF GuardShape, Published, Guarded
<1>4. GuardOwnsTemp
  BY DEF GuardOwnsTemp
<1>5. EverythingAccountedFor
  BY DEF EverythingAccountedFor, Absent
<1>6. QED
  BY <1>1, <1>2, <1>3, <1>4, <1>5 DEF CleanupInv

\* Steps that touch neither the disk nor the guard.
LEMMA QuietStep ==
  ASSUME CleanupInv, NEW p \in Procs, NEW label \in Label, pc[p] # "killed",
         ~Published(p), Goto(p, label),
         UNCHANGED <<fs, counter, staging, temp, guard, failures>>,
         GuardShape'
  PROVE  CleanupInv'
<1> USE DEF CleanupInv, Goto
<1>1. TypeOK'
  BY DEF TypeOK
<1>2. FreeIsForeign' /\ GuardOwnsTemp'
  BY DEF FreeIsForeign, GuardOwnsTemp
<1>3. EverythingAccountedFor'
  BY DEF EverythingAccountedFor, TypeOK, Published
<1>4. QED
  BY <1>1, <1>2, <1>3

\* The steps of this kind, among them every failed check and every error.
LEMMA QuietSteps ==
  ASSUME CleanupInv, NEW p \in Procs,
         \/ CheckOut(p) \/ CheckRecord(p) \/ Plan(p) \/ RecheckRecord(p)
         \/ RecheckOut(p) \/ IoError(p)
         \/ RenameRecord(p) /\ Goto(p, "cleanup") /\ UNCHANGED <<fs, guard>>
         \/ RenameOut(p) /\ Goto(p, "cleanup") /\ UNCHANGED <<fs, guard>>
  PROVE  CleanupInv'
<1> USE DEF CleanupInv, Label, Unguarded, Guarded, Fallible, Terminal
<1>1. PICK label \in Label : Goto(p, label)
  BY DEF CheckOut, CheckRecord, Plan, RecheckRecord, RecheckOut, IoError
<1>2. /\ UNCHANGED <<fs, counter, staging, temp, guard, failures>>
      /\ pc[p] # "killed" /\ ~Published(p)
  BY DEF CheckOut, CheckRecord, Plan, RecheckRecord, RecheckOut, IoError,
         RenameRecord, RenameOut, Published
<1>3. GuardShape'
  <2>1. ASSUME NEW q \in Procs, q # p
        PROVE  pc'[q] = pc[q]
    BY <1>1, <2>1 DEF Goto, TypeOK
  <2>2. pc'[p] = label
    BY <1>1 DEF Goto, TypeOK
  <2>3. QED
    BY <1>1, <1>2, <2>1, <2>2
       DEF GuardShape, Published, Goto, CheckOut, CheckRecord, Plan,
           RecheckRecord, RecheckOut, IoError, RenameRecord, RenameOut
<1>4. QED
  BY <1>1, <1>2, <1>3, QuietStep

\* A name that an invocation has under its guard is taken, so a fresh name
\* is under nobody's guard.
LEMMA FreshIsUnguarded ==
  ASSUME CleanupInv, NEW name \in TempName, ~Taken(name)
  PROVE  \A q \in Procs : name \notin guard[q]
BY ProcsAssumption
   DEF CleanupInv, FreeIsForeign, GuardOwnsTemp, Taken, Name, TypeOK

\* create_unique_directory: the new directory is under the new guard.
LEMMA MakeStagingStep ==
  ASSUME CleanupInv, NEW p \in Procs, MakeStaging(p)
  PROVE  CleanupInv'
<1> DEFINE name == Unique("staging", p, Out[p])
<1> USE DEF CleanupInv
<1>1. /\ name \in TempName /\ name \in Name /\ name # NoPath
      /\ counter[p] + 1 \in 0 .. MaxTries
      /\ Made("emptydir", p, FALSE) \in Entry
  <2>1. Out[p] \in Paths /\ counter[p] < MaxTries
    BY ProcsAssumption DEF MakeStaging
  <2>2. Made("emptydir", p, FALSE) \in Entry
    BY DEF Made, Entry, Kinds
  <2>3. QED
    BY <2>1, <2>2, UniqueType, ProcsAssumption DEF Name
<1>2. CASE Taken(name)
  <2>1. /\ UNCHANGED <<fs, pc, staging, temp, guard, failures>>
        /\ counter' = [counter EXCEPT ![p] = @ + 1]
    BY <1>2 DEF MakeStaging
  <2>2. QED
    BY <1>1, <2>1
       DEF TypeOK, FreeIsForeign, GuardShape, GuardOwnsTemp,
           EverythingAccountedFor, Published
<1>3. CASE ~Taken(name)
  <2>1. /\ fs' = [fs EXCEPT ![name] = Made("emptydir", p, FALSE)]
        /\ staging' = [staging EXCEPT ![p] = name]
        /\ guard' = [guard EXCEPT ![p] = {name}]
        /\ pc' = [pc EXCEPT ![p] = "stage"]
        /\ counter' = [counter EXCEPT ![p] = @ + 1]
        /\ UNCHANGED <<temp, failures>>
        /\ pc[p] = "makeStaging"
    BY <1>3 DEF MakeStaging, Goto
  <2>2. \A q \in Procs : name \notin guard[q]
    BY <1>1, <1>3, FreshIsUnguarded
  <2> HIDE DEF name
  <2>3. TypeOK'
    BY <1>1, <2>1 DEF TypeOK, Label, Guarded
  <2>4. FreeIsForeign'
    BY <1>1, <2>1 DEF FreeIsForeign, TypeOK, Made
  <2>5. GuardShape'
    BY <1>1, <2>1 DEF GuardShape, TypeOK, Unguarded, Guarded, Published
  <2>6. GuardOwnsTemp'
    BY <1>1, <2>1, <2>2 DEF GuardOwnsTemp, TypeOK, Made
  <2>7. EverythingAccountedFor'
    BY <1>1, <2>1, ProcsAssumption
       DEF EverythingAccountedFor, TypeOK, Made, GuardShape, Unguarded,
           Published
  <2>8. QED
    BY <2>3, <2>4, <2>5, <2>6, <2>7
<1>4. QED
  BY <1>2, <1>3

\* Work on an entry that is already under the guard.
LEMMA RewriteStep ==
  ASSUME CleanupInv, NEW p \in Procs, pc[p] \in Guarded,
         NEW name \in guard[p] \cap TempName, NEW entry \in Entry,
         entry.by = p, entry.type # "none",
         fs' = [fs EXCEPT ![name] = entry],
         NEW label \in Label, Goto(p, label),
         UNCHANGED <<counter, staging, temp, guard, failures>>,
         GuardShape'
  PROVE  CleanupInv'
<1> USE DEF CleanupInv, Goto
<1>1. name \in Name
  BY DEF Name
<1>2. TypeOK'
  BY DEF TypeOK
<1>3. FreeIsForeign'
  BY DEF FreeIsForeign, TypeOK
<1>4. GuardOwnsTemp'
  BY <1>1 DEF GuardOwnsTemp, TypeOK
<1>5. EverythingAccountedFor'
  BY <1>1, ProcsAssumption DEF EverythingAccountedFor, TypeOK, Published, Guarded
<1>6. QED
  BY <1>2, <1>3, <1>4, <1>5

\* Copying, validating and writing the record.
LEMMA RewriteSteps ==
  ASSUME CleanupInv, NEW p \in Procs, Stage(p) \/ Validate(p) \/ WriteRecord(p)
  PROVE  CleanupInv'
<1> USE DEF CleanupInv, Goto
<1>1. PICK type \in {"dir", "file"}, whole \in BOOLEAN, name \in guard[p],
           label \in Label :
        /\ name \in TempName
        /\ fs' = [fs EXCEPT ![name] = Made(type, p, whole)]
        /\ Goto(p, label)
        /\ UNCHANGED <<counter, staging, temp, guard, failures>>
        /\ pc[p] \in Guarded
  <2>1. CASE Stage(p)
    BY <2>1 DEF Stage, GuardShape, Label, Guarded
  <2>2. CASE Validate(p)
    BY <2>2 DEF Validate, GuardShape, Label, Guarded
  <2>3. CASE WriteRecord(p)
    BY <2>3 DEF WriteRecord, GuardShape, Label, Guarded
  <2>4. QED
    BY <2>1, <2>2, <2>3
<1>2. /\ Made(type, p, whole) \in Entry
      /\ Made(type, p, whole).by = p
      /\ Made(type, p, whole).type # "none"
  BY <1>1 DEF Made, Entry, Kinds
<1>3. GuardShape'
  BY <1>1 DEF GuardShape, TypeOK, Published, Unguarded, Guarded, Stage,
              Validate, WriteRecord
<1>4. QED
  BY <1>1, <1>2, <1>3, RewriteStep

\* create_unique_file: the new file is added to the guard.
LEMMA MakeRecordStep ==
  ASSUME CleanupInv, NEW p \in Procs, MakeRecord(p)
  PROVE  CleanupInv'
<1> DEFINE name == Unique("record", p, Rec[p])
<1> USE DEF CleanupInv
<1>1. /\ name \in TempName /\ name \in Name /\ name # NoPath
      /\ counter[p] + 1 \in 0 .. MaxTries
      /\ Made("file", p, FALSE) \in Entry
  <2>1. Rec[p] \in Paths /\ counter[p] < MaxTries
    BY ProcsAssumption DEF MakeRecord, GuardShape
  <2>2. Made("file", p, FALSE) \in Entry
    BY DEF Made, Entry, Kinds
  <2>3. QED
    BY <2>1, <2>2, UniqueType, ProcsAssumption DEF Name
<1>2. CASE Taken(name)
  <2>1. /\ UNCHANGED <<fs, pc, staging, temp, guard, failures>>
        /\ counter' = [counter EXCEPT ![p] = @ + 1]
    BY <1>2 DEF MakeRecord
  <2>2. QED
    BY <1>1, <2>1
       DEF TypeOK, FreeIsForeign, GuardShape, GuardOwnsTemp,
           EverythingAccountedFor, Published
<1>3. CASE ~Taken(name)
  <2>1. /\ fs' = [fs EXCEPT ![name] = Made("file", p, FALSE)]
        /\ temp' = [temp EXCEPT ![p] = name]
        /\ guard' = [guard EXCEPT ![p] = @ \cup {name}]
        /\ pc' = [pc EXCEPT ![p] = "writeRecord"]
        /\ counter' = [counter EXCEPT ![p] = @ + 1]
        /\ UNCHANGED <<staging, failures>>
        /\ pc[p] = "makeRecord"
    BY <1>3 DEF MakeRecord, Goto
  <2>2. \A q \in Procs : name \notin guard[q]
    BY <1>1, <1>3, FreshIsUnguarded
  <2> HIDE DEF name
  <2>3. TypeOK'
    BY <1>1, <2>1 DEF TypeOK, Label, Guarded
  <2>4. FreeIsForeign'
    BY <1>1, <2>1 DEF FreeIsForeign, TypeOK, Made
  <2>5. GuardShape'
    BY <1>1, <2>1, <2>2 DEF GuardShape, TypeOK, Unguarded, Guarded, Published
  <2>6. GuardOwnsTemp'
    BY <1>1, <2>1, <2>2 DEF GuardOwnsTemp, TypeOK, Made
  <2>7. EverythingAccountedFor'
    BY <1>1, <2>1, ProcsAssumption
       DEF EverythingAccountedFor, TypeOK, Made, GuardShape, Published
  <2>8. QED
    BY <2>3, <2>4, <2>5, <2>6, <2>7
<1>4. QED
  BY <1>2, <1>3

\* Two guards never hold the same temporary name.
LEMMA GuardsApart ==
  ASSUME CleanupInv, NEW p \in Procs, NEW q \in Procs, p # q
  PROVE  guard[p] \cap guard[q] \cap TempName = {}
BY DEF CleanupInv, GuardOwnsTemp

\* rename(temp, final_path): the record changes names under the guard.
LEMMA RenameRecordStep ==
  ASSUME CleanupInv, NEW p \in Procs, RenameRecord(p)
  PROVE  CleanupInv'
<1> USE DEF CleanupInv
<1>1. CASE CanReplace(fs[temp[p]], fs[Rec[p]])
  <2> DEFINE from == temp[p]
             to   == Rec[p]
  <2>1. /\ pc[p] = "renameRecord"
        /\ fs' = Renamed(from, to)
        /\ guard' = [guard EXCEPT ![p] = (guard[p] \ {from}) \cup {to}]
        /\ pc' = [pc EXCEPT ![p] = "outExists"]
        /\ UNCHANGED <<counter, staging, temp, failures>>
    BY <1>1 DEF RenameRecord, Goto, GuardAfterRecord
  <2>2. /\ from \in TempName /\ from \in Name /\ from # staging[p]
        /\ guard[p] = {staging[p], from}
        /\ to \in Paths /\ to \in Name /\ to # NoPath /\ to \notin TempName
        /\ fs[from].by = p
    BY <2>1, ProcsAssumption DEF GuardShape, GuardOwnsTemp, Name
  <2>3. \A q \in Procs \ {p} : from \notin guard[q]
    BY <2>2, GuardsApart
  <2>4. fs' = [fs EXCEPT ![from] = Absent, ![to] = fs[from]]
    BY <2>1 DEF Renamed
  <2> HIDE DEF from, to
  <2>5. TypeOK'
    BY <2>1, <2>2, RenamedType DEF TypeOK, Label, Guarded
  <2>6. FreeIsForeign'
    BY <2>2, <2>4 DEF FreeIsForeign, TypeOK, Absent
  <2>7. GuardShape'
    BY <2>1, <2>2 DEF GuardShape, TypeOK, Unguarded, Guarded, Published, from, to
  <2>8. GuardOwnsTemp'
    BY <2>1, <2>2, <2>3, <2>4 DEF GuardOwnsTemp, TypeOK
  <2>9. EverythingAccountedFor'
    BY <2>1, <2>2, <2>4, ProcsAssumption
       DEF EverythingAccountedFor, TypeOK, Absent, Published
  <2>10. QED
    BY <2>5, <2>6, <2>7, <2>8, <2>9
<1>2. CASE ~CanReplace(fs[temp[p]], fs[Rec[p]])
  BY <1>2, QuietSteps DEF RenameRecord
<1>3. QED
  BY <1>1, <1>2

\* rename(staging, out): the package leaves the guard as it is published.
LEMMA RenameOutStep ==
  ASSUME CleanupInv, NEW p \in Procs, RenameOut(p)
  PROVE  CleanupInv'
<1> USE DEF CleanupInv
<1>1. CASE CanReplace(fs[staging[p]], fs[Out[p]])
  <2> DEFINE from == staging[p]
             to   == Out[p]
  <2>1. /\ pc[p] = "renameOut"
        /\ fs' = Renamed(from, to)
        /\ guard' = [guard EXCEPT ![p] = guard[p] \ {from, to, Rec[p]}]
        /\ pc' = [pc EXCEPT ![p] = "report"]
        /\ UNCHANGED <<counter, staging, temp, failures>>
    BY <1>1 DEF RenameOut, Goto
  <2>2. /\ from \in TempName /\ from \in Name
        /\ guard[p] = {from} \cup ({Rec[p]} \ {NoPath})
        /\ to \in Paths /\ to \in Name /\ to \notin TempName
        /\ fs[from].by = p
    BY <2>1, ProcsAssumption DEF GuardShape, GuardOwnsTemp, Name, Guarded
  <2>3. \A q \in Procs \ {p} : from \notin guard[q]
    BY <2>2, GuardsApart
  <2>4. fs' = [fs EXCEPT ![from] = Absent, ![to] = fs[from]]
    BY <2>1 DEF Renamed
  <2> HIDE DEF from, to
  <2>5. TypeOK'
    BY <2>1, <2>2, RenamedType DEF TypeOK, Label
  <2>6. FreeIsForeign'
    BY <2>2, <2>4 DEF FreeIsForeign, TypeOK, Absent
  <2>7. GuardShape'
    BY <2>1, <2>2 DEF GuardShape, TypeOK, Unguarded, Guarded, Published
  <2>8. GuardOwnsTemp'
    BY <2>1, <2>2, <2>3, <2>4 DEF GuardOwnsTemp, TypeOK
  <2>9. EverythingAccountedFor'
    BY <2>1, <2>2, <2>4, ProcsAssumption
       DEF EverythingAccountedFor, TypeOK, Absent, Published, to
  <2>10. QED
    BY <2>5, <2>6, <2>7, <2>8, <2>9
<1>2. CASE ~CanReplace(fs[staging[p]], fs[Out[p]])
  BY <1>2, QuietSteps DEF RenameOut
<1>3. QED
  BY <1>1, <1>2

\* main's write to stdout changes nothing on the disk.
LEMMA ReportStep ==
  ASSUME CleanupInv, NEW p \in Procs, Report(p)
  PROVE  CleanupInv'
BY DEF CleanupInv, Report, Goto, TypeOK, Label, Terminal, FreeIsForeign,
       GuardShape, GuardOwnsTemp, EverythingAccountedFor, Published, Unguarded,
       Guarded

\* cleanup(): a path leaves the guard when it is gone or has been reported.
LEMMA RemovePathStep ==
  ASSUME CleanupInv, NEW p \in Procs, RemovePath(p)
  PROVE  CleanupInv'
<1> USE DEF CleanupInv
<1>1. PICK path \in guard[p] :
        /\ guard' = [guard EXCEPT ![p] = @ \ {path}]
        /\ \/ fs' = [fs EXCEPT ![path] = Absent] /\ UNCHANGED failures
           \/ /\ fs[path].type # "none"
              /\ failures' = [failures EXCEPT ![p] = @ \cup {path}]
              /\ UNCHANGED fs \/ fs' = [fs EXCEPT ![path].whole = FALSE]
  BY DEF RemovePath
<1>2. pc[p] = "cleanup" /\ UNCHANGED <<pc, counter, staging, temp>>
  BY DEF RemovePath
<1>3. path \in Name
  BY DEF TypeOK
<1>4. /\ fs' \in [Name -> Entry]
      /\ \A name \in Name \ {path} : fs'[name] = fs[name]
      /\ \/ fs'[path] = Absent /\ UNCHANGED failures
         \/ /\ fs'[path].by = fs[path].by
            /\ fs'[path].type = fs[path].type
            /\ failures'[p] = failures[p] \cup {path}
      /\ \A q \in Procs : failures[q] \subseteq failures'[q]
  <2>1. CASE fs' = [fs EXCEPT ![path] = Absent] /\ UNCHANGED failures
    BY <1>3, <2>1, AbsentType DEF TypeOK
  <2>2. CASE UNCHANGED fs /\ failures' = [failures EXCEPT ![p] = @ \cup {path}]
    BY <1>3, <2>2 DEF TypeOK
  <2>3. CASE /\ fs' = [fs EXCEPT ![path].whole = FALSE]
             /\ failures' = [failures EXCEPT ![p] = @ \cup {path}]
    BY <1>3, <2>3 DEF TypeOK, Entry
  <2>4. QED
    BY <1>1, <2>1, <2>2, <2>3
<1>5. TypeOK'
  BY <1>1, <1>2, <1>3, <1>4 DEF TypeOK
<1>6. FreeIsForeign'
  BY <1>3, <1>4 DEF FreeIsForeign, Absent
<1>7. GuardShape'
  BY <1>1, <1>2 DEF GuardShape, TypeOK, Unguarded, Guarded, Published
<1>8. GuardOwnsTemp'
  <2>1. \A q \in Procs \ {p} : path \in TempName => path \notin guard[q]
    BY <1>1, GuardsApart
  <2>2. QED
    BY <1>1, <1>3, <1>4, <2>1 DEF GuardOwnsTemp, TypeOK
<1>9. EverythingAccountedFor'
  <2> SUFFICES ASSUME NEW q \in Procs, NEW name \in Name, fs'[name].by = q
               PROVE  \/ name \in guard'[q]
                      \/ name \in failures'[q]
                      \/ pc[q] = "killed"
                      \/ Published(q) /\ name \in {Out[q], Rec[q]}
    BY <1>2 DEF EverythingAccountedFor, Published
  <2>1. fs[name].by = q
    BY <1>3, <1>4, ProcsAssumption DEF Absent
  <2>2. CASE q = p /\ name = path
    BY <1>4, <2>2, ProcsAssumption DEF Absent
  <2>3. CASE ~(q = p /\ name = path)
    BY <1>1, <1>4, <2>1, <2>3 DEF EverythingAccountedFor, TypeOK, Published
  <2>4. QED
    BY <2>2, <2>3
<1>10. QED
  BY <1>5, <1>6, <1>7, <1>8, <1>9

\* The end of cleanup(): the guard is empty.
LEMMA FinishCleanupStep ==
  ASSUME CleanupInv, NEW p \in Procs, FinishCleanup(p)
  PROVE  CleanupInv'
BY DEF CleanupInv, FinishCleanup, Goto, TypeOK, Label, Terminal, FreeIsForeign,
       GuardShape, GuardOwnsTemp, EverythingAccountedFor, Published, Unguarded,
       Guarded

\* A kill empties the guard, and what it held is lost.
LEMMA KillStep ==
  ASSUME CleanupInv, NEW p \in Procs, Kill(p)
  PROVE  CleanupInv'
BY DEF CleanupInv, Kill, Goto, TypeOK, Label, Terminal, FreeIsForeign,
       GuardShape, GuardOwnsTemp, EverythingAccountedFor, Published, Unguarded,
       Guarded

\* Another program's entry appears under a free destination name.
LEMMA ForeignCreateStep ==
  ASSUME CleanupInv, NEW path \in Paths, ForeignCreate(path)
  PROVE  CleanupInv'
<1> USE DEF CleanupInv
<1>1. PICK type \in Kinds \ {"none"} :
        fs' = [fs EXCEPT ![path] = Made(type, Foreign, FALSE)]
  BY DEF ForeignCreate
<1>2. Made(type, Foreign, FALSE) \in Entry
  BY MadeType
<1>3. UNCHANGED <<pc, counter, staging, temp, guard, failures>>
  BY DEF ForeignCreate
<1>4. path \in Name /\ path \notin TempName
  BY ProcsAssumption DEF Name
<1>5. QED
  BY <1>1, <1>2, <1>3, <1>4, ProcsAssumption
     DEF TypeOK, FreeIsForeign, GuardShape, GuardOwnsTemp,
         EverythingAccountedFor, Published, Made

\* CleanupInv is inductive.
LEMMA CleanupInvStep == CleanupInv /\ [Next]_vars => CleanupInv'
<1> SUFFICES ASSUME CleanupInv, [Next]_vars PROVE CleanupInv'
  OBVIOUS
<1>1. ASSUME NEW p \in Procs, Step(p)
      PROVE  CleanupInv'
  BY <1>1, QuietSteps, MakeStagingStep, RewriteSteps, MakeRecordStep,
     RenameRecordStep, RenameOutStep, ReportStep, RemovePathStep,
     FinishCleanupStep
     DEF Step
<1>2. ASSUME NEW p \in Procs, Kill(p)
      PROVE  CleanupInv'
  BY <1>2, KillStep
<1>3. ASSUME NEW path \in Paths, ForeignCreate(path)
      PROVE  CleanupInv'
  BY <1>3, ForeignCreateStep
<1>4. CASE UNCHANGED vars
  BY <1>4 DEF vars, CleanupInv, TypeOK, FreeIsForeign, GuardShape,
              GuardOwnsTemp, EverythingAccountedFor, Published
<1>5. QED
  BY <1>1, <1>2, <1>3, <1>4 DEF Next

\* The cleanup invariant holds in every reachable state.
THEOREM CleanupInvHolds == Spec => []CleanupInv
BY CleanupInvInit, CleanupInvStep, PTL DEF Spec

\* The variables keep their types.
THEOREM TypeCorrect == Spec => []TypeOK
<1>1. CleanupInv => TypeOK
  BY DEF CleanupInv
<1>2. QED
  BY <1>1, CleanupInvHolds, PTL

\* However the invocations overlap and whatever fails, an invocation that
\* returns an error has removed everything it made, up to the paths it
\* reports (CleanupGuard in derivation.rs).
THEOREM FailureIsClean == Spec => []FailureLeavesNothing
<1>1. CleanupInv => FailureLeavesNothing
  BY DEF CleanupInv, FailureLeavesNothing, EverythingAccountedFor, GuardShape,
         Published
<1>2. QED
  BY <1>1, CleanupInvHolds, PTL

-----------------------------------------------------------------------------
(***************************************************************************)
(* Packages: nobody touches a published package.                           *)
(***************************************************************************)

\* A step changes the entry at a destination only by renaming the record or the
\* package to it, or by removing the record.
LEMMA DestinationChanges ==
  ASSUME CleanupInv, NEW path \in Paths, NEW p \in Procs, Step(p),
         fs'[path] # fs[path]
  PROVE  \/ /\ path = Rec[p]
            /\ \/ /\ RenameRecord(p)
                  /\ CanReplace(fs[temp[p]], fs[path])
                  /\ fs'[path] = fs[temp[p]]
               \/ /\ RemovePath(p)
                  /\ path \in guard[p]
                  /\ \/ fs'[path] = Absent
                     \/ fs[path].type = "dir" /\ fs'[path].by = fs[path].by
                          /\ ~fs'[path].whole
         \/ /\ path = Out[p]
            /\ RenameOut(p)
            /\ CanReplace(fs[staging[p]], fs[path])
            /\ fs'[path] = fs[staging[p]]
<1> USE ProcsAssumption DEF CleanupInv, Name
<1>1. path \in Name /\ path \notin TempName
  OBVIOUS
<1>2. ~(CheckOut(p) \/ CheckRecord(p) \/ Plan(p) \/ RecheckRecord(p)
          \/ RecheckOut(p) \/ Report(p) \/ IoError(p) \/ FinishCleanup(p))
  BY DEF CheckOut, CheckRecord, Plan, RecheckRecord, RecheckOut, Report,
         IoError, FinishCleanup
<1>3. ~MakeStaging(p)
  <2>1. CASE MakeStaging(p)
    <3>1. Unique("staging", p, Out[p]) \in TempName
      BY <2>1, UniqueType DEF MakeStaging
    <3>2. QED
      BY <1>1, <2>1, <3>1 DEF MakeStaging, TypeOK
  <2>2. QED
    BY <2>1
<1>4. ~MakeRecord(p)
  <2>1. CASE MakeRecord(p)
    <3>1. Rec[p] \in Paths
      BY <2>1 DEF MakeRecord, GuardShape
    <3>2. Unique("record", p, Rec[p]) \in TempName
      BY <2>1, <3>1, UniqueType DEF MakeRecord
    <3>3. QED
      BY <1>1, <2>1, <3>2 DEF MakeRecord, TypeOK
  <2>2. QED
    BY <2>1
<1>5. ~(Stage(p) \/ Validate(p) \/ WriteRecord(p))
  <2>1. CASE Stage(p) \/ Validate(p)
    <3>1. staging[p] \in TempName
      BY <2>1 DEF Stage, Validate, GuardShape, Guarded
    <3>2. QED
      BY <1>1, <2>1, <3>1 DEF Stage, Validate, TypeOK
  <2>2. CASE WriteRecord(p)
    <3>1. temp[p] \in TempName
      BY <2>2 DEF WriteRecord, GuardShape
    <3>2. QED
      BY <1>1, <2>2, <3>1 DEF WriteRecord, TypeOK
  <2>3. QED
    BY <2>1, <2>2
<1>6. CASE RenameRecord(p)
  <2>1. temp[p] \in TempName /\ Rec[p] \in Paths
    BY <1>6 DEF RenameRecord, GuardShape
  <2>2. QED
    BY <1>1, <1>6, <2>1 DEF RenameRecord, Renamed, TypeOK
<1>7. CASE RenameOut(p)
  <2>1. staging[p] \in TempName
    BY <1>7 DEF RenameOut, GuardShape, Guarded
  <2>2. QED
    BY <1>1, <1>7, <2>1 DEF RenameOut, Renamed, TypeOK
<1>8. CASE RemovePath(p)
  <2>1. PICK gone \in guard[p] :
          \/ fs' = [fs EXCEPT ![gone] = Absent]
          \/ UNCHANGED fs
          \/ fs[gone].type = "dir" /\ fs' = [fs EXCEPT ![gone].whole = FALSE]
    BY <1>8 DEF RemovePath
  <2>2. gone = path
    BY <2>1 DEF TypeOK
  <2>3. path = Rec[p]
    BY <1>1, <2>2 DEF GuardShape
  <2>4. \/ fs'[path] = Absent
        \/ fs[path].type = "dir" /\ fs'[path].by = fs[path].by /\ ~fs'[path].whole
    BY <1>1, <2>1, <2>2 DEF TypeOK, Entry
  <2>5. QED
    BY <1>8, <2>2, <2>3, <2>4
<1>9. QED
  BY <1>2, <1>3, <1>4, <1>5, <1>6, <1>7, <1>8 DEF Step

\* So an entry that is not at its record path changes only when the package is
\* renamed to it.
LEMMA OnlyThroughRecordOrOutput ==
  ASSUME CleanupInv, NEW path \in Paths, NEW p \in Procs, Step(p),
         path # Rec[p], fs'[path] # fs[path]
  PROVE  path = Out[p] /\ RenameOut(p) /\ CanReplace(fs[staging[p]], fs[Out[p]])
BY DestinationChanges

\* A temporary entry under one invocation's guard is out of the others' reach.
LEMMA OthersKeepTemp ==
  ASSUME CleanupInv, NEW p \in Procs, NEW q \in Procs, p # q, Step(p),
         NEW name \in guard[q] \cap TempName
  PROVE  fs'[name] = fs[name]
<1> USE ProcsAssumption DEF CleanupInv, Name
<1>1. name \in Name /\ name \notin Paths /\ Taken(name)
  BY DEF GuardOwnsTemp, FreeIsForeign, Taken
<1>2. name \notin guard[p]
  BY GuardsApart
<1>3. CASE MakeStaging(p) \/ MakeRecord(p)
  BY <1>1, <1>3 DEF MakeStaging, MakeRecord, TypeOK
<1>4. CASE Stage(p) \/ Validate(p) \/ WriteRecord(p)
  <2>1. CASE Stage(p) \/ Validate(p)
    <3>1. staging[p] \in guard[p]
      BY <2>1 DEF Stage, Validate, GuardShape
    <3>2. QED
      BY <1>1, <1>2, <2>1, <3>1 DEF Stage, Validate, TypeOK
  <2>2. CASE WriteRecord(p)
    <3>1. temp[p] \in guard[p]
      BY <2>2 DEF WriteRecord, GuardShape
    <3>2. QED
      BY <1>1, <1>2, <2>2, <3>1 DEF WriteRecord, TypeOK
  <2>3. QED
    BY <1>4, <2>1, <2>2
<1>5. CASE RenameRecord(p)
  BY <1>1, <1>2, <1>5 DEF RenameRecord, Renamed, TypeOK, GuardShape
<1>6. CASE RenameOut(p)
  BY <1>1, <1>2, <1>6 DEF RenameOut, Renamed, TypeOK, GuardShape, Guarded
<1>7. CASE RemovePath(p)
  BY <1>1, <1>2, <1>7 DEF RemovePath, TypeOK
<1>8. QED
  BY <1>3, <1>4, <1>5, <1>6, <1>7
     DEF Step, CheckOut, CheckRecord, Plan, RecheckRecord, RecheckOut,
         Report, IoError, FinishCleanup

\* The staged package is complete from Validate on.
LEMMA StagedWholeStep ==
  ASSUME CleanupInv, StagedWhole, [Next]_vars
  PROVE  StagedWhole'
<1> USE ProcsAssumption DEF CleanupInv, Name
<1> SUFFICES ASSUME NEW q \in Procs, pc'[q] \in Guarded \ {"stage", "validate"}
             PROVE  fs'[staging'[q]] = Made("dir", q, TRUE)
  BY DEF StagedWhole
<1>1. ASSUME NEW p \in Procs, Step(p), p # q
      PROVE  fs'[staging'[q]] = Made("dir", q, TRUE)
  <2>1. pc'[q] = pc[q] /\ staging'[q] = staging[q]
    BY <1>1 DEF TypeOK, Goto, Step, CheckOut, CheckRecord, Plan, MakeStaging,
                Stage, Validate, MakeRecord, WriteRecord, RecheckRecord,
                RenameRecord, RecheckOut, RenameOut, Report, IoError,
                RemovePath, FinishCleanup
  <2>2. fs[staging[q]] = Made("dir", q, TRUE)
    BY <2>1 DEF StagedWhole
  <2>3. /\ staging[q] \in TempName /\ staging[q] \in guard[q]
    BY <2>1 DEF GuardShape, Guarded
  <2>4. fs'[staging[q]] = fs[staging[q]]
    BY <1>1, <2>3, OthersKeepTemp
  <2>5. QED
    BY <2>1, <2>2, <2>4
<1>2. ASSUME Step(q)
      PROVE  fs'[staging'[q]] = Made("dir", q, TRUE)
  <2>1. CASE Validate(q)
    BY <2>1 DEF Validate, TypeOK, GuardShape, Guarded, Goto
  <2>2. CASE MakeRecord(q)
    BY <2>2 DEF MakeRecord, TypeOK, GuardShape, Guarded, Goto, Taken,
                StagedWhole, Made
  <2>3. CASE WriteRecord(q)
    BY <2>3 DEF WriteRecord, TypeOK, GuardShape, Guarded, Goto, StagedWhole
  <2>4. CASE RenameRecord(q)
    <3>1. /\ CanReplace(fs[temp[q]], fs[Rec[q]])
          /\ fs' = Renamed(temp[q], Rec[q])
          /\ UNCHANGED staging
      BY <2>4 DEF RenameRecord, Goto, TypeOK, Guarded
    <3>2. /\ staging[q] \in TempName /\ staging[q] # temp[q]
          /\ staging[q] # Rec[q]
          /\ fs[staging[q]] = Made("dir", q, TRUE)
      BY <2>4 DEF RenameRecord, GuardShape, Guarded, StagedWhole
    <3>3. QED
      BY <3>1, <3>2 DEF Renamed, TypeOK
  <2>5. CASE RecheckRecord(q) \/ RecheckOut(q)
    BY <2>5 DEF RecheckRecord, RecheckOut, TypeOK, Guarded, Goto, StagedWhole
  <2>6. QED
    BY <1>2, <2>1, <2>2, <2>3, <2>4, <2>5
       DEF Step, CheckOut, CheckRecord, Plan, MakeStaging, Stage, RenameOut,
           Report, IoError, RemovePath, FinishCleanup, TypeOK, Goto, Guarded,
           Unguarded, Fallible
<1>3. ASSUME NEW p \in Procs, Kill(p)
      PROVE  fs'[staging'[q]] = Made("dir", q, TRUE)
  BY <1>3 DEF Kill, Goto, TypeOK, StagedWhole, Guarded, Terminal
<1>4. ASSUME NEW path \in Paths, ForeignCreate(path)
      PROVE  fs'[staging'[q]] = Made("dir", q, TRUE)
  <2>1. pc[q] \in Guarded \ {"stage", "validate"} /\ staging' = staging
    BY <1>4 DEF ForeignCreate
  <2>2. staging[q] \in TempName /\ staging[q] # path
    BY <1>4, <2>1 DEF GuardShape
  <2>3. fs'[staging[q]] = fs[staging[q]]
    BY <1>4, <2>2 DEF ForeignCreate, TypeOK
  <2>4. QED
    BY <2>1, <2>3 DEF StagedWhole
<1>5. CASE UNCHANGED vars
  BY <1>5 DEF vars, StagedWhole
<1>6. QED
  BY <1>1, <1>2, <1>3, <1>4, <1>5 DEF Next

\* A package, once at its destination, is left alone by every step.
LEMMA PublishedStaysStep ==
  ASSUME RecordsNotOutputs, CleanupInv, StagedWhole, PublishedStays, [Next]_vars
  PROVE  PublishedStays'
<1> USE ProcsAssumption DEF CleanupInv, Name
<1> SUFFICES ASSUME NEW q \in Procs, Published(q)'
             PROVE  fs'[Out[q]] = Made("dir", q, TRUE)
  BY DEF PublishedStays
<1>1. ASSUME NEW p \in Procs, Step(p), p # q
      PROVE  fs'[Out[q]] = Made("dir", q, TRUE)
  <2>1. pc'[q] = pc[q]
    BY <1>1 DEF TypeOK, Goto, Step, CheckOut, CheckRecord, Plan, MakeStaging,
                Stage, Validate, MakeRecord, WriteRecord, RecheckRecord,
                RenameRecord, RecheckOut, RenameOut, Report, IoError,
                RemovePath, FinishCleanup
  <2>2. fs[Out[q]] = Made("dir", q, TRUE)
    BY <2>1 DEF PublishedStays, Published
  <2>3. Out[q] # Rec[p]
    BY <1>1 DEF RecordsNotOutputs
  <2>4. CASE fs'[Out[q]] # fs[Out[q]]
    <3>1. /\ RenameOut(p) /\ Out[p] = Out[q]
          /\ CanReplace(fs[staging[p]], fs[Out[p]])
      BY <1>1, <2>3, <2>4, OnlyThroughRecordOrOutput
    <3>2. fs[staging[p]] = Made("dir", p, TRUE)
      BY <3>1 DEF RenameOut, StagedWhole, Guarded
    <3>3. QED
      BY <2>2, <3>1, <3>2 DEF CanReplace, Made
  <2>5. QED
    BY <2>2, <2>4
<1>2. ASSUME Step(q)
      PROVE  fs'[Out[q]] = Made("dir", q, TRUE)
  <2>1. CASE Report(q)
    BY <2>1 DEF Report, PublishedStays, Published
  <2>2. CASE RenameOut(q)
    <3>1. /\ pc[q] = "renameOut"
          /\ fs' = Renamed(staging[q], Out[q])
      BY <2>2 DEF RenameOut, Goto, Published, TypeOK
    <3>2. /\ fs[staging[q]] = Made("dir", q, TRUE)
          /\ staging[q] \in TempName /\ staging[q] # Out[q]
      BY <3>1 DEF StagedWhole, GuardShape, Guarded
    <3>3. QED
      BY <3>1, <3>2 DEF Renamed, TypeOK
  <2>3. QED
    BY <1>2, <2>1, <2>2
       DEF Step, CheckOut, CheckRecord, Plan, MakeStaging, Stage, Validate,
           MakeRecord, WriteRecord, RecheckRecord, RenameRecord, RecheckOut,
           IoError, RemovePath, FinishCleanup, TypeOK, Goto, Guarded,
           Unguarded, Fallible, Published
<1>3. ASSUME NEW p \in Procs, Kill(p)
      PROVE  fs'[Out[q]] = Made("dir", q, TRUE)
  BY <1>3 DEF Kill, Goto, TypeOK, PublishedStays, Published
<1>4. ASSUME NEW path \in Paths, ForeignCreate(path)
      PROVE  fs'[Out[q]] = Made("dir", q, TRUE)
  <2>1. fs[Out[q]] = Made("dir", q, TRUE)
    BY <1>4 DEF ForeignCreate, PublishedStays, Published
  <2>2. path # Out[q]
    BY <1>4, <2>1 DEF ForeignCreate, Made
  <2>3. QED
    BY <1>4, <2>1, <2>2 DEF ForeignCreate, TypeOK
<1>5. CASE UNCHANGED vars
  BY <1>5 DEF vars, PublishedStays, Published
<1>6. QED
  BY <1>1, <1>2, <1>3, <1>4, <1>5 DEF Next

\* PublishInv is inductive when records are kept apart from outputs.
THEOREM PublishInvHolds ==
  ASSUME RecordsNotOutputs
  PROVE  Spec => []PublishInv
<1>1. Init => PublishInv
  BY CleanupInvInit
     DEF PublishInv, Init, StagedWhole, PublishedStays, Published, Guarded
<1>2. PublishInv /\ [Next]_vars => PublishInv'
  BY RecordsNotOutputs, CleanupInvStep, StagedWholeStep, PublishedStaysStep
     DEF PublishInv
<1>3. QED
  BY <1>1, <1>2, PTL DEF Spec

\* At most one invocation publishes under a name, its package is complete
\* there, and no invocation, failing or not, replaces or removes it.
THEOREM PackagesAreSafe ==
  ASSUME RecordsNotOutputs
  PROVE  Spec => []PublishedStays
<1>1. PublishInv => PublishedStays
  BY DEF PublishInv
<1>2. QED
  BY <1>1, PublishInvHolds, PTL

-----------------------------------------------------------------------------
(***************************************************************************)
(* Records: a published package never lacks the record asked for with it.  *)
(***************************************************************************)

\* CheckRecord refuses a record at the output; later labels are reached only
\* through it.
LEMMA RecordNotOwnOutputStep ==
  ASSUME CleanupInv, RecordNotOwnOutput, [Next]_vars
  PROVE  RecordNotOwnOutput'
<1> USE ProcsAssumption DEF RecordNotOwnOutput, Goto
<1>1. ASSUME NEW p \in Procs, Step(p)
      PROVE  RecordNotOwnOutput'
  <2>1. TypeOK
    BY DEF CleanupInv
  <2>2. CASE CheckOut(p)
    BY <2>1, <2>2 DEF TypeOK, CheckOut, Name
  <2>3. CASE CheckRecord(p)
    BY <2>1, <2>3 DEF TypeOK, CheckRecord
  <2>4. CASE Plan(p) \/ MakeStaging(p) \/ Stage(p) \/ Validate(p)
    BY <2>1, <2>4
       DEF TypeOK, Plan, MakeStaging, Stage, Validate
  <2>5. CASE MakeRecord(p) \/ WriteRecord(p) \/ RecheckRecord(p) \/ RenameRecord(p)
    BY <2>1, <2>5
       DEF TypeOK, MakeRecord, WriteRecord, RecheckRecord, RenameRecord
  <2>6. CASE RecheckOut(p) \/ RenameOut(p) \/ Report(p)
    BY <2>1, <2>6 DEF TypeOK, RecheckOut, RenameOut, Report
  <2>7. CASE IoError(p) \/ RemovePath(p) \/ FinishCleanup(p)
    BY <2>1, <2>7
       DEF TypeOK, IoError, RemovePath, FinishCleanup, Unguarded, Fallible, Guarded
  <2>8. QED
    BY <1>1, <2>2, <2>3, <2>4, <2>5, <2>6, <2>7 DEF Step
<1>2. ASSUME NEW p \in Procs, Kill(p)
      PROVE  RecordNotOwnOutput'
  BY <1>2 DEF Kill, CleanupInv, TypeOK, Published
<1>3. ASSUME NEW path \in Paths, ForeignCreate(path)
      PROVE  RecordNotOwnOutput'
  BY <1>3 DEF ForeignCreate
<1>4. CASE UNCHANGED vars
  BY <1>4 DEF vars
<1>5. QED
  BY <1>1, <1>2, <1>3, <1>4 DEF Next

\* The temporary record is complete from its sync to its rename.
LEMMA TempWholeStep ==
  ASSUME CleanupInv, TempWhole, [Next]_vars
  PROVE  TempWhole'
<1> USE ProcsAssumption DEF CleanupInv, Name
<1> SUFFICES ASSUME NEW q \in Procs, pc'[q] \in {"recordExists", "renameRecord"}
             PROVE  fs'[temp'[q]] = Made("file", q, TRUE)
  BY DEF TempWhole
<1>1. ASSUME NEW p \in Procs, Step(p), p # q
      PROVE  fs'[temp'[q]] = Made("file", q, TRUE)
  <2>1. pc'[q] = pc[q] /\ temp'[q] = temp[q]
    BY <1>1 DEF TypeOK, Goto, Step, CheckOut, CheckRecord, Plan, MakeStaging,
                Stage, Validate, MakeRecord, WriteRecord, RecheckRecord,
                RenameRecord, RecheckOut, RenameOut, Report, IoError,
                RemovePath, FinishCleanup
  <2>2. temp[q] \in guard[q] \cap TempName
    BY <2>1 DEF GuardShape
  <2>3. fs'[temp[q]] = fs[temp[q]]
    BY <1>1, <2>2, OthersKeepTemp
  <2>4. QED
    BY <2>1, <2>3 DEF TempWhole
<1>2. ASSUME Step(q)
      PROVE  fs'[temp'[q]] = Made("file", q, TRUE)
  <2>1. CASE WriteRecord(q)
    <3>1. /\ temp[q] \in TempName /\ temp' = temp
          /\ fs' = [fs EXCEPT ![temp[q]] = Made("file", q, TRUE)]
      BY <2>1 DEF WriteRecord, GuardShape
    <3>2. QED
      BY <3>1 DEF TypeOK
  <2>2. CASE RecheckRecord(q)
    BY <2>2 DEF RecheckRecord, Goto, TypeOK, TempWhole
  <2>3. QED
    BY <1>2, <2>1, <2>2
       DEF Step, CheckOut, CheckRecord, Plan, MakeStaging, Stage, Validate,
           MakeRecord, RenameRecord, RecheckOut, RenameOut, Report, IoError,
           RemovePath, FinishCleanup, TypeOK, Goto
<1>3. ASSUME NEW p \in Procs, Kill(p)
      PROVE  fs'[temp'[q]] = Made("file", q, TRUE)
  BY <1>3 DEF Kill, Goto, TypeOK, TempWhole
<1>4. ASSUME NEW path \in Paths, ForeignCreate(path)
      PROVE  fs'[temp'[q]] = Made("file", q, TRUE)
  <2>1. temp[q] \in TempName /\ temp[q] # path
    BY <1>4 DEF ForeignCreate, GuardShape
  <2>2. QED
    BY <1>4, <2>1 DEF ForeignCreate, TypeOK, TempWhole
<1>5. CASE UNCHANGED vars
  BY <1>5 DEF vars, TempWhole
<1>6. QED
  BY <1>1, <1>2, <1>3, <1>4, <1>5 DEF Next

\* The record is complete under its final name.
LEMMA RecordInPlaceStep ==
  ASSUME RecordsNotOutputs, RecordsDistinct, CleanupInv, RecordNotOwnOutput,
         TempWhole, RecordInPlace, [Next]_vars
  PROVE  RecordInPlace'
<1> USE ProcsAssumption DEF CleanupInv, Name
<1> DEFINE InPlace(q) == /\ pc[q] \in {"outExists", "renameOut"} \/ Published(q)
                         /\ Rec[q] # NoPath
<1> SUFFICES ASSUME NEW q \in Procs, InPlace(q)'
             PROVE  fs'[Rec[q]] = Made("file", q, TRUE)
  BY DEF RecordInPlace
<1>1. ASSUME NEW p \in Procs, Step(p), p # q
      PROVE  fs'[Rec[q]] = Made("file", q, TRUE)
  <2>1. pc'[q] = pc[q]
    BY <1>1 DEF TypeOK, Goto, Step, CheckOut, CheckRecord, Plan, MakeStaging,
                Stage, Validate, MakeRecord, WriteRecord, RecheckRecord,
                RenameRecord, RecheckOut, RenameOut, Report, IoError,
                RemovePath, FinishCleanup
  <2>2. InPlace(q)
    BY <2>1 DEF Published
  <2>3. Rec[q] \in Paths /\ Rec[q] # Rec[p] /\ Rec[q] # Out[p]
    BY <1>1, <2>2 DEF RecordsDistinct, RecordsNotOutputs
  <2>4. fs'[Rec[q]] = fs[Rec[q]]
    BY <1>1, <2>3, OnlyThroughRecordOrOutput
  <2>5. QED
    BY <2>2, <2>4 DEF RecordInPlace
<1>2. ASSUME Step(q)
      PROVE  fs'[Rec[q]] = Made("file", q, TRUE)
  <2>1. CASE RenameRecord(q)
    <3>1. /\ fs[temp[q]] = Made("file", q, TRUE)
          /\ temp[q] \in TempName /\ Rec[q] \in Paths
      BY <2>1 DEF RenameRecord, TempWhole, GuardShape
    <3>2. fs' = Renamed(temp[q], Rec[q])
      BY <2>1 DEF RenameRecord, Goto, TypeOK, Published
    <3>3. QED
      BY <3>1, <3>2 DEF Renamed, TypeOK
  <2>2. CASE RenameOut(q)
    <3>1. pc[q] = "renameOut" /\ staging[q] \in TempName
      BY <2>2 DEF RenameOut, GuardShape, Guarded
    <3>2. Rec[q] # Out[q] /\ Rec[q] \in Paths /\ Rec[q] # staging[q]
      BY <3>1 DEF RecordNotOwnOutput
    <3>3. fs'[Rec[q]] = fs[Rec[q]]
      BY <2>2, <3>2 DEF RenameOut, Renamed, TypeOK
    <3>4. QED
      BY <3>1, <3>3 DEF RecordInPlace
  <2>3. CASE RecheckOut(q) \/ Report(q)
    BY <2>3 DEF RecheckOut, Report, Goto, TypeOK, RecordInPlace, Published
  <2>4. CASE Validate(q)
    BY <2>4 DEF Validate, Goto, TypeOK, Published
  <2>5. QED
    BY <1>2, <2>1, <2>2, <2>3, <2>4
       DEF Step, CheckOut, CheckRecord, Plan, MakeStaging, Stage, MakeRecord,
           WriteRecord, RecheckRecord, IoError, RemovePath, FinishCleanup,
           TypeOK, Goto, Guarded, Unguarded, Fallible, Published
<1>3. ASSUME NEW p \in Procs, Kill(p)
      PROVE  fs'[Rec[q]] = Made("file", q, TRUE)
  BY <1>3 DEF Kill, Goto, TypeOK, RecordInPlace, Published
<1>4. ASSUME NEW path \in Paths, ForeignCreate(path)
      PROVE  fs'[Rec[q]] = Made("file", q, TRUE)
  <2>1. Rec[q] \in Name /\ fs[Rec[q]] = Made("file", q, TRUE)
    BY <1>4 DEF ForeignCreate, RecordInPlace, Published
  <2>2. QED
    BY <1>4, <2>1 DEF ForeignCreate, TypeOK, Made
<1>5. CASE UNCHANGED vars
  BY <1>5 DEF vars, RecordInPlace, Published
<1>6. QED
  BY <1>1, <1>2, <1>3, <1>4, <1>5 DEF Next

\* Only the rename of the staged package puts an invocation's entry at its
\* output.
LEMMA OutputImpliesPublishedStep ==
  ASSUME RecordsNotOutputs, CleanupInv, RecordNotOwnOutput,
         OutputImpliesPublished, [Next]_vars
  PROVE  OutputImpliesPublished'
<1> USE ProcsAssumption DEF CleanupInv, Name
<1> SUFFICES ASSUME NEW q \in Procs, fs'[Out[q]].by = q
             PROVE  Published(q)'
  BY DEF OutputImpliesPublished
<1>1. ASSUME NEW p \in Procs, Step(p), p # q
      PROVE  Published(q)'
  <2>1. pc'[q] = pc[q]
    BY <1>1 DEF TypeOK, Goto, Step, CheckOut, CheckRecord, Plan, MakeStaging,
                Stage, Validate, MakeRecord, WriteRecord, RecheckRecord,
                RenameRecord, RecheckOut, RenameOut, Report, IoError,
                RemovePath, FinishCleanup
  <2>2. CASE fs'[Out[q]] # fs[Out[q]]
    <3>1. /\ RenameOut(p) /\ Out[p] = Out[q]
          /\ CanReplace(fs[staging[p]], fs[Out[p]])
      BY <1>1, <2>2, OnlyThroughRecordOrOutput DEF RecordsNotOutputs
    <3>2. staging[p] \in TempName /\ fs[staging[p]].by = p
      BY <3>1 DEF RenameOut, GuardShape, GuardOwnsTemp, Guarded
    <3>3. fs'[Out[q]] = fs[staging[p]]
      BY <3>1, <3>2 DEF RenameOut, Renamed, TypeOK
    <3>4. QED
      BY <1>1, <3>2, <3>3
  <2>3. QED
    BY <2>1, <2>2 DEF OutputImpliesPublished, Published
<1>2. ASSUME Step(q)
      PROVE  Published(q)'
  <2>1. CASE Published(q)
    BY <1>2, <2>1
       DEF Published, Step, CheckOut, CheckRecord, Plan, MakeStaging, Stage,
           Validate, MakeRecord, WriteRecord, RecheckRecord, RenameRecord,
           RecheckOut, RenameOut, Report, IoError, RemovePath, FinishCleanup,
           Unguarded, Guarded, Fallible, Goto, TypeOK
  <2>2. CASE ~Published(q) /\ Rec[q] # Out[q]
    <3>1. fs'[Out[q]] # fs[Out[q]]
      BY <2>2 DEF OutputImpliesPublished
    <3>2. RenameOut(q) /\ CanReplace(fs[staging[q]], fs[Out[q]])
      BY <1>2, <2>2, <3>1, OnlyThroughRecordOrOutput
    <3>3. QED
      BY <3>2 DEF RenameOut, Goto, TypeOK, Published
  <2>3. CASE ~Published(q) /\ Rec[q] = Out[q]
    <3>1. pc[q] \in {"start", "checkRecord", "failed", "killed"}
      BY <2>3 DEF RecordNotOwnOutput
    <3>2. fs' = fs
      BY <1>2, <3>1
         DEF Step, CheckOut, CheckRecord, Plan, MakeStaging, Stage, Validate,
             MakeRecord, WriteRecord, RecheckRecord, RenameRecord, RecheckOut,
             RenameOut, Report, IoError, RemovePath, FinishCleanup
    <3>3. QED
      BY <2>3, <3>2 DEF OutputImpliesPublished
  <2>4. QED
    BY <2>1, <2>2, <2>3
<1>3. ASSUME NEW p \in Procs, Kill(p)
      PROVE  Published(q)'
  BY <1>3 DEF Kill, Goto, TypeOK, OutputImpliesPublished, Published
<1>4. ASSUME NEW path \in Paths, ForeignCreate(path)
      PROVE  Published(q)'
  <2>1. fs'[Out[q]] = fs[Out[q]]
    BY <1>4 DEF ForeignCreate, TypeOK, Made
  <2>2. QED
    BY <1>4, <2>1 DEF ForeignCreate, OutputImpliesPublished, Published
<1>5. CASE UNCHANGED vars
  BY <1>5 DEF vars, OutputImpliesPublished, Published
<1>6. QED
  BY <1>1, <1>2, <1>3, <1>4, <1>5 DEF Next

\* RecordInv is inductive when every record path is one invocation's own.
THEOREM RecordInvHolds ==
  ASSUME RecordsNotOutputs, RecordsDistinct
  PROVE  Spec => []RecordInv
<1>1. Init => RecordInv
  BY CleanupInvInit, ProcsAssumption
     DEF RecordInv, PublishInv, Init, StagedWhole, PublishedStays, Published,
         Guarded, RecordNotOwnOutput, RecordWhole, TempWhole, RecordInPlace,
         OutputImpliesPublished, Absent, Name
<1>2. RecordInv /\ [Next]_vars => RecordInv'
  BY RecordsNotOutputs, RecordsDistinct, CleanupInvStep, StagedWholeStep,
     PublishedStaysStep, RecordNotOwnOutputStep, TempWholeStep,
     RecordInPlaceStep, OutputImpliesPublishedStep
     DEF RecordInv, PublishInv, RecordWhole
<1>3. QED
  BY <1>1, <1>2, PTL DEF Spec

\* At every instant, kills included, a package at its destination has the
\* record requested with it in place: the record is renamed first and is
\* withdrawn only when the package is not published.
THEOREM RecordsAccompanyPackages ==
  ASSUME RecordsNotOutputs, RecordsDistinct
  PROVE  Spec => []RecordAccompanies
<1>1. RecordInv => RecordAccompanies
  BY DEF RecordInv, RecordAccompanies, OutputImpliesPublished, RecordWhole,
         RecordInPlace
<1>2. QED
  BY <1>1, RecordInvHolds, PTL

\* A successful invocation finds its record where it asked for it.
THEOREM RecordsAtSuccess ==
  ASSUME RecordsNotOutputs, RecordsDistinct
  PROVE  Spec => []RecordAtSuccess
<1>1. RecordInv => RecordAtSuccess
  BY DEF RecordInv, RecordAtSuccess, RecordWhole, RecordInPlace, Published
<1>2. QED
  BY <1>1, RecordInvHolds, PTL

-----------------------------------------------------------------------------
(***************************************************************************)
(* Taken outputs: rename(2) of a directory replaces nothing but an empty   *)
(* directory, and no other call of the tool touches an output.             *)
(***************************************************************************)

\* Where only packages are published, no step of any invocation, failing or
\* not, and no other program changes an entry that somebody has put there,
\* except that a whole package replaces an empty directory.
THEOREM OutputsAreNeverClobbered == Spec => OutputsNeverClobbered
<1> DEFINE Inv == CleanupInv /\ StagedWhole
           Kept == \A path \in {Out[p] : p \in Procs} \ {Rec[p] : p \in Procs} :
                     fs[path].type # "none" /\ fs'[path] # fs[path] =>
                       /\ fs[path].type = "emptydir"
                       /\ \E p \in Procs : Out[p] = path /\ fs'[path] = Made("dir", p, TRUE)
<1>1. Init => Inv
  BY CleanupInvInit DEF Init, StagedWhole, Guarded
<1>2. Inv /\ [Next]_vars => Inv'
  BY CleanupInvStep, StagedWholeStep
<1>3. Inv /\ [Next]_vars => [Kept]_fs
  <2> USE ProcsAssumption DEF Name
  <2> SUFFICES ASSUME Inv, [Next]_vars,
                      NEW path \in {Out[p] : p \in Procs} \ {Rec[p] : p \in Procs},
                      fs[path].type # "none", fs'[path] # fs[path]
               PROVE  /\ fs[path].type = "emptydir"
                      /\ \E p \in Procs : Out[p] = path /\ fs'[path] = Made("dir", p, TRUE)
    OBVIOUS
  <2>0. path \in Paths /\ \A p \in Procs : path # Rec[p]
    OBVIOUS
  <2>1. ASSUME NEW p \in Procs, Step(p)
        PROVE  /\ fs[path].type = "emptydir"
               /\ Out[p] = path /\ fs'[path] = Made("dir", p, TRUE)
    <3>1. /\ path = Out[p] /\ RenameOut(p)
          /\ CanReplace(fs[staging[p]], fs[path]) /\ fs'[path] = fs[staging[p]]
      BY <2>0, <2>1, DestinationChanges
    <3>2. fs[staging[p]] = Made("dir", p, TRUE)
      BY <3>1 DEF RenameOut, StagedWhole, Guarded
    <3>3. QED
      BY <3>1, <3>2 DEF CanReplace, Made
  <2>2. ASSUME NEW p \in Procs, Kill(p)
        PROVE  FALSE
    BY <2>2 DEF Kill
  <2>3. ASSUME NEW other \in Paths, ForeignCreate(other)
        PROVE  FALSE
    BY <2>0, <2>3 DEF ForeignCreate, CleanupInv, TypeOK
  <2>4. CASE UNCHANGED vars
    BY <2>4 DEF vars
  <2>5. QED
    BY <2>1, <2>2, <2>3, <2>4 DEF Next
<1>4. QED
  BY <1>1, <1>2, <1>3, PTL DEF Spec, OutputsNeverClobbered

-----------------------------------------------------------------------------
(***************************************************************************)
(* Destinations: nothing unfinished is ever seen there.                    *)
(***************************************************************************)

\* A complete package or record arrives at a destination by its rename, and a
\* removal that fails half way spoils a directory only, which no record is.
LEMMA DestinationsFilledStep ==
  ASSUME RecordsNotOutputs, CleanupInv, StagedWhole, RecordNotOwnOutput,
         TempWhole, DestinationsFilled, [Next]_vars
  PROVE  DestinationsFilled'
<1> USE ProcsAssumption DEF CleanupInv, Name
<1> DEFINE Filled(entry, path) ==
      entry.by \in Procs =>
        entry.whole /\ (entry.type = "dir" => \E q \in Procs : path = Out[q])
<1> SUFFICES ASSUME NEW path \in Paths
             PROVE  Filled(fs'[path], path)
  BY DEF DestinationsFilled
<1>1. Filled(fs[path], path) /\ path \in Name /\ path \notin TempName
  BY DEF DestinationsFilled
<1>2. ASSUME NEW p \in Procs, Step(p), fs'[path] # fs[path]
      PROVE  Filled(fs'[path], path)
  <2>1. CASE path = Out[p] /\ RenameOut(p) /\ fs'[path] = fs[staging[p]]
    <3>1. fs[staging[p]] = Made("dir", p, TRUE)
      BY <2>1 DEF RenameOut, StagedWhole, Guarded
    <3>2. QED
      BY <2>1, <3>1 DEF Made
  <2>2. CASE path = Rec[p] /\ RenameRecord(p) /\ fs'[path] = fs[temp[p]]
    <3>1. fs[temp[p]] = Made("file", p, TRUE)
      BY <2>2 DEF RenameRecord, TempWhole
    <3>2. QED
      BY <2>2, <3>1 DEF Made
  <2>3. CASE path = Rec[p] /\ RemovePath(p) /\ fs'[path] = Absent
    BY <2>3 DEF Absent
  <2>4. CASE /\ path = Rec[p] /\ RemovePath(p)
             /\ fs[path].type = "dir" /\ fs'[path].by = fs[path].by
    <3>1. \A q \in Procs : path # Out[q]
      BY <2>4 DEF RemovePath, RecordsNotOutputs, RecordNotOwnOutput
    <3>2. QED
      BY <1>1, <2>4, <3>1
  <2>5. QED
    BY <1>2, <2>1, <2>2, <2>3, <2>4, DestinationChanges
<1>3. ASSUME NEW p \in Procs, Kill(p)
      PROVE  Filled(fs'[path], path)
  BY <1>1, <1>3 DEF Kill
<1>4. ASSUME NEW other \in Paths, ForeignCreate(other)
      PROVE  Filled(fs'[path], path)
  BY <1>1, <1>4 DEF ForeignCreate, TypeOK, Made
<1>5. CASE UNCHANGED vars
  BY <1>1, <1>5 DEF vars
<1>6. QED
  BY <1>1, <1>2, <1>3, <1>4, <1>5 DEF Next

\* WholeInv is inductive; invocations may share their record path.
THEOREM WholeInvHolds ==
  ASSUME RecordsNotOutputs
  PROVE  Spec => []WholeInv
<1>1. Init => WholeInv
  BY CleanupInvInit, ProcsAssumption
     DEF WholeInv, Init, StagedWhole, Guarded, RecordNotOwnOutput, TempWhole,
         DestinationsFilled, Absent, Name
<1>2. WholeInv /\ [Next]_vars => WholeInv'
  BY RecordsNotOutputs, CleanupInvStep, StagedWholeStep, RecordNotOwnOutputStep,
     TempWholeStep, DestinationsFilledStep
     DEF WholeInv
<1>3. QED
  BY <1>1, <1>2, PTL DEF Spec

\* Whatever fails or is killed, and whoever else publishes the same record, a
\* destination never shows a package or a record that is not complete.
THEOREM DestinationsAreWhole ==
  ASSUME RecordsNotOutputs
  PROVE  Spec => []DestinationsWhole
<1>1. WholeInv => DestinationsWhole
  BY DEF WholeInv, DestinationsWhole, DestinationsFilled
<1>2. QED
  BY <1>1, WholeInvHolds, PTL

-----------------------------------------------------------------------------
(***************************************************************************)
(* Contention: the invocations do not all give way to each other.          *)
(***************************************************************************)

\* The hypotheses of this section: the environment kills invocations and breaks
\* stdout, but no call fails and no other program creates entries.
Undisturbed == Faults \subseteq {"kill", "stdout"}

\* Whose entry a destination can be, before anybody has won: that of an
\* invocation which holds its record there.
LEMMA HolderBeforeWin ==
  ASSUME YieldInv, ~SomeoneWon, NEW path \in Paths, fs[path].type # "none"
  PROVE  \E q \in Procs : /\ path = Rec[q] /\ Rec[q] # Out[q]
                          /\ pc[q] \in {"outExists", "renameOut"}
<1> USE ProcsAssumption DEF YieldInv, CleanupInv, Name
<1>1. PICK q \in Procs : fs[path].by = q
  BY DEF NobodyElse
<1>2. path \in guard[q]
  BY <1>1 DEF EverythingAccountedFor, NobodyElse, SomeoneWon
<1>3. path = Rec[q] /\ pc[q] # "cleanup"
  BY <1>2 DEF GuardShape, NoRecordWithdrawn
<1>4. pc[q] \in {"outExists", "renameOut"}
  BY <1>2, <1>3 DEF GuardShape, TypeOK, Label, Guarded, Unguarded, Terminal,
                    Published
<1>5. QED
  BY <1>3, <1>4 DEF RecordNotOwnOutput

\* Before anybody has won, all outputs are free.
LEMMA OutputsFreeBeforeWin ==
  ASSUME RecordsRefusedOrApart, YieldInv, ~SomeoneWon, NEW p \in Procs
  PROVE  fs[Out[p]].type = "none"
BY ProcsAssumption, HolderBeforeWin DEF RecordsRefusedOrApart

\* The winner never loses its title.
LEMMA WinnersStay ==
  ASSUME CleanupInv, SomeoneWon, [Next]_vars
  PROVE  SomeoneWon'
<1>1. PICK q \in Procs : Published(q) \/ pc[q] = "killed"
  BY DEF SomeoneWon
<1>2. ASSUME NEW p \in Procs, Step(p)
      PROVE  Published(q)' \/ pc'[q] = "killed"
  BY <1>1, <1>2
     DEF CleanupInv, TypeOK, Goto, Published, Step, CheckOut, CheckRecord, Plan,
         MakeStaging, Stage, Validate, MakeRecord, WriteRecord, RecheckRecord,
         RenameRecord, RecheckOut, RenameOut, Report, IoError, RemovePath,
         FinishCleanup, Unguarded, Fallible, Guarded
<1>3. ASSUME NEW p \in Procs, Kill(p)
      PROVE  Published(q)' \/ pc'[q] = "killed"
  BY <1>1, <1>3 DEF Kill, Goto, Published, CleanupInv, TypeOK
<1>4. ASSUME NEW path \in Paths, ForeignCreate(path)
      PROVE  Published(q)' \/ pc'[q] = "killed"
  BY <1>1, <1>4 DEF ForeignCreate, Published
<1>5. ASSUME UNCHANGED vars
      PROVE  Published(q)' \/ pc'[q] = "killed"
  BY <1>1, <1>5 DEF vars, Published
<1>6. Published(q)' \/ pc'[q] = "killed"
  BY <1>2, <1>3, <1>4, <1>5 DEF Next
<1>7. QED
  BY <1>6 DEF SomeoneWon, Published

\* An invocation gives up only when another holds the record path; before
\* anybody has won, an output does not stand in its way.
LEMMA WhyGiveUp ==
  ASSUME RecordsRefusedOrApart, Undisturbed, YieldInv, ~SomeoneWon,
         NEW p \in Procs, Step(p), pc[p] \notin {"failed", "cleanup"},
         pc'[p] \in {"failed", "cleanup"}
  PROVE  /\ fs' = fs /\ guard' = guard
         /\ pc[p] \in {"checkRecord", "recordExists", "renameRecord"}
         /\ Rec[p] = Out[p] \/ fs[Rec[p]].type # "none"
<1> USE ProcsAssumption DEF YieldInv, CleanupInv, TypeOK, Goto
<1>1. fs[Out[p]].type = "none"
  BY OutputsFreeBeforeWin
<1>2. ~IoError(p)
  BY DEF IoError, Undisturbed
<1>3. ~CheckOut(p) /\ ~RecheckOut(p)
  BY <1>1 DEF CheckOut, RecheckOut, Exists
<1>4. ~RenameOut(p)
  BY <1>1 DEF RenameOut, CanReplace
<1>5. CASE CheckRecord(p) \/ RecheckRecord(p)
  BY <1>5 DEF CheckRecord, RecheckRecord, Exists
<1>6. CASE RenameRecord(p)
  BY <1>6 DEF RenameRecord, CanReplace
<1>7. QED
  BY <1>2, <1>3, <1>4, <1>5, <1>6
     DEF Step, Plan, MakeStaging, Stage, Validate, MakeRecord, WriteRecord,
         Report, RemovePath, FinishCleanup

\* Without foreign programs and failing calls, every entry is an invocation's.
LEMMA NobodyElseStep ==
  ASSUME Undisturbed, CleanupInv, NobodyElse, [Next]_vars
  PROVE  NobodyElse'
<1> USE ProcsAssumption DEF CleanupInv, TypeOK, Name
<1>1. ASSUME NEW p \in Procs, Step(p)
      PROVE  NobodyElse'
  <2>1. failures' = failures
    BY <1>1 DEF Step, CheckOut, CheckRecord, Plan, MakeStaging, Stage, Validate,
                MakeRecord, WriteRecord, RecheckRecord, RenameRecord,
                RecheckOut, RenameOut, Report, IoError, RemovePath,
                FinishCleanup, Undisturbed
  <2>2. ASSUME NEW name \in Name, fs'[name].type # "none"
        PROVE  fs'[name].by \in Procs
    <3>1. CASE fs'[name] = fs[name]
      BY <2>2, <3>1 DEF NobodyElse
    <3>2. ASSUME NEW other, NEW type, NEW whole,
                 fs' = [fs EXCEPT ![other] = Made(type, p, whole)]
          PROVE  fs'[name].by \in Procs
      BY <2>2, <3>2 DEF NobodyElse, Made
    <3>3. ASSUME NEW from \in Name, NEW to, fs' = Renamed(from, to)
          PROVE  fs'[name].by \in Procs
      BY <2>2, <3>3 DEF NobodyElse, Renamed, Absent
    <3>4. CASE MakeStaging(p) \/ MakeRecord(p) \/ Stage(p) \/ Validate(p) \/ WriteRecord(p)
      <4>1. \/ fs' = fs
            \/ \E other \in {Unique("staging", p, Out[p]), Unique("record", p, Rec[p]),
                             staging[p], temp[p]}, type \in Kinds, whole \in BOOLEAN :
                 fs' = [fs EXCEPT ![other] = Made(type, p, whole)]
        BY <3>4 DEF MakeStaging, MakeRecord, Stage, Validate, WriteRecord, Kinds
      <4>2. QED
        BY <3>1, <3>2, <4>1
    <3>5. CASE RenameRecord(p)
      <4>1. temp[p] \in Name
        BY <3>5 DEF RenameRecord, GuardShape
      <4>2. QED
        BY <3>1, <3>3, <3>5, <4>1 DEF RenameRecord
    <3>6. CASE RenameOut(p)
      <4>1. staging[p] \in Name
        BY <3>6 DEF RenameOut, GuardShape, Guarded
      <4>2. QED
        BY <3>1, <3>3, <3>6, <4>1 DEF RenameOut
    <3>7. CASE RemovePath(p)
      BY <2>2, <3>7 DEF RemovePath, NobodyElse, Absent, Undisturbed
    <3>8. QED
      BY <1>1, <3>1, <3>4, <3>5, <3>6, <3>7
         DEF Step, CheckOut, CheckRecord, Plan, RecheckRecord, RecheckOut,
             Report, IoError, FinishCleanup
  <2>3. QED
    BY <2>1, <2>2 DEF NobodyElse
<1>2. ASSUME NEW p \in Procs, Kill(p)
      PROVE  NobodyElse'
  BY <1>2 DEF Kill, NobodyElse
<1>3. ~ \E path \in Paths : ForeignCreate(path)
  BY DEF ForeignCreate, Undisturbed
<1>4. CASE UNCHANGED vars
  BY <1>4 DEF vars, NobodyElse
<1>5. QED
  BY <1>1, <1>2, <1>3, <1>4 DEF Next

\* Who holds a record before anybody has won does not withdraw it.
LEMMA NoRecordWithdrawnStep ==
  ASSUME RecordsRefusedOrApart, Undisturbed, YieldInv, [Next]_vars
  PROVE  NoRecordWithdrawn'
<1> USE ProcsAssumption DEF YieldInv, Name
<1> SUFFICES ASSUME NEW q \in Procs, pc'[q] = "cleanup", ~SomeoneWon'
             PROVE  Rec[q] \notin guard'[q]
  BY DEF NoRecordWithdrawn
<1>1. ~SomeoneWon
  BY WinnersStay
<1>2. ASSUME NEW p \in Procs, Step(p), p # q
      PROVE  pc'[q] = pc[q] /\ guard'[q] = guard[q]
  BY <1>2 DEF CleanupInv, TypeOK, Goto, Step, CheckOut, CheckRecord, Plan,
              MakeStaging, Stage, Validate, MakeRecord, WriteRecord,
              RecheckRecord, RenameRecord, RecheckOut, RenameOut, Report,
              IoError, RemovePath, FinishCleanup
<1>3. ASSUME Step(q), pc[q] = "cleanup"
      PROVE  guard'[q] \subseteq guard[q]
  BY <1>3 DEF CleanupInv, TypeOK, Goto, Step, CheckOut, CheckRecord, Plan,
              MakeStaging, Stage, Validate, MakeRecord, WriteRecord,
              RecheckRecord, RenameRecord, RecheckOut, RenameOut, Report,
              IoError, RemovePath, FinishCleanup, Unguarded, Fallible, Guarded
<1>4. ASSUME Step(q), pc[q] # "cleanup"
      PROVE  Rec[q] \notin guard'[q]
  <2>1. /\ guard' = guard
        /\ pc[q] \in {"checkRecord", "recordExists", "renameRecord"}
    <3>1. pc[q] # "failed"
      BY <1>4 DEF Step, CheckOut, CheckRecord, Plan, MakeStaging, Stage,
                  Validate, MakeRecord, WriteRecord, RecheckRecord,
                  RenameRecord, RecheckOut, RenameOut, Report, IoError,
                  RemovePath, FinishCleanup, Unguarded, Fallible, Guarded
    <3>2. QED
      BY <1>1, <1>4, <3>1, WhyGiveUp
  <2>2. guard[q] \subseteq TempName
    BY <2>1 DEF CleanupInv, GuardShape, Unguarded, Guarded
  <2>3. QED
    BY <2>1, <2>2
<1>5. ASSUME NEW p \in Procs, Kill(p)
      PROVE  FALSE
  <2>1. Published(p)' \/ pc'[p] = "killed"
    BY <1>5 DEF Kill, Goto, Published, CleanupInv, TypeOK
  <2>2. QED
    BY <2>1 DEF SomeoneWon, Published
<1>6. ~ \E path \in Paths : ForeignCreate(path)
  BY DEF ForeignCreate, Undisturbed
<1>7. CASE UNCHANGED vars
  BY <1>1, <1>7 DEF vars, NoRecordWithdrawn
<1>8. QED
  BY <1>1, <1>2, <1>3, <1>4, <1>5, <1>6, <1>7 DEF Next, NoRecordWithdrawn

\* Who gives up leaves behind the one that made it give up.
LEMMA SomeoneRemainsStep ==
  ASSUME RecordsRefusedOrApart, Undisturbed, YieldInv, [Next]_vars
  PROVE  SomeoneRemains'
<1> USE ProcsAssumption DEF YieldInv, Name
<1> SUFFICES ASSUME ~SomeoneWon'
             PROVE  \E q \in Procs : Rec[q] # Out[q] /\ pc'[q] \notin {"failed", "cleanup"}
  BY DEF SomeoneRemains
<1>1. ~SomeoneWon
  BY WinnersStay
<1>2. PICK q \in Procs : Rec[q] # Out[q] /\ pc[q] \notin {"failed", "cleanup"}
  BY <1>1 DEF SomeoneRemains
<1>3. ASSUME NEW p \in Procs, Step(p)
      PROVE  \A r \in Procs \ {p} : pc'[r] = pc[r]
  BY <1>3 DEF CleanupInv, TypeOK, Goto, Step, CheckOut, CheckRecord, Plan,
              MakeStaging, Stage, Validate, MakeRecord, WriteRecord,
              RecheckRecord, RenameRecord, RecheckOut, RenameOut, Report,
              IoError, RemovePath, FinishCleanup
<1>4. CASE Step(q) /\ pc'[q] \in {"failed", "cleanup"}
  <2>1. /\ pc[q] \in {"checkRecord", "recordExists", "renameRecord"}
        /\ fs[Rec[q]].type # "none"
    BY <1>1, <1>2, <1>4, WhyGiveUp
  <2>2. Rec[q] \in Paths
    BY <2>1 DEF CleanupInv, GuardShape
  <2>3. PICK r \in Procs : Rec[r] # Out[r] /\ pc[r] \in {"outExists", "renameOut"}
    BY <1>1, <2>1, <2>2, HolderBeforeWin
  <2>4. pc'[r] = pc[r]
    BY <1>3, <1>4, <2>1, <2>3
  <2>5. QED
    BY <2>3, <2>4
<1>5. ASSUME NEW p \in Procs, Kill(p)
      PROVE  FALSE
  <2>1. Published(p)' \/ pc'[p] = "killed"
    BY <1>5 DEF Kill, Goto, Published, CleanupInv, TypeOK
  <2>2. QED
    BY <2>1 DEF SomeoneWon, Published
<1>6. ~ \E path \in Paths : ForeignCreate(path)
  BY DEF ForeignCreate, Undisturbed
<1>7. CASE UNCHANGED vars
  BY <1>2, <1>7 DEF vars
<1>8. QED
  BY <1>2, <1>3, <1>4, <1>5, <1>6, <1>7 DEF Next

\* The invariant needs one invocation that does not ask for its record at its
\* own output.
THEOREM YieldInvHolds ==
  ASSUME RecordsRefusedOrApart, Undisturbed, \E p \in Procs : Rec[p] # Out[p]
  PROVE  Spec => []YieldInv
<1>1. Init => YieldInv
  BY CleanupInvInit, ProcsAssumption
     DEF YieldInv, Init, RecordNotOwnOutput, NobodyElse, NoRecordWithdrawn,
         SomeoneRemains, Absent
<1>2. YieldInv /\ [Next]_vars => YieldInv'
  BY RecordsRefusedOrApart, Undisturbed, CleanupInvStep, RecordNotOwnOutputStep,
     NobodyElseStep, NoRecordWithdrawnStep, SomeoneRemainsStep
     DEF YieldInv
<1>3. QED
  BY <1>1, <1>2, PTL DEF Spec

\* However many invocations contend for outputs and records, when all of them
\* have ended, one has published, or was killed.
THEOREM SomeoneAlwaysPublishes ==
  ASSUME RecordsRefusedOrApart, Undisturbed, \E p \in Procs : Rec[p] # Out[p]
  PROVE  Spec => []SomeonePublishes
<1>1. YieldInv => SomeonePublishes
  BY DEF YieldInv, SomeonePublishes, SomeoneRemains, SomeoneWon, Terminal,
         Published
<1>2. QED
  BY <1>1, YieldInvHolds, PTL
-----------------------------------------------------------------------------
(***************************************************************************)
(* The refinement: every step is one of the five actions of Transaction or *)
(* a stutter, for any number of invocations, any faults and any            *)
(* interference by other programs.                                         *)
(***************************************************************************)

\* Failures are reported by a cleanup and kept afterwards.
LEMMA FailuresFromCleanupStep ==
  ASSUME CleanupInv, FailuresFromCleanup, [Next]_vars
  PROVE  FailuresFromCleanup'
<1> USE DEF CleanupInv, TypeOK, Goto, FailuresFromCleanup
<1>1. ASSUME NEW p \in Procs, Step(p)
      PROVE  FailuresFromCleanup'
  <2>1. CASE RemovePath(p)
    BY <2>1 DEF RemovePath
  <2>2. CASE ~RemovePath(p)
    <3>1. failures' = failures /\ \A q \in Procs \ {p} : pc'[q] = pc[q]
      BY <1>1, <2>2
         DEF Step, CheckOut, CheckRecord, Plan, MakeStaging, Stage, Validate,
             MakeRecord, WriteRecord, RecheckRecord, RenameRecord, RecheckOut,
             RenameOut, Report, IoError, FinishCleanup
    <3>2. pc[p] \in {"cleanup", "failed", "killed"} =>
            pc'[p] \in {"cleanup", "failed", "killed"}
      BY <1>1, <2>2
         DEF Step, CheckOut, CheckRecord, Plan, MakeStaging, Stage, Validate,
             MakeRecord, WriteRecord, RecheckRecord, RenameRecord, RecheckOut,
             RenameOut, Report, IoError, FinishCleanup, Unguarded, Fallible,
             Guarded
    <3>3. QED
      BY <3>1, <3>2
  <2>3. QED
    BY <2>1, <2>2
<1>2. ASSUME NEW p \in Procs, Kill(p)
      PROVE  FailuresFromCleanup'
  BY <1>2 DEF Kill, Published, Terminal
<1>3. ASSUME NEW path \in Paths, ForeignCreate(path)
      PROVE  FailuresFromCleanup'
  BY <1>3 DEF ForeignCreate
<1>4. CASE UNCHANGED vars
  BY <1>4 DEF vars
<1>5. QED
  BY <1>1, <1>2, <1>3, <1>4 DEF Next

\* The two renames lead to the invocation's own destinations.
LEMMA OwnDestinationsStep ==
  ASSUME CleanupInv, OwnDestinations, [Next]_vars
  PROVE  OwnDestinations'
<1> USE ProcsAssumption DEF CleanupInv, Name
<1> SUFFICES ASSUME NEW q \in Procs, NEW path \in Paths, fs'[path].by = q
             PROVE  path \in {Out[q], Rec[q]}
  BY DEF OwnDestinations
<1>1. CASE fs'[path] = fs[path]
  BY <1>1 DEF OwnDestinations
<1>2. ASSUME NEW p \in Procs, Step(p), fs'[path] # fs[path]
      PROVE  path \in {Out[q], Rec[q]}
  <2>1. CASE path = Rec[p] /\ RenameRecord(p) /\ fs'[path] = fs[temp[p]]
    <3>1. fs[temp[p]].by = p
      BY <2>1 DEF RenameRecord, GuardShape, GuardOwnsTemp
    <3>2. QED
      BY <2>1, <3>1
  <2>2. CASE path = Out[p] /\ RenameOut(p) /\ fs'[path] = fs[staging[p]]
    <3>1. fs[staging[p]].by = p
      BY <2>2 DEF RenameOut, GuardShape, GuardOwnsTemp, Guarded
    <3>2. QED
      BY <2>2, <3>1
  <2>3. CASE fs'[path] = Absent
    BY <2>3 DEF Absent
  <2>4. CASE fs'[path].by = fs[path].by
    BY <2>4 DEF OwnDestinations
  <2>5. QED
    BY <1>2, <2>1, <2>2, <2>3, <2>4, DestinationChanges
<1>3. ASSUME NEW p \in Procs, Kill(p)
      PROVE  fs'[path] = fs[path]
  BY <1>3 DEF Kill
<1>4. ASSUME NEW other \in Paths, ForeignCreate(other)
      PROVE  fs'[path] = fs[path]
  BY <1>4 DEF ForeignCreate, TypeOK, Made
<1>5. ASSUME UNCHANGED vars
      PROVE  fs'[path] = fs[path]
  BY <1>5 DEF vars
<1>6. QED
  BY <1>1, <1>2, <1>3, <1>4, <1>5 DEF Next

\* A cleanup finds the record where the rename has put it.
LEMMA RecordUnderCleanupStep ==
  ASSUME RecordsNotOutputs, RecordsDistinct, CleanupInv, RecordNotOwnOutput,
         RecordInPlace, RecordUnderCleanup, [Next]_vars
  PROVE  RecordUnderCleanup'
<1> USE ProcsAssumption DEF CleanupInv, Name
<1> SUFFICES ASSUME NEW q \in Procs, pc'[q] = "cleanup", Rec[q] \in guard'[q]
             PROVE  fs'[Rec[q]] = Made("file", q, TRUE)
  BY DEF RecordUnderCleanup
<1>1. ASSUME NEW p \in Procs, Step(p), p # q
      PROVE  fs'[Rec[q]] = Made("file", q, TRUE)
  <2>1. pc'[q] = pc[q] /\ guard'[q] = guard[q]
    BY <1>1 DEF TypeOK, Goto, Step, CheckOut, CheckRecord, Plan, MakeStaging,
                Stage, Validate, MakeRecord, WriteRecord, RecheckRecord,
                RenameRecord, RecheckOut, RenameOut, Report, IoError,
                RemovePath, FinishCleanup
  <2>2. Rec[q] \in Paths
    BY <2>1 DEF TypeOK
  <2>3. Rec[q] # Rec[p] /\ Rec[q] # Out[p]
    BY <1>1, <2>2 DEF RecordsDistinct, RecordsNotOutputs
  <2>4. fs'[Rec[q]] = fs[Rec[q]]
    BY <1>1, <2>2, <2>3, OnlyThroughRecordOrOutput
  <2>5. QED
    BY <2>1, <2>4 DEF RecordUnderCleanup
<1>2. ASSUME Step(q)
      PROVE  fs'[Rec[q]] = Made("file", q, TRUE)
  <2>1. CASE RemovePath(q)
    <3>1. PICK gone \in guard[q] :
            /\ guard' = [guard EXCEPT ![q] = @ \ {gone}]
            /\ \/ fs' = [fs EXCEPT ![gone] = Absent]
               \/ UNCHANGED fs
               \/ fs' = [fs EXCEPT ![gone].whole = FALSE]
      BY <2>1 DEF RemovePath
    <3>2. pc[q] = "cleanup" /\ Rec[q] \in guard[q] /\ Rec[q] # gone
      BY <2>1, <3>1 DEF RemovePath, TypeOK
    <3>3. fs'[Rec[q]] = fs[Rec[q]]
      BY <3>1, <3>2 DEF TypeOK
    <3>4. QED
      BY <3>2, <3>3 DEF RecordUnderCleanup
  <2>2. CASE ~RemovePath(q)
    <3>1. fs' = fs /\ guard' = guard /\ pc[q] \in Guarded
      BY <1>2, <2>2
         DEF Step, CheckOut, CheckRecord, Plan, MakeStaging, Stage, Validate,
             MakeRecord, WriteRecord, RecheckRecord, RenameRecord, RecheckOut,
             RenameOut, Report, IoError, FinishCleanup, Guarded, Fallible,
             Goto, TypeOK
    <3>2. Rec[q] \in Paths
      BY <3>1 DEF TypeOK, GuardShape, Guarded
    <3>3. pc[q] \in {"outExists", "renameOut"}
      BY <3>1, <3>2 DEF GuardShape, Guarded
    <3>4. QED
      BY <3>1, <3>2, <3>3 DEF RecordInPlace
  <2>3. QED
    BY <2>1, <2>2
<1>3. ASSUME NEW p \in Procs, Kill(p)
      PROVE  fs'[Rec[q]] = Made("file", q, TRUE)
  BY <1>3 DEF Kill, Goto, TypeOK, RecordUnderCleanup
<1>4. ASSUME NEW path \in Paths, ForeignCreate(path)
      PROVE  fs'[Rec[q]] = Made("file", q, TRUE)
  <2>1. Rec[q] \in Name /\ fs[Rec[q]] = Made("file", q, TRUE)
    BY <1>4 DEF ForeignCreate, RecordUnderCleanup, TypeOK
  <2>2. QED
    BY <1>4, <2>1 DEF ForeignCreate, TypeOK, Made
<1>5. CASE UNCHANGED vars
  BY <1>5 DEF vars, RecordUnderCleanup
<1>6. QED
  BY <1>1, <1>2, <1>3, <1>4, <1>5 DEF Next

\* RefinementInv is inductive.
THEOREM RefinementInvHolds ==
  ASSUME RecordsNotOutputs, RecordsDistinct
  PROVE  Spec => []RefinementInv
<1> DEFINE Rest == FailuresFromCleanup /\ OwnDestinations /\ RecordUnderCleanup
<1>1. Init => Rest
  BY ProcsAssumption
     DEF Init, FailuresFromCleanup, OwnDestinations, RecordUnderCleanup, Absent,
         Name
<1>2. RecordInv /\ Rest /\ [Next]_vars => Rest'
  BY RecordsNotOutputs, RecordsDistinct, FailuresFromCleanupStep,
     OwnDestinationsStep, RecordUnderCleanupStep
     DEF RecordInv, PublishInv, RecordWhole
<1>3. RecordInv /\ Rest => RefinementInv
  BY DEF RefinementInv
<1> HIDE DEF Rest
<1>4. Spec => []RecordInv
  BY RecordInvHolds, RecordsNotOutputs, RecordsDistinct
<1>5. QED
  BY <1>1, <1>2, <1>3, <1>4, PTL DEF Spec

\* At a path for one record, nothing is lost but a file or a link of another
\* program, to the rename, and the invocation's own record, to its cleanup.
THEOREM RecordPathsAreKept ==
  ASSUME RecordsNotOutputs, RecordsDistinct
  PROVE  Spec => RecordPathsKept
<1> DEFINE Kept ==
      \A p \in {p \in Procs : Rec[p] \notin {NoPath} \cup {Out[q] : q \in Procs}} :
        LET old == fs[Rec[p]]  new == fs'[Rec[p]] IN
        old.type # "none" /\ new # old =>
          \/ /\ pc[p] = "renameRecord" /\ new = Made("file", p, TRUE)
             /\ old.type \in {"file", "link"} /\ old.by = Foreign
          \/ /\ pc[p] = "cleanup" /\ new = Absent
             /\ old = Made("file", p, TRUE)
<1>1. RefinementInv /\ [Next]_vars => [Kept]_fs
  <2> USE ProcsAssumption
      DEF RefinementInv, RecordInv, PublishInv, RecordWhole, CleanupInv, Name
  <2> SUFFICES ASSUME RefinementInv, [Next]_vars, NEW p \in Procs,
                      Rec[p] \in Paths, \A q \in Procs : Rec[p] # Out[q],
                      fs[Rec[p]].type # "none", fs'[Rec[p]] # fs[Rec[p]]
               PROVE  \/ /\ pc[p] = "renameRecord" /\ fs'[Rec[p]] = Made("file", p, TRUE)
                         /\ fs[Rec[p]].type \in {"file", "link"}
                         /\ fs[Rec[p]].by = Foreign
                      \/ /\ pc[p] = "cleanup" /\ fs'[Rec[p]] = Absent
                         /\ fs[Rec[p]] = Made("file", p, TRUE)
    OBVIOUS
  <2>1. ASSUME NEW q \in Procs, Step(q), q # p
        PROVE  FALSE
    <3>1. Rec[q] # Rec[p] /\ Out[q] # Rec[p]
      BY <2>1 DEF RecordsDistinct
    <3>2. QED
      BY <2>1, <3>1, OnlyThroughRecordOrOutput
  <2>2. CASE Step(p) /\ RenameRecord(p)
    <3>1. /\ CanReplace(fs[temp[p]], fs[Rec[p]]) /\ fs'[Rec[p]] = fs[temp[p]]
          /\ pc[p] = "renameRecord"
      BY <2>2, DestinationChanges DEF RenameRecord, RemovePath
    <3>2. fs[temp[p]] = Made("file", p, TRUE)
      BY <3>1 DEF TempWhole
    <3>3. fs[Rec[p]].type \in {"file", "link"}
      BY <3>1, <3>2 DEF CanReplace, Made, TypeOK, Entry, Kinds
    <3>4. fs[Rec[p]].by # p
      <4>1. Rec[p] \notin guard[p] /\ failures[p] = {} /\ ~Published(p)
        BY <3>1 DEF GuardShape, Guarded, FailuresFromCleanup, Published
      <4>2. QED
        BY <3>1, <4>1 DEF EverythingAccountedFor
    <3>5. \A q \in Procs \ {p} : fs[Rec[p]].by # q
      BY DEF OwnDestinations, RecordsDistinct
    <3>6. fs[Rec[p]].by = Foreign
      BY <3>4, <3>5 DEF TypeOK, Entry
    <3>7. QED
      BY <3>1, <3>2, <3>3, <3>6
  <2>3. CASE Step(p) /\ ~RenameRecord(p)
    <3>1. /\ RemovePath(p) /\ Rec[p] \in guard[p]
          /\ \/ fs'[Rec[p]] = Absent
             \/ fs[Rec[p]].type = "dir"
      BY <2>3, DestinationChanges
    <3>2. pc[p] = "cleanup" /\ fs[Rec[p]] = Made("file", p, TRUE)
      BY <3>1 DEF RemovePath, RecordUnderCleanup
    <3>3. QED
      BY <3>1, <3>2 DEF Made
  <2>4. ASSUME NEW q \in Procs, Kill(q)
        PROVE  FALSE
    BY <2>4 DEF Kill
  <2>5. ASSUME NEW other \in Paths, ForeignCreate(other)
        PROVE  FALSE
    BY <2>5 DEF ForeignCreate, TypeOK
  <2>6. CASE UNCHANGED vars
    BY <2>6 DEF vars
  <2>7. QED
    BY <2>1, <2>2, <2>3, <2>4, <2>5, <2>6 DEF Next
<1>2. Spec => []RefinementInv
  BY RefinementInvHolds, RecordsNotOutputs, RecordsDistinct
<1>3. QED
  BY <1>1, <1>2, PTL DEF Spec, RecordPathsKept

-----------------------------------------------------------------------------
(***************************************************************************)
(* The abstract state changes only where the concrete one does.            *)
(***************************************************************************)

\* Destinations that keep their entries keep their holders.
LEMMA SameHolders ==
  ASSUME \A path \in Paths : fs'[path] = fs[path]
  PROVE  PackageBar' = PackageBar /\ RecordBar' = RecordBar
BY DEF PackageBar, RecordBar, Holder

\* A step at one destination changes the holder there and nowhere else.
LEMMA OneHolder ==
  ASSUME NEW to \in Paths, \A path \in Paths \ {to} : fs'[path] = fs[path]
  PROVE  /\ PackageBar' = [PackageBar EXCEPT ![to] = Holder(to, "dir")']
         /\ RecordBar' = [RecordBar EXCEPT ![to] = Holder(to, "file")']
BY DEF PackageBar, RecordBar, Holder

\* A step or a kill of one invocation changes no other outcome.
LEMMA OneOutcome ==
  ASSUME TypeOK, NEW p \in Procs, Step(p) \/ Kill(p)
  PROVE  /\ \A q \in Procs \ {p} : pc'[q] = pc[q] /\ failures'[q] = failures[q]
         /\ OutcomeBar' = [OutcomeBar EXCEPT ![p] = OutcomeBar'[p]]
         /\ OutcomeBar'[p] = OutcomeBar[p] => OutcomeBar' = OutcomeBar
<1>1. \A q \in Procs \ {p} : pc'[q] = pc[q] /\ failures'[q] = failures[q]
  BY DEF TypeOK, Goto, Step, CheckOut, CheckRecord, Plan, MakeStaging, Stage,
         Validate, MakeRecord, WriteRecord, RecheckRecord, RenameRecord,
         RecheckOut, RenameOut, Report, IoError, RemovePath, FinishCleanup, Kill
<1>2. \A q \in Procs \ {p} : OutcomeBar'[q] = OutcomeBar[q]
  BY <1>1 DEF OutcomeBar, Published
<1>3. OutcomeBar' = [OutcomeBar EXCEPT ![p] = OutcomeBar'[p]]
  BY <1>2 DEF OutcomeBar
<1>4. ASSUME OutcomeBar'[p] = OutcomeBar[p] PROVE OutcomeBar' = OutcomeBar
  <2>1. \A q \in Procs : OutcomeBar'[q] = OutcomeBar[q]
    BY <1>2, <1>4
  <2>2. QED
    BY <2>1 DEF OutcomeBar
<1>5. QED
  BY <1>1, <1>3, <1>4

\* An invocation without a guard and without failures owns no destination.
LEMMA NothingToAbandon ==
  ASSUME CleanupInv, NEW p \in Procs, guard[p] = {}, failures[p] = {},
         pc[p] # "killed", ~Published(p)
  PROVE  \A path \in Paths : RecordBar[path] # p
BY ProcsAssumption
   DEF CleanupInv, EverythingAccountedFor, RecordBar, Holder, Name

\* Returning an error is Abort, or Lose when a removal has failed.
LEMMA ReturningAborts ==
  ASSUME CleanupInv, NEW p \in Procs, Step(p) \/ Kill(p),
         guard[p] = {}, pc[p] \in Unguarded \cup {"cleanup"},
         pc'[p] = "failed", failures'[p] = failures[p],
         \A path \in Paths : fs'[path] = fs[path]
  PROVE  Abstract!Abort(p) \/ Abstract!Lose(p)
<1>1. OutcomeBar[p] = "running"
  BY DEF OutcomeBar, Published, Unguarded
<1>2. UNCHANGED <<PackageBar, RecordBar>>
  BY SameHolders
<1>3. OutcomeBar' = [OutcomeBar EXCEPT ![p] = OutcomeBar'[p]]
  BY OneOutcome DEF CleanupInv
<1>4. CASE failures[p] = {}
  <2>1. OutcomeBar'[p] = "aborted"
    BY <1>4 DEF OutcomeBar, Published
  <2>2. \A path \in Paths : RecordBar[path] # p
    BY <1>4, NothingToAbandon DEF Published, Unguarded
  <2>3. QED
    BY <1>1, <1>2, <1>3, <2>1, <2>2 DEF Abstract!Abort
<1>5. CASE failures[p] # {}
  <2>1. OutcomeBar'[p] = "lost"
    BY <1>5 DEF OutcomeBar, Published
  <2>2. QED
    BY <1>1, <1>2, <1>3, <2>1 DEF Abstract!Lose
<1>6. QED
  BY <1>4, <1>5

-----------------------------------------------------------------------------
(***************************************************************************)
(* Each step of an invocation is an abstract step or a stutter.            *)
(***************************************************************************)

\* The rename of the record is PlaceRecord: nobody's record was there.
LEMMA RenameRecordPlaces ==
  ASSUME RecordsNotOutputs, RecordsDistinct, RefinementInv, NEW p \in Procs,
         RenameRecord(p), CanReplace(fs[temp[p]], fs[Rec[p]])
  PROVE  Abstract!PlaceRecord(p)
<1> USE ProcsAssumption
    DEF RefinementInv, RecordInv, PublishInv, CleanupInv, RecordWhole, Name
<1> DEFINE to == Rec[p]
<1>1. /\ pc[p] = "renameRecord" /\ to \in Paths /\ to # NoPath
      /\ temp[p] \in TempName /\ guard[p] \subseteq TempName
  BY DEF RenameRecord, GuardShape, TypeOK
<1>2. fs[temp[p]] = Made("file", p, TRUE)
  BY <1>1 DEF TempWhole
<1>3. /\ fs'[to] = Made("file", p, TRUE)
      /\ \A path \in Paths \ {to} : fs'[path] = fs[path]
  BY <1>1, <1>2 DEF RenameRecord, Renamed, TypeOK
<1>4. fs[to].type \notin {"dir", "emptydir"}
  BY <1>2 DEF CanReplace, Made
<1>5. fs[to].by = Foreign
  <2>1. fs[to].by \in Procs \cup {Foreign}
    BY <1>1 DEF TypeOK, Entry
  <2>2. ASSUME NEW q \in Procs, fs[to].by = q PROVE FALSE
    <3>1. to \in {Out[q], Rec[q]}
      BY <1>1, <2>2 DEF OwnDestinations
    <3>2. CASE q = p
      <4>1. failures[p] = {}
        BY <1>1 DEF FailuresFromCleanup
      <4>2. to \in guard[p]
        BY <1>1, <2>2, <3>2, <4>1 DEF EverythingAccountedFor, Published
      <4>3. QED
        BY <1>1, <4>2
    <3>3. CASE q # p
      BY <1>1, <3>1, <3>3 DEF RecordsNotOutputs, RecordsDistinct
    <3>4. QED
      BY <3>2, <3>3
  <2>3. QED
    BY <2>1, <2>2
<1>6. OutcomeBar[p] = "running" /\ OutcomeBar'[p] = "running"
  BY <1>1 DEF RenameRecord, Goto, TypeOK, OutcomeBar, Published
<1>7. UNCHANGED OutcomeBar
  BY <1>6, OneOutcome DEF Step
<1>8. RecordBar[to] = Foreign /\ PackageBar[to] = Foreign
  BY <1>1, <1>4, <1>5 DEF RecordBar, PackageBar, Holder
<1>9. Holder(to, "dir")' = Foreign /\ Holder(to, "file")' = p
  BY <1>3 DEF Holder, Made
<1>10. PackageBar' = PackageBar /\ RecordBar' = [RecordBar EXCEPT ![to] = p]
  <2>1. /\ PackageBar' = [PackageBar EXCEPT ![to] = Holder(to, "dir")']
        /\ RecordBar' = [RecordBar EXCEPT ![to] = Holder(to, "file")']
    BY <1>1, <1>3, OneHolder
  <2>2. QED
    BY <1>8, <1>9, <2>1 DEF PackageBar
<1>11. QED
  BY <1>1, <1>6, <1>7, <1>8, <1>10 DEF Abstract!PlaceRecord

\* The rename of the staging directory is Commit.
LEMMA RenameOutCommits ==
  ASSUME RefinementInv, NEW p \in Procs,
         RenameOut(p), CanReplace(fs[staging[p]], fs[Out[p]])
  PROVE  Abstract!Commit(p)
<1> USE ProcsAssumption
    DEF RefinementInv, RecordInv, PublishInv, CleanupInv, RecordWhole, Name
<1> DEFINE to == Out[p]
<1>1. pc[p] = "renameOut" /\ to \in Paths /\ staging[p] \in TempName
  BY DEF RenameOut, GuardShape, Guarded
<1>2. fs[staging[p]] = Made("dir", p, TRUE)
  BY <1>1 DEF StagedWhole, Guarded
<1>3. /\ fs'[to] = Made("dir", p, TRUE)
      /\ \A path \in Paths \ {to} : fs'[path] = fs[path]
  BY <1>1, <1>2 DEF RenameOut, Renamed, TypeOK
<1>4. fs[to].type \in {"none", "emptydir"}
  BY <1>2 DEF CanReplace, Made
<1>5. OutcomeBar[p] = "running" /\ OutcomeBar'[p] = "committed"
  BY <1>1, <1>2 DEF RenameOut, Goto, TypeOK, OutcomeBar, Published
<1>6. OutcomeBar' = [OutcomeBar EXCEPT ![p] = "committed"]
  BY <1>5, OneOutcome DEF Step
<1>7. RecordBar[to] = Foreign /\ PackageBar[to] = Foreign
  BY <1>1, <1>4 DEF RecordBar, PackageBar, Holder
<1>8. Holder(to, "dir")' = p /\ Holder(to, "file")' = Foreign
  BY <1>3 DEF Holder, Made
<1>9. RecordBar' = RecordBar /\ PackageBar' = [PackageBar EXCEPT ![to] = p]
  <2>1. /\ PackageBar' = [PackageBar EXCEPT ![to] = Holder(to, "dir")']
        /\ RecordBar' = [RecordBar EXCEPT ![to] = Holder(to, "file")']
    BY <1>1, <1>3, OneHolder
  <2>2. RecordBar' = RecordBar
    BY <1>7, <1>8, <2>1 DEF RecordBar
  <2>3. QED
    BY <1>8, <2>1, <2>2
<1>10. Abstract!RecordReady(p)
  <2>1. CASE Rec[p] # NoPath
    <3>1. Rec[p] \in Paths /\ fs[Rec[p]] = Made("file", p, TRUE)
      BY <1>1, <2>1 DEF RecordInPlace
    <3>2. QED
      BY <3>1 DEF RecordBar, Holder, Made, Abstract!RecordReady
  <2>2. QED
    BY <2>1 DEF Abstract!RecordReady
<1>11. QED
  BY <1>5, <1>6, <1>7, <1>9, <1>10 DEF Abstract!Commit

\* A round of a cleanup is WithdrawRecord when it removes the record; a
\* removal that fails, or of a temporary name, is a stutter.
LEMMA RemovePathWithdraws ==
  ASSUME RefinementInv, NEW p \in Procs, RemovePath(p)
  PROVE  Abstract!WithdrawRecord(p) \/ UNCHANGED Abstract!vars
<1> USE ProcsAssumption
    DEF RefinementInv, RecordInv, PublishInv, CleanupInv, Name
<1>1. pc[p] = "cleanup" /\ pc' = pc
  BY DEF RemovePath
<1>2. OutcomeBar[p] = "running" /\ OutcomeBar'[p] = "running"
  BY <1>1 DEF OutcomeBar, Published
<1>3. UNCHANGED OutcomeBar
  BY <1>2, OneOutcome DEF Step
<1>4. PICK gone \in guard[p] :
        \/ fs' = [fs EXCEPT ![gone] = Absent]
        \/ UNCHANGED fs
        \/ fs[gone].type = "dir" /\ fs' = [fs EXCEPT ![gone].whole = FALSE]
  BY DEF RemovePath
<1>5. CASE gone \in TempName
  <2>1. \A path \in Paths : fs'[path] = fs[path]
    BY <1>4, <1>5 DEF TypeOK
  <2>2. QED
    BY <1>3, <2>1, SameHolders DEF Abstract!vars
<1>6. CASE gone = Rec[p] /\ gone \notin TempName
  <2>1. gone \in Paths /\ gone # NoPath
    BY <1>6 DEF TypeOK
  <2>2. fs[gone] = Made("file", p, TRUE)
    BY <1>1, <1>6 DEF RecordUnderCleanup
  <2>3. CASE UNCHANGED fs
    BY <1>3, <2>3, SameHolders DEF Abstract!vars
  <2>4. CASE fs' = [fs EXCEPT ![gone] = Absent]
    <3>1. fs'[gone] = Absent /\ \A path \in Paths \ {gone} : fs'[path] = fs[path]
      BY <2>1, <2>4 DEF TypeOK
    <3>2. RecordBar[gone] = p /\ PackageBar[gone] = Foreign
      BY <2>1, <2>2 DEF RecordBar, PackageBar, Holder, Made
    <3>3. Holder(gone, "dir")' = Foreign /\ Holder(gone, "file")' = Foreign
      BY <3>1 DEF Holder, Absent
    <3>4. /\ PackageBar' = [PackageBar EXCEPT ![gone] = Holder(gone, "dir")']
          /\ RecordBar' = [RecordBar EXCEPT ![gone] = Holder(gone, "file")']
      BY <2>1, <3>1, OneHolder
    <3>5. PackageBar' = PackageBar
      BY <3>2, <3>3, <3>4 DEF PackageBar
    <3>6. QED
      BY <1>2, <1>3, <1>6, <2>1, <3>2, <3>3, <3>4, <3>5
         DEF Abstract!WithdrawRecord
  <2>5. QED
    BY <1>4, <2>2, <2>3, <2>4 DEF Made
<1>7. QED
  BY <1>5, <1>6 DEF GuardShape

\* Every other step leaves the destinations alone, and is a stutter unless
\* the invocation returns an error.
LEMMA OtherStepsReturn ==
  ASSUME RefinementInv, NEW p \in Procs, Step(p), ~RemovePath(p),
         ~(RenameRecord(p) /\ CanReplace(fs[temp[p]], fs[Rec[p]])),
         ~(RenameOut(p) /\ CanReplace(fs[staging[p]], fs[Out[p]]))
  PROVE  Abstract!Abort(p) \/ Abstract!Lose(p) \/ UNCHANGED Abstract!vars
<1> USE DEF RefinementInv, RecordInv, PublishInv, CleanupInv
<1>1. \A path \in Paths : fs'[path] = fs[path]
  BY DestinationChanges
<1>2. failures' = failures
  BY DEF Step, CheckOut, CheckRecord, Plan, MakeStaging, Stage, Validate,
         MakeRecord, WriteRecord, RecheckRecord, RenameRecord, RecheckOut,
         RenameOut, Report, IoError, FinishCleanup
<1>3. CASE pc'[p] = "failed"
  <2>1. guard[p] = {} /\ pc[p] \in Unguarded \cup {"cleanup"}
    BY <1>3
       DEF Step, CheckOut, CheckRecord, Plan, MakeStaging, Stage, Validate,
           MakeRecord, WriteRecord, RecheckRecord, RenameRecord, RecheckOut,
           RenameOut, Report, IoError, FinishCleanup, Unguarded, Goto, TypeOK,
           GuardShape
  <2>2. QED
    BY <1>1, <1>2, <1>3, <2>1, ReturningAborts
<1>4. CASE pc'[p] # "failed"
  <2>1. \/ pc[p] = "report" /\ pc'[p] \in {"succeeded", "unreported"}
        \/ /\ pc[p] \in Label \ {"report", "succeeded", "unreported",
                                 "failed", "killed"}
           /\ pc'[p] \in Label \ {"report", "succeeded", "unreported",
                                  "failed", "killed"}
    BY <1>4
       DEF Step, CheckOut, CheckRecord, Plan, MakeStaging, Stage, Validate,
           MakeRecord, WriteRecord, RecheckRecord, RenameRecord, RecheckOut,
           RenameOut, Report, IoError, FinishCleanup, Unguarded, Guarded,
           Fallible, Terminal, Label, Goto, TypeOK
  <2>2. OutcomeBar'[p] = OutcomeBar[p]
    BY <2>1 DEF OutcomeBar, Published
  <2>3. UNCHANGED OutcomeBar
    BY <2>2, OneOutcome
  <2>4. QED
    BY <1>1, <2>3, SameHolders DEF Abstract!vars
<1>5. QED
  BY <1>3, <1>4

\* A kill before the package is published is Lose, and a stutter after it.
LEMMA KillLoses ==
  ASSUME RefinementInv, NEW p \in Procs, Kill(p)
  PROVE  Abstract!Lose(p) \/ UNCHANGED Abstract!vars
<1> USE DEF RefinementInv, RecordInv, PublishInv, CleanupInv
<1>1. UNCHANGED <<PackageBar, RecordBar>>
  BY SameHolders DEF Kill
<1>2. OutcomeBar' = [OutcomeBar EXCEPT ![p] = OutcomeBar'[p]]
  BY OneOutcome
<1>3. CASE Published(p)
  <2>1. OutcomeBar'[p] = OutcomeBar[p]
    BY <1>3 DEF Kill, Goto, TypeOK, OutcomeBar, Published
  <2>2. QED
    BY <1>1, <1>2, <2>1 DEF OutcomeBar, Abstract!vars
<1>4. CASE ~Published(p)
  <2>1. OutcomeBar[p] = "running" /\ OutcomeBar'[p] = "lost"
    BY <1>4 DEF Kill, Goto, TypeOK, OutcomeBar, Published, Terminal
  <2>2. QED
    BY <1>1, <1>2, <2>1 DEF Abstract!Lose
<1>5. QED
  BY <1>3, <1>4

\* What other programs create is nobody's package and nobody's record.
LEMMA ForeignCreateStutters ==
  ASSUME RefinementInv, NEW path \in Paths, ForeignCreate(path)
  PROVE  UNCHANGED Abstract!vars
<1>1. UNCHANGED OutcomeBar
  BY DEF ForeignCreate, OutcomeBar, Published
<1>2. fs \in [Name -> Entry] /\ path \in Name
  BY DEF RefinementInv, RecordInv, PublishInv, CleanupInv, TypeOK, Name
<1>3. \A other \in Paths \ {path} : fs'[other] = fs[other]
  BY DEF ForeignCreate
<1>4. fs[path].type = "none" /\ fs'[path].whole = FALSE
  BY <1>2 DEF ForeignCreate, Made
<1>5. PackageBar[path] = Foreign /\ RecordBar[path] = Foreign
  BY <1>4 DEF PackageBar, RecordBar, Holder
<1>6. Holder(path, "dir")' = Foreign /\ Holder(path, "file")' = Foreign
  BY <1>4 DEF Holder
<1>7. UNCHANGED <<PackageBar, RecordBar>>
  BY <1>3, <1>5, <1>6, OneHolder DEF PackageBar, RecordBar
<1>8. QED
  BY <1>1, <1>7 DEF Abstract!vars

\* Nothing is published when the invocations start.
LEMMA InitRefines == Init => Abstract!Init
BY ProcsAssumption
   DEF Init, Abstract!Init, OutcomeBar, PackageBar, RecordBar, Holder,
       Published, Absent, Name

\* Each step of the code maps to an abstract step or a stutter.
LEMMA NextRefines ==
  ASSUME RecordsNotOutputs, RecordsDistinct, RefinementInv, [Next]_vars
  PROVE  [Abstract!Next]_Abstract!vars
<1>1. ASSUME NEW p \in Procs, Step(p)
      PROVE  [Abstract!Next]_Abstract!vars
  BY <1>1, RenameRecordPlaces, RenameOutCommits, RemovePathWithdraws,
     OtherStepsReturn DEF Abstract!Next
<1>2. ASSUME NEW p \in Procs, Kill(p)
      PROVE  [Abstract!Next]_Abstract!vars
  BY <1>2, KillLoses DEF Abstract!Next
<1>3. ASSUME NEW path \in Paths, ForeignCreate(path)
      PROVE  [Abstract!Next]_Abstract!vars
  BY <1>3, ForeignCreateStutters
<1>4. CASE UNCHANGED vars
  <2>1. UNCHANGED <<PackageBar, RecordBar>>
    BY <1>4, SameHolders DEF vars
  <2>2. UNCHANGED OutcomeBar
    BY <1>4 DEF vars, OutcomeBar, Published
  <2>3. QED
    BY <2>1, <2>2 DEF Abstract!vars
<1>5. QED
  BY <1>1, <1>2, <1>3, <1>4 DEF Next

\* ImplementsTransaction for any number of invocations: where no two of them
\* ask for the same record, and no record path is another's output, the
\* renames, the existence checks and the cleanup of derive.rs and
\* materialize.rs keep the promise of the transaction.
THEOREM TransactionIsImplemented ==
  ASSUME RecordsNotOutputs, RecordsDistinct
  PROVE  Spec => ImplementsTransaction
<1>1. Init => Abstract!Init
  BY InitRefines
<1>2. RefinementInv /\ [Next]_vars => [Abstract!Next]_Abstract!vars
  BY RecordsNotOutputs, RecordsDistinct, NextRefines
<1>3. Spec => []RefinementInv
  BY RefinementInvHolds, RecordsNotOutputs, RecordsDistinct
<1>4. QED
  BY <1>1, <1>2, <1>3, PTL DEF Spec, ImplementsTransaction, Abstract!Spec
=============================================================================
