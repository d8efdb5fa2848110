---------------------------- MODULE Publication ----------------------------
(***************************************************************************)
(* The transaction shared by `hmx derive` and `hmx materialize`.           *)
(*                                                                         *)
(* Several invocations of the tool run at once on one filesystem.  Each    *)
(* builds a package under a uniquely named staging directory, validates    *)
(* it there, optionally writes a derivation record under a uniquely named  *)
(* temporary file, then renames the record and the package to their final  *)
(* names.  A CleanupGuard lists the paths the invocation must remove if it *)
(* fails.  One action is one filesystem call the outcome can depend on;    *)
(* other invocations, other programs, I/O errors and kills interleave      *)
(* between the calls.                                                      *)
(***************************************************************************)
EXTENDS Naturals

CONSTANTS
  Procs,     \* the invocations
  Paths,     \* final destinations: output packages and records
  Out,       \* Out[p]: the resolved <out> argument of invocation p
  Rec,       \* Rec[p]: the resolved --record argument, or NoPath
  NoPath,    \* no such argument, or a local that is not assigned yet
  Pid,       \* Pid[p]: process id; invocations in different containers, or
             \* at different times, may have the same one
  Pids,      \* the process ids in use
  MaxTries,  \* bound on the per-process counter that makes names unique
  Foreign,   \* whoever else creates entries in the directories involved
  Faults     \* what the environment does: see FaultKinds

FaultKinds == {"io", "cleanup", "kill", "foreign", "stdout"}

(***************************************************************************)
(* Temporary names: `.{name}.hmx-{kind}-{pid}-{counter}` beside the        *)
(* destination they are for.                                               *)
(***************************************************************************)
TempName == [kind : {"staging", "record"}, for : Paths, pid : Pids,
             n : 0 .. MaxTries]

Name == Paths \cup TempName

ASSUME ProcsAssumption ==
  /\ Out \in [Procs -> Paths]
  /\ Rec \in [Procs -> Paths \cup {NoPath}]
  /\ Pid \in [Procs -> Pids]
  /\ MaxTries \in Nat
  /\ Foreign \notin Procs
  /\ NoPath \notin Name
  /\ Paths \cap TempName = {}
  /\ Faults \subseteq FaultKinds

(***************************************************************************)
(* Directory entries.  "dir" is a directory that is not empty; "link" is a *)
(* symbolic link whose target is missing, which Path::exists() reports as  *)
(* absent although the name is taken.  `whole` says that a record has all  *)
(* its bytes, or that a package has been built and validated.              *)
(***************************************************************************)
Kinds == {"none", "file", "dir", "emptydir", "link"}
Entry == [type : Kinds, by : Procs \cup {Foreign}, whole : BOOLEAN]

Absent == [type |-> "none", by |-> Foreign, whole |-> FALSE]
Made(type, by, whole) == [type |-> type, by |-> by, whole |-> whole]

VARIABLES
  fs,        \* fs[name]: the entry under each name
  pc,        \* pc[p]: the next step of invocation p
  counter,   \* UNIQUE_COUNTER of the process
  staging,   \* the local `staging`, NoPath before it exists
  temp,      \* the local `record_temp`
  guard,     \* CleanupGuard.paths, empty when no guard is armed
  failures   \* the paths that cleanup() failed to remove

vars == <<fs, pc, counter, staging, temp, guard, failures>>

\* Labels before the guard exists, under the guard, and after the last step.
Unguarded == {"start", "checkRecord", "plan", "makeStaging"}
Guarded   == {"stage", "validate", "makeRecord", "writeRecord",
              "recordExists", "renameRecord", "outExists", "renameOut"}
Terminal  == {"succeeded", "failed", "unreported", "killed"}
Fallible  == Guarded \ {"recordExists", "outExists"}
Label     == Unguarded \cup Guarded \cup {"cleanup", "report"} \cup Terminal

\* The invocation has renamed its package to its final name; "unreported" is
\* one of these whose record did not reach stdout.
Published(p) == pc[p] \in {"report", "succeeded", "unreported"}

Init ==
  /\ fs = [name \in Name |-> Absent]
  /\ pc = [p \in Procs |-> "start"]
  /\ counter = [p \in Procs |-> 0]
  /\ staging = [p \in Procs |-> NoPath]
  /\ temp = [p \in Procs |-> NoPath]
  /\ guard = [p \in Procs |-> {}]
  /\ failures = [p \in Procs |-> {}]

Goto(p, label) == pc' = [pc EXCEPT ![p] = label]

\* Path::exists() follows links, so a dangling link does not exist.
Exists(path) == fs[path].type \notin {"none", "link"}

-----------------------------------------------------------------------------
(***************************************************************************)
(* Before anything is created.                                             *)
(***************************************************************************)

\* Resolve <out> and refuse a destination that exists.
CheckOut(p) ==
  /\ pc[p] = "start"
  /\ Goto(p, IF Exists(Out[p]) THEN "failed"
             ELSE IF Rec[p] = NoPath THEN "plan" ELSE "checkRecord")
  /\ UNCHANGED <<fs, counter, staging, temp, guard, failures>>

\* Resolve --record; refuse one that exists or that is the output itself.
CheckRecord(p) ==
  /\ pc[p] = "checkRecord"
  /\ Goto(p, IF Exists(Rec[p]) \/ Rec[p] = Out[p] THEN "failed" ELSE "plan")
  /\ UNCHANGED <<fs, counter, staging, temp, guard, failures>>

\* Read and validate the base and plan the changes: no effect on the disk.
Plan(p) ==
  /\ pc[p] = "plan"
  /\ Goto(p, "makeStaging")
  /\ UNCHANGED <<fs, counter, staging, temp, guard, failures>>

\* The name the next attempt of create_unique_* tries.
Unique(kind, p, destination) ==
  [kind |-> kind, for |-> destination, pid |-> Pid[p], n |-> counter[p]]

\* create_dir and OpenOptions::create_new fail on a name that is taken.
Taken(name) == fs[name].type # "none"

\* Mistake: the retry tries the same name again.
MakeStagingSameName(p) ==
  LET name == Unique("staging", p, Out[p]) IN
  /\ pc[p] = "makeStaging"
  /\ IF Taken(name)
     THEN UNCHANGED <<fs, pc, staging, guard>>
     ELSE /\ fs' = [fs EXCEPT ![name] = Made("emptydir", p, FALSE)]
          /\ staging' = [staging EXCEPT ![p] = name]
          /\ guard' = [guard EXCEPT ![p] = {name}]
          /\ Goto(p, "stage")
  /\ UNCHANGED <<counter, temp, failures>>

\* One round of create_unique_directory; the guard is created with it.
MakeStaging(p) ==
  LET name == Unique("staging", p, Out[p]) IN
  /\ pc[p] = "makeStaging"
  /\ counter[p] < MaxTries
  /\ counter' = [counter EXCEPT ![p] = @ + 1]
  /\ IF Taken(name)
     THEN UNCHANGED <<fs, pc, staging, guard>>
     ELSE /\ fs' = [fs EXCEPT ![name] = Made("emptydir", p, FALSE)]
          /\ staging' = [staging EXCEPT ![p] = name]
          /\ guard' = [guard EXCEPT ![p] = {name}]
          /\ Goto(p, "stage")
  /\ UNCHANGED <<temp, failures>>

-----------------------------------------------------------------------------
(***************************************************************************)
(* Under the guard.                                                        *)
(***************************************************************************)

\* Artifacts are copied and rewritten under the staging directory.
Stage(p) ==
  /\ pc[p] = "stage"
  /\ fs' = [fs EXCEPT ![staging[p]] = Made("dir", p, FALSE)]
  /\ Goto(p, "validate")
  /\ UNCHANGED <<counter, staging, temp, guard, failures>>

\* Mistake: the package is published without waiting for its record.
ValidateRecordLast(p) ==
  /\ pc[p] = "validate"
  /\ fs' = [fs EXCEPT ![staging[p]] = Made("dir", p, TRUE)]
  /\ Goto(p, "outExists")
  /\ UNCHANGED <<counter, staging, temp, guard, failures>>

\* manifest.json is written, the staged package validated and hashed, and
\* the record serialised.
Validate(p) ==
  /\ pc[p] = "validate"
  /\ fs' = [fs EXCEPT ![staging[p]] = Made("dir", p, TRUE)]
  /\ Goto(p, IF Rec[p] = NoPath THEN "outExists" ELSE "makeRecord")
  /\ UNCHANGED <<counter, staging, temp, guard, failures>>

\* Mistake: the record is created under its final name.
MakeRecordInPlace(p) ==
  /\ pc[p] = "makeRecord"
  /\ fs[Rec[p]].type = "none"
  /\ fs' = [fs EXCEPT ![Rec[p]] = Made("file", p, FALSE)]
  /\ temp' = [temp EXCEPT ![p] = Rec[p]]
  /\ guard' = [guard EXCEPT ![p] = @ \cup {Rec[p]}]
  /\ Goto(p, "writeRecord")
  /\ UNCHANGED <<counter, staging, failures>>

\* One round of create_unique_file, and guard.add(temp).
MakeRecord(p) ==
  LET name == Unique("record", p, Rec[p]) IN
  /\ pc[p] = "makeRecord"
  /\ counter[p] < MaxTries
  /\ counter' = [counter EXCEPT ![p] = @ + 1]
  /\ IF Taken(name)
     THEN UNCHANGED <<fs, pc, temp, guard>>
     ELSE /\ fs' = [fs EXCEPT ![name] = Made("file", p, FALSE)]
          /\ temp' = [temp EXCEPT ![p] = name]
          /\ guard' = [guard EXCEPT ![p] = @ \cup {name}]
          /\ Goto(p, "writeRecord")
  /\ UNCHANGED <<staging, failures>>

\* Open, write_all and sync_all of the temporary record.
WriteRecord(p) ==
  /\ pc[p] = "writeRecord"
  /\ fs' = [fs EXCEPT ![temp[p]] = Made("file", p, TRUE)]
  /\ Goto(p, "recordExists")
  /\ UNCHANGED <<counter, staging, temp, guard, failures>>

\* final_path.exists(), the second time.
RecheckRecord(p) ==
  /\ pc[p] = "recordExists"
  /\ Goto(p, IF Exists(Rec[p]) THEN "cleanup" ELSE "renameRecord")
  /\ UNCHANGED <<fs, counter, staging, temp, guard, failures>>

\* rename(2): a file replaces anything but a directory; a directory replaces
\* only an empty directory.
CanReplace(source, target) ==
  IF source.type = "file" THEN target.type \notin {"dir", "emptydir"}
                          ELSE target.type \in {"none", "emptydir"}

\* Every entry moves as it is and its old name becomes free.
Renamed(from, to) == [fs EXCEPT ![from] = Absent, ![to] = fs[from]]

\* Mistakes: one of the two calls is forgotten.
GuardAfterRecordKeepingTemp(p) == guard[p] \cup {Rec[p]}
GuardAfterRecordDropped(p) == guard[p] \ {temp[p]}

\* guard.remove(temp); guard.add(final_path)
GuardAfterRecord(p) == (guard[p] \ {temp[p]}) \cup {Rec[p]}

\* Mistake: the destination is checked after the rename.
RenameRecordFirst(p) ==
  /\ pc[p] = "renameRecord"
  /\ fs' = Renamed(temp[p], Rec[p])
  /\ guard' = [guard EXCEPT ![p] = GuardAfterRecord(p)]
  /\ Goto(p, "recordExists")
  /\ UNCHANGED <<counter, staging, temp, failures>>

\* Mistake: the final path is guarded before the rename that may fail.
RenameRecordGuardFirst(p) ==
  /\ pc[p] = "renameRecord"
  /\ guard' = [guard EXCEPT ![p] = @ \cup {Rec[p]}]
  /\ IF CanReplace(fs[temp[p]], fs[Rec[p]])
     THEN fs' = Renamed(temp[p], Rec[p]) /\ Goto(p, "outExists")
     ELSE Goto(p, "cleanup") /\ UNCHANGED fs
  /\ UNCHANGED <<counter, staging, temp, failures>>

\* rename(temp, final_path)
RenameRecord(p) ==
  /\ pc[p] = "renameRecord"
  /\ IF CanReplace(fs[temp[p]], fs[Rec[p]])
     THEN /\ fs' = Renamed(temp[p], Rec[p])
          /\ guard' = [guard EXCEPT ![p] = GuardAfterRecord(p)]
          /\ Goto(p, "outExists")
     ELSE /\ Goto(p, "cleanup")
          /\ UNCHANGED <<fs, guard>>
  /\ UNCHANGED <<counter, staging, temp, failures>>

\* out.exists(), the second time.
RecheckOut(p) ==
  /\ pc[p] = "outExists"
  /\ Goto(p, IF Exists(Out[p]) THEN "cleanup" ELSE "renameOut")
  /\ UNCHANGED <<fs, counter, staging, temp, guard, failures>>

\* Mistake: whatever is at the output is removed to make room.
RenameOutForced(p) ==
  /\ pc[p] = "renameOut"
  /\ fs' = Renamed(staging[p], Out[p])
  /\ guard' = [guard EXCEPT ![p] = @ \ {staging[p], Out[p], Rec[p]}]
  /\ Goto(p, "report")
  /\ UNCHANGED <<counter, staging, temp, failures>>

\* Mistake: a failed rename returns without cleaning up.
RenameOutNoCleanup(p) ==
  /\ pc[p] = "renameOut"
  /\ IF CanReplace(fs[staging[p]], fs[Out[p]])
     THEN /\ fs' = Renamed(staging[p], Out[p])
          /\ guard' = [guard EXCEPT ![p] = @ \ {staging[p], Out[p], Rec[p]}]
          /\ Goto(p, "report")
     ELSE /\ Goto(p, "failed")
          /\ UNCHANGED <<fs, guard>>
  /\ UNCHANGED <<counter, staging, temp, failures>>

\* rename(staging, out); then nothing is left for the guard to remove.
RenameOut(p) ==
  /\ pc[p] = "renameOut"
  /\ IF CanReplace(fs[staging[p]], fs[Out[p]])
     THEN /\ fs' = Renamed(staging[p], Out[p])
          /\ guard' = [guard EXCEPT ![p] = @ \ {staging[p], Out[p], Rec[p]}]
          /\ Goto(p, "report")
     ELSE /\ Goto(p, "cleanup")
          /\ UNCHANGED <<fs, guard>>
  /\ UNCHANGED <<counter, staging, temp, failures>>

-----------------------------------------------------------------------------
(***************************************************************************)
(* After the transaction.                                                  *)
(***************************************************************************)

\* main writes the record to stdout; an error there is exit status 2 too.
Report(p) ==
  /\ pc[p] = "report"
  /\ \/ Goto(p, "succeeded")
     \/ "stdout" \in Faults /\ Goto(p, "unreported")
  /\ UNCHANGED <<fs, counter, staging, temp, guard, failures>>

\* A `?` of a fallible call (Path::exists() reports no error): before the guard
\* exists the error returns at once, under it the guard is cleaned up first.
IoError(p) ==
  /\ "io" \in Faults
  /\ \/ pc[p] \in Unguarded /\ Goto(p, "failed")
     \/ pc[p] \in Fallible /\ Goto(p, "cleanup")
  /\ UNCHANGED <<fs, counter, staging, temp, guard, failures>>

\* cleanup() visits the paths in reverse order: staging was added first.
NextToRemove(p, path) == path = staging[p] => guard[p] = {path}

\* One round of the loop in cleanup(): a missing path counts as removed.
RemovePath(p) ==
  /\ pc[p] = "cleanup"
  /\ \E path \in guard[p] :
       /\ NextToRemove(p, path)
       /\ guard' = [guard EXCEPT ![p] = @ \ {path}]
       /\ \/ /\ fs' = [fs EXCEPT ![path] = Absent]
             /\ UNCHANGED failures
          \/ /\ "cleanup" \in Faults
             /\ fs[path].type # "none"
             /\ failures' = [failures EXCEPT ![p] = @ \cup {path}]
             \* remove_dir_all may have removed a part of the tree
             /\ \/ UNCHANGED fs
                \/ /\ fs[path].type = "dir"
                   /\ fs' = [fs EXCEPT ![path].whole = FALSE]
  /\ UNCHANGED <<pc, counter, staging, temp>>

FinishCleanup(p) ==
  /\ pc[p] = "cleanup"
  /\ guard[p] = {}
  /\ Goto(p, "failed")
  /\ UNCHANGED <<fs, counter, staging, temp, guard, failures>>

\* SIGKILL, SIGINT (no handler is installed) or a loss of the process: the
\* guard is lost with the memory that holds it.
Kill(p) ==
  /\ "kill" \in Faults
  /\ pc[p] \notin Terminal
  /\ Goto(p, IF Published(p) THEN "unreported" ELSE "killed")
  /\ guard' = [guard EXCEPT ![p] = {}]
  /\ UNCHANGED <<fs, counter, staging, temp, failures>>

\* Another program creates something under a free destination name.
ForeignCreate(path) ==
  /\ "foreign" \in Faults
  /\ fs[path].type = "none"
  /\ \E type \in Kinds \ {"none"} :
       fs' = [fs EXCEPT ![path] = Made(type, Foreign, FALSE)]
  /\ UNCHANGED <<pc, counter, staging, temp, guard, failures>>

Step(p) ==
  \/ CheckOut(p) \/ CheckRecord(p) \/ Plan(p) \/ MakeStaging(p)
  \/ Stage(p) \/ Validate(p) \/ MakeRecord(p) \/ WriteRecord(p)
  \/ RecheckRecord(p) \/ RenameRecord(p) \/ RecheckOut(p) \/ RenameOut(p)
  \/ Report(p) \/ IoError(p) \/ RemovePath(p) \/ FinishCleanup(p)

Next ==
  \/ \E p \in Procs : Step(p)
  \/ \E p \in Procs : Kill(p)
  \/ \E path \in Paths : ForeignCreate(path)

\* A process that is not killed keeps running.
Fairness == \A p \in Procs : WF_vars(Step(p))

Spec == Init /\ [][Next]_vars
FairSpec == Spec /\ Fairness

-----------------------------------------------------------------------------
(***************************************************************************)
(* Properties.                                                             *)
(***************************************************************************)

\* The values the variables range over.
TypeOK ==
  /\ fs \in [Name -> Entry]
  /\ pc \in [Procs -> Label]
  /\ counter \in [Procs -> 0 .. MaxTries]
  /\ staging \in [Procs -> TempName \cup {NoPath}]
  /\ temp \in [Procs -> TempName \cup {NoPath}]
  /\ guard \in [Procs -> SUBSET Name]
  /\ failures \in [Procs -> SUBSET Name]

\* An invocation that returned an error has left nothing of its own on the
\* disk but the paths whose removal failed and that its error names.
FailureLeavesNothing ==
  \A p \in Procs : pc[p] = "failed" =>
    \A name \in Name : fs[name].by = p => name \in failures[p]

\* From its rename on, a package is complete at its destination and nobody
\* replaces or removes it: in particular two invocations never both publish
\* under one name.
PublishedStays ==
  \A p \in Procs : Published(p) => fs[Out[p]] = Made("dir", p, TRUE)

\* At no instant, the one of a kill included, is there a package without the
\* record that was requested with it.
RecordAccompanies ==
  \A p \in Procs : fs[Out[p]].by = p /\ Rec[p] # NoPath =>
    fs[Rec[p]] = Made("file", p, TRUE)

\* No destination ever shows an unfinished package or record.
DestinationsWhole ==
  \A path \in Paths : fs[path].by \in Procs => fs[path].whole

\* Every successful invocation finds its own record at the path it asked for.
RecordAtSuccess ==
  \A p \in Procs : pc[p] = "succeeded" /\ Rec[p] # NoPath =>
    fs[Rec[p]] = Made("file", p, TRUE)

\* Whenever the tool exits with an error, nothing it created is left.
ErrorExitLeavesNothing ==
  \A p \in Procs : pc[p] \in {"failed", "unreported"} =>
    \A name \in Name : fs[name].by # p

\* Where only packages are published, a name that anyone has taken keeps its
\* entry: no cleanup touches it, and a rename replaces it only if it is an empty
\* directory, by a whole package (another program can make one after the second
\* out.exists(), and rename(2) accepts it).
OutputsNeverClobbered ==
  [][\A path \in {Out[p] : p \in Procs} \ {Rec[p] : p \in Procs} :
       fs[path].type # "none" /\ fs'[path] # fs[path] =>
         /\ fs[path].type = "emptydir"
         /\ \E p \in Procs : Out[p] = path /\ fs'[path] = Made("dir", p, TRUE)]_fs

\* Where only the record of one invocation is published, what is there goes in
\* two ways: the rename replaces a file or a link that another program made
\* after the second final_path.exists(), or that the check took for absent; and
\* a cleanup, which removes by name, removes the invocation's own record.
RecordPathsKept ==
  [][\A p \in {p \in Procs : Rec[p] \notin {NoPath} \cup {Out[q] : q \in Procs}} :
       LET old == fs[Rec[p]]  new == fs'[Rec[p]] IN
       old.type # "none" /\ new # old =>
         \/ /\ pc[p] = "renameRecord" /\ new = Made("file", p, TRUE)
            /\ old.type \in {"file", "link"} /\ old.by = Foreign
         \/ /\ pc[p] = "cleanup" /\ new = Absent
            /\ old = Made("file", p, TRUE)]_fs

\* When nothing else goes wrong, invocations that get in each other's way do
\* not all give up: unless one is killed, one of them publishes.
SomeonePublishes ==
  (\A p \in Procs : pc[p] \in Terminal) => \E p \in Procs : Published(p) \/ pc[p] = "killed"

\* Every invocation ends, whatever names a killed one has left behind.
Termination == \A p \in Procs : <>(pc[p] \in Terminal)

-----------------------------------------------------------------------------
(***************************************************************************)
(* Why FailureLeavesNothing holds: an inductive strengthening.  It needs   *)
(* no assumption on how the invocations' destinations overlap.             *)
(***************************************************************************)

\* A name nobody has taken has no owner.
FreeIsForeign == \A name \in Name : fs[name].type = "none" => fs[name].by = Foreign

\* What the guard of a running invocation holds, step by step.
GuardShape ==
  \A p \in Procs :
    /\ pc[p] \in Unguarded \cup {"failed", "killed"} => guard[p] = {}
    /\ Published(p) => guard[p] = {}
    /\ pc[p] \in Guarded => staging[p] \in TempName
    /\ pc[p] \in {"stage", "validate", "makeRecord"} => guard[p] = {staging[p]}
    /\ pc[p] \in {"writeRecord", "recordExists", "renameRecord"} =>
         /\ temp[p] \in TempName
         /\ temp[p] # staging[p]
         /\ guard[p] = {staging[p], temp[p]}
    /\ pc[p] \in {"outExists", "renameOut"} =>
         guard[p] = {staging[p]} \cup ({Rec[p]} \ {NoPath})
    /\ pc[p] \in {"checkRecord", "makeRecord", "writeRecord", "recordExists",
                  "renameRecord"} => Rec[p] # NoPath
    /\ guard[p] \subseteq TempName \cup {Rec[p]}

\* A temporary name under a guard is the guard's own entry.
GuardOwnsTemp ==
  \A p \in Procs : \A name \in guard[p] \cap TempName : fs[name].by = p

\* Whatever an invocation made is under its guard, was reported as not
\* removable, was published, or was lost by a kill.
EverythingAccountedFor ==
  \A p \in Procs, name \in Name : fs[name].by = p =>
    \/ name \in guard[p]
    \/ name \in failures[p]
    \/ pc[p] = "killed"
    \/ Published(p) /\ name \in {Out[p], Rec[p]}

CleanupInv ==
  TypeOK /\ FreeIsForeign /\ GuardShape /\ GuardOwnsTemp /\ EverythingAccountedFor

(***************************************************************************)
(* Why PublishedStays and RecordAccompanies hold, when records are apart.  *)
(***************************************************************************)

\* No record path is the output of another invocation.
RecordsNotOutputs == \A p, q \in Procs : p # q => Rec[p] # Out[q]

\* No two invocations ask for their records at the same path.
RecordsDistinct ==
  \A p, q \in Procs : Rec[p] = Rec[q] /\ Rec[p] # NoPath => p = q

\* The staged package is complete from its validation to its rename.
StagedWhole ==
  \A p \in Procs : pc[p] \in Guarded \ {"stage", "validate"} =>
    fs[staging[p]] = Made("dir", p, TRUE)

PublishInv == CleanupInv /\ StagedWhole /\ PublishedStays

\* CheckRecord refused a record at the output itself.
RecordNotOwnOutput ==
  \A p \in Procs : pc[p] \notin {"start", "checkRecord", "failed", "killed"} =>
    Rec[p] # Out[p]

\* The temporary record is complete from its sync to its rename.
TempWhole ==
  \A p \in Procs : pc[p] \in {"recordExists", "renameRecord"} =>
    fs[temp[p]] = Made("file", p, TRUE)

\* The record is complete, and in place until a cleanup removes it.
RecordInPlace ==
  \A p \in Procs :
    /\ pc[p] \in {"outExists", "renameOut"} \/ Published(p)
    /\ Rec[p] # NoPath
    => fs[Rec[p]] = Made("file", p, TRUE)

RecordWhole == TempWhole /\ RecordInPlace

OutputImpliesPublished == \A p \in Procs : fs[Out[p]].by = p => Published(p)

RecordInv ==
  PublishInv /\ RecordNotOwnOutput /\ RecordWhole /\ OutputImpliesPublished

(***************************************************************************)
(* Why DestinationsWhole holds, even when records share a path: only a     *)
(* directory can be removed in part, and no record path has one.           *)
(***************************************************************************)
DestinationsFilled ==
  \A path \in Paths : fs[path].by \in Procs =>
    /\ fs[path].whole
    /\ fs[path].type = "dir" => \E p \in Procs : path = Out[p]

WholeInv ==
  CleanupInv /\ StagedWhole /\ RecordNotOwnOutput /\ TempWhole /\ DestinationsFilled

(***************************************************************************)
(* Why SomeonePublishes holds when nobody but the invocations creates      *)
(* entries and no removal fails: whoever gives way gives way to somebody   *)
(* who does not.                                                           *)
(***************************************************************************)

\* A record path is nobody's output, unless it is its invocation's own, which
\* CheckRecord refuses.
RecordsRefusedOrApart ==
  \A p, q \in Procs : Rec[p] = Out[q] => Rec[p] = Out[p]

SomeoneWon == \E p \in Procs : Published(p) \/ pc[p] = "killed"

\* Every entry was made by an invocation, and no cleanup has failed.
NobodyElse ==
  /\ \A name \in Name : fs[name].type # "none" => fs[name].by \in Procs
  /\ \A p \in Procs : failures[p] = {}

\* Until somebody has won, nobody withdraws a record ...
NoRecordWithdrawn ==
  \A p \in Procs : pc[p] = "cleanup" => SomeoneWon \/ Rec[p] \notin guard[p]

\* ... and somebody who may publish has not given up.
SomeoneRemains ==
  SomeoneWon \/ \E p \in Procs : Rec[p] # Out[p] /\ pc[p] \notin {"failed", "cleanup"}

YieldInv ==
  CleanupInv /\ RecordNotOwnOutput /\ NobodyElse /\ NoRecordWithdrawn /\ SomeoneRemains
=============================================================================
