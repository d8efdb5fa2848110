CONSTANTS
  p1 = p1
  p2 = p2
  p3 = p3
  p4 = p4
  o1 = o1
  o2 = o2
  r1 = r1
  r2 = r2
  pid1 = pid1
  pid2 = pid2
  NoPath = NoPath
  Foreign = Foreign
  Procs = {p1, p2}
  Paths = {o1, r1, r2}
  Pids = {pid1}
  Out <- ContendOut2
  Rec <- OwnRec2
  Pid <- SamePid
  MaxTries <- Tries2
  Faults = {"io", "cleanup", "kill", "foreign", "stdout"}
SPECIFICATION Spec
INVARIANT RecordInv
INVARIANT FailureLeavesNothing
INVARIANT PublishedStays
INVARIANT RecordAccompanies
INVARIANT RecordAtSuccess
INVARIANT DestinationsWhole
PROPERTY OutputsNeverClobbered
PROPERTY RecordPathsKept
PROPERTY ImplementsTransaction
CHECK_DEADLOCK FALSE
