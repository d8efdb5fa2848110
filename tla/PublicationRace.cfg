CONSTANTS
  p1 = p1
  p2 = p2
  p3 = p3
  p4 = p4
  o1 = o1
  o2 = o2
  r1 = r1
  r2 = r2
  pid1 = pid1
  pid2 = pid2
  NoPath = NoPath
  Foreign = Foreign
  Procs = {p1, p2, p3, p4}
  Paths = {o1, o2, r1, r2}
  Pids = {pid1}
  Out <- MixedOut4
  Rec <- MixedRec4
  Pid <- SamePid
  MaxTries <- Tries4
  Faults = {"kill"}
SPECIFICATION FairSpec
INVARIANT SomeonePublishes
PROPERTY Termination
CHECK_DEADLOCK FALSE
