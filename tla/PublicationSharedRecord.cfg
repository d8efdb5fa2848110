CONSTANTS
  p1 = p1
  p2 = p2
  p3 = p3
  p4 = p4
  o1 = o1
  o2 = o2
  r1 = r1
  r2 = r2
  pid1 = pid1
  pid2 = pid2
  NoPath = NoPath
  Foreign = Foreign
  Procs = {p1, p2}
  Paths = {o1, o2, r1}
  Pids = {pid1}
  Out <- OwnOut2
  Rec <- SharedRec
  Pid <- SamePid
  MaxTries <- Tries2
  Faults = {}
SPECIFICATION Spec
INVARIANT RecordAtSuccess
CHECK_DEADLOCK FALSE
