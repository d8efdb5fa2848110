SPECIFICATION Spec
CONSTANTS
  DomainIds = {"a", "b"}
  None = None
  MaxIndex = 7
  OverflowChecks = FALSE
  Candidates <- MCCandidates
  DottedPaths <- MCDottedPaths
INVARIANTS
  SkipsNeverConform
  ConformantMeetsChecklist
  RejectionsJustified
CHECK_DEADLOCK FALSE
