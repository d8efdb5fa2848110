SPECIFICATION Spec
CONSTANTS
  DomainIds = {"a"}
  None = None
  MaxIndex = 7
  OverflowChecks = FALSE
  DottedPaths <- MCDottedPaths
  Bytewise <- MCBytewise
  Scenarios <- MCScenarios
  Shared <- MCShared
  Edits <- MCEdits
  FileEdits = {}
  ManifestEdits = {}
INVARIANTS
  ConsentAlways
CHECK_DEADLOCK FALSE
