SPECIFICATION Spec
CONSTANTS
  DomainIds = {"a"}
  None = None
  MaxIndex = 7
  OverflowChecks = FALSE
  DottedPaths <- MCDottedPaths
  Bytewise <- MCBytewise
  Scenarios <- MCScenarios
  Shared <- MCShared
  Edits <- MCEdits
  FileEdits <- MCFileEdits
  ManifestEdits <- MCManifestEdits
INVARIANTS
  EveryChangeRecorded
  NonParametersNeedConsent
  OutputIsMutatedBase
  OutputConforms
  DigestsTrue
  RecordAudits
  RecordOrdered
  SelfContained
CHECK_DEADLOCK FALSE
