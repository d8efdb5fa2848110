SPECIFICATION Spec
CONSTANTS
  DomainIds = {"a"}
  None = None
  MaxIndex = 7
  OverflowChecks = FALSE
  DottedPaths <- MCDottedPaths
  Bytewise <- MCBytewise
  Scenarios <- MCScenarios
  FileEdits <- MCFileEdits
  ManifestEdits <- MCManifestEdits
  MaxBands = 2
  MaxEpsg = 3
INVARIANTS
  ConversionComplete
  OthersKept
  RastersFitGrid
  OutputConforms
  RecordAudits
CHECK_DEADLOCK FALSE
