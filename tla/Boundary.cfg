SPECIFICATION Spec
CONSTANTS
  None = None
  Mistyped = Mistyped
  Fractional = Fractional
  Excessive = Excessive
  Unreadable = Unreadable
  BrokenStdout = TRUE
  Packages <- MCPackages
  Ascending <- MCAscending
  Timestamps <- MCTimestamps
  Traversals <- MCTraversals
  DottedPaths <- MCDottedPaths
  Sha256 <- MCSha256
  MaxSize = 3
  MaxCount = 5
  MaxId = 9
INVARIANTS
  FrontEndsAgree
  HardCut
  ConformantMeetsSchemas
  SchemasSuffice
  RewrittenFaithfully
CHECK_DEADLOCK FALSE
