SPECIFICATION Spec
CONSTANTS
  None = None
  Mistyped = Mistyped
  Fractional = Fractional
  Excessive = Excessive
  Unreadable = Unreadable
  BrokenStdout = FALSE
  Packages <- MCPackages
  Ascending <- MCAscending
  Timestamps <- MCTimestamps
  Traversals <- MCTraversals
  DottedPaths <- MCDottedPaths
  Sha256 <- MCSha256
  MaxSize = 3
  MaxCount = 5
  MaxId = 9
INVARIANTS
  VersionReadFirst
CHECK_DEADLOCK FALSE
