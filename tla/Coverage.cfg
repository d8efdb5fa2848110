CONSTANTS
  DomainIds = {cell, glacier}
  None = None
  MaxIndex = 7
  OverflowChecks = TRUE
  MaxCount = 3
  MaxRows = 3
SPECIFICATION Spec
INVARIANT CoverageExact
INVARIANT NoOverflow
CHECK_DEADLOCK FALSE
