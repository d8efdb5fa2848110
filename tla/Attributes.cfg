CONSTANTS
  MaxCount = 2
  MaxTables = 2
  MaxRows = 3
  Values = {1, 10}
SPECIFICATION Spec
INVARIANT DenseExact
INVARIANT SumsExact
CHECK_DEADLOCK FALSE
