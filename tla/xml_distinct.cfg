SPECIFICATION Spec
CONSTANTS
  Names = {n1, n2, n3}
  n1 = n1
  n2 = n2
  n3 = n3
  MaxLen = 2
  CallersInputs = FALSE
\* the function returns
CHECK_DEADLOCK FALSE
INVARIANTS DistinctByName
