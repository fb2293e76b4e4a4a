SPECIFICATION Spec
CONSTANTS
  Names = {n1, n2, n3, n4}
  n1 = n1
  n2 = n2
  n3 = n3
  n4 = n4
  MaxLen = 3
  CallersInputs = TRUE
\* the function returns
CHECK_DEADLOCK FALSE
INVARIANTS TypeOK LastValueWins OriginStaysInFront
