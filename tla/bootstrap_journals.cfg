SPECIFICATION Spec
CONSTANTS
  Groups = {g1}
  Replicas = 2
  JournalNodes = {j1, j2}
  MaxFailures = 0
  MaxInterrupts = 0
  MaxStops = 0
INVARIANTS SharedEditsAreShared
CHECK_DEADLOCK FALSE
