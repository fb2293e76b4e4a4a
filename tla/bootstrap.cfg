SPECIFICATION Spec
CONSTANTS
  Groups = {g1, g2}
  Replicas = 3
  JournalNodes = {j1}
  MaxFailures = 1
  MaxInterrupts = 1
  MaxStops = 1
INVARIANTS TypeOK SingleNamespace MainInitialised OneGroupServes
PROPERTIES NoFormatWhileServing ImplementsNamespace
\* all pods serve and the budgets are used up: nothing is left to do
CHECK_DEADLOCK FALSE
