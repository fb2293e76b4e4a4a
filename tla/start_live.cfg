SPECIFICATION StartSpec
CONSTANTS
  Groups = {g1}
  g1 = g1
  Own = g1
  Replicas = 2
  JournalNodes = {j1}
  MaxFailures = 2
  MaxInterrupts = 0
  MaxStops = 1
  MaxRounds = 2
\* everything serves and the budgets are used up: nothing is left to do
CHECK_DEADLOCK FALSE
INVARIANTS ReadyMeansFormatted DataNodeFits
PROPERTIES ImplementsWait EventuallyServing
