SPECIFICATION FairSpec
CONSTANTS
  Groups = {g1, g2}
  g1 = g1
  g2 = g2
  Own = g1
  Replicas = 2
  MaxRounds = 12
  MaxRestarts = 1
\* the script ends
CHECK_DEADLOCK FALSE
INVARIANTS ReadyWasSeen GaveUpAfterMisses UnknownIdsNeverReady
PROPERTIES WaitRunsOut WaitEnds ServingEndsWait
