SPECIFICATION Spec
CONSTANTS
  Groups = {"a", "a-metrics", "b"}
  MetricsName <- MCMetricsName
  Specs <- MCSpecs
  Edited <- MCEdited
  Resyncs = FALSE
  MaxEvents = 2
  MaxDrift = 0
CHECK_DEADLOCK FALSE
INVARIANTS TypeOK QuiescentMatches ClashNeverRests
