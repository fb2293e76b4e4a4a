SPECIFICATION FairSpec
CONSTANTS
  Groups = {"a"}
  MetricsName <- MCMetricsName
  Specs <- MCStopSpecs
  Edited <- MCStopSpecs
  Resyncs = TRUE
  MaxEvents = 1
  MaxDrift = 1
CHECK_DEADLOCK FALSE
PROPERTIES Converges StopScalesDown DeletedIsGone
