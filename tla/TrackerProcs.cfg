SPECIFICATION PlannedSpec
CONSTANTS
  p1 = p1
  p2 = p2
  k1 = k1
  k2 = k2
  t1 = t1
  t2 = t2
  Proc = {p1, p2}
  ProcOf <- TwoProcs
  Tracker <- MCTracker
  Task <- MCTask
  Final <- MCFinal
  Edits = {}
  MaxItems = 1
  Reforward = TRUE
  Faults = TRUE
  SeqLen = 2
  MaxStops = 0
  MaxAwards = 0
CHECK_DEADLOCK FALSE
INVARIANTS CompletedMeansFinalsReported FailedMeansTaskFailed
PROPERTIES ArchiveIsFinal
SYMMETRY Swap
