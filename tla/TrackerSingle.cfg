SPECIFICATION Spec
CONSTANTS
  p1 = p1
  p2 = p2
  k1 = k1
  k2 = k2
  t1 = t1
  t2 = t2
  Proc = {p1}
  ProcOf <- OneProc
  Tracker <- MCTracker
  Task <- MCTask
  Final <- MCFinal
  Edits = {"plan", "pause", "resume"}
  MaxItems = 1
  Reforward = TRUE
  Faults = TRUE
  SeqLen = 3
  MaxStops = 2
  MaxAwards = 3
CHECK_DEADLOCK FALSE
INVARIANTS TypeOK NeverTwice
PROPERTIES ForwardOnly PauseKept
