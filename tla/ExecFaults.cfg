SPECIFICATION ExecSpec
CONSTANTS
  a = a
  b = b
  c = c
  d = d
  p1 = p1
  p2 = p2
  k1 = k1
  k2 = k2
  event = event
  seed = seed
  Entry = a
  Proc = {p1}
  Tracker = {k1, k2}
  ProcOf <- OneProc
  TrackerFor <- OneService
  Task = {a, b, c}
  Final = {c}
  Edge <- Triangle
  Trigger = {event}
  Edits = {"pause", "resume"}
  MaxItems = 1
  Reforward = FALSE
  Faults = TRUE
  Watcher = TRUE
  SeqLen = 2
  MaxStops = 2
  MaxAwards = 2
  MaxReforwards = 1
  MaxAttempts = 2
CHECK_DEADLOCK FALSE
INVARIANT CompletedRanEverything
