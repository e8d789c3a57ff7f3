SPECIFICATION LiveSpec
CONSTANTS
  a = a
  b = b
  c = c
  d = d
  p1 = p1
  p2 = p2
  k1 = k1
  k2 = k2
  event = event
  seed = seed
  Entry = a
  Proc = {p1}
  Tracker = {k1, k2}
  ProcOf <- OneProc
  TrackerFor <- OneService
  Task = {a, b}
  Final = {b}
  Edge <- Chain
  Trigger = {event, seed}
  Edits = {"plan"}
  MaxItems = 1
  Reforward = TRUE
  Faults = TRUE
  Watcher = FALSE
  SeqLen = 2
  MaxStops = 9
  MaxAwards = 9
  MaxReforwards = 1
  MaxAttempts = 2
CHECK_DEADLOCK FALSE
PROPERTIES CleanRunsFinish Drains
