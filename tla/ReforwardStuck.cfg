SPECIFICATION FairExecSpec
CONSTANTS
  a = a
  b = b
  c = c
  d = d
  p1 = p1
  p2 = p2
  k1 = k1
  k2 = k2
  event = event
  seed = seed
  Entry = a
  Proc = {p1}
  Tracker = {k1, k2}
  ProcOf <- OneProc
  TrackerFor <- OneService
  Task = {a, b}
  Final = {b}
  Edge <- Chain
  Trigger = {event}
  Edits = {"plan"}
  MaxItems = 4
  Reforward = TRUE
  Faults = FALSE
  Watcher = FALSE
  SeqLen = 2
  MaxStops = 9
  MaxAwards = 9
  MaxReforwards = 1
  MaxAttempts = 3
CHECK_DEADLOCK FALSE
PROPERTY RunFinishes
