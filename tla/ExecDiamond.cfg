SPECIFICATION ExecSpec
CONSTANTS
  a = a
  b = b
  c = c
  d = d
  p1 = p1
  p2 = p2
  k1 = k1
  k2 = k2
  event = event
  seed = seed
  Entry = a
  Proc = {p1}
  Tracker = {k1, k2}
  ProcOf <- OneProc
  TrackerFor <- OneService
  Task = {a, b, c, d}
  Final = {d}
  Edge <- Diamond
  Trigger = {event}
  Edits = {}
  MaxItems = 4
  Reforward = FALSE
  Faults = FALSE
  Watcher = TRUE
  SeqLen = 2
  MaxStops = 9
  MaxAwards = 9
  MaxReforwards = 1
  MaxAttempts = 3
CHECK_DEADLOCK FALSE
INVARIANTS QuiescentTerminal DocFollowsDag FanInUsesFreshParts StopsExactlyOnce
