SPECIFICATION PlatformSpec
CONSTANTS
  Run = {r1, r2}
  Step = {"a", "b", "c"}
  Link <- Triangle
  First = "a"
  Service = {"s1", "s2"}
  ServiceOf <- TwoServices
  Launcher = "s2"
  Suffix = TRUE
  MaxIsoEvents = 2
  Thread = {t1, t2, t3}
  Bundle = {b1, b2, b3, b4}
  MinSize = 1
  MaxSize = 2
  InitRetries = 2
  ConnectRetries = 2
  MaxPoolFaults = 1
  Pipe = {"p", "q"}
  Graph = {"g", "h"}
  Wiring <- TwoWirings
  Caller = {"c"}
  CreateSync = TRUE
  MaxLegacy = 1
  MaxRegFaults = 1
  Uploader = {u1, u2}
  Item = {"w", "x", "o"}
  Oci = {"o"}
  Digest = {1, 2}
  Sig = {"s"}
  CasTries = 3
  Name = {"n"}
  Image = {"i", "j"}
  MaxUploads = 3
  MaxStarts = 3
  MaxDockerFaults = 1
  BatchConfigs <- TwoConfigs
  Clients <- OneClient
  Reps = 2
  MaxBatchStarts = 2
  MaxCommands = 3
  MaxBreaks = 3
INVARIANTS RunsDoNotMix NothingLost PoolSound TopologyIsCurrent CatalogKeepsEntries LastStartRuns CommandsAccounted BatchSound
CHECK_DEADLOCK FALSE
