SPECIFICATION ServicesSpec
CONSTANTS
  k1 = k1
  k2 = k2
  k3 = k3
  k4 = k4
  Key <- Keys
  CacheSize = 2
  TTL = 2
  CacheTime = 6
  Engines = {e1, e2}
  Forwarders = {f1, f2}
  Kinds = {"timeout", "runtime"}
  MinIntensity = 1
  MaxIntensity = 9
  SuccessBonus = 1
  FailurePenalty = 2
  DepositDelta = 2
  DecayFactor = 9
  DecayLimit = 2
  MaxMarkers = 3
  MaxLearnEvents = 4
  Owners = {"p", "q"}
  Ids = {1, 2}
  Tags = {"x", "y"}
  RequestPlus = FALSE
  MaxWrites = 3
  PageSize = 1
  MaxPages = 4
SYMMETRY Symmetry
INVARIANTS LostOnlyUnderPressure MarkersSound RewardsWithinExecutions StoreAnswers WalkSeesAll ScoringSound
PROPERTIES ImplementsSet
CHECK_DEADLOCK FALSE
