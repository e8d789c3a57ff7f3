SPECIFICATION CnpSpec
CONSTANTS
  a1 = a1
  a2 = a2
  Agents = {a1, a2}
  Tasks = {t1}
  Managers = {m1}
  ApiBidders = {}
  System = system
  NoOne = none
  MaxRounds = 2
  MaxBids = 1
  Scores = {0, 1, 2}
  PostedScores = {1, 2}
  MinScore = 1
  Threshold <- TwoThresholds
  BaseStimulus = 1
  StimulusStep = 1
  StimulusMax = 3
  RequestPlus = TRUE
  Requests = 1
  MaxCfps = 8
  MaxAwards = 2
  MaxEvents = 0
INVARIANT BidsReachPlan
CHECK_DEADLOCK FALSE
