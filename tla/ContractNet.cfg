SPECIFICATION CnpFairSpec
CONSTANTS
  a1 = a1
  a2 = a2
  Agents = {a1, a2}
  Tasks = {t1}
  Managers = {m1}
  ApiBidders = {api}
  System = system
  NoOne = none
  MaxRounds = 2
  MaxBids = 1
  Scores = {0, 2}
  PostedScores = {1, 2}
  MinScore = 1
  Threshold <- TwoThresholds
  BaseStimulus = 1
  StimulusStep = 1
  StimulusMax = 3
  RequestPlus = FALSE
  Requests = 1
  MaxCfps = 8
  MaxAwards = 2
  MaxEvents = 2
INVARIANTS AwardOnce RacesBounded PlanMatchesSequence
PROPERTY CyclesEnd
CHECK_DEADLOCK FALSE
