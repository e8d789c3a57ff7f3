SPECIFICATION PlanningSpec
CONSTANTS
  PlanTasks = {1, 2, 3}
  PlanAgents = {"x", "y"}
  Deltas <- SomeDeltas
  Deciders = {d1, d2}
  MaxSuggestions = 2
  RejectionWindow = 1
  MaxPlanEvents = 3
  GateTasks = {t1}
  Checkers = {c1}
  GateEnvs <- TwoEnvs
  LlmRetries = 1
  MaxReEvals = 1
  MaxRetries = 1
  MaxGateEvents = 3
  Taxonomy <- DefaultTaxonomy
  CapabilityFor <- IntegrationCapability
  MinPerfSamples = 1
  Profile <- ProfileOf
INVARIANTS DraftConforms PauseHasReason FunctionsSound
PROPERTIES RevisionAdvances ReEvaluationsEnd
CHECK_DEADLOCK FALSE
