SPECIFICATION FairAgentSpec
CONSTANTS
  Steps = {1, 2, 3}
  Keys = {}
  NoStep = NoStep
  NoTask = NoTask
  Plans <- AllPlans
  Managers = {"durable", "recording"}
  MaxWorkers = 2
  MaxParallel = 2
  MaxToolCalls = 2
  Timed = TRUE
  Stranger = 0
  Reasoners = {"phi4-mini"}
  MaxLlmCalls = 2
  MaxTokens = 3
  MaxRepairs = 2
  Requested = 2
  MaxAttempts = 3
  MaxReplans = 4
INVARIANTS AgentTypeOK DependenciesFirst BudgetIsKept ReportIsComplete ReportMatchesRow ValidatorIsExact
PROPERTIES KeepsPromise CancelStopsScheduling RunsComeToRest
CHECK_DEADLOCK FALSE
