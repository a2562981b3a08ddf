SPECIFICATION Spec
CONSTANTS
  Steps = {1}
  Keys = {}
  NoStep = NoStep
  NoTask = NoTask
  Plans <- AllPlans
  Managers = {"durable"}
  MaxWorkers = 2
  MaxParallel = 2
  MaxToolCalls = 2
  Timed = FALSE
INVARIANTS SuccessfulToolsReturn
CHECK_DEADLOCK FALSE
