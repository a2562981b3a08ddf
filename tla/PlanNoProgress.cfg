SPECIFICATION Spec
CONSTANTS
  Steps = {1, 2, 3}
  Keys = {}
  NoStep = NoStep
  NoTask = NoTask
  Plans <- AllPlans
  Managers = {"durable"}
  MaxWorkers = 2
  MaxParallel = 2
  MaxToolCalls = 3
  Timed = FALSE
INVARIANTS NoProgressNever
CHECK_DEADLOCK FALSE
