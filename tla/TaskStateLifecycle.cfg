SPECIFICATION Spec
CONSTANTS
  Clients = {c1, c2}
  Steps = {s1, s2}
  Keys = {}
  CheckpointIds = {k1}
  NoStep = NoStep
  NoTask = NoTask
  NoCheckpoint = NoCheckpoint
  MaxVersion = 6
  MaxDeletes = 0
SYMMETRY Symmetric
INVARIANTS EveryAttemptSettledOnce CurrentStepRuns
PROPERTIES LifecycleSpec
CHECK_DEADLOCK FALSE
