SPECIFICATION Spec
CONSTANTS
  Clients = {c1, c2}
  Steps = {s1}
  Keys = {result}
  CheckpointIds = {k1}
  NoStep = NoStep
  NoTask = NoTask
  NoCheckpoint = NoCheckpoint
  MaxVersion = 4
  MaxDeletes = 1
SYMMETRY Symmetric
INVARIANTS NoSpuriousConflict
PROPERTIES NoLostUpdate CompletionIsSound TerminalIsFinal
CHECK_DEADLOCK FALSE
