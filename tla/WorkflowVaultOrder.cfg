SPECIFICATION Spec
CONSTANTS
  MaxRepairs = 3
  RecursionLimit = 25
  NoAnswer = NoAnswer
INVARIANTS EvidenceBeforeReasoning
CHECK_DEADLOCK FALSE
