SPECIFICATION FairSpec
CONSTANTS
  MaxRepairs = 3
  NoAnswer = NoAnswer
INVARIANTS TypeOK RunIsBounded DeliverableIsVerified NoRouteLost
PROPERTIES EvidenceIsKept Terminates
CHECK_DEADLOCK FALSE
