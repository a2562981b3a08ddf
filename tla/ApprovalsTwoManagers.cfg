SPECIFICATION Spec
CONSTANTS
  Approvals = {a1}
  Expiring = {}
  Clients = {c1, c2}
  m1 = m1
  m2 = m2
  Managers = {m1, m2}
  Manager <- TwoManagers
  Nobody = Nobody
PROPERTIES DecisionIsFinal
CHECK_DEADLOCK FALSE
