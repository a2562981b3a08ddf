SPECIFICATION FairGateSpec
CONSTANTS
  Approvals = {a1, a2}
  Expiring = {a1}
  Clients = {c1, c2}
  m1 = m1
  Managers = {m1}
  Manager <- OneManager
  Nobody = Nobody
  Tools <- MCTools
  Registry <- MCRegistry
  Handlers <- MCHandlers
  Sandbox = "CodeSandbox"
  ToolOf <- MCToolOf
  Governance <- MCGovernance
  Enforced <- MCEnforced
  ApprovalPolicy <- MCApprovalPolicy
  MaxJobs = 2
INVARIANTS NoExecutionWithoutApproval ExecutedAtMostOnce TrailIsComplete SensitiveRunsAreApproved
PROPERTIES KeepsGrants CallersFinish
