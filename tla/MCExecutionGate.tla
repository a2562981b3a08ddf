--------------------------- MODULE MCExecutionGate ---------------------------
EXTENDS ExecutionGate, TLC

CONSTANT m1

\* Everybody on one manager.
OneManager == [c \in Clients |-> m1]

Tool(risk, method, permissions) ==
  [enabled |-> TRUE, risk |-> risk, method |-> method, permissions |-> permissions, timeout |-> 30]

\* A tool everybody may use, the sandbox, a risky tool, one that may only be
\* called remotely, a forbidden one, and one nobody registered.
MCRegistry ==
  ("CSVAnalyzer" :> Tool("low", "local", {"local_files"})) @@
  ("CodeSandbox" :> Tool("medium", "sandbox", {"sandbox_execution"})) @@
  ("Eraser" :> Tool("high", "local", {"local_files"})) @@
  ("Mailer" :> Tool("low", "remote", {})) @@
  ("Wiper" :> Tool("low", "local", {}))
MCTools == DOMAIN MCRegistry \cup {"Unknown"}
MCHandlers == {"CSVAnalyzer", "Eraser", "Mailer", "Wiper"}
MCToolOf == [a \in Approvals |-> "Eraser"]

\* The defaults, but for a governance and an execution policy that leave risky
\* tools to the approval.
MCGovernance ==
  [enabled |-> TRUE, denied |-> {"Wiper"}, tools |-> {}, methods |-> {}, permissions |-> {},
   maxRisk |-> "high", maxTimeout |-> 120, approvalFrom |-> "none"]
MCEnforced ==
  [permissions |-> {"local_documents", "local_files", "local_images", "sandbox_execution"},
   methods |-> {"local", "sandbox"}, maxRisk |-> "high", maxTimeout |-> 120]
MCApprovalPolicy ==
  [enabled |-> TRUE, always |-> FALSE, risks |-> {"high", "critical"}, sensitive |-> {},
   destructive |-> {}]
=============================================================================
