SPECIFICATION Spec
CONSTANTS
  Requests = {1, 2}
  Tasks = {1}
  Conversations = {v1}
  WorkflowExecution = workflow_execution
  Steps = {workflow_execution}
  Keys = {}
  Nothing = Nothing
  NoStep = NoStep
  NoTask = NoTask
  MaxFailures = 0
INVARIANTS InProgressIsTrue
CHECK_DEADLOCK FALSE
