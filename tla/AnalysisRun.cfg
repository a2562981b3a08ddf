SPECIFICATION FairSpec
CONSTANTS
  Requests = {1, 2}
  Tasks = {1, 2}
  Conversations = {v1}
  WorkflowExecution = workflow_execution
  Steps = {workflow_execution}
  Keys = {}
  Nothing = Nothing
  NoStep = NoStep
  NoTask = NoTask
  MaxFailures = 2
INVARIANTS TypeOK WorkflowRunsOnce CompletedIsDurable
PROPERTIES AnalysisIsStable StreamsEnd
CHECK_DEADLOCK FALSE
