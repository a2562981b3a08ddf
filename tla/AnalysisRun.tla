----------------------------- MODULE AnalysisRun -----------------------------
(***************************************************************************)
(* The HTTP layer of the backend (app/api/routes.py): the requests that    *)
(* start an analysis, stream it, reconnect to it, ask for its result or    *)
(* make a report of it, over the task rows, the conversations, the reports *)
(* and the in-memory analysis_store.  The server may crash; what is in a   *)
(* database survives.                                                      *)
(*                                                                         *)
(* A request is one HTTP request and is used once; requests and task ids   *)
(* are numbered in the order in which they appear.  Streams and /analyze   *)
(* run run_multimodal_analysis: on a thread of its own for a stream, on    *)
(* the event loop itself, which it blocks, for /analyze.                   *)
(*                                                                         *)
(* Abstracted: uploads, evidence and answers; of a result the status.      *)
(***************************************************************************)
EXTENDS TaskRecord, Sequences, FiniteSets

CONSTANTS Requests, Tasks,
          Conversations,     \* conversations that exist from the start
          WorkflowExecution, \* the one step of an analysis
          Nothing,           \* None
          MaxFailures         \* bound

ASSUME StepAssumption == Steps = {WorkflowExecution}
ASSUME NumberAssumption == Requests \subseteq Nat /\ Tasks \subseteq Nat
ASSUME NothingAssumption == Nothing \notin Requests \cup Tasks \cup Conversations
ASSUME FailureAssumption == MaxFailures \in Nat

VARIABLES row,       \* task id -> row of agent_task_state
          meta,      \* task id -> request_id and result in the row's metadata
          request,   \* the requests
          said,      \* conversation -> its messages
          reports,   \* the requests whose report is in the reports table
          cache,     \* analysis_store: the requests whose response it holds
          failures   \* crashes and unforeseen exceptions so far

durable == <<row, meta, said, reports>>
vars == <<durable, request, cache, failures>>

Results == {"none", "completed", "failed"}
RowPoints == {"add_step", "start_task", "start_step", "complete_step", "complete_task",
              "fail_step", "fail_task"}
RunPoints == RowPoints \cup {"exists", "insert", "request_id", "conversation", "invoke",
                             "user", "assistant", "result", "cache", "fail_result"}
ReportPoints == {"read", "list", "save"}
Ends == {"returned", "raised", "dead"}

\* A new conversation is named after the request it is created for.
AllConversations == Conversations \cup Requests
Messages == [by : Requests, role : {"user", "assistant"}]

Unused ==
  [kind |-> "unused", task |-> Nothing, conv |-> Nothing, at |-> "none", stream |-> "none",
   invoked |-> FALSE, answered |-> FALSE, titled |-> FALSE, saw |-> "none", told |-> "none"]

RequestRecords ==
  [kind : {"unused", "stream", "analyze", "report"},
   task : Tasks \cup {Nothing},
   conv : AllConversations \cup {Nothing},
   at : RunPoints \cup ReportPoints \cup Ends \cup {"none"},
   stream : {"none", "open", "closed"},
   invoked : BOOLEAN, answered : BOOLEAN, titled : BOOLEAN,
   saw : TaskStatuses \cup {"none"},
   told : Results \cup {"in_progress", "cancelled"}]
MetaRecords == [request_id : Requests \cup {Nothing}, result : Results]

TypeOK ==
  /\ row \in [Tasks -> TaskRecords \cup {NoTask}]
  /\ meta \in [Tasks -> MetaRecords]
  /\ request \in [Requests -> RequestRecords]
  /\ said \in [AllConversations -> Seq(Messages)]
  /\ reports \subseteq Requests /\ cache \subseteq Requests
  /\ failures \in 0..MaxFailures

Init ==
  /\ row = [t \in Tasks |-> NoTask]
  /\ meta = [t \in Tasks |-> [request_id |-> Nothing, result |-> "none"]]
  /\ request = [q \in Requests |-> Unused]
  /\ said = [v \in AllConversations |-> <<>>]
  /\ reports = {} /\ cache = {} /\ failures = 0

-----------------------------------------------------------------------------
(***************************************************************************)
(* Arrival of a request.                                                   *)
(***************************************************************************)

\* /analyze is an async handler that never awaits: no other handler starts
\* and no stream goes on while it runs.
LoopFree ==
  \A q \in Requests : request[q].kind = "analyze" => request[q].at \in Ends

Begin(q, r) ==
  /\ request[q].kind = "unused"
  /\ \A p \in Requests : p < q => request[p].kind # "unused"
  /\ LoopFree
  /\ request' = [request EXCEPT ![q] = r]
  /\ UNCHANGED <<durable, cache, failures>>

\* The id of an /analyze task is a fresh uuid4, told in its response.
Fresh(t) == \A q \in Requests : request[q].task # t
Numbered(t) == \A u \in Tasks : u < t => ~Fresh(u)
Known(t) ==
  /\ Numbered(t)
  /\ \A q \in Requests :
       request[q].kind = "analyze" /\ request[q].task = t => request[q].at = "returned"

Analyze(q, t, v) ==
  /\ Fresh(t) /\ Numbered(t)
  /\ Begin(q, [Unused EXCEPT !.kind = "analyze", !.task = t, !.conv = v, !.at = "exists"])

StartStream(q, t, v) ==
  /\ Known(t) /\ row[t] = NoTask
  /\ Begin(q, [Unused EXCEPT !.kind = "stream", !.task = t, !.conv = v, !.at = "exists",
                             !.stream = "open"])

\* Mutant: the status of the row is sent as the event.
ReconnectedRaw(status) == status

\* The last event of a stream that finds a row without a result; the status
\* values it is compared with are in upper case.
Reconnected(status) ==
  CASE status = "CANCELLED" -> "cancelled"
    [] status = "FAILED"    -> "failed"
    [] status = "COMPLETED" -> "completed"
    [] OTHER                -> "in_progress"

\* A stream that finds the task tells what it has read and runs nothing.
ReconnectStream(q, t) ==
  /\ Known(t) /\ row[t] # NoTask
  /\ Begin(q, [Unused EXCEPT !.kind = "stream", !.task = t, !.stream = "closed",
                             !.saw = row[t].status,
                             !.told = IF meta[t].result # "none"
                                      THEN meta[t].result
                                      ELSE Reconnected(row[t].status)])

AskReport(q, t, titled) ==
  /\ Known(t)
  /\ Begin(q, [Unused EXCEPT !.kind = "report", !.task = t, !.titled = titled, !.at = "read"])

-----------------------------------------------------------------------------
(***************************************************************************)
(* run_multimodal_analysis, one call that may fail after the other.        *)
(***************************************************************************)

\* Mutant: the conversation and the result are written before the task is
\* marked completed.
FollowingCompletedLast(p, answered) ==
  CASE p = "add_step" -> "start_task"
    [] p = "start_task" -> "start_step"
    [] p = "start_step" -> "request_id"
    [] p = "complete_step" -> "user"
    [] p = "complete_task" -> "cache"
    [] p = "fail_step" -> "fail_result"
    [] p = "fail_task" -> "raised"
    [] p = "user" -> IF answered THEN "assistant" ELSE "result"
    [] p = "assistant" -> "result"
    [] p = "result" -> "complete_task"
    [] p = "fail_result" -> "fail_task"

Following(p, answered) ==
  CASE p = "add_step" -> "start_task"
    [] p = "start_task" -> "start_step"
    [] p = "start_step" -> "request_id"
    [] p = "complete_step" -> "complete_task"
    [] p = "complete_task" -> "user"
    [] p = "fail_step" -> "fail_result"
    [] p = "fail_task" -> "raised"
    [] p = "user" -> IF answered THEN "assistant" ELSE "result"
    [] p = "assistant" -> "result"
    [] p = "result" -> "cache"
    [] p = "fail_result" -> "fail_task"

At(q, p) == request[q].at = p

\* With the call end its local variables.
Goto(q, p) ==
  request' = [request EXCEPT ![q].at = p,
                             ![q].conv = IF p \in Ends THEN Nothing ELSE @,
                             ![q].answered = IF p \in Ends THEN FALSE ELSE @]
GoOn(q) == Goto(q, Following(request[q].at, request[q].answered))

CheckExists(q) ==
  /\ At(q, "exists")
  /\ Goto(q, IF row[request[q].task] = NoTask THEN "insert" ELSE "raised")
  /\ UNCHANGED <<durable, cache, failures>>

\* Mutant: the store replaces the row of another request.
InsertAnyway(q) ==
  /\ At(q, "insert")
  /\ row' = [row EXCEPT ![request[q].task] = NewTask]
  /\ Goto(q, "add_step")
  /\ UNCHANGED <<meta, said, reports, cache, failures>>

\* The row of another request has a version that is not below this one's 0.
Insert(q) ==
  /\ At(q, "insert")
  /\ \/ /\ row[request[q].task] = NoTask
        /\ row' = [row EXCEPT ![request[q].task] = NewTask]
        /\ Goto(q, "add_step")
     \/ /\ row[request[q].task] # NoTask
        /\ Goto(q, "raised")
        /\ UNCHANGED row
  /\ UNCHANGED <<meta, said, reports, cache, failures>>

Allowed(p, t) ==
  CASE p = "add_step" -> CanAddStep(t, WorkflowExecution)
    [] p = "start_task" -> CanStartTask(t)
    [] p = "start_step" -> CanStartStep(t, WorkflowExecution)
    [] p \in {"complete_step", "fail_step"} -> CanSettleStep(t, WorkflowExecution)
    [] p = "complete_task" -> CanCompleteTask(t)
    [] p = "fail_task" -> CanFailTask(t)

Changed(p, t) ==
  CASE p = "add_step" -> StepAdded(t, WorkflowExecution)
    [] p = "start_task" -> TaskStarted(t)
    [] p = "start_step" -> StepStarted(t, WorkflowExecution)
    [] p = "complete_step" -> StepCompleted(t, WorkflowExecution)
    [] p = "fail_step" -> StepFailed(t, WorkflowExecution)
    [] p = "complete_task" -> TaskCompleted(t)
    [] p = "fail_task" -> TaskFailed(t)

\* A call of the state manager.  Nobody else writes the row of a run, so that
\* the manager's read and the store's save are one step.
CallManager(q) ==
  LET t == request[q].task IN
  /\ request[q].at \in RowPoints
  /\ \/ /\ Allowed(request[q].at, row[t])
        /\ row' = [row EXCEPT ![t] = Touched(Changed(request[q].at, row[t]))]
        /\ GoOn(q)
     \/ /\ ~Allowed(request[q].at, row[t])
        /\ Goto(q, "raised")
        /\ UNCHANGED row
  /\ UNCHANGED <<meta, said, reports, cache, failures>>

WriteMetadata(q, m) ==
  /\ row' = [row EXCEPT ![request[q].task] = Touched(@)]
  /\ meta' = [meta EXCEPT ![request[q].task] = m]
  /\ UNCHANGED <<said, reports, cache, failures>>

RecordRequestId(q) ==
  /\ At(q, "request_id")
  /\ WriteMetadata(q, [request_id |-> q, result |-> meta[request[q].task].result])
  /\ Goto(q, "conversation")

\* Mutant: the response is only kept in analysis_store.
ForgetResult(q) ==
  /\ At(q, "result")
  /\ GoOn(q)
  /\ UNCHANGED <<durable, cache, failures>>

RecordResult(q) ==
  /\ At(q, "result")
  /\ WriteMetadata(q, [meta[request[q].task] EXCEPT !.result = "completed"])
  /\ GoOn(q)

RecordFailure(q) ==
  /\ At(q, "fail_result")
  /\ WriteMetadata(q, [meta[request[q].task] EXCEPT !.result = "failed"])
  /\ GoOn(q)

UseConversation(q) ==
  /\ At(q, "conversation")
  /\ request' = [request EXCEPT ![q].at = "invoke", ![q].conv = IF @ = Nothing THEN q ELSE @]
  /\ UNCHANGED <<durable, cache, failures>>

\* workflow.invoke ends, with or without a final answer, or raises.
Invoke(q) ==
  /\ At(q, "invoke")
  /\ \E end \in {"answered", "empty", "raised"} :
       request' = [request EXCEPT ![q].at = IF end = "raised" THEN "fail_step"
                                                              ELSE "complete_step",
                                  ![q].invoked = TRUE,
                                  ![q].answered = (end = "answered")]
  /\ UNCHANGED <<durable, cache, failures>>

AddMessage(q) ==
  /\ request[q].at \in {"user", "assistant"}
  /\ said' = [said EXCEPT ![request[q].conv] =
                 Append(@, [by |-> q, role |-> request[q].at])]
  /\ GoOn(q)
  /\ UNCHANGED <<row, meta, reports, cache, failures>>

StoreAnalysis(q) ==
  /\ At(q, "cache")
  /\ cache' = cache \cup {q}
  /\ Goto(q, "returned")
  /\ UNCHANGED <<durable, failures>>

\* Any of these calls may raise (a locked database, a full disk, the 404 of an
\* unknown conversation); only an exception of workflow.invoke is handled.
RunRaises(q) ==
  /\ request[q].at \in RunPoints \ {"invoke", "cache"}
  /\ failures < MaxFailures
  /\ failures' = failures + 1
  /\ Goto(q, "raised")
  /\ UNCHANGED <<durable, cache>>

Run(q) ==
  \/ CheckExists(q) \/ Insert(q) \/ CallManager(q) \/ RecordRequestId(q)
  \/ UseConversation(q) \/ Invoke(q) \/ AddMessage(q)
  \/ RecordResult(q) \/ RecordFailure(q) \/ StoreAnalysis(q)

-----------------------------------------------------------------------------
(***************************************************************************)
(* Responses, reports, and the end of the process.                         *)
(***************************************************************************)

\* Mutant: only the return of the run ends the stream.
RespondOnSuccess(q) ==
  /\ At(q, "returned") /\ request[q].told = "none"
  /\ \/ request[q].kind = "stream" /\ request[q].stream = "open" /\ LoopFree
     \/ request[q].kind = "analyze"
  /\ request' = [request EXCEPT ![q].told = "completed",
                                ![q].stream = IF @ = "open" THEN "closed" ELSE @]
  /\ UNCHANGED <<durable, cache, failures>>

\* The response of /analyze, and the last event of a stream.
Respond(q) ==
  /\ request[q].at \in {"returned", "raised"} /\ request[q].told = "none"
  /\ \/ request[q].kind = "stream" /\ request[q].stream = "open" /\ LoopFree
     \/ request[q].kind = "analyze"
  /\ request' = [request EXCEPT
       ![q].told = IF request[q].at = "returned" THEN "completed" ELSE "failed",
       ![q].stream = IF @ = "open" THEN "closed" ELSE @]
  /\ UNCHANGED <<durable, cache, failures>>

\* The client goes away; the thread of its run does not notice.
Disconnect(q) ==
  /\ request[q].stream = "open" /\ LoopFree
  /\ request' = [request EXCEPT ![q].stream = "closed"]
  /\ UNCHANGED <<durable, cache, failures>>

ReportsOf(t) == {q \in reports : request[q].task = t}

\* Mutant: a result is taken for the sign of a completed task.
ReadAnyResult(q) ==
  /\ At(q, "read")
  /\ Goto(q, IF row[request[q].task] # NoTask /\ meta[request[q].task].result # "none"
             THEN "list" ELSE "raised")
  /\ UNCHANGED <<durable, cache, failures>>

\* create_report raises unless the task is completed and has a result.
ReadTask(q) ==
  LET t == request[q].task IN
  /\ At(q, "read")
  /\ Goto(q, IF row[t] # NoTask /\ row[t].status = "completed" /\ meta[t].result # "none"
             THEN "list" ELSE "raised")
  /\ UNCHANGED <<durable, cache, failures>>

\* A report without a title of its own is only made if there is none.
ListReports(q) ==
  /\ At(q, "list")
  /\ Goto(q, IF ReportsOf(request[q].task) # {} /\ ~request[q].titled
             THEN "returned" ELSE "save")
  /\ UNCHANGED <<durable, cache, failures>>

SaveReport(q) ==
  /\ At(q, "save")
  /\ reports' = reports \cup {q}
  /\ Goto(q, "returned")
  /\ UNCHANGED <<row, meta, said, cache, failures>>

Report(q) == ReadTask(q) \/ ListReports(q) \/ SaveReport(q)

Crash ==
  /\ failures < MaxFailures
  /\ failures' = failures + 1
  /\ cache' = {}
  /\ request' = [q \in Requests |->
       [request[q] EXCEPT !.at = IF @ \in Ends \cup {"none"} THEN @ ELSE "dead",
                          !.conv = Nothing, !.answered = FALSE,
                          !.stream = IF @ = "open" THEN "closed" ELSE @]]
  /\ UNCHANGED durable

Arrive(q) ==
  \E t \in Tasks :
    \/ \E v \in Conversations \cup {Nothing} : Analyze(q, t, v) \/ StartStream(q, t, v)
    \/ ReconnectStream(q, t)
    \/ \E titled \in BOOLEAN : AskReport(q, t, titled)

Next ==
  \/ \E q \in Requests :
       Arrive(q) \/ Run(q) \/ RunRaises(q) \/ Respond(q) \/ Disconnect(q) \/ Report(q)
  \/ Crash

Spec == Init /\ [][Next]_vars

\* Threads are not suspended for ever, and workflow.invoke ends.
FairSpec == Spec /\ \A q \in Requests : WF_vars(Run(q)) /\ WF_vars(Respond(q))

-----------------------------------------------------------------------------
(***************************************************************************)
(* Properties.                                                             *)
(***************************************************************************)

\* For one task the workflow is invoked at most once, whatever streams are
\* opened for it at the same time, are disconnected and reconnected, and
\* whatever crashes: a row, once there, keeps every later request from
\* running, and the losers of the race to create it end before they invoke.
WorkflowRunsOnce ==
  \A q, p \in Requests :
    request[q].invoked /\ request[p].invoked /\ request[q].task = request[p].task => q = p

\* A completed task, with a result to show for it.
HasResult(t) == row[t].status = "completed" /\ meta[t].result = "completed"

\* What anybody was told of a completed analysis the database bears out, then
\* and for ever: a client told "completed" (by the run or by a replay) and a
\* report mean a completed task with its result; a conversation remembers
\* questions and answers of completed tasks only.
CompletedIsDurable ==
  /\ \A q \in Requests : request[q].told = "completed" => HasResult(request[q].task)
  /\ \A q \in reports : HasResult(request[q].task)
  /\ \A v \in AllConversations : \A i \in DOMAIN said[v] :
       row[request[said[v][i].by].task].status = "completed"

\* GET /analysis/{request_id}: analysis_store, and the task rows after it.
Analysis(q) ==
  IF q \in cache THEN "completed"
  ELSE IF \E t \in Tasks : meta[t].request_id = q THEN meta[request[q].task].result
  ELSE "none"

\* Once GET /analysis has shown the outcome of an analysis it shows the same
\* outcome for ever, also after a restart has emptied analysis_store.
AnalysisIsStable ==
  [][\A q \in Requests : Analysis(q) # "none" => Analysis(q)' = Analysis(q)]_vars

\* Every stream ends: neither an exception of its run nor the /analyze
\* requests that block the event loop leave its client waiting.
StreamsEnd == \A q \in Requests : request[q].stream = "open" ~> request[q].stream = "closed"

\* "Analysis is already in progress." is said of a task that has not ended
\* (violated: a task that is completed but has no result yet, or none any
\* more to come, is never told from a running one).
InProgressIsTrue ==
  \A q \in Requests : request[q].told = "in_progress" => request[q].saw \in {"pending", "running"}
=============================================================================
