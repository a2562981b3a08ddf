--------------------------- MODULE PlanExecution ---------------------------
(***************************************************************************)
(* PlanExecutor.execute: one thread schedules the steps of a plan on a     *)
(* thread pool, within a ResourceBudget, and settles what comes back.      *)
(* Each worker runs ExecutionVerifier.execute_and_verify, which settles    *)
(* its step in the task row as well.  Row accesses are those of TaskState: *)
(* a read, and later a save that is refused if the row has changed.        *)
(*                                                                         *)
(* Abstracted: tool inputs and outputs (a verdict), tracing and audit.     *)
(***************************************************************************)
EXTENDS TaskRecord, FiniteSets

CONSTANTS Plans,         \* dependency functions [Steps -> SUBSET Steps]
          Managers,      \* which state managers the executor is given
          MaxWorkers, MaxParallel, MaxToolCalls,
          Timed          \* whether the budget limits the execution time

\* "durable" is AgentStateManager; "recording" is the stand-in of the tests,
\* which accepts every call and stores nothing.
ASSUME ManagerAssumption == Managers \subseteq {"durable", "recording"}

\* sorted() orders the step ids; PlanValidator has refused cyclic plans.
Acyclic(d) ==
  \A S \in SUBSET Steps : S # {} => \E s \in S : d[s] \cap S = {}
ASSUME PlanAssumption ==
  /\ Steps \subseteq Nat /\ IsFiniteSet(Steps)
  /\ \A d \in Plans : d \in [Steps -> SUBSET Steps] /\ Acyclic(d)
ASSUME BudgetAssumption ==
  /\ MaxWorkers \in Nat \ {0} /\ MaxParallel \in Nat /\ MaxToolCalls \in Nat
  /\ Timed \in BOOLEAN

VARIABLES
  deps, manager,                                 \* given, never changed
  task,                                          \* the row
  plan,                                          \* plan.status
  pending, completed, failed, skipped, futures,  \* execute()'s sets
  todo,                                          \* what the for loop has left
  pc, at, copy, error,                           \* the thread of execute()
  worker,                                        \* one per step
  slots, calls, expired                          \* the governor

sets == <<pending, completed, failed, skipped, futures, todo>>
budget == <<slots, calls, expired>>
given == <<deps, manager>>
vars == <<given, task, plan, sets, pc, at, copy, error, worker, budget>>

\* Control points at which execute() calls the state manager.
StateCalls == {"start_task", "start_step", "deny_step", "complete_step", "fail_step",
               "fail_task", "complete_task"}
Phases == {"idle", "queued", "running", "settling", "saving", "done"}
WorkerStates ==
  [phase : Phases, tool : {"none", "passed", "failed", "raised"},
   verdict : {"none", "passed", "failed"}, copy : TaskRecords \cup {NoTask}]
NotRun == [phase |-> "idle", tool |-> "none", verdict |-> "none", copy |-> NoTask]

\* With any dependencies: AgentRun finds out whether they are a plan's.
ExecutionTypeOK ==
  /\ deps \in [Steps -> SUBSET Steps] /\ manager \in Managers
  /\ task \in TaskRecords
  /\ plan \in {"running", "completed", "failed", "cancelled"}
  /\ {pending, completed, failed, skipped, futures, todo} \subseteq SUBSET Steps
  /\ pc \in StateCalls \cup {"loop", "schedule", "wait", "settle", "finish", "raising",
                             "returned", "raised"}
  /\ at \in Steps \cup {NoStep} /\ copy \in TaskRecords \cup {NoTask}
  /\ error \in {"none", "refused", "conflict", "no_progress"}
  /\ worker \in [Steps -> WorkerStates]
  /\ slots \in 0..MaxParallel /\ calls \in 0..MaxToolCalls /\ expired \in BOOLEAN

TypeOK == deps \in Plans /\ ExecutionTypeOK

\* The caller has created the task and added a step per plan step; execute()
\* has validated the plan and marked it running.
Init ==
  /\ deps \in Plans /\ manager \in Managers
  /\ task = [NewTask EXCEPT !.step = [s \in Steps |-> PendingStep]]
  /\ plan = "running"
  /\ pending = Steps
  /\ completed = {} /\ failed = {} /\ skipped = {} /\ futures = {} /\ todo = {}
  /\ pc = "start_task" /\ at = NoStep /\ copy = NoTask /\ error = "none"
  /\ worker = [s \in Steps |-> NotRun]
  /\ slots = 0 /\ calls = 0 /\ expired = FALSE

IsCancelled == task.status = "cancelled"

-----------------------------------------------------------------------------
(***************************************************************************)
(* The state manager as execute() sees it.                                 *)
(***************************************************************************)

Allowed(op, t, s) ==
  CASE op = "start_task" -> CanStartTask(t)
    [] op = "start_step" -> CanStartStep(t, s)
    [] op \in {"deny_step", "complete_step", "fail_step"} -> CanSettleStep(t, s)
    [] op = "fail_task" -> CanFailTask(t)
    [] op = "complete_task" -> CanCompleteTask(t)

After(op, t, s) ==
  CASE op = "start_task" -> TaskStarted(t)
    [] op = "start_step" -> StepStarted(t, s)
    [] op = "complete_step" -> StepCompleted(t, s)
    [] op \in {"deny_step", "fail_step"} -> StepFailed(t, s)
    [] op = "fail_task" -> TaskFailed(t)
    [] op = "complete_task" -> TaskCompleted(t)

Goto(label) == pc' = label /\ UNCHANGED error

\* An exception leaves the with block, which first waits for the pool.
Raise(e) ==
  /\ pc' = "raising" /\ error' = e /\ copy' = NoTask
  /\ UNCHANGED <<given, plan, sets, at, worker, budget>>

\* What follows in execute() once the call has returned.
Continue ==
  /\ copy' = NoTask
  /\ \/ /\ pc = "start_step"
        /\ pending' = pending \ {at}
        /\ todo' = todo \ {at}
        /\ futures' = futures \cup {at}
        /\ worker' = [worker EXCEPT ![at].phase = "queued"]
        /\ Goto("schedule")
        /\ UNCHANGED <<plan, completed, failed, skipped>>
     \/ /\ pc = "deny_step"
        /\ pending' = pending \ {at}
        /\ todo' = todo \ {at}
        /\ Goto("schedule")
        /\ UNCHANGED <<plan, completed, failed, skipped, futures, worker>>
     \/ /\ pc \in {"start_task", "complete_step", "fail_step"}
        /\ Goto("loop")
        /\ UNCHANGED <<plan, sets, worker>>
     \/ /\ pc \in {"fail_task", "complete_task"}
        /\ Goto("returned")
        /\ UNCHANGED <<plan, sets, worker>>
  /\ UNCHANGED <<given, at, budget>>

ReadRow ==
  /\ pc \in StateCalls /\ copy = NoTask /\ manager = "durable"
  /\ UNCHANGED task
  /\ \/ /\ Allowed(pc, task, at)
        /\ copy' = task
        /\ UNCHANGED <<given, plan, sets, pc, at, error, worker, budget>>
     \/ ~Allowed(pc, task, at) /\ Raise("refused")

\* Mutant: saves without expected_version.
SaveRowBlindly ==
  /\ copy # NoTask
  /\ task' = [Touched(After(pc, copy, at)) EXCEPT !.version = task.version + 1]
  /\ Continue

SaveRow ==
  /\ copy # NoTask
  /\ \/ /\ task.version = copy.version
        /\ task' = Touched(After(pc, copy, at))
        /\ Continue
     \/ /\ task.version # copy.version
        /\ Raise("conflict")
        /\ UNCHANGED task

RecordCall ==
  /\ pc \in StateCalls /\ manager = "recording"
  /\ Continue
  /\ UNCHANGED task

-----------------------------------------------------------------------------
(***************************************************************************)
(* The scheduling loop.                                                    *)
(***************************************************************************)

\* _mark_blocked_steps: one pass in sorted order, so a step sees what the
\* pass has skipped before it but not after it.  What it skips is the least
\* set that holds every pending step with a reason.
HasReason(s, marked) ==
  \E d \in deps[s] : d \in failed \cup skipped \/ (d < s /\ d \in marked)
MarkedSets == {B \in SUBSET pending : \A s \in pending : HasReason(s, B) => s \in B}
Blocked == {s \in pending : \A B \in MarkedSets : s \in B}

\* Mutant: cancellation also reports the steps in flight as skipped.
SkipUnfinished ==
  /\ skipped' = skipped \cup pending \cup futures
  /\ pending' = {} /\ todo' = {}

SkipPending ==
  /\ skipped' = skipped \cup pending
  /\ pending' = {} /\ todo' = {}

LoopTop ==
  /\ pc = "loop"
  /\ pending # {} \/ futures # {}
  /\ \/ IsCancelled /\ SkipPending
     \/ /\ ~IsCancelled
        /\ skipped' = skipped \cup Blocked
        /\ pending' = pending \ Blocked
        /\ todo' = pending'
  /\ Goto("schedule")
  /\ UNCHANGED <<given, task, plan, completed, failed, futures, at, copy, worker, budget>>

LoopEnd ==
  /\ pc = "loop" /\ pending = {} /\ futures = {}
  /\ Goto("finish")
  /\ UNCHANGED <<given, task, plan, sets, at, copy, worker, budget>>

NextStep == CHOOSE s \in todo : \A u \in todo : s <= u

\* Mutant: a step that is not blocked is taken for ready.
ReadyUnlessBlocked(s) == deps[s] \cap (failed \cup skipped) = {}

Ready(s) == deps[s] \subseteq completed

NoSlot == slots >= MaxParallel

\* Mutant: the limit is compared with the calls made, not with one more.
ExhaustedTooLate == expired \/ (~NoSlot /\ calls > MaxToolCalls)

\* Time and tool calls do not come back, so the step is denied for good.
Exhausted == expired \/ (~NoSlot /\ calls >= MaxToolCalls)

AtStep == pc = "schedule" /\ todo # {}

StopScheduling ==
  /\ AtStep /\ IsCancelled
  /\ SkipPending
  /\ UNCHANGED <<given, task, plan, completed, failed, futures, pc, at, copy, error,
                 worker, budget>>

\* Mutant: a step without a free slot is tried again at once.
SpinOnSlot ==
  /\ AtStep /\ ~IsCancelled
  /\ ~Ready(NextStep) \/ (~expired /\ NoSlot)
  /\ todo' = IF Ready(NextStep) THEN todo ELSE todo \ {NextStep}
  /\ UNCHANGED <<given, task, plan, pending, completed, failed, skipped, futures, pc, at,
                 copy, error, worker, budget>>

PassOver ==
  /\ AtStep /\ ~IsCancelled
  /\ ~Ready(NextStep) \/ (~expired /\ NoSlot)
  /\ todo' = todo \ {NextStep}
  /\ UNCHANGED <<given, task, plan, pending, completed, failed, skipped, futures, pc, at,
                 copy, error, worker, budget>>

Deny ==
  /\ AtStep /\ ~IsCancelled
  /\ Ready(NextStep) /\ Exhausted
  /\ at' = NextStep
  /\ failed' = failed \cup {NextStep}
  /\ Goto("deny_step")
  /\ UNCHANGED <<given, task, plan, pending, completed, skipped, futures, todo, copy, worker,
                 budget>>

Reserve ==
  /\ AtStep /\ ~IsCancelled
  /\ Ready(NextStep) /\ ~NoSlot /\ ~Exhausted
  /\ at' = NextStep
  /\ slots' = slots + 1 /\ calls' = calls + 1
  /\ Goto("start_step")
  /\ UNCHANGED <<given, task, plan, sets, copy, worker, expired>>

Scheduled ==
  /\ pc = "schedule" /\ todo = {}
  /\ UNCHANGED task
  /\ \/ /\ futures # {}
        /\ Goto("wait")
        /\ UNCHANGED <<given, plan, sets, at, copy, worker, budget>>
     \/ /\ futures = {} /\ pending = {}
        /\ Goto("finish")
        /\ UNCHANGED <<given, plan, sets, at, copy, worker, budget>>
     \/ futures = {} /\ pending # {} /\ Raise("no_progress")

-----------------------------------------------------------------------------
(***************************************************************************)
(* A finished future, and the end.                                         *)
(***************************************************************************)

\* Mutant: the slot of a step is given back twice.
ReleasedTwice == IF slots < 2 THEN 0 ELSE slots - 2

Released == IF slots = 0 THEN 0 ELSE slots - 1

\* A future that is done leaves the dict; its slot is released, and past the
\* time limit its result is replaced by a failure.
Await(s) ==
  /\ pc = "wait" /\ s \in futures /\ worker[s].phase = "done"
  /\ futures' = futures \ {s}
  /\ at' = s
  /\ slots' = Released
  /\ failed' = IF expired THEN failed \cup {s} ELSE failed
  /\ Goto("settle")
  /\ UNCHANGED <<given, task, plan, pending, completed, skipped, todo, copy, worker, calls,
                 expired>>

\* Mutant: a result that came after the time limit is taken as it is.
PassedInTime == worker[at].verdict = "passed"

\* result.verification.passed, for the future at hand.
Passed == worker[at].verdict = "passed" /\ at \notin failed

\* Mutant: a result that comes after a cancellation is dropped.
SettleUnlessCancelled ==
  /\ pc = "settle"
  /\ \/ IsCancelled /\ UNCHANGED <<completed, failed>>
     \/ ~IsCancelled /\ Passed  /\ completed' = completed \cup {at} /\ UNCHANGED failed
     \/ ~IsCancelled /\ ~Passed /\ failed' = failed \cup {at} /\ UNCHANGED completed
  /\ Goto(IF IsCancelled THEN "loop" ELSE IF Passed THEN "complete_step" ELSE "fail_step")
  /\ UNCHANGED <<given, task, plan, pending, skipped, futures, todo, at, copy, worker, budget>>

Settle ==
  /\ pc = "settle"
  /\ \/ Passed  /\ completed' = completed \cup {at} /\ UNCHANGED failed
     \/ ~Passed /\ failed' = failed \cup {at} /\ UNCHANGED completed
  /\ Goto(IF IsCancelled THEN "loop" ELSE IF Passed THEN "complete_step" ELSE "fail_step")
  /\ UNCHANGED <<given, task, plan, pending, skipped, futures, todo, at, copy, worker, budget>>

\* Mutant: the failure is reported, the row is not told.
FinishWithoutFailTask ==
  /\ pc = "finish"
  /\ \/ /\ IsCancelled
        /\ plan' = "cancelled" /\ Goto("returned")
     \/ /\ ~IsCancelled /\ failed # {}
        /\ plan' = "failed" /\ Goto("returned")
     \/ /\ ~IsCancelled /\ failed = {}
        /\ plan' = "completed" /\ Goto("complete_task")
  /\ UNCHANGED <<given, task, sets, at, copy, worker, budget>>

Finish ==
  /\ pc = "finish"
  /\ \/ /\ IsCancelled
        /\ plan' = "cancelled" /\ Goto("returned")
     \/ /\ ~IsCancelled /\ failed # {}
        /\ plan' = "failed" /\ Goto("fail_task")
     \/ /\ ~IsCancelled /\ failed = {}
        /\ plan' = "completed" /\ Goto("complete_task")
  /\ UNCHANGED <<given, task, sets, at, copy, worker, budget>>

PropagateError ==
  /\ pc = "raising"
  /\ \A s \in Steps : worker[s].phase \in {"idle", "done"}
  /\ Goto("raised")
  /\ UNCHANGED <<given, task, plan, sets, at, copy, worker, budget>>

-----------------------------------------------------------------------------
(***************************************************************************)
(* The workers, and the world outside.                                     *)
(***************************************************************************)

Busy == {s \in Steps : worker[s].phase \in {"running", "settling", "saving"}}

SetWorker(s, w) ==
  /\ worker' = [worker EXCEPT ![s] = w]
  /\ UNCHANGED <<given, plan, sets, pc, at, copy, error, budget>>

Dequeue(s) ==
  /\ worker[s].phase = "queued" /\ Cardinality(Busy) < MaxWorkers
  /\ SetWorker(s, [worker[s] EXCEPT !.phase = "running"])
  /\ UNCHANGED task

\* broker.execute returns, and the output passes verification or does not.
RunTool(s) ==
  /\ worker[s].phase = "running"
  /\ \E v \in {"passed", "failed"} :
       SetWorker(s, [worker[s] EXCEPT !.phase = "settling", !.tool = v])
  /\ UNCHANGED task

\* The future ends in an exception: execute() makes it a failed result.
FutureRaises(s, tool) ==
  SetWorker(s, [phase |-> "done", tool |-> tool, verdict |-> "failed", copy |-> NoTask])

FutureReturns(s) ==
  SetWorker(s, [phase |-> "done", tool |-> worker[s].tool, verdict |-> worker[s].tool,
                copy |-> NoTask])

ToolRaises(s) ==
  /\ worker[s].phase = "running"
  /\ FutureRaises(s, "raised")
  /\ UNCHANGED task

\* execute_and_verify(manage_state=False) settles the step nevertheless.
WorkerReads(s) ==
  /\ worker[s].phase = "settling" /\ manager = "durable"
  /\ \/ /\ CanSettleStep(task, s)
        /\ SetWorker(s, [worker[s] EXCEPT !.phase = "saving", !.copy = task])
     \/ ~CanSettleStep(task, s) /\ FutureRaises(s, worker[s].tool)
  /\ UNCHANGED task

WorkerSaves(s) ==
  /\ worker[s].phase = "saving"
  /\ \/ /\ task.version = worker[s].copy.version
        /\ task' = Touched(IF worker[s].tool = "passed" THEN StepCompleted(worker[s].copy, s)
                                                        ELSE StepFailed(worker[s].copy, s))
        /\ FutureReturns(s)
     \/ /\ task.version # worker[s].copy.version
        /\ FutureRaises(s, worker[s].tool)
        /\ UNCHANGED task

WorkerRecords(s) ==
  /\ worker[s].phase = "settling" /\ manager = "recording"
  /\ FutureReturns(s)
  /\ UNCHANGED task

\* Another client cancels the task.
Cancel ==
  /\ CanCancelTask(task)
  /\ task' = Touched(TaskCancelled(task))
  /\ UNCHANGED <<given, plan, sets, pc, at, copy, error, worker, budget>>

TimeExpires ==
  /\ Timed /\ ~expired
  /\ expired' = TRUE
  /\ UNCHANGED <<given, task, plan, sets, pc, at, copy, error, worker, slots, calls>>

Executor ==
  \/ ReadRow \/ SaveRow \/ RecordCall
  \/ LoopTop \/ LoopEnd \/ StopScheduling \/ PassOver \/ Deny \/ Reserve \/ Scheduled
  \/ (\E s \in Steps : Await(s)) \/ Settle \/ Finish \/ PropagateError

Worker(s) ==
  \/ Dequeue(s) \/ RunTool(s) \/ ToolRaises(s)
  \/ WorkerReads(s) \/ WorkerSaves(s) \/ WorkerRecords(s)

Next ==
  \/ Executor
  \/ \E s \in Steps : Worker(s)
  \/ Cancel
  \/ TimeExpires

Spec == Init /\ [][Next]_vars

-----------------------------------------------------------------------------
(***************************************************************************)
(* Properties.                                                             *)
(***************************************************************************)

Returned == pc = "returned"
InFlight == {s \in Steps : worker[s].phase \in Phases \ {"idle", "done"}}

\* No step runs before every step it depends on has ended with an output that
\* passed verification, whatever the pool, the budget and cancellation do.
DependenciesFirst ==
  \A s \in Steps : worker[s].phase # "idle" =>
    \A d \in deps[s] : worker[d].phase = "done" /\ worker[d].verdict = "passed"

\* The steps in flight never exceed the slots the governor has given out, nor
\* the steps ever started the tool calls it has counted: every step executed
\* was reserved for, also across denials, releases and errors.
WithinBudget ==
  /\ Cardinality(InFlight) <= slots
  /\ Cardinality({s \in Steps : worker[s].phase # "idle"}) <= calls

\* When execute() returns, each step is reported exactly once, no worker is
\* left behind, all slots are free, and "completed" means that every step's
\* tool ran and passed.
ReportIsComplete ==
  Returned =>
    /\ Steps = completed \cup failed \cup skipped
    /\ completed \cap failed = {} /\ skipped \cap (completed \cup failed) = {}
    /\ InFlight = {} /\ slots = 0
    /\ plan = "completed" => \A s \in Steps : worker[s].tool = "passed"

\* A step is reported as skipped only if its tool was never called, and then
\* for a reason: a dependency failed or was skipped, or the task is cancelled.
SkippedForAReason ==
  \A s \in skipped :
    /\ worker[s].phase = "idle"
    /\ IsCancelled \/ deps[s] \cap (failed \cup skipped) # {}

\* The status execute() returns is the durable one: the row says the same, or
\* was cancelled after a failure; and unless the task was cancelled under it
\* no step of the row is left running.
ReportMatchesRow ==
  Returned /\ manager = "durable" =>
    /\ \/ task.status = plan
       \/ plan = "failed" /\ IsCancelled
    /\ ~IsCancelled => \A s \in Steps : task.step[s].status # "running"

\* Once the cancellation is in the row no further step is started: a
\* start_step that has read the row before is refused by the store.
CancelStopsScheduling ==
  [][manager = "durable" /\ IsCancelled => futures' \subseteq futures]_vars

\* Executor, workers and the client that cancels overwrite nothing of one
\* another: every change of the row is one operation on the row as it is.
RowIsOperatedOn ==
  [][task' = task \/ OneOperation(task, task')]_vars

\* What becomes of a step, and of the plan, for the caller of execute().
Standing(s) ==
  IF s \in completed THEN "passed"
  ELSE IF s \in failed THEN "failed"
  ELSE IF s \in skipped THEN "skipped"
  ELSE IF s \in pending THEN "waiting" ELSE "working"
Result == IF Returned THEN plan ELSE IF pc = "raised" THEN "raised" ELSE "none"

Promise == INSTANCE PlanPromise WITH
  durable <- manager = "durable", standing <- [s \in Steps |-> Standing(s)],
  called <- {s \in Steps : worker[s].tool # "none"},
  cancelled <- IsCancelled, outcome <- Result

\* execute() with its pool, its budget and its row keeps the promise: a step
\* ends once and as its one call ended, whatever comes in between, and what
\* is returned is what became of the steps.
KeepsPromise == Promise!Spec

\* The tests of the executor: a plan all of whose tools succeed is executed
\* without an exception (violated with the durable manager, where worker and
\* executor both settle the step).
SuccessfulToolsReturn ==
  error # "none" =>
    IsCancelled \/ expired \/ \E s \in Steps : worker[s].tool \in {"failed", "raised"}

\* The message of the RuntimeError: no progress means that the dependency
\* state is inconsistent, which it never is for a validated plan (violated by
\* a chain of dependents whose ids sort against the order of the chain).
NoProgressNever == error # "no_progress"
=============================================================================
