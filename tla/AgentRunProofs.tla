---------------------------- MODULE AgentRunProofs ----------------------------
(***************************************************************************)
(* Theorems about PlanExecution and about AgentRun, which composes it with *)
(* the planner: for every finite set of steps, every plan over them, any   *)
(* number of workers, slots and calls; about the search for cycles, which  *)
(* decides what is executed; and about what the caller is promised.        *)
(***************************************************************************)
EXTENDS AgentRun, TaskRecordProofs, FiniteInduction

(***************************************************************************)
(* sorted() has a first element.                                           *)
(***************************************************************************)
LEMMA NextStepInTodo ==
  ASSUME todo \subseteq Steps, todo # {}
  PROVE  NextStep \in todo
<1>1. todo \subseteq Nat
  BY PlanAssumption
<1>2. PICK s \in todo : \A u \in todo : ~ (<<u, s>> \in OpToRel(<, Nat))
  BY <1>1, NatLessThanWellFounded, WFMin
<1>3. \A u \in todo : ~ (u < s)
  BY <1>1, <1>2, Zenon DEF OpToRel
<1>4. \A u \in todo : s <= u
  BY <1>1, <1>3
<1> QED
  BY <1>4 DEF NextStep

(***************************************************************************)
(* Types.  A state call is made for a step; a worker that settles has run  *)
(* its tool, and one that saves has read the row.                          *)
(***************************************************************************)
StepPoints == {"start_step", "deny_step", "complete_step", "fail_step", "settle"}

Typed ==
  /\ ExecutionTypeOK
  /\ pc \in StepPoints => at \in Steps
  /\ copy # NoTask => pc \in StateCalls /\ Allowed(pc, copy, at)
  /\ \A s \in Steps : worker[s].phase \in {"settling", "saving"} =>
                        worker[s].tool \in {"passed", "failed"}
  /\ \A s \in Steps : worker[s].phase = "saving" => worker[s].copy # NoTask

LEMMA AfterTyped ==
  ASSUME NEW t \in TaskRecords, NEW op \in StateCalls, NEW s, op \in StepPoints => s \in Steps,
         Allowed(op, t, s)
  PROVE  /\ OneOperation(t, Touched(After(op, t, s)))
         /\ Touched(After(op, t, s)) \in TaskRecords
         /\ Touched(After(op, t, s)).version = t.version + 1
<1>1. OneOperation(t, Touched(After(op, t, s)))
  BY DEF OneOperation, StepOperation, TaskOperation, After, Allowed, StateCalls, StepPoints
<1> QED
  BY <1>1, OperationTyped

LEMMA InitTyped == Init => Typed
<1> SUFFICES ASSUME Init PROVE Typed
  OBVIOUS
<1>1. task \in TaskRecords
  BY NewTaskSound DEF Init, TaskRecords, PendingStep, StepRecords, StepStatuses
<1>2. worker \in [Steps -> WorkerStates]
  BY DEF Init, NotRun, WorkerStates, Phases
<1>3. {pending, completed, failed, skipped, futures, todo} \subseteq SUBSET Steps
  BY DEF Init
<1>4. deps \in [Steps -> SUBSET Steps]
  BY PlanAssumption DEF Init
<1> QED
  <2>1. slots \in 0..MaxParallel /\ calls \in 0..MaxToolCalls
    BY BudgetAssumption DEF Init
  <2>4. expired \in BOOLEAN /\ manager \in Managers
    BY DEF Init
  <2>2. pc \in StateCalls /\ at = NoStep /\ copy = NoTask /\ error = "none" /\ plan = "running"
    BY DEF Init, StateCalls
  <2>3. ExecutionTypeOK
    BY <1>1, <1>2, <1>3, <1>4, <2>1, <2>2, <2>4 DEF ExecutionTypeOK
  <2> QED
    BY <2>3 DEF Init, Typed, NotRun, StateCalls, StepPoints

LEMMA ContinueTyped ==
  ASSUME Typed, Continue, task' \in TaskRecords
  PROVE  Typed'
<1> USE DEF Typed, Continue, Goto, given, budget, sets, StateCalls, StepPoints
<1>1. CASE pc = "start_step"
  <2>1. at \in Steps /\ worker[at] \in WorkerStates
    BY <1>1 DEF ExecutionTypeOK
  <2>2. [worker[at] EXCEPT !.phase = "queued"] \in WorkerStates
    BY <2>1 DEF WorkerStates, Phases
  <2>3. worker' = [worker EXCEPT ![at] = [worker[at] EXCEPT !.phase = "queued"]]
    BY <1>1
  <2>4. worker' \in [Steps -> WorkerStates]
    BY <2>2, <2>3 DEF ExecutionTypeOK
  <2>5. \A s \in Steps : worker'[s].phase \in {"settling", "saving"} => worker'[s] = worker[s]
    BY <2>1, <2>3 DEF ExecutionTypeOK, WorkerStates
  <2>6. ExecutionTypeOK'
    BY <1>1, <2>1, <2>4 DEF ExecutionTypeOK
  <2> QED
    BY <1>1, <2>5, <2>6
<1> USE DEF ExecutionTypeOK
<1>2. CASE pc = "deny_step"
  BY <1>2
<1>3. CASE pc \in {"start_task", "complete_step", "fail_step"}
  BY <1>3
<1>4. CASE pc \in {"fail_task", "complete_task"}
  BY <1>4
<1> QED
  BY <1>1, <1>2, <1>3, <1>4

\* A step of a worker concerns its own record and the row.
LEMMA SetWorkerTyped ==
  ASSUME Typed, NEW s \in Steps, NEW w \in WorkerStates, SetWorker(s, w),
         task' \in TaskRecords,
         w.phase \in {"settling", "saving"} => w.tool \in {"passed", "failed"},
         w.phase = "saving" => w.copy # NoTask
  PROVE  Typed'
<1> USE DEF SetWorker, given, budget, sets
<1>1. worker' \in [Steps -> WorkerStates]
  BY DEF Typed, ExecutionTypeOK
<1>2. \A u \in Steps : worker'[u] = IF u = s THEN w ELSE worker[u]
  BY DEF Typed, ExecutionTypeOK
<1>3. ExecutionTypeOK'
  BY <1>1 DEF Typed, ExecutionTypeOK
<1> QED
  BY <1>2, <1>3 DEF Typed

LEMMA WorkerTyped ==
  ASSUME Typed, NEW s \in Steps, Worker(s)
  PROVE  Typed'
<1> USE DEF WorkerStates, Phases
<1>1. task \in TaskRecords /\ worker[s] \in WorkerStates
  BY DEF Typed, ExecutionTypeOK
<1>2. CASE Dequeue(s)
  BY <1>1, <1>2, SetWorkerTyped DEF Dequeue
<1>3. CASE RunTool(s)
  BY <1>1, <1>3, SetWorkerTyped DEF RunTool
<1>4. CASE ToolRaises(s)
  BY <1>1, <1>4, SetWorkerTyped DEF ToolRaises, FutureRaises
<1>5. CASE WorkerReads(s)
  BY <1>1, <1>5, SetWorkerTyped, NullAssumption DEF WorkerReads, FutureRaises, Typed
<1>6. CASE WorkerSaves(s)
  <2> DEFINE u == Touched(IF worker[s].tool = "passed" THEN StepCompleted(worker[s].copy, s)
                                                     ELSE StepFailed(worker[s].copy, s))
  <2>1. worker[s].copy \in TaskRecords /\ worker[s].tool \in {"passed", "failed"}
    BY <1>1, <1>6 DEF WorkerSaves, Typed
  <2>2. u \in TaskRecords
    BY <2>1, StepResults, WithStepTyped, TouchedTyped
    DEF StepCompleted, StepFailed, Settled, StepStatuses
  <2> HIDE DEF u
  <2>3. task' \in TaskRecords
    BY <1>1, <1>6, <2>2 DEF WorkerSaves, u
  <2> QED
    BY <1>1, <1>6, <2>1, <2>3, SetWorkerTyped DEF WorkerSaves, FutureReturns, FutureRaises
<1>7. CASE WorkerRecords(s)
  BY <1>1, <1>7, SetWorkerTyped DEF WorkerRecords, FutureReturns, Typed
<1> QED
  BY <1>2, <1>3, <1>4, <1>5, <1>6, <1>7 DEF Worker

LEMMA SaveRowTyped ==
  ASSUME Typed, SaveRow
  PROVE  Typed'
<1>1. copy \in TaskRecords /\ pc \in StateCalls /\ Allowed(pc, copy, at)
  BY DEF SaveRow, Typed, ExecutionTypeOK
<1>2. CASE task.version = copy.version /\ task' = Touched(After(pc, copy, at)) /\ Continue
  <2>1. OneOperation(copy, task') /\ task' \in TaskRecords
    BY <1>1, <1>2, AfterTyped DEF Typed
  <2> QED
    BY <1>1, <1>2, <2>1, ContinueTyped
<1>3. CASE Raise("conflict") /\ UNCHANGED task
  BY <1>3 DEF Raise, Typed, ExecutionTypeOK, StateCalls, StepPoints, given, sets, budget
<1> QED
  BY <1>2, <1>3 DEF SaveRow

LEMMA ExecutorTyped ==
  ASSUME Typed, Executor
  PROVE  Typed'
<1> USE DEF Typed, ExecutionTypeOK, Goto, Raise, given, budget, sets, StateCalls, StepPoints
<1>1. CASE ReadRow
  BY <1>1 DEF ReadRow
<1>2. CASE SaveRow
  BY <1>2, SaveRowTyped
<1>3. CASE RecordCall
  BY <1>3, ContinueTyped DEF RecordCall
<1>4. CASE LoopTop
  BY <1>4 DEF LoopTop, SkipPending, Blocked
<1>5. CASE LoopEnd
  BY <1>5 DEF LoopEnd
<1>6. CASE StopScheduling
  BY <1>6 DEF StopScheduling, AtStep, SkipPending
<1>7. CASE PassOver
  BY <1>7 DEF PassOver, AtStep
<1>8. CASE Deny
  BY <1>8, NextStepInTodo DEF Deny, AtStep
<1>9. CASE Reserve
  BY <1>9, NextStepInTodo, BudgetAssumption DEF Reserve, AtStep, NoSlot, Exhausted
<1>10. CASE Scheduled
  BY <1>10 DEF Scheduled
<1>11. ASSUME NEW s \in Steps, Await(s) PROVE Typed'
  BY <1>11, BudgetAssumption DEF Await, Released
<1>12. CASE Settle
  BY <1>12 DEF Settle
<1>13. CASE Finish
  BY <1>13 DEF Finish
<1>14. CASE PropagateError
  BY <1>14 DEF PropagateError
<1> QED
  BY <1>1, <1>2, <1>3, <1>4, <1>5, <1>6, <1>7, <1>8, <1>9, <1>10, <1>11, <1>12, <1>13, <1>14
  DEF Executor

LEMMA TypedStep == Typed /\ [Next]_vars => Typed'
<1> SUFFICES ASSUME Typed, [Next]_vars PROVE Typed'
  OBVIOUS
<1> USE DEF Typed, ExecutionTypeOK, given, budget, sets
<1>1. CASE Executor
  BY <1>1, ExecutorTyped
<1>2. ASSUME NEW s \in Steps, Worker(s) PROVE Typed'
  BY <1>2, WorkerTyped
<1>3. CASE Cancel
  <2>1. task' \in TaskRecords
    BY <1>3, OperationTyped DEF Cancel, OneOperation, TaskOperation
  <2> QED
    BY <1>3, <2>1 DEF Cancel
<1>4. CASE TimeExpires
  BY <1>4 DEF TimeExpires
<1>5. CASE UNCHANGED vars
  BY <1>5 DEF vars
<1> QED
  BY <1>1, <1>2, <1>3, <1>4, <1>5 DEF Next

(***************************************************************************)
(* Where the steps of the plan are: each is in one of execute()'s sets, or *)
(* being settled.  A step whose denial the state manager refused remains   *)
(* pending and failed; execute() raises then.                              *)
(***************************************************************************)
Ending == {"finish", "fail_task", "complete_task", "returned"}

Places ==
  /\ todo \subseteq pending
  /\ pending \cap (futures \cup completed \cup skipped) = {}
  /\ futures \cap (completed \cup skipped) = {}
  /\ completed \cap skipped = {}
  /\ failed \cap (futures \cup completed \cup skipped) = {}
  /\ pc \notin {"deny_step", "raising", "raised"} => failed \cap pending = {}
  /\ pc = "deny_step" => at \in todo /\ failed \cap pending = {at}
  /\ pc = "start_step" => at \in todo
  /\ pc = "settle" => at \notin pending \cup futures \cup completed \cup skipped
  /\ pc \in Ending => pending = {} /\ futures = {}
  /\ \A s \in Steps :
       \/ s \in pending \cup futures \cup completed \cup failed \cup skipped
       \/ pc = "settle" /\ s = at

LEMMA InitPlaces == Init => Places
<1> SUFFICES ASSUME Init PROVE Places
  OBVIOUS
<1>1. /\ pending = Steps /\ completed = {} /\ failed = {} /\ skipped = {} /\ futures = {}
      /\ todo = {} /\ pc = "start_task"
  BY DEF Init
<1> QED
  BY <1>1 DEF Places, Ending

LEMMA ContinuePlaces ==
  ASSUME Typed, Places, Continue
  PROVE  Places'
<1> USE DEF Places, Continue, Goto, given, budget, sets, Ending
<1>1. CASE pc = "start_step"
  BY <1>1
<1>2. CASE pc = "deny_step"
  BY <1>2
<1>3. CASE pc \in {"start_task", "complete_step", "fail_step"}
  BY <1>3
<1>4. CASE pc \in {"fail_task", "complete_task"}
  BY <1>4
<1> QED
  BY <1>1, <1>2, <1>3, <1>4

LEMMA ExecutorPlaces ==
  ASSUME Typed, Places, Executor
  PROVE  Places'
<1> USE DEF Typed, ExecutionTypeOK, Places, Goto, Raise, given, budget, sets, StateCalls,
            StepPoints, Ending
<1>1. CASE ReadRow
  BY <1>1 DEF ReadRow
<1>2. CASE SaveRow
  BY <1>2, ContinuePlaces DEF SaveRow
<1>3. CASE RecordCall
  BY <1>3, ContinuePlaces DEF RecordCall
<1>4. CASE LoopTop
  BY <1>4 DEF LoopTop, SkipPending, Blocked
<1>5. CASE LoopEnd
  BY <1>5 DEF LoopEnd
<1>6. CASE StopScheduling
  BY <1>6 DEF StopScheduling, AtStep, SkipPending
<1>7. CASE PassOver
  BY <1>7 DEF PassOver, AtStep
<1>8. CASE Deny
  BY <1>8, NextStepInTodo DEF Deny, AtStep
<1>9. CASE Reserve
  BY <1>9, NextStepInTodo DEF Reserve, AtStep
<1>10. CASE Scheduled
  BY <1>10 DEF Scheduled
<1>11. ASSUME NEW s \in Steps, Await(s) PROVE Places'
  BY <1>11 DEF Await
<1>12. CASE Settle
  BY <1>12 DEF Settle, Passed
<1>13. CASE Finish
  BY <1>13 DEF Finish
<1>14. CASE PropagateError
  BY <1>14 DEF PropagateError
<1> QED
  BY <1>1, <1>2, <1>3, <1>4, <1>5, <1>6, <1>7, <1>8, <1>9, <1>10, <1>11, <1>12, <1>13, <1>14
  DEF Executor

LEMMA WorkerLeavesPlaces ==
  ASSUME NEW s \in Steps, Worker(s)
  PROVE  UNCHANGED <<given, plan, sets, pc, at, copy, error, budget>>
BY DEF Worker, Dequeue, RunTool, ToolRaises, WorkerReads, WorkerSaves, WorkerRecords,
       FutureRaises, FutureReturns, SetWorker

LEMMA PlacesStep == Typed /\ Places /\ [Next]_vars => Places'
<1> SUFFICES ASSUME Typed, Places, [Next]_vars PROVE Places'
  OBVIOUS
<1>1. CASE Executor
  BY <1>1, ExecutorPlaces
<1>2. CASE (\E s \in Steps : Worker(s)) \/ Cancel \/ TimeExpires \/ UNCHANGED vars
  <2>1. UNCHANGED <<sets, pc, at>>
    BY <1>2, WorkerLeavesPlaces DEF Cancel, TimeExpires, vars
  <2> QED
    BY <2>1 DEF Places, sets
<1> QED
  BY <1>1, <1>2 DEF Next

(***************************************************************************)
(* The workers.  A step that waits, or was skipped, has none at work; one  *)
(* that is completed passed; what it was started for has completed.        *)
(***************************************************************************)
StepPassed(s) ==
  worker[s].phase = "done" /\ worker[s].verdict = "passed" /\ worker[s].tool = "passed"

Runs ==
  /\ \A s \in pending \cup skipped : worker[s].phase = "idle"
  /\ InFlight \subseteq futures
  /\ \A s \in Steps : worker[s].verdict = "passed" => StepPassed(s)
  /\ \A s \in completed : StepPassed(s)
  /\ pc = "settle" => worker[at].phase = "done"
  /\ pc = "start_step" => deps[at] \subseteq completed
  /\ DependenciesFirst

LEMMA InitRuns == Init => Runs
<1> SUFFICES ASSUME Init PROVE Runs
  OBVIOUS
<1>1. \A s \in Steps : worker[s].phase = "idle" /\ worker[s].verdict = "none"
  BY DEF Init, NotRun
<1>2. pending = Steps /\ skipped = {} /\ completed = {} /\ pc = "start_task"
  BY DEF Init
<1> QED
  BY <1>1, <1>2 DEF Runs, InFlight, DependenciesFirst, Phases

\* The first step of a worker is a start: from then on it is at work or done.
LEMMA ContinueRuns ==
  ASSUME Typed, Places, Runs, Continue
  PROVE  Runs'
<1>1. CASE pc = "start_step"
  <2>1. /\ at \in Steps /\ at \in pending /\ at \notin completed
        /\ worker[at].phase = "idle" /\ worker[at].verdict # "passed"
    BY <1>1 DEF Typed, Places, Runs, StepPoints, StepPassed
  <2>2. /\ \A s \in Steps \ {at} : worker'[s] = worker[s]
        /\ worker'[at].phase = "queued" /\ worker'[at].verdict = worker[at].verdict
    BY <1>1, <2>1 DEF Continue, Typed, ExecutionTypeOK, WorkerStates
  <2>3. /\ pending' = pending \ {at} /\ skipped' = skipped /\ completed' = completed
        /\ futures' = futures \cup {at} /\ pc' = "schedule" /\ deps' = deps
    BY <1>1 DEF Continue, Goto, given
  <2>4. pending \cup skipped \cup completed \subseteq Steps /\ at \notin skipped
    BY <2>1 DEF Typed, ExecutionTypeOK, Places
  <2>5. deps[at] \subseteq completed /\ \A s \in Steps : deps[s] \subseteq Steps
    BY <1>1, <2>1 DEF Runs, Typed, ExecutionTypeOK
  <2>6. \A s \in completed : StepPassed(s)'
    BY <2>1, <2>2, <2>4 DEF Runs, StepPassed
  <2>7. DependenciesFirst'
    BY <2>1, <2>2, <2>3, <2>4, <2>5, <2>6 DEF Runs, DependenciesFirst, StepPassed
  <2>8. InFlight' \subseteq futures'
    BY <2>2, <2>3 DEF Runs, InFlight, Phases
  <2>9. \A s \in Steps : worker'[s].verdict = "passed" => StepPassed(s)'
    BY <2>1, <2>2 DEF Runs, StepPassed
  <2> QED
    BY <2>2, <2>3, <2>4, <2>6, <2>7, <2>8, <2>9 DEF Runs
<1>2. CASE pc # "start_step"
  BY <1>2 DEF Continue, Goto, given, sets, Places, Runs, InFlight, DependenciesFirst, StepPassed
<1> QED
  BY <1>1, <1>2

LEMMA ExecutorRuns ==
  ASSUME Typed, Places, Runs, Executor
  PROVE  Runs'
<1> USE DEF Typed, ExecutionTypeOK, Places, Runs, InFlight, DependenciesFirst, StepPassed, Goto,
            Raise, given, budget, sets, StateCalls
<1>1. CASE ReadRow
  BY <1>1 DEF ReadRow
<1>2. CASE SaveRow
  BY <1>2, ContinueRuns DEF SaveRow
<1>3. CASE RecordCall
  BY <1>3, ContinueRuns DEF RecordCall
<1>4. CASE LoopTop
  BY <1>4 DEF LoopTop, SkipPending, Blocked
<1>5. CASE LoopEnd
  BY <1>5 DEF LoopEnd
<1>6. CASE StopScheduling
  BY <1>6 DEF StopScheduling, AtStep, SkipPending
<1>7. CASE PassOver
  BY <1>7 DEF PassOver, AtStep
<1>8. CASE Deny
  BY <1>8 DEF Deny, AtStep
<1>9. CASE Reserve
  BY <1>9 DEF Reserve, AtStep, Ready
<1>10. CASE Scheduled
  BY <1>10 DEF Scheduled
<1>11. ASSUME NEW s \in Steps, Await(s) PROVE Runs'
  BY <1>11 DEF Await
<1>12. CASE Settle
  BY <1>12 DEF Settle, Passed, StepPoints
<1>13. CASE Finish
  BY <1>13 DEF Finish
<1>14. CASE PropagateError
  BY <1>14 DEF PropagateError
<1> QED
  BY <1>1, <1>2, <1>3, <1>4, <1>5, <1>6, <1>7, <1>8, <1>9, <1>10, <1>11, <1>12, <1>13, <1>14
  DEF Executor

\* What a step of a worker does to its own record, and that it leaves the others.
LEMMA WorkerAdvances ==
  ASSUME Typed, Runs, NEW s \in Steps, Worker(s)
  PROVE  /\ worker[s].phase \notin {"idle", "done"} /\ worker'[s].phase # "idle"
         /\ worker'[s].verdict = "passed" => StepPassed(s)'
         /\ \A u \in Steps \ {s} : worker'[u] = worker[u]
<1> DEFINE Advanced(w) ==
             /\ SetWorker(s, w) /\ w \in WorkerStates /\ w.phase # "idle"
             /\ w.verdict = "passed" => w.phase = "done" /\ w.tool = "passed"
           Witness == worker[s].phase \notin {"idle", "done"} /\ \E w : Advanced(w)
<1>1. worker[s] \in WorkerStates /\ task \in TaskRecords
  BY DEF Typed, ExecutionTypeOK
<1>2. worker[s].verdict = "passed" => worker[s].phase = "done"
  BY DEF Runs, StepPassed
<1> USE DEF WorkerStates, Phases
<1>3. ASSUME Dequeue(s) PROVE Witness
  <2>1. Advanced([worker[s] EXCEPT !.phase = "running"])
    BY <1>1, <1>2, <1>3 DEF Dequeue
  <2> QED
    BY <1>3, <2>1 DEF Dequeue
<1>4. ASSUME RunTool(s) PROVE Witness
  <2>1. PICK v \in {"passed", "failed"} :
          SetWorker(s, [worker[s] EXCEPT !.phase = "settling", !.tool = v])
    BY <1>4 DEF RunTool
  <2>2. Advanced([worker[s] EXCEPT !.phase = "settling", !.tool = v])
    BY <1>1, <1>2, <1>4, <2>1 DEF RunTool
  <2> QED
    BY <1>4, <2>2 DEF RunTool
<1>5. ASSUME NEW tool \in {"passed", "failed", "raised"}, FutureRaises(s, tool),
             worker[s].phase \notin {"idle", "done"}
      PROVE  Witness
  <2>1. Advanced([phase |-> "done", tool |-> tool, verdict |-> "failed", copy |-> NoTask])
    BY <1>5 DEF FutureRaises
  <2> QED
    BY <1>5, <2>1
<1>6. ASSUME FutureReturns(s), worker[s].phase \in {"settling", "saving"}
      PROVE  Witness
  <2>1. worker[s].tool \in {"passed", "failed"}
    BY <1>6 DEF Typed
  <2>2. Advanced([phase |-> "done", tool |-> worker[s].tool, verdict |-> worker[s].tool,
                  copy |-> NoTask])
    BY <1>6, <2>1 DEF FutureReturns
  <2> QED
    BY <1>6, <2>2
<1>7. ASSUME WorkerReads(s), CanSettleStep(task, s)
      PROVE  Witness
  <2>1. Advanced([worker[s] EXCEPT !.phase = "saving", !.copy = task])
    BY <1>1, <1>2, <1>7 DEF WorkerReads
  <2> QED
    BY <1>7, <2>1 DEF WorkerReads
<1>8. worker[s].phase \in {"settling", "saving"} => worker[s].tool \in {"passed", "failed"}
  BY DEF Typed
<1>9. Witness
  <2> HIDE DEF Witness
  <2>1. ASSUME ToolRaises(s) PROVE Witness
    BY <1>5, <2>1 DEF ToolRaises
  <2>2. ASSUME WorkerReads(s) PROVE Witness
    BY <1>5, <1>7, <1>8, <2>2 DEF WorkerReads
  <2>3. ASSUME WorkerSaves(s) \/ WorkerRecords(s) PROVE Witness
    BY <1>5, <1>6, <1>8, <2>3 DEF WorkerSaves, WorkerRecords
  <2> QED
    BY <1>3, <1>4, <2>1, <2>2, <2>3 DEF Worker
<1> QED
  BY <1>9 DEF SetWorker, StepPassed, Typed, ExecutionTypeOK

LEMMA WorkerRuns ==
  ASSUME Typed, Places, Runs, NEW s \in Steps, Worker(s)
  PROVE  Runs'
<1>1. /\ worker[s].phase \notin {"idle", "done"} /\ worker'[s].phase # "idle"
      /\ worker'[s].verdict = "passed" => StepPassed(s)'
      /\ \A u \in Steps \ {s} : worker'[u] = worker[u]
  BY WorkerAdvances
<1>2. UNCHANGED <<deps, pc, at, sets>>
  BY WorkerLeavesPlaces DEF given
<1>3. s \in futures /\ s \notin pending \cup skipped \cup completed
  BY <1>1 DEF Runs, InFlight, StepPassed, Phases, Typed, ExecutionTypeOK, WorkerStates
<1>4. /\ pending \cup skipped \cup completed \subseteq Steps
      /\ pc = "settle" => at \in Steps
      /\ \A u \in Steps : deps[u] \subseteq Steps
  BY DEF Typed, ExecutionTypeOK, StepPoints
<1>5. \A u \in Steps : StepPassed(u) => StepPassed(u)' /\ u # s
  BY <1>1 DEF StepPassed
<1>6. InFlight' \subseteq futures'
  BY <1>1, <1>2, <1>3 DEF InFlight, Runs, sets
<1>7. DependenciesFirst'
  <2>1. \A u \in Steps : worker'[u].phase # "idle" => worker[u].phase # "idle"
    BY <1>1
  <2>2. \A u \in Steps : worker[u].phase # "idle" => \A d \in deps[u] : StepPassed(d)
    BY <1>4 DEF Runs, DependenciesFirst
  <2> QED
    BY <1>2, <1>4, <1>5, <2>1, <2>2 DEF DependenciesFirst, StepPassed
<1>8. \A u \in Steps : worker'[u].verdict = "passed" => StepPassed(u)'
  BY <1>1, <1>5 DEF Runs
<1>9. \A u \in pending \cup skipped : worker'[u].phase = "idle"
  BY <1>1, <1>3, <1>4 DEF Runs
<1>10. \A u \in completed : StepPassed(u)'
  BY <1>4, <1>5 DEF Runs
<1>11. pc = "settle" => worker'[at].phase = "done"
  BY <1>1, <1>4 DEF Runs
<1> QED
  BY <1>2, <1>6, <1>7, <1>8, <1>9, <1>10, <1>11 DEF Runs, sets

LEMMA RunsStep == Typed /\ Places /\ Runs /\ [Next]_vars => Runs'
<1> SUFFICES ASSUME Typed, Places, Runs, [Next]_vars PROVE Runs'
  OBVIOUS
<1>1. CASE Executor
  BY <1>1, ExecutorRuns
<1>2. ASSUME NEW s \in Steps, Worker(s) PROVE Runs'
  BY <1>2, WorkerRuns
<1>3. CASE Cancel \/ TimeExpires \/ UNCHANGED vars
  <2>1. UNCHANGED <<deps, sets, pc, at, worker>>
    BY <1>3 DEF Cancel, TimeExpires, vars, given
  <2> QED
    BY <2>1 DEF Runs, InFlight, DependenciesFirst, StepPassed, sets
<1> QED
  BY <1>1, <1>2, <1>3 DEF Next

(***************************************************************************)
(* The calls.  A step has no result before its tool has been called, and   *)
(* has one from then on; a future's step was started.  When execute() ends *)
(* no worker is left.                                                      *)
(***************************************************************************)
Calls ==
  /\ \A s \in Steps : worker[s].tool = "none" <=> worker[s].phase \in {"idle", "queued", "running"}
  /\ \A s \in futures : worker[s].phase # "idle"
  /\ pc = "raised" => InFlight = {}

LEMMA InitCalls == Init => Calls
BY DEF Init, NotRun, Calls

LEMMA ContinueCalls ==
  ASSUME Typed, Places, Runs, Calls, Continue
  PROVE  Calls'
<1>1. CASE pc = "start_step"
  <2>1. at \in Steps /\ worker[at].phase = "idle"
    BY <1>1 DEF Typed, Places, Runs, StepPoints
  <2>2. /\ \A s \in Steps \ {at} : worker'[s] = worker[s]
        /\ worker'[at].phase = "queued" /\ worker'[at].tool = worker[at].tool
    BY <1>1, <2>1 DEF Continue, Typed, ExecutionTypeOK, WorkerStates
  <2>3. futures' = futures \cup {at} /\ pc' = "schedule" /\ futures \subseteq Steps
    BY <1>1 DEF Continue, Goto, Typed, ExecutionTypeOK
  <2> QED
    BY <2>1, <2>2, <2>3 DEF Calls
<1>2. CASE pc # "start_step"
  BY <1>2 DEF Continue, Goto, sets, Calls, Places
<1> QED
  BY <1>1, <1>2

LEMMA WorkerCalls ==
  ASSUME Typed, Runs, Calls, NEW s \in Steps, Worker(s)
  PROVE  Calls'
<1>1. /\ worker[s].phase \notin {"idle", "done"} /\ worker'[s].phase # "idle"
      /\ \A u \in Steps \ {s} : worker'[u] = worker[u]
  BY WorkerAdvances
<1>2. UNCHANGED <<pc, futures>> /\ futures \subseteq Steps /\ pc # "raised"
  BY <1>1, WorkerLeavesPlaces DEF sets, Typed, ExecutionTypeOK, WorkerStates, Calls, InFlight
<1>3. worker'[s].tool = "none" <=> worker'[s].phase \in {"idle", "queued", "running"}
  <2> USE DEF SetWorker, FutureRaises, FutureReturns
  <2>1. /\ worker \in [Steps -> WorkerStates] /\ worker[s] \in WorkerStates
        /\ worker[s].tool = "none" <=> worker[s].phase \in {"idle", "queued", "running"}
    BY DEF Typed, ExecutionTypeOK, Calls
  <2>2. CASE Dequeue(s)
    BY <2>1, <2>2 DEF Dequeue, WorkerStates
  <2>3. CASE RunTool(s)
    BY <2>1, <2>3 DEF RunTool, WorkerStates
  <2>4. CASE ToolRaises(s)
    BY <2>1, <2>4 DEF ToolRaises
  <2>5. CASE WorkerReads(s)
    <3>1. CASE SetWorker(s, [worker[s] EXCEPT !.phase = "saving", !.copy = task])
      BY <2>1, <2>5, <3>1 DEF WorkerReads, WorkerStates
    <3>2. CASE FutureRaises(s, worker[s].tool)
      BY <2>1, <2>5, <3>2 DEF WorkerReads
    <3> QED
      BY <2>5, <3>1, <3>2 DEF WorkerReads
  <2>6. CASE WorkerSaves(s)
    BY <2>1, <2>6 DEF WorkerSaves
  <2>7. CASE WorkerRecords(s)
    BY <2>1, <2>7 DEF WorkerRecords
  <2> QED
    BY <2>2, <2>3, <2>4, <2>5, <2>6, <2>7 DEF Worker
<1> QED
  BY <1>1, <1>2, <1>3 DEF Calls

LEMMA CallsStep == Typed /\ Places /\ Runs /\ Calls /\ [Next]_vars => Calls'
<1> SUFFICES ASSUME Typed, Places, Runs, Calls, [Next]_vars PROVE Calls'
  OBVIOUS
<1>1. CASE SaveRow \/ RecordCall
  <2>1. CASE Continue
    BY <2>1, ContinueCalls
  <2>2. CASE Raise("conflict")
    BY <2>2 DEF Raise, sets, Calls
  <2> QED
    BY <1>1, <2>1, <2>2 DEF SaveRow, RecordCall
<1>2. CASE Executor /\ ~SaveRow /\ ~RecordCall
  <2>1. worker' = worker /\ futures' \subseteq futures
    BY <1>2 DEF Executor, ReadRow, LoopTop, LoopEnd, StopScheduling, PassOver, Deny, Reserve,
                Scheduled, Await, Settle, Finish, PropagateError, Raise, SkipPending, sets
  <2>2. pc' = "raised" => PropagateError
    BY <1>2 DEF Typed, ExecutionTypeOK, Executor, ReadRow, LoopTop, LoopEnd, StopScheduling,
                PassOver, AtStep, Deny, Reserve, Scheduled, Await, Settle, Finish, Raise, Goto,
                StateCalls
  <2>3. PropagateError => InFlight = {}
    BY DEF PropagateError, InFlight, Phases
  <2> QED
    BY <2>1, <2>2, <2>3 DEF Calls, InFlight
<1>3. ASSUME NEW s \in Steps, Worker(s) PROVE Calls'
  BY <1>3, WorkerCalls
<1>4. CASE Cancel \/ TimeExpires \/ UNCHANGED vars
  BY <1>4 DEF Cancel, TimeExpires, vars, sets, Calls, InFlight
<1> QED
  BY <1>1, <1>2, <1>3, <1>4 DEF Next

(***************************************************************************)
(* The row.  A copy that is still as new as the row is the row; hence what *)
(* is saved is one operation on the present row, by whomever.              *)
(***************************************************************************)
CopyOfRow(t) == t.version <= task.version /\ (t.version = task.version => t = task)

Copies ==
  /\ copy # NoTask => CopyOfRow(copy)
  /\ \A s \in Steps : worker[s].phase = "saving" =>
       CopyOfRow(worker[s].copy) /\ CanSettleStep(worker[s].copy, s)

RowMoves == task' = task \/ OneOperation(task, task')

LEMMA InitCopies == Init => Copies
<1> SUFFICES ASSUME Init PROVE Copies
  OBVIOUS
<1>1. copy = NoTask /\ \A s \in Steps : worker[s].phase = "idle"
  BY DEF Init, NotRun
<1> QED
  BY <1>1 DEF Copies

LEMMA SaveRowMoves ==
  ASSUME Typed, Copies, SaveRow
  PROVE  RowMoves
<1>1. copy \in TaskRecords /\ pc \in StateCalls /\ Allowed(pc, copy, at)
  BY DEF SaveRow, Typed, ExecutionTypeOK
<1>2. OneOperation(copy, Touched(After(pc, copy, at)))
  BY <1>1, AfterTyped DEF Typed
<1> QED
  BY <1>1, <1>2 DEF SaveRow, Copies, CopyOfRow, RowMoves

LEMMA WorkerMoves ==
  ASSUME Typed, Copies, NEW s \in Steps, Worker(s)
  PROVE  RowMoves
<1>1. CASE WorkerSaves(s)
  BY <1>1 DEF WorkerSaves, Copies, CopyOfRow, RowMoves, OneOperation, StepOperation
<1>2. CASE ~WorkerSaves(s)
  BY <1>2 DEF Worker, Dequeue, RunTool, ToolRaises, WorkerReads, WorkerRecords, RowMoves
<1> QED
  BY <1>1, <1>2

LEMMA NextMoves == Typed /\ Copies /\ [Next]_vars => RowMoves
<1> SUFFICES ASSUME Typed, Copies, [Next]_vars PROVE RowMoves
  OBVIOUS
<1>1. CASE SaveRow
  BY <1>1, SaveRowMoves
<1>2. CASE Executor /\ ~SaveRow
  BY <1>2 DEF Executor, ReadRow, RecordCall, LoopTop, LoopEnd, StopScheduling, PassOver, Deny,
              Reserve, Scheduled, Await, Settle, Finish, PropagateError, RowMoves
<1>3. ASSUME NEW s \in Steps, Worker(s) PROVE RowMoves
  BY <1>3, WorkerMoves
<1>4. CASE Cancel
  BY <1>4 DEF Cancel, OneOperation, TaskOperation, RowMoves
<1>5. CASE TimeExpires \/ UNCHANGED vars
  BY <1>5 DEF TimeExpires, vars, RowMoves
<1> QED
  BY <1>1, <1>2, <1>3, <1>4, <1>5 DEF Next

\* A copy is a copy that was held before, or of the row.
LEMMA CopiesRead ==
  ASSUME Typed, [Next]_vars
  PROVE  /\ copy' \in {copy, NoTask} \/ (copy' = task /\ task' = task)
         /\ \A s \in Steps : worker'[s].phase = "saving" =>
              \/ worker[s].phase = "saving" /\ worker'[s].copy = worker[s].copy
              \/ worker'[s].copy = task /\ task' = task /\ CanSettleStep(task, s)
<1> USE DEF given, sets, budget
<1>1. CASE Executor
  <2>1. copy' \in {copy, NoTask} \/ (copy' = task /\ task' = task)
    BY <1>1 DEF Executor, ReadRow, SaveRow, RecordCall, LoopTop, LoopEnd, StopScheduling, PassOver,
                Deny, Reserve, Scheduled, Await, Settle, Finish, PropagateError, Raise, Continue
  <2>2. worker' = worker \/ (pc = "start_step" /\ worker' = [worker EXCEPT ![at].phase = "queued"])
    BY <1>1 DEF Executor, ReadRow, SaveRow, RecordCall, LoopTop, LoopEnd, StopScheduling, PassOver,
                Deny, Reserve, Scheduled, Await, Settle, Finish, PropagateError, Raise, Continue
  <2>3. \A s \in Steps : worker'[s].phase = "saving" => worker'[s] = worker[s]
    BY <2>2 DEF Typed, ExecutionTypeOK, WorkerStates, StepPoints
  <2> QED
    BY <2>1, <2>3
<1>2. ASSUME NEW s \in Steps, Worker(s), worker'[s].phase = "saving"
      PROVE  worker'[s].copy = task /\ task' = task /\ CanSettleStep(task, s)
  <2> USE DEF SetWorker, Typed, ExecutionTypeOK, WorkerStates
  <2>1. CASE Dequeue(s)
    BY <1>2, <2>1 DEF Dequeue
  <2>2. CASE RunTool(s)
    BY <1>2, <2>2 DEF RunTool
  <2>3. CASE ToolRaises(s) \/ WorkerSaves(s) \/ WorkerRecords(s)
    BY <1>2, <2>3 DEF ToolRaises, WorkerSaves, WorkerRecords, FutureRaises, FutureReturns
  <2>4. CASE WorkerReads(s)
    <3>1. CanSettleStep(task, s)
      BY <1>2, <2>4 DEF WorkerReads, FutureRaises
    <3>2. worker'[s] = [worker[s] EXCEPT !.phase = "saving", !.copy = task]
      BY <2>4, <3>1 DEF WorkerReads
    <3>3. worker'[s].copy = task
      BY <3>2
    <3> QED
      BY <2>4, <3>1, <3>3 DEF WorkerReads
  <2> QED
    BY <1>2, <2>1, <2>2, <2>3, <2>4 DEF Worker
<1>3. ASSUME NEW s \in Steps, Worker(s)
      PROVE  copy' = copy /\ \A u \in Steps \ {s} : worker'[u] = worker[u]
  BY <1>3 DEF Worker, Dequeue, RunTool, ToolRaises, WorkerReads, WorkerSaves, WorkerRecords,
              FutureRaises, FutureReturns, SetWorker, Typed, ExecutionTypeOK
<1>4. CASE Cancel \/ TimeExpires \/ UNCHANGED vars
  BY <1>4 DEF Cancel, TimeExpires, vars
<1> QED
  BY <1>1, <1>2, <1>3, <1>4 DEF Next

LEMMA CopiesStep == Typed /\ Copies /\ [Next]_vars => Copies'
<1> SUFFICES ASSUME Typed, Copies, [Next]_vars PROVE Copies'
  OBVIOUS
<1>1. task \in TaskRecords /\ task'.version \in {task.version, task.version + 1}
      /\ (task' # task => task'.version = task.version + 1)
  BY NextMoves, OperationTyped DEF RowMoves, Typed, ExecutionTypeOK
<1>2. ASSUME NEW t \in TaskRecords, CopyOfRow(t) PROVE CopyOfRow(t)'
  BY <1>1, <1>2 DEF CopyOfRow, TaskRecords
<1>3. task' = task => CopyOfRow(task)'
  BY <1>1 DEF CopyOfRow, TaskRecords
<1>4. copy' # NoTask => CopyOfRow(copy)'
  BY <1>2, <1>3, CopiesRead DEF Copies, Typed, ExecutionTypeOK
<1>5. ASSUME NEW s \in Steps, worker'[s].phase = "saving"
      PROVE  CopyOfRow(worker[s].copy)' /\ CanSettleStep(worker'[s].copy, s)
  <2>1. CASE worker[s].phase = "saving" /\ worker'[s].copy = worker[s].copy
    BY <1>2, <2>1 DEF Copies, Typed, ExecutionTypeOK, WorkerStates
  <2>2. CASE worker'[s].copy = task /\ task' = task /\ CanSettleStep(task, s)
    BY <1>3, <2>2 DEF CopyOfRow
  <2> QED
    BY <1>5, <2>1, <2>2, CopiesRead
<1> QED
  BY <1>4, <1>5 DEF Copies

\* A task that is cancelled remains so, whoever saves.
LEMMA CancelledForGood == Typed /\ Copies /\ IsCancelled /\ [Next]_vars => IsCancelled'
BY NextMoves, OperationCloses DEF RowMoves, IsCancelled, Typed, ExecutionTypeOK

(***************************************************************************)
(* Skipped steps.                                                          *)
(***************************************************************************)
Skips == \A s \in skipped : IsCancelled \/ deps[s] \cap (failed \cup skipped) # {}

\* If a step were in the least set of MarkedSets without a reason, the set
\* would be one of them without it.
LEMMA BlockedHaveReasons ==
  ASSUME Typed, NEW s \in Blocked
  PROVE  deps[s] \cap (failed \cup skipped \cup Blocked) # {}
<1> SUFFICES ASSUME deps[s] \cap (failed \cup skipped \cup Blocked) = {} PROVE FALSE
  OBVIOUS
<1> DEFINE B == Blocked \ {s}
<1>1. \A u \in pending : HasReason(u, B) => u \in B
  <2> SUFFICES ASSUME NEW u \in pending, HasReason(u, B) PROVE u \in B
    OBVIOUS
  <2>1. u # s
    BY DEF HasReason
  <2>2. ASSUME NEW M \in MarkedSets PROVE u \in M
    <3>1. Blocked \subseteq M
      BY DEF Blocked
    <3>2. HasReason(u, M)
      BY <3>1 DEF HasReason
    <3> QED
      BY <3>2 DEF MarkedSets
  <2> QED
    BY <2>1, <2>2 DEF Blocked
<1>2. B \in MarkedSets
  BY <1>1 DEF MarkedSets, Blocked
<1> QED
  BY <1>2 DEF Blocked

LEMMA SkipsStep == Typed /\ Copies /\ Skips /\ [Next]_vars => Skips'
<1> SUFFICES ASSUME Typed, Copies, Skips, [Next]_vars PROVE Skips'
  OBVIOUS
<1>1. IsCancelled => IsCancelled'
  BY CancelledForGood
<1>2. CASE LoopTop
  <2>1. task' = task /\ failed' = failed /\ deps' = deps
    BY <1>2 DEF LoopTop, given
  <2>2. CASE IsCancelled
    BY <1>1, <2>2 DEF Skips
  <2>3. CASE ~IsCancelled
    <3>1. skipped' = skipped \cup Blocked
      BY <1>2, <2>3 DEF LoopTop
    <3>2. ASSUME NEW s \in skipped' PROVE deps[s] \cap (failed \cup skipped \cup Blocked) # {}
      BY <2>3, <3>1, BlockedHaveReasons DEF Skips
    <3> QED
      BY <2>1, <3>1, <3>2 DEF Skips
  <2> QED
    BY <2>2, <2>3
<1>3. CASE StopScheduling
  BY <1>1, <1>3 DEF StopScheduling, Skips
<1>4. CASE ~LoopTop /\ ~StopScheduling
  <2>1. skipped' = skipped /\ failed \subseteq failed' /\ deps' = deps
    BY <1>4, WorkerLeavesPlaces
    DEF Next, Executor, ReadRow, SaveRow, RecordCall, LoopEnd, PassOver, Deny, Reserve, Scheduled,
        Await, Settle, Finish, PropagateError, Raise, Continue, Cancel, TimeExpires, vars, given,
        sets
  <2> QED
    BY <1>1, <2>1 DEF Skips
<1> QED
  BY <1>2, <1>3, <1>4

(***************************************************************************)
(* The budget.  Each future holds a slot, as does the step about to be     *)
(* started; each step ever started was a tool call.                        *)
(***************************************************************************)
OneIf(b) == IF b THEN 1 ELSE 0
Started == {s \in Steps : worker[s].phase # "idle"}

Spending ==
  /\ pc \notin {"raising", "raised"} => slots = Cardinality(futures) + OneIf(pc = "start_step")
  /\ Cardinality(futures) <= slots
  /\ Cardinality(Started) + OneIf(pc = "start_step") <= calls

LEMMA FinitelyManySteps ==
  ASSUME NEW S \in SUBSET Steps
  PROVE  IsFiniteSet(S) /\ Cardinality(S) \in Nat
BY PlanAssumption, FS_Subset, FS_CardinalityType

LEMMA InitSpending == Init => Spending
<1> SUFFICES ASSUME Init PROVE Spending
  OBVIOUS
<1>1. futures = {} /\ Started = {} /\ slots = 0 /\ calls = 0 /\ pc = "start_task"
  BY DEF Init, Started, NotRun
<1> QED
  BY <1>1, FS_EmptySet DEF Spending, OneIf

\* Steps in which no step is reserved for, started or awaited.
LEMMA SpendingUnchanged ==
  ASSUME Typed, Spending, UNCHANGED <<futures, slots, calls>>, Started' = Started,
         pc' # "start_step", pc \in {"raising", "raised"} => pc' \in {"raising", "raised"},
         pc = "start_step" => pc' \in {"raising", "raised"}
  PROVE  Spending'
<1>1. Cardinality(futures) \in Nat /\ Cardinality(Started) \in Nat
  BY FinitelyManySteps DEF Typed, ExecutionTypeOK, Started
<1> QED
  BY <1>1 DEF Spending, OneIf, Typed, ExecutionTypeOK

LEMMA ContinueSpending ==
  ASSUME Typed, Places, Runs, Spending, Continue
  PROVE  Spending'
<1>1. CASE pc = "start_step"
  <2>1. at \in Steps /\ at \notin futures /\ worker[at].phase = "idle"
    BY <1>1 DEF Typed, ExecutionTypeOK, Places, Runs
  <2>2. /\ futures' = futures \cup {at} /\ pc' = "schedule" /\ UNCHANGED <<slots, calls>>
        /\ worker' = [worker EXCEPT ![at].phase = "queued"]
    BY <1>1 DEF Continue, Goto, budget
  <2>3. Started' = Started \cup {at} /\ at \notin Started
    BY <2>1, <2>2 DEF Started, Typed, ExecutionTypeOK, WorkerStates
  <2>4. /\ IsFiniteSet(futures) /\ Cardinality(futures) \in Nat
        /\ IsFiniteSet(Started) /\ Cardinality(Started) \in Nat
    BY FinitelyManySteps DEF Typed, ExecutionTypeOK, Started
  <2>5. /\ Cardinality(futures') = Cardinality(futures) + 1
        /\ Cardinality(Started') = Cardinality(Started) + 1
    BY <2>1, <2>2, <2>3, <2>4, FS_AddElement
  <2> QED
    BY <1>1, <2>2, <2>4, <2>5 DEF Spending, OneIf, Typed, ExecutionTypeOK
<1>2. CASE pc # "start_step"
  <2>1. UNCHANGED <<futures, slots, calls, worker>> /\ pc' \in {"schedule", "loop", "returned"}
        /\ pc \notin {"raising", "raised"}
    BY <1>2 DEF Continue, Goto, budget, sets
  <2> QED
    BY <1>2, <2>1, SpendingUnchanged DEF Started
<1> QED
  BY <1>1, <1>2

LEMMA ReserveSpending ==
  ASSUME Typed, Spending, Reserve
  PROVE  Spending'
<1>1. Cardinality(futures) \in Nat /\ Cardinality(Started) \in Nat
  BY FinitelyManySteps DEF Typed, ExecutionTypeOK, Started
<1>2. /\ pc = "schedule" /\ pc' = "start_step" /\ UNCHANGED <<futures, worker>>
      /\ slots' = slots + 1 /\ calls' = calls + 1
  BY DEF Reserve, AtStep, Goto, sets
<1>3. Started' = Started
  BY <1>2 DEF Started
<1> QED
  BY <1>1, <1>2, <1>3 DEF Spending, OneIf, Typed, ExecutionTypeOK

LEMMA AwaitSpending ==
  ASSUME Typed, Spending, NEW s \in Steps, Await(s)
  PROVE  Spending'
<1>1. /\ IsFiniteSet(futures) /\ Cardinality(futures) \in Nat /\ Cardinality(Started) \in Nat
  BY FinitelyManySteps DEF Typed, ExecutionTypeOK, Started
<1>2. /\ pc = "wait" /\ pc' = "settle" /\ UNCHANGED <<calls, worker>>
      /\ s \in futures /\ futures' = futures \ {s} /\ slots' = Released
  BY DEF Await, Goto
<1>3. Cardinality(futures') = Cardinality(futures) - 1 /\ Cardinality(futures) > 0
  BY <1>1, <1>2, FS_RemoveElement, FS_EmptySet
<1>4. Started' = Started
  BY <1>2 DEF Started
<1> QED
  BY <1>1, <1>2, <1>3, <1>4 DEF Spending, OneIf, Released, Typed, ExecutionTypeOK

LEMMA SpendingStep == Typed /\ Places /\ Runs /\ Spending /\ [Next]_vars => Spending'
<1> SUFFICES ASSUME Typed, Places, Runs, Spending, [Next]_vars PROVE Spending'
  OBVIOUS
<1>1. CASE SaveRow \/ RecordCall
  <2>1. CASE Continue
    BY <2>1, ContinueSpending
  <2>2. CASE Raise("conflict")
    BY <2>2, SpendingUnchanged DEF Raise, Started, budget, sets
  <2> QED
    BY <1>1, <2>1, <2>2 DEF SaveRow, RecordCall
<1>2. CASE Reserve
  BY <1>2, ReserveSpending
<1>3. ASSUME NEW s \in Steps, Await(s) PROVE Spending'
  BY <1>3, AwaitSpending
<1>4. CASE ReadRow
  <2>1. CASE Raise("refused")
    BY <2>1, SpendingUnchanged DEF Raise, Started, budget, sets
  <2>2. CASE UNCHANGED <<futures, slots, calls, worker, pc>>
    BY <2>2 DEF Spending, Started
  <2> QED
    BY <1>4, <2>1, <2>2 DEF ReadRow, budget, sets
<1>5. CASE LoopTop \/ LoopEnd \/ StopScheduling \/ PassOver \/ Deny \/ Scheduled \/ Settle
           \/ Finish \/ PropagateError
  <2>1. UNCHANGED <<futures, slots, calls, worker>>
    BY <1>5 DEF LoopTop, LoopEnd, StopScheduling, PassOver, Deny, Scheduled, Settle, Finish,
                PropagateError, SkipPending, Raise, budget, sets
  <2>2. /\ pc' # "start_step" /\ pc # "start_step"
        /\ pc \in {"raising", "raised"} => pc' \in {"raising", "raised"}
    BY <1>5 DEF LoopTop, LoopEnd, StopScheduling, PassOver, Deny, Scheduled, Settle, Finish,
                PropagateError, Raise, Goto, AtStep
  <2> QED
    BY <2>1, <2>2, SpendingUnchanged DEF Started
<1>6. ASSUME NEW s \in Steps, Worker(s) PROVE Spending'
  <2>1. UNCHANGED <<futures, slots, calls, pc>>
    BY <1>6, WorkerLeavesPlaces DEF budget, sets
  <2>2. Started' = Started
    BY <1>6, WorkerAdvances DEF Started
  <2> QED
    BY <2>1, <2>2 DEF Spending
<1>7. CASE Cancel \/ TimeExpires \/ UNCHANGED vars
  <2>1. UNCHANGED <<futures, slots, calls, worker, pc>>
    BY <1>7 DEF Cancel, TimeExpires, vars, budget, sets
  <2> QED
    BY <2>1 DEF Spending, Started
<1> QED
  BY <1>1, <1>2, <1>3, <1>4, <1>5, <1>6, <1>7 DEF Next, Executor

LEMMA SpendingIsEnough == Typed /\ Runs /\ Spending => WithinBudget
<1> SUFFICES ASSUME Typed, Runs, Spending PROVE WithinBudget
  OBVIOUS
<1>1. /\ IsFiniteSet(futures) /\ Cardinality(futures) \in Nat
      /\ InFlight \in SUBSET futures /\ InFlight \in SUBSET Steps
      /\ Started \in SUBSET Steps
  BY FinitelyManySteps DEF Typed, ExecutionTypeOK, Runs, InFlight, Started
<1>2. Cardinality(InFlight) <= Cardinality(futures)
  BY <1>1, FS_Subset
<1>3. Cardinality(InFlight) \in Nat /\ Cardinality(Started) \in Nat
  BY <1>1, FinitelyManySteps
<1> QED
  BY <1>1, <1>2, <1>3 DEF Spending, OneIf, WithinBudget, Started, Typed, ExecutionTypeOK

(***************************************************************************)
(* The end.  plan.status is the row's when execute() returns, and a step   *)
(* that is running in the row is one execute() has still to settle.        *)
(***************************************************************************)
Outcome ==
  /\ pc \notin {"fail_task", "complete_task", "returned", "raising", "raised"} => plan = "running"
  /\ pc = "fail_task" => plan = "failed"
  /\ pc = "complete_task" => plan = "completed"
  /\ pc = "returned" => plan # "running"
  /\ plan = "cancelled" => IsCancelled
  /\ plan = "failed" => failed # {}
  /\ plan = "completed" /\ Acyclic(deps) => completed = Steps

LEMMA FinishOutcome ==
  ASSUME Typed, Places, Skips, Outcome, Finish
  PROVE  Outcome'
<1>1. ASSUME ~IsCancelled, failed = {}, Acyclic(deps) PROVE completed = Steps
  <2>1. \A s \in skipped : deps[s] \cap skipped # {}
    BY <1>1 DEF Skips
  <2>2. skipped \in SUBSET Steps /\ completed \subseteq Steps
    BY DEF Typed, ExecutionTypeOK
  <2>3. skipped = {}
    BY <1>1, <2>1, <2>2 DEF Acyclic
  <2> QED
    BY <1>1, <2>2, <2>3 DEF Places, Finish, Ending
<1>2. pc = "finish" /\ plan = "running" /\ UNCHANGED <<deps, completed, failed, task>>
  BY DEF Finish, Outcome, given, sets
<1>3. CASE IsCancelled /\ plan' = "cancelled" /\ pc' = "returned"
  BY <1>2, <1>3 DEF Outcome, IsCancelled
<1>4. CASE failed # {} /\ plan' = "failed" /\ pc' = "fail_task"
  BY <1>2, <1>4 DEF Outcome
<1>5. CASE ~IsCancelled /\ failed = {} /\ plan' = "completed" /\ pc' = "complete_task"
  BY <1>1, <1>2, <1>5 DEF Outcome
<1> QED
  BY <1>3, <1>4, <1>5 DEF Finish, Goto

LEMMA OutcomeStep ==
  Typed /\ Places /\ Copies /\ Skips /\ Outcome /\ [Next]_vars => Outcome'
<1> SUFFICES ASSUME Typed, Places, Copies, Skips, Outcome, [Next]_vars PROVE Outcome'
  OBVIOUS
<1>1. IsCancelled => IsCancelled'
  BY CancelledForGood
<1>2. CASE Finish
  BY <1>2, FinishOutcome
<1>3. CASE ~Finish
  <2>1. /\ plan' = plan /\ deps' = deps
        /\ completed \subseteq completed' /\ failed \subseteq failed'
    BY <1>3, WorkerLeavesPlaces
    DEF Next, Executor, ReadRow, SaveRow, RecordCall, LoopTop, LoopEnd, StopScheduling, PassOver,
        Deny, Reserve, Scheduled, Await, Settle, PropagateError, Raise, Continue, SkipPending,
        Cancel, TimeExpires, vars, given, sets
  <2>2. \/ pc' = pc \/ pc' \in {"raising", "raised"}
        \/ pc' = "returned" /\ pc \in {"fail_task", "complete_task"}
        \/ /\ pc \notin {"fail_task", "complete_task", "returned", "raising", "raised"}
           /\ pc' \notin {"fail_task", "complete_task", "returned", "raising", "raised"}
    BY <1>3, WorkerLeavesPlaces
    DEF Next, Executor, ReadRow, SaveRow, RecordCall, LoopTop, LoopEnd, StopScheduling, PassOver,
        Deny, Reserve, Scheduled, Await, Settle, PropagateError, Raise, Continue, Cancel,
        TimeExpires, vars, Goto, AtStep
  <2>3. completed' \subseteq Steps
    BY TypedStep DEF Typed, ExecutionTypeOK
  <2> QED
    BY <1>1, <2>1, <2>2, <2>3 DEF Outcome
<1> QED
  BY <1>2, <1>3

Settling == {"settle", "complete_step", "fail_step"}

RowReported ==
  manager = "durable" =>
    /\ pc = "returned" => task.status = plan \/ (plan = "failed" /\ IsCancelled)
    /\ ~IsCancelled /\ pc \notin {"raising", "raised"} =>
         \A s \in Steps : task.step[s].status = "running" =>
                           s \in futures \/ (s = at /\ pc \in Settling)

LEMMA InitRowReported == Init => RowReported
<1> SUFFICES ASSUME Init PROVE RowReported
  OBVIOUS
<1>1. task.step = [s \in Steps |-> PendingStep] /\ pc = "start_task"
  BY NewTaskSound DEF Init, TaskRecords
<1> QED
  BY <1>1 DEF RowReported, PendingStep

\* What an operation leaves of the steps of a record.
LEMMA StepsAfter ==
  ASSUME NEW t \in TaskRecords, NEW s \in Steps, NEW u \in Steps
  PROVE  /\ u # s => /\ Touched(StepStarted(t, s)).step[u] = t.step[u]
                     /\ Touched(StepCompleted(t, s)).step[u] = t.step[u]
                     /\ Touched(StepFailed(t, s)).step[u] = t.step[u]
         /\ Touched(StepCompleted(t, s)).step[s].status = "completed"
         /\ Touched(StepFailed(t, s)).step[s].status = "failed"
<1>1. ASSUME NEW r \in StepRecords, NEW current \in Steps \cup {NoStep}
      PROVE  Touched(WithStep(t, s, r, current)).step[u] = IF u = s THEN r ELSE t.step[u]
  <2>1. WithStep(t, s, r, current).step[u] = IF u = s THEN r ELSE t.step[u]
    BY DEF WithStep, TaskRecords
  <2> QED
    BY <2>1, WithStepTyped, TouchedFields
<1>2. ASSUME NEW r \in StepRecords, NEW current \in Steps \cup {NoStep}
      PROVE  Touched(WithStep(t, s, r, current)).step[s] = r
  <2>1. WithStep(t, s, r, current).step[s] = r
    BY DEF WithStep, TaskRecords
  <2> QED
    BY <2>1, WithStepTyped, TouchedFields
<1>3. /\ Attempted(t.step[s]) \in StepRecords
      /\ Ended(t.step[s], "completed") \in StepRecords /\ Ended(t.step[s], "failed") \in StepRecords
      /\ t.current \in Steps \cup {NoStep}
  BY StepResults DEF StepStatuses
<1> QED
  BY <1>1, <1>2, <1>3 DEF StepStarted, StepCompleted, StepFailed, Settled, Ended

LEMMA TaskAfter ==
  ASSUME NEW t \in TaskRecords
  PROVE  /\ Touched(TaskStarted(t)).step = t.step
         /\ Touched(TaskFailed(t)).step = t.step /\ Touched(TaskFailed(t)).status = "failed"
         /\ Touched(TaskCompleted(t)).step = t.step
         /\ Touched(TaskCompleted(t)).status = "completed"
BY DEF Touched, TaskStarted, TaskFailed, TaskCompleted, TaskRecords

LEMMA SaveRowReported ==
  ASSUME Typed, Places, Outcome, Copies, RowReported, SaveRow
  PROVE  RowReported'
<1>1. CASE Raise("conflict")
  BY <1>1 DEF Raise, RowReported
<1>2. CASE task.version = copy.version /\ task' = Touched(After(pc, copy, at)) /\ Continue
  <2>1. /\ copy = task /\ task \in TaskRecords /\ pc \in StateCalls
        /\ pc \in StepPoints => at \in Steps
        /\ manager' = manager /\ plan' = plan /\ at' = at
    BY <1>2 DEF SaveRow, Copies, CopyOfRow, Typed, ExecutionTypeOK, Continue, given
  <2>2. ~IsCancelled
    BY <2>1 DEF SaveRow, Typed, Allowed, StateCalls, IsCancelled, CanStartTask, CanStartStep,
                CanSettleStep, CanFailTask, CanCompleteTask, Closed
  <2>3. CASE pc = "start_task"
    BY <1>2, <2>1, <2>2, <2>3, TaskAfter DEF RowReported, After, Continue, Goto, sets, Settling
  <2>4. CASE pc = "start_step"
    <3>1. futures' = futures \cup {at} /\ pc' = "schedule"
      BY <1>2, <2>4 DEF Continue, Goto
    <3>2. task' = Touched(StepStarted(task, at)) /\ at \in Steps
      BY <1>2, <2>1, <2>4 DEF After, StepPoints
    <3> QED
      BY <2>1, <2>2, <2>4, <3>1, <3>2, StepsAfter DEF RowReported, Settling
  <2>5. CASE pc \in {"deny_step", "fail_step", "complete_step"}
    <3>1. futures' = futures /\ pc' \in {"schedule", "loop"}
      BY <1>2, <2>5 DEF Continue, Goto, sets
    <3>2. /\ at \in Steps
          /\ task' \in {Touched(StepFailed(task, at)), Touched(StepCompleted(task, at))}
      BY <1>2, <2>1, <2>5 DEF After, StepPoints
    <3>3. \A u \in Steps : task'.step[u].status = "running" =>
                           u # at /\ task.step[u].status = "running"
      BY <2>1, <3>2, StepsAfter
    <3> QED
      BY <2>1, <2>2, <2>5, <3>1, <3>3 DEF RowReported, Settling
  <2>6. CASE pc \in {"fail_task", "complete_task"}
    <3>1. futures' = futures /\ pc' = "returned"
      BY <1>2, <2>6 DEF Continue, Goto, sets
    <3>2. task'.step = task.step /\ task'.status = plan
      BY <1>2, <2>1, <2>6, TaskAfter DEF After, Outcome
    <3> QED
      BY <2>1, <2>2, <2>6, <3>1, <3>2 DEF RowReported, Settling
  <2> QED
    BY <2>1, <2>3, <2>4, <2>5, <2>6 DEF StateCalls
<1> QED
  BY <1>1, <1>2 DEF SaveRow

LEMMA WorkerRowReported ==
  ASSUME Typed, Places, Runs, Copies, RowReported, NEW s \in Steps, Worker(s)
  PROVE  RowReported'
<1>1. UNCHANGED <<manager, plan, pc, at, futures>>
  BY WorkerLeavesPlaces DEF given, sets
<1>2. CASE task' = task
  BY <1>1, <1>2 DEF RowReported, IsCancelled
<1>3. CASE task' # task
  <2>1. WorkerSaves(s) /\ worker[s].phase = "saving" /\ task.version = worker[s].copy.version
    BY <1>3 DEF Worker, Dequeue, RunTool, ToolRaises, WorkerReads, WorkerRecords, WorkerSaves
  <2>2. task = worker[s].copy /\ task \in TaskRecords /\ CanSettleStep(task, s)
    BY <2>1 DEF Copies, CopyOfRow, Typed, ExecutionTypeOK
  <2>3. task' \in {Touched(StepCompleted(task, s)), Touched(StepFailed(task, s))}
    BY <1>3, <2>1, <2>2 DEF WorkerSaves
  <2>4. ~IsCancelled
    BY <2>2 DEF CanSettleStep, Closed, IsCancelled
  <2>5. pc # "returned"
    BY <2>1 DEF Runs, Places, InFlight, Phases, Ending
  <2>6. \A u \in Steps : task'.step[u].status = "running" => task.step[u].status = "running"
    BY <2>2, <2>3, StepsAfter
  <2> QED
    BY <1>1, <2>4, <2>5, <2>6 DEF RowReported
<1> QED
  BY <1>2, <1>3

LEMMA RowReportedStep ==
  /\ Typed /\ Places /\ Runs /\ Copies /\ Outcome /\ RowReported
  /\ [Next]_vars
  => RowReported'
<1> SUFFICES ASSUME Typed, Places, Runs, Copies, Outcome, RowReported, [Next]_vars
             PROVE  RowReported'
  OBVIOUS
<1>1. CASE SaveRow
  BY <1>1, SaveRowReported
<1>2. ASSUME NEW s \in Steps, Worker(s) PROVE RowReported'
  BY <1>2, WorkerRowReported
<1>3. CASE RecordCall
  BY <1>3 DEF RecordCall, Continue, given, RowReported
<1>4. ASSUME NEW s \in Steps, Await(s) PROVE RowReported'
  BY <1>4 DEF Await, Goto, RowReported, Settling, IsCancelled, given
<1>5. CASE Settle
  BY <1>5 DEF Settle, Goto, RowReported, Settling, IsCancelled, given, sets
<1>6. CASE Finish
  BY <1>6 DEF Finish, Goto, RowReported, Settling, IsCancelled, given, sets
<1>7. CASE ReadRow \/ PropagateError
  BY <1>7 DEF ReadRow, PropagateError, Raise, Goto, RowReported, IsCancelled, given, sets
<1>8. CASE LoopTop \/ LoopEnd \/ StopScheduling \/ PassOver \/ Deny \/ Reserve \/ Scheduled
  <2>1. UNCHANGED <<manager, task, futures>>
    BY <1>8 DEF LoopTop, LoopEnd, StopScheduling, PassOver, Deny, Reserve, Scheduled, Raise,
                SkipPending, given, sets
  <2>2. pc \in {"loop", "schedule"} /\ pc' # "returned"
    BY <1>8 DEF LoopTop, LoopEnd, StopScheduling, PassOver, Deny, Reserve, Scheduled, AtStep, Goto,
                Raise
  <2> QED
    BY <2>1, <2>2 DEF RowReported, IsCancelled, Settling
<1>9. CASE Cancel
  BY <1>9 DEF Cancel, CanCancelTask, TaskCancelled, Touched, RowReported, IsCancelled, Outcome,
              Typed, ExecutionTypeOK, TaskRecords, given
<1>10. CASE TimeExpires \/ UNCHANGED vars
  BY <1>10 DEF TimeExpires, vars, RowReported, IsCancelled, given, sets
<1> QED
  BY <1>1, <1>2, <1>3, <1>4, <1>5, <1>6, <1>7, <1>8, <1>9, <1>10 DEF Next, Executor

(***************************************************************************)
(* The plan executor alone.                                                *)
(***************************************************************************)
ExecutionInv ==
  /\ Typed /\ Places /\ Runs /\ Calls /\ Copies /\ Skips /\ Spending
  /\ Outcome /\ RowReported

LEMMA InitExecutionInv == Init => ExecutionInv
<1> SUFFICES ASSUME Init PROVE ExecutionInv
  OBVIOUS
<1>1. Skips /\ Outcome
  BY DEF Init, Skips, Outcome
<1> QED
  BY <1>1, InitTyped, InitPlaces, InitRuns, InitCalls, InitCopies, InitSpending, InitRowReported
  DEF ExecutionInv

LEMMA ExecutionInvStep == ExecutionInv /\ [Next]_vars => ExecutionInv'
BY TypedStep, PlacesStep, RunsStep, CallsStep, CopiesStep, SkipsStep, SpendingStep, OutcomeStep,
   RowReportedStep
DEF ExecutionInv

LEMMA CompleteReports == ExecutionInv /\ Acyclic(deps) => ReportIsComplete
<1> SUFFICES ASSUME ExecutionInv, Acyclic(deps), pc = "returned"
             PROVE  /\ Steps = completed \cup failed \cup skipped
                    /\ completed \cap failed = {} /\ skipped \cap (completed \cup failed) = {}
                    /\ InFlight = {} /\ slots = 0
                    /\ plan = "completed" => \A s \in Steps : worker[s].tool = "passed"
  BY DEF ReportIsComplete, Returned
<1>1. pending = {} /\ futures = {}
  BY DEF ExecutionInv, Places, Ending
<1>2. completed \cup failed \cup skipped \subseteq Steps
  BY DEF ExecutionInv, Typed, ExecutionTypeOK
<1>3. Steps = completed \cup failed \cup skipped
  BY <1>1, <1>2 DEF ExecutionInv, Places
<1>4. completed \cap failed = {} /\ skipped \cap (completed \cup failed) = {}
  BY DEF ExecutionInv, Places
<1>5. InFlight = {}
  BY <1>1 DEF ExecutionInv, Runs
<1>6. slots = 0
  BY <1>1, FS_EmptySet DEF ExecutionInv, Spending, OneIf, Typed, ExecutionTypeOK
<1>7. plan = "completed" => \A s \in Steps : worker[s].tool = "passed"
  BY DEF ExecutionInv, Outcome, Runs, StepPassed
<1> QED
  BY <1>3, <1>4, <1>5, <1>6, <1>7

LEMMA ReasonedSkips == ExecutionInv => SkippedForAReason
BY DEF ExecutionInv, Runs, Skips, SkippedForAReason

LEMMA MatchingReports == ExecutionInv => ReportMatchesRow
<1> SUFFICES ASSUME ExecutionInv, pc = "returned", manager = "durable" PROVE ReportMatchesRow
  BY DEF ReportMatchesRow, Returned
<1>1. futures = {}
  BY DEF ExecutionInv, Places, Ending
<1> QED
  BY <1>1 DEF ExecutionInv, RowReported, Settling, ReportMatchesRow

LEMMA StartsOnlyIfRunning ==
  ASSUME ExecutionInv, [Next]_vars, manager = "durable", IsCancelled
  PROVE  futures' \subseteq futures
<1>1. CASE SaveRow
  <2>1. ~Continue \/ pc # "start_step"
    <3> SUFFICES ASSUME Continue, pc = "start_step" PROVE FALSE
      OBVIOUS
    <3>1. Allowed(pc, copy, at) /\ copy.status = "running"
      BY <1>1 DEF SaveRow, ExecutionInv, Typed, Allowed, CanStartStep
    <3>2. task.version = copy.version
      BY <1>1 DEF SaveRow, Raise, Continue, Goto
    <3> QED
      BY <1>1, <3>1, <3>2 DEF SaveRow, ExecutionInv, Copies, CopyOfRow, IsCancelled
  <2> QED
    BY <1>1, <2>1 DEF SaveRow, Raise, Continue, sets
<1>2. CASE ~SaveRow
  BY <1>2, WorkerLeavesPlaces
  DEF Next, Executor, ReadRow, RecordCall, LoopTop, LoopEnd, StopScheduling, PassOver, Deny,
      Reserve, Scheduled, Await, Settle, Finish, PropagateError, Raise, SkipPending, Cancel,
      TimeExpires, vars, sets
<1> QED
  BY <1>1, <1>2

LEMMA ExecutionInvariant == Spec => []ExecutionInv
<1>1. Init => ExecutionInv
  BY InitExecutionInv
<1>2. ExecutionInv /\ [Next]_vars => ExecutionInv'
  BY ExecutionInvStep
<1> QED
  BY <1>1, <1>2, PTL DEF Spec

\* execute() never changes the plan it was given.
LEMMA PlanIsGiven == Spec => [](deps \in Plans)
<1>1. Init => deps \in Plans
  BY DEF Init
<1>2. deps \in Plans /\ [Next]_vars => (deps \in Plans)'
  BY WorkerLeavesPlaces
  DEF Next, Executor, ReadRow, SaveRow, RecordCall, LoopTop, LoopEnd, StopScheduling, PassOver,
      Deny, Reserve, Scheduled, Await, Settle, Finish, PropagateError, Raise, Continue, Cancel,
      TimeExpires, vars, given
<1> QED
  BY <1>1, <1>2, PTL DEF Spec

\* The executor keeps its types, with any number of workers, slots and calls.
THEOREM ExecutionTypeCorrect == Spec => []TypeOK
<1>1. ExecutionInv /\ deps \in Plans => TypeOK
  BY DEF ExecutionInv, Typed, TypeOK
<1> QED
  BY <1>1, ExecutionInvariant, PlanIsGiven, PTL

\* No worker is queued before everything its step depends on has passed
\* verification, in any interleaving of pool, budget and cancellation.
THEOREM DependenciesComeFirst == Spec => []DependenciesFirst
<1>1. ExecutionInv => DependenciesFirst
  BY DEF ExecutionInv, Runs
<1> QED
  BY <1>1, ExecutionInvariant, PTL

\* What is in flight holds slots, and what was started was counted.
THEOREM ExecutionStaysWithinBudget == Spec => []WithinBudget
<1>1. ExecutionInv => WithinBudget
  BY SpendingIsEnough DEF ExecutionInv
<1> QED
  BY <1>1, ExecutionInvariant, PTL

\* What execute() returns accounts for each step once, with nothing in flight.
THEOREM ReportsAreComplete == Spec => []ReportIsComplete
<1>1. ExecutionInv /\ deps \in Plans => ReportIsComplete
  BY CompleteReports, PlanAssumption
<1> QED
  BY <1>1, ExecutionInvariant, PlanIsGiven, PTL

\* Every skipped step was never started, and had a reason to be skipped.
THEOREM SkipsHaveReasons == Spec => []SkippedForAReason
BY ReasonedSkips, ExecutionInvariant, PTL

\* With the durable manager the status returned is the one in the row.
THEOREM ReportsMatchTheRow == Spec => []ReportMatchesRow
BY MatchingReports, ExecutionInvariant, PTL

\* Nothing is started once a cancellation is in the row.
THEOREM CancellationStopsScheduling == Spec => CancelStopsScheduling
<1>1. ExecutionInv /\ [Next]_vars
        => [manager = "durable" /\ IsCancelled => futures' \subseteq futures]_vars
  BY StartsOnlyIfRunning
<1> QED
  BY <1>1, ExecutionInvariant, PTL DEF Spec, CancelStopsScheduling

\* Executor, workers and the client that cancels lose no update of one another:
\* every change of the row is one operation of the manager on the row as it is.
THEOREM NoUpdateIsLost == Spec => RowIsOperatedOn
<1>1. ExecutionInv /\ [Next]_vars => [task' = task \/ OneOperation(task, task')]_vars
  BY NextMoves DEF ExecutionInv, RowMoves
<1> QED
  BY <1>1, ExecutionInvariant, PTL DEF Spec, RowIsOperatedOn

(***************************************************************************)
(* The agent run.  It executes by the steps of PlanExecution; the only     *)
(* other step that touches the executor gives it its plan, before it has   *)
(* begun.                                                                  *)
(***************************************************************************)
Fresh ==
  /\ pc = "start_task" /\ plan = "running" /\ pending = Steps /\ skipped = {}
  /\ \A s \in Steps : worker[s].phase = "idle"

\* A request is under way for the first plan, or for the repair counted last.
Counted ==
  /\ usage \in [llm : Nat, tokens : Nat, repairs : Nat] /\ attempt \in Nat /\ posts \in Nat
  /\ stage \in {"planning", "executing", "replanning", "over"}
  /\ usage.llm = posts /\ posts <= MaxLlmCalls
  /\ posts <= 1 + usage.repairs
  /\ point \in {"resolve", "call"} => posts <= usage.repairs
  /\ point # "none" => stage \in {"planning", "replanning"}
  /\ usage.repairs <= attempt
  /\ attempt > 0 => pc = "returned"

AgentInv ==
  /\ ExecutionInv
  /\ stage = "planning" => Fresh
  /\ Counted

LEMMA InitAgentInv == AgentInit => AgentInv
<1> SUFFICES ASSUME AgentInit PROVE AgentInv
  OBVIOUS
<1>1. ExecutionInv
  BY InitExecutionInv DEF AgentInit
<1>2. Fresh
  BY DEF AgentInit, Init, Fresh, NotRun
<1>3. Counted
  BY AgentAssumption DEF AgentInit, Counted
<1> QED
  BY <1>1, <1>2, <1>3 DEF AgentInv

LEMMA AcceptedPlanIsTyped ==
  ASSUME NEW p \in Selectable
  PROVE  p.depends_on \in [Steps -> SUBSET Steps]
<1>1. p \in Proposals /\ ~Errors(p)
  BY DEF Selectable, WellFormed
<1>2. \A s \in Steps : Stranger \notin p.depends_on[s]
  BY <1>1 DEF Errors
<1> QED
  BY <1>1, <1>2 DEF Proposals

LEMMA AcceptPlanInv ==
  ASSUME ExecutionInv, Fresh, AcceptPlan
  PROVE  ExecutionInv'
<1>1. deps' \in [Steps -> SUBSET Steps]
  BY AcceptedPlanIsTyped DEF AcceptPlan
<1>2. UNCHANGED <<manager, task, plan, sets, pc, at, copy, error, worker, budget>>
  BY DEF AcceptPlan
<1> USE DEF sets, budget
<1>3. Typed'
  BY <1>1, <1>2 DEF ExecutionInv, Typed, ExecutionTypeOK
<1>4. Places'
  BY <1>2 DEF ExecutionInv, Places
<1>5. Runs'
  BY <1>2 DEF ExecutionInv, Runs, Fresh, InFlight, StepPassed, DependenciesFirst
<1>6. Copies'
  BY <1>2 DEF ExecutionInv, Copies, CopyOfRow
<1>7. Skips'
  BY <1>2 DEF Skips, Fresh
<1>8. Spending'
  BY <1>2 DEF ExecutionInv, Spending, Started
<1>9. Outcome'
  BY <1>2 DEF ExecutionInv, Outcome, Fresh, IsCancelled
<1>10. RowReported'
  BY <1>2 DEF ExecutionInv, RowReported, IsCancelled
<1>11. Calls'
  BY <1>2 DEF ExecutionInv, Calls, Fresh
<1> QED
  BY <1>3, <1>4, <1>5, <1>6, <1>7, <1>8, <1>9, <1>10, <1>11 DEF ExecutionInv

LEMMA AgentSteps ==
  ASSUME [AgentNext]_agentVars
  PROVE  [Next]_vars \/ AcceptPlan
BY DEF AgentNext, Planning, Resolve, CallModel, RefusePlan, ParseReplacement, Replan, Execute,
       Next, agentVars

LEMMA AgentExecutionInv ==
  ASSUME AgentInv, [AgentNext]_agentVars
  PROVE  ExecutionInv'
<1>1. AcceptPlan => Fresh
  BY DEF AcceptPlan, AgentInv
<1> QED
  BY <1>1, AgentSteps, ExecutionInvStep, AcceptPlanInv DEF AgentInv

LEMMA AgentFresh ==
  ASSUME AgentInv, [AgentNext]_agentVars, stage' = "planning"
  PROVE  Fresh'
<1>1. stage = "planning" /\ UNCHANGED <<pc, plan, pending, skipped, worker>>
  BY DEF AgentNext, Planning, Resolve, CallModel, Denied, Posted, AcceptPlan, RefusePlan, Fail,
         ParseReplacement, Replan, CanReplan, Execute, TimeExpires, agentVars, planningVars, vars,
         sets, AgentInv
<1> QED
  BY <1>1 DEF AgentInv, Fresh

\* execute() does not go on once it has returned.
LEMMA ReturnedForGood ==
  ASSUME Typed, pc = "returned", [Next]_vars
  PROVE  pc' = "returned"
BY WorkerLeavesPlaces
DEF Typed, StateCalls, Next, Executor, ReadRow, SaveRow, RecordCall, LoopTop, LoopEnd,
    StopScheduling, PassOver, AtStep, Deny, Reserve, Scheduled, Await, Settle, Finish,
    PropagateError, Cancel, TimeExpires, vars

LEMMA AgentCounted ==
  ASSUME AgentInv, [AgentNext]_agentVars
  PROVE  Counted'
<1> USE DEF Counted
<1>1. Counted /\ (pc = "returned" => pc' = "returned")
  BY AgentSteps, ReturnedForGood DEF AgentInv, ExecutionInv, AcceptPlan
<1>2. CASE Resolve
  BY <1>1, <1>2 DEF Resolve, Fail
<1>3. CASE CallModel
  <2>1. UNCHANGED <<attempt, pc>> /\ point = "call"
    BY <1>3 DEF CallModel, vars
  <2>2. CASE Denied
    BY <1>1, <2>1, <2>2 DEF Denied, Fail
  <2>3. CASE Posted
    <3>0. MaxLlmCalls \in Nat /\ Requested \in Nat
      BY AgentAssumption
    <3>1. usage.llm < MaxLlmCalls /\ posts' = posts + 1
      <4>1. ~NoLlmCall /\ posts' = posts + 1
        BY <2>3, Zenon DEF Posted
      <4> QED
        BY <1>1, <3>0, <4>1 DEF NoLlmCall
    <3>2. /\ usage'.llm = usage.llm + 1 /\ usage'.repairs = usage.repairs
          /\ usage' \in [llm : Nat, tokens : Nat, repairs : Nat]
      <4>1. CASE usage' = [usage EXCEPT !.llm = @ + 1]
        BY <1>1, <4>1
      <4>2. ASSUME NEW generated \in 0 .. Requested,
                   usage' = [usage EXCEPT !.llm = @ + 1, !.tokens = @ + generated]
            PROVE  /\ usage'.llm = usage.llm + 1 /\ usage'.repairs = usage.repairs
                   /\ usage' \in [llm : Nat, tokens : Nat, repairs : Nat]
        <5>1. generated \in Nat /\ usage \in [llm : Nat, tokens : Nat, repairs : Nat]
          BY <1>1, <3>0
        <5> HIDE DEF Counted
        <5>2. usage.llm + 1 \in Nat /\ usage.tokens + generated \in Nat
          BY <5>1
        <5> QED
          BY <4>2, <5>1, <5>2
      <4> QED
        BY <2>3, <4>1, <4>2 DEF Posted
    <3>3. (point' = "none" /\ stage' \in {"over", "executing"}) \/ (point' = "parse" /\ stage' = stage)
      BY <2>3 DEF Posted, Fail
    <3> QED
      BY <1>1, <2>1, <3>0, <3>1, <3>2, <3>3
  <2> QED
    BY <1>3, <2>2, <2>3 DEF CallModel
<1>4. CASE AcceptPlan \/ RefusePlan \/ ParseReplacement
  BY <1>1, <1>4 DEF AcceptPlan, RefusePlan, ParseReplacement, Fail, vars
<1>5. CASE Replan
  BY <1>1, <1>5 DEF Replan, CanReplan, vars
<1>6. CASE UNCHANGED planningVars
  BY <1>1, <1>6 DEF planningVars
<1> QED
  BY <1>2, <1>3, <1>4, <1>5, <1>6 DEF AgentNext, Planning, Execute, agentVars

LEMMA AgentInvariant == AgentSpec => []AgentInv
<1>1. AgentInv /\ [AgentNext]_agentVars => AgentInv'
  BY AgentExecutionInv, AgentFresh, AgentCounted DEF AgentInv
<1> QED
  BY <1>1, InitAgentInv, PTL DEF AgentSpec

\* Whatever the model proposes and the validator lets through, the steps of the
\* plan run in the order of its dependencies.
THEOREM AgentDependenciesComeFirst == AgentSpec => []DependenciesFirst
<1>1. AgentInv => DependenciesFirst
  BY DEF AgentInv, ExecutionInv, Runs
<1> QED
  BY <1>1, AgentInvariant, PTL

\* The governor's counters cover what was done, over the whole run.
THEOREM AgentBudgetIsKept == AgentSpec => []BudgetIsKept
<1>1. AgentInv => BudgetIsKept
  BY SpendingIsEnough DEF AgentInv, ExecutionInv, Counted, BudgetIsKept, Returns
<1> QED
  BY <1>1, AgentInvariant, PTL

\* In an agent run, too, what was skipped was never started and had a reason.
THEOREM AgentSkipsHaveReasons == AgentSpec => []SkippedForAReason
<1>1. AgentInv => SkippedForAReason
  BY ReasonedSkips DEF AgentInv
<1> QED
  BY <1>1, AgentInvariant, PTL

\* And the status returned is the row's.
THEOREM AgentReportsMatchTheRow == AgentSpec => []ReportMatchesRow
<1>1. AgentInv => ReportMatchesRow
  BY MatchingReports DEF AgentInv
<1> QED
  BY <1>1, AgentInvariant, PTL

-----------------------------------------------------------------------------
(***************************************************************************)
(* The governor's limits.                                                  *)
(***************************************************************************)
PlannerTyped ==
  /\ point \in {"none", "resolve", "call", "parse"}
  /\ available \in {Unprobed} \cup SUBSET Reasoners
  /\ usage.tokens <= MaxTokens /\ usage.repairs <= MaxRepairs
  /\ attempt <= MaxReplans
  /\ cyclic \in [Steps -> SUBSET Steps]

LEMMA InitPlannerTyped == AgentInit => PlannerTyped
BY AgentAssumption DEF AgentInit, PlannerTyped, NoPlan

LEMMA CyclicPlanIsTyped ==
  ASSUME NEW p \in Cyclic
  PROVE  p.depends_on \in [Steps -> SUBSET Steps]
<1>1. p \in Proposals /\ ~Errors(p)
  BY DEF Cyclic, WellFormed
<1>2. \A s \in Steps : Stranger \notin p.depends_on[s]
  BY <1>1 DEF Errors
<1> QED
  BY <1>1, <1>2 DEF Proposals

\* A call is sent only if the tokens it may generate are left.
LEMMA PostedKeepsLimits ==
  ASSUME Counted, Posted, usage.tokens <= MaxTokens
  PROVE  usage'.tokens <= MaxTokens /\ usage'.repairs = usage.repairs
<1>1. usage \in [llm : Nat, tokens : Nat, repairs : Nat]
  BY DEF Counted
<1>2. Requested \in Nat /\ MaxTokens \in Nat
  BY AgentAssumption
<1>3. Requested <= MaxTokens - usage.tokens
  <2>1. ~(Requested > MaxTokens - usage.tokens)
    BY Zenon DEF Posted, NoTokens
  <2> QED
    BY <1>1, <1>2, <2>1
<1>4. CASE usage' = [usage EXCEPT !.llm = @ + 1]
  BY <1>1, <1>4
<1>5. ASSUME NEW generated \in 0 .. Requested,
             usage' = [usage EXCEPT !.llm = @ + 1, !.tokens = @ + generated]
      PROVE  usage'.tokens <= MaxTokens /\ usage'.repairs = usage.repairs
  <2>1. usage'.tokens = usage.tokens + generated /\ usage'.repairs = usage.repairs
    BY <1>1, <1>5
  <2> QED
    BY <1>1, <1>2, <1>3, <2>1
<1> QED
  BY <1>4, <1>5 DEF Posted

LEMMA PlannerTypedStep ==
  ASSUME AgentInv, PlannerTyped, [AgentNext]_agentVars
  PROVE  PlannerTyped'
<1> USE DEF PlannerTyped
<1>1. Counted
  BY DEF AgentInv
<1>2. CASE Resolve
  BY <1>2 DEF Resolve, Refreshed, Fail
<1>3. CASE CallModel
  <2>1. UNCHANGED <<available, attempt, cyclic>>
    BY <1>3 DEF CallModel
  <2>2. CASE Denied
    BY <2>1, <2>2 DEF Denied, Fail
  <2>3. CASE Posted
    <3>1. point' \in {"none", "parse"}
      BY <2>3 DEF Posted, Fail
    <3> QED
      BY <1>1, <2>1, <2>3, <3>1, PostedKeepsLimits
  <2> QED
    BY <1>3, <2>2, <2>3 DEF CallModel
<1>4. CASE RefusePlan
  BY <1>4, CyclicPlanIsTyped DEF RefusePlan, Fail
<1>5. CASE AcceptPlan \/ ParseReplacement
  BY <1>5 DEF AcceptPlan, ParseReplacement, Fail
<1>6. CASE Replan
  <2>1. usage \in [llm : Nat, tokens : Nat, repairs : Nat] /\ attempt \in Nat
    BY <1>1 DEF Counted
  <2>2. attempt' <= MaxReplans /\ UNCHANGED <<available, cyclic>>
        /\ point' \in {"none", "resolve", "call", "parse"}
    BY <1>6, <2>1, AgentAssumption DEF Replan, CanReplan
  <2>3. CASE usage.repairs < MaxRepairs /\ usage' = [usage EXCEPT !.repairs = @ + 1]
    BY <2>1, <2>2, <2>3, AgentAssumption
  <2>4. CASE UNCHANGED usage
    BY <2>2, <2>4
  <2> QED
    BY <1>6, <2>3, <2>4 DEF Replan
<1>7. CASE UNCHANGED planningVars
  BY <1>7 DEF planningVars
<1> QED
  BY <1>2, <1>3, <1>4, <1>5, <1>6, <1>7 DEF AgentNext, Planning, Execute, agentVars

\* Planner, replanner and executor together keep their types, and with them
\* the governor's limits on calls, tokens, repairs, slots and tool calls.
THEOREM AgentTypeCorrect == AgentSpec => []AgentTypeOK
<1>1. AgentSpec => []PlannerTyped
  <2>1. AgentInv /\ PlannerTyped /\ [AgentNext]_agentVars => PlannerTyped'
    BY PlannerTypedStep
  <2> QED
    BY <2>1, InitPlannerTyped, AgentInvariant, PTL DEF AgentSpec
<1>2. ASSUME AgentInv, PlannerTyped
      PROVE  AgentTypeOK
  <2>1. usage \in [llm : 0 .. MaxLlmCalls, tokens : 0 .. MaxTokens, repairs : 0 .. MaxRepairs]
    <3>1. /\ usage \in [llm : Nat, tokens : Nat, repairs : Nat]
          /\ usage.llm <= MaxLlmCalls /\ usage.tokens <= MaxTokens /\ usage.repairs <= MaxRepairs
      BY <1>2 DEF AgentInv, Counted, PlannerTyped
    <3> QED
      BY <3>1, AgentAssumption
  <2>2. ExecutionTypeOK
    BY <1>2 DEF AgentInv, ExecutionInv, Typed
  <2> QED
    BY <1>2, <2>1, <2>2, AgentAssumption DEF AgentInv, Counted, PlannerTyped, AgentTypeOK
<1> QED
  BY <1>1, <1>2, AgentInvariant, PTL

-----------------------------------------------------------------------------
\* In an agent run, too, nothing is started once the task is cancelled.
THEOREM AgentCancellationStopsScheduling == AgentSpec => CancelStopsScheduling
<1>1. ASSUME AgentInv, [AgentNext]_agentVars
      PROVE  [manager = "durable" /\ IsCancelled => futures' \subseteq futures]_vars
  <2>1. CASE [Next]_vars
    BY <1>1, <2>1, StartsOnlyIfRunning DEF AgentInv
  <2>2. CASE AcceptPlan
    BY <2>2 DEF AcceptPlan, sets
  <2> QED
    BY <1>1, <2>1, <2>2, AgentSteps
<1> QED
  BY <1>1, AgentInvariant, PTL DEF AgentSpec, CancelStopsScheduling

\* Nor does the planner around it write to the row.
THEOREM AgentLosesNoUpdate == AgentSpec => RowIsOperatedOn
<1>1. ASSUME AgentInv, [AgentNext]_agentVars
      PROVE  [task' = task \/ OneOperation(task, task')]_vars
  BY <1>1, AgentSteps, NextMoves DEF AgentInv, ExecutionInv, RowMoves, AcceptPlan
<1> QED
  BY <1>1, AgentInvariant, PTL DEF AgentSpec, RowIsOperatedOn

-----------------------------------------------------------------------------
(***************************************************************************)
(* The search for cycles.  visit() is the recursive function of the model: *)
(* it exists, because every call that calls itself is visiting one more    *)
(* step.  A search that ends is sound: what it has found is a cycle, and   *)
(* what it has visited has none.                                           *)
(***************************************************************************)
Graphs == [Steps -> SUBSET Steps]

\* F is visit() in the graph d.
Visits(F, d) == F = [s \in Steps |-> [q \in Searches |-> Explore(d, F, s, q)]]

\* The searches that have found a cycle, and those on the way through V.
Stopped == {q \in Searches : q.cycle}
Within(V) == {q \in Searches : q.visiting = V}

\* What is being visited leads to s: each step of it is in a set of them whose
\* members all depend on a member or on s.
LeadsTo(d, V, s) ==
  \A v \in V : \E C \in SUBSET V : v \in C /\ \A x \in C : d[x] \cap (C \cup {s}) # {}

\* What was visited depends on nothing else, and has no cycle.
Clean(d, q) ==
  /\ q.visited \cap q.visiting = {}
  /\ \A x \in q.visited : d[x] \subseteq q.visited
  /\ \A C \in SUBSET q.visited : C # {} => \E x \in C : d[x] \cap C = {}

Sound(d, q) == IF q \in Stopped THEN ~Acyclic(d) ELSE Clean(d, q)

\* What a visit of the steps T makes of the search q.
Visited(d, T, q, r) ==
  /\ r \in Within(q.visiting) /\ Sound(d, r)
  /\ r \notin Stopped => q \notin Stopped /\ T \cup q.visited \subseteq r.visited

LEMMA SearchFields ==
  ASSUME NEW q \in Searches, NEW s \in Steps
  PROVE  /\ Enter(q, s) \in Searches /\ Leave(q, s) \in Searches /\ Found(q) \in Searches
         /\ Enter(q, s).visiting = q.visiting \cup {s} /\ Enter(q, s).visited = q.visited
         /\ Leave(q, s).visiting = q.visiting \ {s}
         /\ Leave(q, s).visited = q.visited \cup {s}
         /\ Found(q).visiting = q.visiting
BY DEF Enter, Leave, Found, Searches

LEMMA SearchEnds ==
  ASSUME NEW q \in Searches, NEW s \in Steps
  PROVE  /\ Enter(q, s) \in Stopped <=> q \in Stopped
         /\ Leave(q, s) \in Stopped <=> q \in Stopped
         /\ Found(q) \in Stopped
<1>1. Enter(q, s) \in Searches /\ Leave(q, s) \in Searches /\ Found(q) \in Searches
  BY SearchFields
<1>2. Found(q).cycle
  BY DEF Found, Searches
<1>3. Enter(q, s).cycle = q.cycle /\ Leave(q, s).cycle = q.cycle
  BY Zenon DEF Enter, Leave, Searches
<1>4. QED
  BY <1>1, <1>2, <1>3, Zenon DEF Stopped

LEMMA ExploreCases ==
  ASSUME NEW d, NEW F, NEW q \in Searches, NEW s \in Steps
  PROVE  /\ q \in Stopped \/ s \in q.visiting => Explore(d, F, s, q) = Found(q)
         /\ q \notin Stopped /\ s \notin q.visiting =>
              Explore(d, F, s, q) =
                IF s \in q.visited THEN q ELSE Leave(VisitAll(F, Enter(q, s), d[s]), s)
<1>1. q \in Stopped <=> q.cycle
  BY Zenon DEF Stopped
<1>2. QED
  BY <1>1, Zenon DEF Explore

\* A visit depends on those of the steps below it only, and takes off those
\* being visited what it has put there.
LEMMA ExploreKeeps ==
  ASSUME IsFiniteSet(Steps), NEW d \in Graphs, NEW F, NEW G, NEW q \in Searches, NEW s \in Steps,
         s \notin q.visiting =>
           \A t \in Steps : \A r \in Within(q.visiting \cup {s}) :
             F[t][r] \in Within(q.visiting \cup {s}) /\ G[t][r] = F[t][r]
  PROVE  /\ Explore(d, F, s, q) \in Within(q.visiting)
         /\ Explore(d, G, s, q) = Explore(d, F, s, q)
<1>1. CASE q \in Stopped \/ s \in q.visiting
  <2>1. Found(q) \in Within(q.visiting)
    BY SearchFields DEF Within
  <2>2. QED
    BY <1>1, <2>1, ExploreCases
<1>2. CASE q \notin Stopped /\ s \notin q.visiting /\ s \in q.visited
  BY <1>2, ExploreCases DEF Within
<1>3. CASE q \notin Stopped /\ s \notin q.visiting /\ s \notin q.visited
  <2> DEFINE R == Within(q.visiting \cup {s})
             r == VisitAll(F, Enter(q, s), d[s])
  <2>1. Enter(q, s) \in R
    BY SearchFields DEF Within
  <2>2. \A t \in d[s] : \A p \in R : F[t][p] \in R /\ G[t][p] = F[t][p]
    BY <1>3 DEF Graphs
  <2>3. IsFiniteSet(d[s])
    BY FS_Subset DEF Graphs
  <2> HIDE DEF R
  <2>4. r \in R /\ VisitAll(G, Enter(q, s), d[s]) = r
    <3> DEFINE e == Enter(q, s)
               T == d[s]
    <3>1. e \in R /\ IsFiniteSet(T)
      BY <2>1, <2>3
    <3>2. \A t \in T : \A p \in R : F[t][p] \in R /\ G[t][p] = F[t][p]
      BY <2>2
    <3>3. r = Folded(F, e, T) /\ VisitAll(G, e, T) = Folded(G, e, T)
      BY DEF VisitAll, Folded
    <3> HIDE DEF e, T, r
    <3>4. Folded(F, e, T) = Folded(G, e, T) /\ Folded(F, e, T) \in R
      BY <3>1, <3>2, FoldedAgrees
    <3>5. QED
      BY <3>3, <3>4 DEF e, T
  <2> HIDE DEF r
  <2>5. r \in Searches /\ r.visiting = q.visiting \cup {s}
    BY <2>4 DEF R, Within
  <2>6. Leave(r, s) \in Within(q.visiting)
    <3>1. Leave(r, s) \in Searches /\ Leave(r, s).visiting = (q.visiting \cup {s}) \ {s}
      BY <2>5, SearchFields
    <3>2. (q.visiting \cup {s}) \ {s} = q.visiting
      BY <1>3
    <3>3. QED
      BY <3>1, <3>2 DEF Within
  <2>7. Explore(d, F, s, q) = Leave(r, s) /\ Explore(d, G, s, q) = Leave(r, s)
    BY <1>3, <2>4, ExploreCases DEF r
  <2>8. QED
    BY <2>6, <2>7
<1>4. QED
  BY <1>1, <1>2, <1>3

LEMMA RoomShrinks ==
  ASSUME IsFiniteSet(Steps), NEW V \in SUBSET Steps, NEW s \in Steps \ V
  PROVE  /\ Cardinality(Steps \ V) \in Nat
         /\ Cardinality(Steps \ (V \cup {s})) = Cardinality(Steps \ V) - 1
<1> DEFINE A == Steps \ V
<1>1. IsFiniteSet(A) /\ s \in A
  BY FS_Subset
<1>2. A \ {s} = Steps \ (V \cup {s})
  OBVIOUS
<1> HIDE DEF A
<1>3. Cardinality(A) \in Nat
  BY <1>1, FS_CardinalityType
<1>4. Cardinality(A \ {s}) = Cardinality(A) - 1
  BY <1>1, FS_RemoveElement
<1>5. QED
  BY <1>2, <1>3, <1>4 DEF A

\* With n steps that are not being visited, F is visit().
VisitsUpto(F, d, n) ==
  \A s \in Steps : \A q \in Searches : Cardinality(Steps \ q.visiting) < n =>
    F[s][q] = Explore(d, F, s, q) /\ F[s][q] \in Within(q.visiting)

LEMMA NaturalIsNotNegative == \A n \in Nat : ~ (n < 0)
OBVIOUS

\* With one step less to visit there is room for less than n of them.
LEMMA LessRoom ==
  ASSUME NEW n \in Nat, NEW k \in Nat, NEW m, m = k - 1, k < n + 1
  PROVE  m < n
OBVIOUS

LEMMA VisitsExist ==
  ASSUME IsFiniteSet(Steps), NEW d \in Graphs
  PROVE  \E F : Visits(F, d)
<1> DEFINE Unfold(G) == [s \in Steps |-> [q \in Searches |-> Explore(d, G, s, q)]]
           Good == {n \in Nat : \E G : G = [s \in Steps |-> [q \in Searches |-> G[s][q]]]
                                       /\ VisitsUpto(G, d, n)}
<1>1. \A q \in Searches : q.visiting \in SUBSET Steps /\ Cardinality(Steps \ q.visiting) \in Nat
  BY FS_Subset, FS_CardinalityType DEF Searches
<1>2. 0 \in Good
  <2> DEFINE G == [s \in Steps |-> [q \in Searches |-> q]]
  <2>1. G = [s \in Steps |-> [q \in Searches |-> G[s][q]]]
    OBVIOUS
  <2> HIDE DEF G
  <2>2. \A q \in Searches : ~ (Cardinality(Steps \ q.visiting) < 0)
    BY <1>1, NaturalIsNotNegative
  <2>3. VisitsUpto(G, d, 0)
    BY <2>2 DEF VisitsUpto
  <2>4. QED
    BY <2>1, <2>3
<1>3. \A n \in Good : n + 1 \in Good
  <2> TAKE n \in Good
  <2>1. PICK G : G = [s \in Steps |-> [q \in Searches |-> G[s][q]]] /\ VisitsUpto(G, d, n)
    OBVIOUS
  <2> DEFINE H == Unfold(G)
  <2>2. \A s \in Steps : \A q \in Searches : H[s][q] = Explore(d, G, s, q)
    OBVIOUS
  <2>3. H = [s \in Steps |-> [q \in Searches |-> H[s][q]]]
    OBVIOUS
  <2> HIDE DEF H
  <2>4. ASSUME NEW s \in Steps, NEW q \in Searches, Cardinality(Steps \ q.visiting) < n + 1
        PROVE  H[s][q] = Explore(d, H, s, q) /\ H[s][q] \in Within(q.visiting)
    <3>1. ASSUME s \notin q.visiting, NEW t \in Steps, NEW r \in Within(q.visiting \cup {s})
          PROVE  G[t][r] \in Within(q.visiting \cup {s}) /\ H[t][r] = G[t][r]
      <4>1. r \in Searches /\ r.visiting = q.visiting \cup {s}
        BY <3>1 DEF Within
      <4>2. Cardinality(Steps \ (q.visiting \cup {s})) < n
        <5>1. Cardinality(Steps \ (q.visiting \cup {s})) = Cardinality(Steps \ q.visiting) - 1
          BY <1>1, <3>1, RoomShrinks
        <5>2. n \in Nat /\ Cardinality(Steps \ q.visiting) \in Nat
          BY <1>1
        <5> HIDE DEF Good
        <5>3. QED
          BY <2>4, <5>1, <5>2, LessRoom
      <4>3. G[t][r] = Explore(d, G, t, r) /\ G[t][r] \in Within(r.visiting)
        BY <2>1, <4>1, <4>2 DEF VisitsUpto
      <4>4. QED
        BY <2>2, <4>1, <4>3
    <3>2. Explore(d, G, s, q) \in Within(q.visiting) /\ Explore(d, H, s, q) = Explore(d, G, s, q)
      BY <3>1, ExploreKeeps
    <3>3. QED
      BY <2>2, <3>2
  <2>5. VisitsUpto(H, d, n + 1)
    BY <2>4 DEF VisitsUpto
  <2>6. QED
    BY <2>3, <2>5
<1> HIDE DEF Good
<1>4. Good = Nat
  <2>1. Good \in SUBSET Nat
    BY DEF Good
  <2>2. QED
    BY <1>2, <1>3, <2>1, NumberInduction
<1> DEFINE n == Cardinality(Steps) + 1
<1>5. n \in Nat /\ \A q \in Searches : Cardinality(Steps \ q.visiting) < n
  <2>1. Cardinality(Steps) \in Nat
    BY FS_CardinalityType
  <2>2. \A V : Cardinality(Steps \ V) <= Cardinality(Steps)
    BY FS_Subset
  <2>3. ASSUME NEW q \in Searches
        PROVE  Cardinality(Steps \ q.visiting) < n
    <3>1. Cardinality(Steps \ q.visiting) \in Nat
      BY <1>1
    <3>2. Cardinality(Steps \ q.visiting) <= Cardinality(Steps)
      BY <2>2
    <3>3. QED
      BY <2>1, <3>1, <3>2
  <2>4. n \in Nat
    BY <2>1
  <2> HIDE DEF n
  <2>5. QED
    BY <2>3, <2>4
<1> HIDE DEF n
<1>6. PICK G : G = [s \in Steps |-> [q \in Searches |-> G[s][q]]] /\ VisitsUpto(G, d, n)
  <2>1. n \in Good
    BY <1>4, <1>5
  <2>2. QED
    BY <2>1 DEF Good
<1>7. \A s \in Steps : \A q \in Searches : G[s][q] = Explore(d, G, s, q)
  BY <1>5, <1>6 DEF VisitsUpto
<1>8. G = [s \in Steps |-> [q \in Searches |-> Explore(d, G, s, q)]]
  BY <1>6, <1>7
<1>9. QED
  BY <1>8 DEF Visits

LEMMA HasCycleVisits ==
  ASSUME IsFiniteSet(Steps), NEW d \in Graphs
  PROVE  \E F : Visits(F, d) /\ HasCycle(d) = VisitAll(F, Unvisited, Steps).cycle
<1> DEFINE F == CHOOSE visit : Visits(visit, d)
<1>1. Visits(F, d)
  BY VisitsExist
<1>2. HasCycle(d) = VisitAll(F, Unvisited, Steps).cycle
  BY DEF HasCycle, Visits
<1>3. QED
  BY <1>1, <1>2

LEMMA LeadsOn ==
  ASSUME NEW d \in Graphs, NEW V \in SUBSET Steps, NEW s \in Steps, LeadsTo(d, V, s),
         NEW t \in d[s]
  PROVE  LeadsTo(d, V \cup {s}, t)
<1>1. ASSUME NEW v \in V
      PROVE  \E C \in SUBSET (V \cup {s}) : v \in C /\ \A x \in C : d[x] \cap (C \cup {t}) # {}
  <2>1. PICK C \in SUBSET V : v \in C /\ \A x \in C : d[x] \cap (C \cup {s}) # {}
    BY <1>1 DEF LeadsTo
  <2>2. \A x \in C \cup {s} : d[x] \cap ((C \cup {s}) \cup {t}) # {}
    BY <2>1
  <2>3. C \cup {s} \in SUBSET (V \cup {s}) /\ v \in C \cup {s}
    BY <2>1
  <2>4. QED
    BY <2>2, <2>3
<1>2. \E C \in SUBSET (V \cup {s}) : s \in C /\ \A x \in C : d[x] \cap (C \cup {t}) # {}
  <2>1. {s} \in SUBSET (V \cup {s}) /\ \A x \in {s} : d[x] \cap ({s} \cup {t}) # {}
    OBVIOUS
  <2>2. QED
    BY <2>1
<1>3. QED
  BY <1>1, <1>2 DEF LeadsTo

LEMMA CycleFound ==
  ASSUME NEW d \in Graphs, NEW V \in SUBSET Steps, NEW s \in V, LeadsTo(d, V, s)
  PROVE  ~Acyclic(d)
<1>1. PICK C \in SUBSET V : s \in C /\ \A x \in C : d[x] \cap (C \cup {s}) # {}
  BY DEF LeadsTo
<1>2. C \cup {s} = C /\ C \in SUBSET Steps /\ C # {}
  BY <1>1
<1>3. QED
  BY <1>1, <1>2 DEF Acyclic

LEMMA EnterSound ==
  ASSUME NEW d \in Graphs, NEW q \in Searches, q \notin Stopped, Sound(d, q),
         NEW s \in Steps, s \notin q.visited
  PROVE  Enter(q, s) \notin Stopped /\ Sound(d, Enter(q, s))
<1>1. Clean(d, q)
  BY DEF Sound
<1>2. Enter(q, s) \notin Stopped
  BY SearchEnds
<1>3. Enter(q, s).visiting = q.visiting \cup {s} /\ Enter(q, s).visited = q.visited
  BY SearchFields
<1>4. Clean(d, Enter(q, s))
  BY <1>1, <1>3 DEF Clean
<1>5. QED
  BY <1>2, <1>4 DEF Sound

LEMMA LeaveSound ==
  ASSUME NEW d \in Graphs, NEW r \in Searches, Sound(d, r), NEW s \in r.visiting,
         r \notin Stopped => d[s] \subseteq r.visited
  PROVE  Sound(d, Leave(r, s))
<1>1. s \in Steps /\ r.visited \in SUBSET Steps
  BY DEF Searches
<1>2. Leave(r, s) \in Stopped <=> r \in Stopped
  BY <1>1, SearchEnds
<1>3. CASE r \in Stopped
  BY <1>2, <1>3 DEF Sound
<1>4. CASE r \notin Stopped
  <2>1. Clean(d, r) /\ d[s] \subseteq r.visited
    BY <1>4 DEF Sound
  <2>2. s \notin r.visited
    BY <2>1 DEF Clean
  <2>3. Leave(r, s).visiting = r.visiting \ {s} /\ Leave(r, s).visited = r.visited \cup {s}
    BY <1>1, SearchFields
  <2>4. ASSUME NEW C \in SUBSET (r.visited \cup {s}), C # {}
        PROVE  \E x \in C : d[x] \cap C = {}
    <3>1. CASE C \cap r.visited = {}
      <4>1. C = {s}
        BY <2>4, <3>1
      <4>2. d[s] \cap C = {}
        BY <2>1, <2>2, <4>1
      <4>3. QED
        BY <4>1, <4>2
    <3>2. CASE C \cap r.visited # {}
      <4> DEFINE D == C \cap r.visited
      <4>1. PICK x \in D : d[x] \cap D = {}
        <5>1. D \in SUBSET r.visited /\ D # {}
          BY <3>2
        <5> HIDE DEF D
        <5>2. QED
          BY <2>1, <5>1 DEF Clean
      <4>2. d[x] \subseteq r.visited
        BY <2>1 DEF Clean
      <4>3. d[x] \cap C = {}
        BY <2>2, <4>1, <4>2
      <4>4. QED
        BY <4>3
    <3>3. QED
      BY <3>1, <3>2
  <2>5. \A x \in r.visited \cup {s} : d[x] \subseteq r.visited \cup {s}
    BY <2>1 DEF Clean
  <2>6. (r.visited \cup {s}) \cap (r.visiting \ {s}) = {}
    BY <2>1 DEF Clean
  <2>7. Clean(d, Leave(r, s))
    BY <2>3, <2>4, <2>5, <2>6 DEF Clean
  <2>8. QED
    BY <1>2, <1>4, <2>7 DEF Sound
<1>5. QED
  BY <1>3, <1>4

LEMMA VisitAllSound ==
  ASSUME NEW d \in Graphs, NEW F, NEW T \in SUBSET Steps, IsFiniteSet(T),
         NEW q \in Searches, Sound(d, q),
         \A t \in T : \A r \in Within(q.visiting) :
           Sound(d, r) => Visited(d, {t}, r, F[t][r])
  PROVE  Visited(d, T, q, VisitAll(F, q, T))
<1> DEFINE R == [S \in SUBSET T |-> {r \in Searches : Visited(d, S, q, r)}]
<1>1. q \in R[{}]
  BY DEF Visited, Within
<1>2. ASSUME NEW S \in SUBSET T, S # {}, NEW r \in R[S \ {Pick(S)}]
      PROVE  F[Pick(S)][r] \in R[S]
  <2> DEFINE t == Pick(S)
             p == F[t][r]
  <2>1. t \in S /\ S \ {t} \in SUBSET T
    BY <1>2, PickFacts
  <2> HIDE DEF t
  <2>2. r \in Searches /\ Visited(d, S \ {t}, q, r)
    BY <1>2, <2>1 DEF t
  <2>3. r \in Within(q.visiting) /\ Sound(d, r)
    BY <2>2 DEF Visited
  <2>4. Visited(d, {t}, r, p)
    BY <2>1, <2>3
  <2> HIDE DEF p
  <2>5. r.visiting = q.visiting
    BY <2>3 DEF Within
  <2>6. Visited(d, S, q, p)
    BY <2>1, <2>2, <2>4, <2>5 DEF Visited
  <2>7. p \in Searches
    BY <2>4 DEF Visited, Within
  <2>8. QED
    BY <2>6, <2>7 DEF p, t
<1> HIDE DEF R
<1>3. Folded(F, q, T) \in R[T]
  BY <1>1, <1>2, FoldedKeeps
<1>4. VisitAll(F, q, T) = Folded(F, q, T)
  BY DEF VisitAll, Folded
<1>5. QED
  BY <1>3, <1>4 DEF R

LEMMA ExploreSound ==
  ASSUME IsFiniteSet(Steps), NEW d \in Graphs, NEW F, NEW s \in Steps,
         NEW q \in Searches, Sound(d, q), LeadsTo(d, q.visiting, s),
         s \notin q.visiting => \A t \in d[s] : \A r \in Within(q.visiting \cup {s}) :
           Sound(d, r) => Visited(d, {t}, r, F[t][r])
  PROVE  Visited(d, {s}, q, Explore(d, F, s, q))
<1>1. CASE q \in Stopped \/ s \in q.visiting
  <2>1. ~Acyclic(d)
    <3>1. CASE q \in Stopped
      BY <3>1 DEF Sound
    <3>2. CASE s \in q.visiting
      BY <3>2, CycleFound DEF Searches
    <3>3. QED
      BY <1>1, <3>1, <3>2
  <2>2. Found(q) \in Stopped /\ Found(q) \in Within(q.visiting)
    BY SearchFields, SearchEnds DEF Within
  <2>3. Explore(d, F, s, q) = Found(q)
    BY <1>1, ExploreCases
  <2>4. QED
    BY <2>1, <2>2, <2>3 DEF Visited, Sound
<1>2. CASE q \notin Stopped /\ s \notin q.visiting /\ s \in q.visited
  <2>1. Explore(d, F, s, q) = q
    BY <1>2, ExploreCases
  <2>2. QED
    BY <1>2, <2>1 DEF Visited, Within
<1>3. CASE q \notin Stopped /\ s \notin q.visiting /\ s \notin q.visited
  <2> DEFINE e == Enter(q, s)
             r == VisitAll(F, e, d[s])
  <2>1. e \in Searches /\ Sound(d, e)
    BY <1>3, EnterSound, SearchFields
  <2>2. e.visiting = q.visiting \cup {s} /\ e.visited = q.visited
    BY SearchFields
  <2>3. d[s] \in SUBSET Steps /\ IsFiniteSet(d[s])
    BY FS_Subset DEF Graphs
  <2>4. Explore(d, F, s, q) = Leave(r, s)
    BY <1>3, ExploreCases
  <2> HIDE DEF e
  <2>5. Visited(d, d[s], e, r)
    BY <1>3, <2>1, <2>2, <2>3, VisitAllSound
  <2> HIDE DEF r
  <2>6. /\ r \in Searches /\ r.visiting = q.visiting \cup {s} /\ Sound(d, r)
        /\ r \notin Stopped => d[s] \cup q.visited \subseteq r.visited
    BY <2>2, <2>5 DEF Visited, Within
  <2>7. Sound(d, Leave(r, s))
    BY <2>6, LeaveSound
  <2>8. Leave(r, s) \in Searches /\ Leave(r, s).visited = r.visited \cup {s}
    BY <2>6, SearchFields
  <2>9. Leave(r, s).visiting = q.visiting
    <3>1. Leave(r, s).visiting = (q.visiting \cup {s}) \ {s}
      BY <2>6, SearchFields
    <3>2. (q.visiting \cup {s}) \ {s} = q.visiting
      BY <1>3
    <3>3. QED
      BY <3>1, <3>2
  <2>10. Leave(r, s) \notin Stopped => q.visited \cup {s} \subseteq Leave(r, s).visited
    <3>1. Leave(r, s) \in Stopped <=> r \in Stopped
      BY <2>6, SearchEnds
    <3>2. QED
      BY <2>6, <2>8, <3>1
  <2>11. QED
    BY <1>3, <2>4, <2>7, <2>8, <2>9, <2>10 DEF Visited, Within
<1>4. QED
  BY <1>1, <1>2, <1>3

LEMMA VisitsSound ==
  ASSUME IsFiniteSet(Steps), NEW d \in Graphs, NEW F, Visits(F, d),
         NEW s \in Steps, NEW q \in Searches, Sound(d, q), LeadsTo(d, q.visiting, s)
  PROVE  Visited(d, {s}, q, F[s][q])
<1> DEFINE Upto(n) ==
             \A t \in Steps : \A p \in Searches :
               Sound(d, p) /\ LeadsTo(d, p.visiting, t) /\ Cardinality(Steps \ p.visiting) < n
                 => Visited(d, {t}, p, F[t][p])
           Good == {n \in Nat : Upto(n)}
<1>1. \A p \in Searches : p.visiting \in SUBSET Steps /\ Cardinality(Steps \ p.visiting) \in Nat
  BY FS_Subset, FS_CardinalityType DEF Searches
<1>2. 0 \in Good
  <2>1. \A p \in Searches : ~ (Cardinality(Steps \ p.visiting) < 0)
    BY <1>1, NaturalIsNotNegative
  <2>2. QED
    BY <2>1
<1>3. ASSUME NEW n \in Good
      PROVE  n + 1 \in Good
  <2>1. ASSUME NEW t \in Steps, NEW p \in Searches, Sound(d, p), LeadsTo(d, p.visiting, t),
               Cardinality(Steps \ p.visiting) < n + 1
        PROVE  Visited(d, {t}, p, F[t][p])
    <3>1. ASSUME t \notin p.visiting, NEW u \in d[t], NEW r \in Within(p.visiting \cup {t}),
                 Sound(d, r)
          PROVE  Visited(d, {u}, r, F[u][r])
      <4>1. r \in Searches /\ r.visiting = p.visiting \cup {t} /\ u \in Steps
        BY <3>1 DEF Within, Graphs
      <4>2. LeadsTo(d, r.visiting, u)
        BY <1>1, <2>1, <3>1, <4>1, LeadsOn
      <4>3. Cardinality(Steps \ (p.visiting \cup {t})) < n
        <5>1. Cardinality(Steps \ (p.visiting \cup {t})) = Cardinality(Steps \ p.visiting) - 1
          BY <1>1, <3>1, RoomShrinks
        <5>2. n \in Nat /\ Cardinality(Steps \ p.visiting) \in Nat
          BY <1>1
        <5> HIDE DEF Good, Upto
        <5>3. QED
          BY <2>1, <5>1, <5>2, LessRoom
      <4>4. Upto(n)
        OBVIOUS
      <4>5. QED
        BY <3>1, <4>1, <4>2, <4>3, <4>4
    <3> HIDE DEF Good, Upto
    <3>2. Visited(d, {t}, p, Explore(d, F, t, p))
      BY <2>1, <3>1, ExploreSound
    <3>3. F[t][p] = Explore(d, F, t, p)
      BY DEF Visits
    <3>4. QED
      BY <3>2, <3>3
  <2>2. Upto(n + 1)
    BY <2>1
  <2> HIDE DEF Upto
  <2>3. n + 1 \in Nat
    OBVIOUS
  <2>4. QED
    BY <2>2, <2>3
<1>4. Good = Nat
  <2>1. Good \in SUBSET Nat
    OBVIOUS
  <2> HIDE DEF Good
  <2>2. QED
    BY <1>2, <1>3, <2>1, NumberInduction
<1> DEFINE n == Cardinality(Steps \ q.visiting) + 1
<1>5. n \in Nat /\ Cardinality(Steps \ q.visiting) < n
  <2>1. Cardinality(Steps \ q.visiting) \in Nat
    BY <1>1
  <2> HIDE DEF Good, Upto
  <2>2. QED
    BY <2>1
<1> HIDE DEF n, Good
<1>6. Upto(n)
  <2>1. n \in Good
    BY <1>4, <1>5
  <2>2. QED
    BY <2>1 DEF Good
<1>7. QED
  BY <1>5, <1>6

LEMMA HasCycleIsExact ==
  ASSUME IsFiniteSet(Steps), NEW d \in Graphs
  PROVE  HasCycle(d) <=> ~Acyclic(d)
<1>1. PICK F : Visits(F, d) /\ HasCycle(d) = VisitAll(F, Unvisited, Steps).cycle
  BY HasCycleVisits
<1> DEFINE r == VisitAll(F, Unvisited, Steps)
<1>2. Unvisited \in Searches /\ Unvisited.visiting = {} /\ Unvisited.visited = {}
  BY DEF Unvisited, Searches
<1>3. Unvisited \notin Stopped
  <2>1. ~ Unvisited.cycle
    BY DEF Unvisited
  <2>2. QED
    BY <2>1, Zenon DEF Stopped
<1>4. Sound(d, Unvisited)
  BY <1>2, <1>3 DEF Sound, Clean
<1>5. ASSUME NEW t \in Steps, NEW p \in Within(Unvisited.visiting), Sound(d, p)
      PROVE  Visited(d, {t}, p, F[t][p])
  <2>1. p \in Searches /\ p.visiting = {}
    BY <1>2 DEF Within
  <2>2. LeadsTo(d, p.visiting, t)
    BY <2>1 DEF LeadsTo
  <2>3. QED
    BY <1>1, <1>5, <2>1, <2>2, VisitsSound
<1>6. Visited(d, Steps, Unvisited, r)
  BY <1>2, <1>4, <1>5, VisitAllSound
<1> HIDE DEF r
<1>7. r \in Searches /\ Sound(d, r) /\ (r \notin Stopped => Steps \subseteq r.visited)
  BY <1>6 DEF Visited, Within
<1>8. HasCycle(d) <=> r \in Stopped
  <2>1. HasCycle(d) = r.cycle
    BY <1>1 DEF r
  <2>2. QED
    BY <1>7, <2>1, Zenon DEF Stopped
<1>9. r \in Stopped => ~Acyclic(d)
  BY <1>7 DEF Sound
<1>10. r \notin Stopped => Acyclic(d)
  <2>1. r \notin Stopped => Clean(d, r) /\ r.visited = Steps
    BY <1>7 DEF Sound, Searches
  <2>2. QED
    BY <2>1 DEF Clean, Acyclic
<1>11. QED
  BY <1>8, <1>9, <1>10

\* PlanValidator refuses a plan for a cycle exactly if it has one, in whatever
\* order the sets of its graph are gone through.
THEOREM ValidatorDecides ==
  \A p \in Proposals : ~Errors(p) => (HasCycle(p.depends_on) <=> ~Acyclic(p.depends_on))
<1> TAKE p \in Proposals
<1> HAVE ~Errors(p)
<1>1. p.depends_on \in Graphs
  BY DEF Errors, Proposals, Graphs
<1> QED
  BY <1>1, HasCycleIsExact, PlanAssumption

Validated ==
  /\ Acyclic(deps)
  /\ cyclic # NoPlan => ~Acyclic(cyclic)

LEMMA InitValidated == AgentInit => Validated
BY PlanAssumption DEF AgentInit, Init, Validated

LEMMA PlanStays == [Next]_vars => deps' = deps
BY WorkerLeavesPlaces
DEF Next, Executor, ReadRow, SaveRow, RecordCall, LoopTop, LoopEnd, StopScheduling, PassOver,
    Deny, Reserve, Scheduled, Await, Settle, Finish, PropagateError, Raise, Continue, Cancel,
    TimeExpires, vars, given, sets

LEMMA ValidatedStep == Validated /\ [AgentNext]_agentVars => Validated'
<1> SUFFICES ASSUME Validated, [AgentNext]_agentVars PROVE Validated'
  OBVIOUS
<1>1. CASE AcceptPlan
  <2>1. PICK p \in Selectable : deps' = p.depends_on
    BY <1>1 DEF AcceptPlan
  <2>2. p \in Proposals /\ ~Errors(p) /\ ~HasCycle(p.depends_on)
    BY DEF Selectable, Cyclic, WellFormed
  <2> QED
    BY <1>1, <2>1, <2>2, ValidatorDecides DEF AcceptPlan, Validated, NoPlan
<1>2. CASE RefusePlan
  <2>1. ASSUME NEW p \in Cyclic, cyclic' = p.depends_on PROVE ~Acyclic(cyclic')
    <3>1. p \in Proposals /\ ~Errors(p) /\ HasCycle(p.depends_on)
      BY <2>1 DEF Cyclic, WellFormed
    <3> QED
      BY <2>1, <3>1, ValidatorDecides
  <2>2. UNCHANGED deps
    BY <1>2 DEF RefusePlan, vars, given
  <2> QED
    BY <1>2, <2>1, <2>2 DEF RefusePlan, Validated, NoPlan
<1>3. CASE UNCHANGED <<deps, cyclic>>
  BY <1>3 DEF Validated, NoPlan
<1>4. ASSUME ~AcceptPlan, ~RefusePlan
      PROVE  UNCHANGED <<deps, cyclic>>
  <2>1. UNCHANGED cyclic
    BY <1>4 DEF AgentNext, Planning, Resolve, CallModel, ParseReplacement, Replan, Execute,
                agentVars, planningVars
  <2>2. UNCHANGED deps
    BY <1>4, AgentSteps, PlanStays
  <2> QED
    BY <2>1, <2>2
<1> QED
  BY <1>1, <1>2, <1>3, <1>4

\* The depth-first search of PlanValidator, whose sets are shared by all visits
\* and which leaves early, lets only plans without a cycle through and refuses
\* none for a cycle it does not have.
THEOREM AgentValidatorIsExact == AgentSpec => []ValidatorIsExact
<1>1. AgentSpec => []Validated
  BY InitValidated, ValidatedStep, PTL DEF AgentSpec
<1>2. AgentInv /\ Validated => ValidatorIsExact
  BY DEF AgentInv, ExecutionInv, Typed, ExecutionTypeOK, Validated, ValidatorIsExact
<1> QED
  BY <1>1, <1>2, AgentInvariant, PTL

\* So the report of every run accounts for each step once.
THEOREM AgentReportsAreComplete == AgentSpec => []ReportIsComplete
<1>1. AgentSpec => []Validated
  BY InitValidated, ValidatedStep, PTL DEF AgentSpec
<1>2. AgentInv /\ Validated => ReportIsComplete
  BY CompleteReports DEF AgentInv, Validated
<1> QED
  BY <1>1, <1>2, AgentInvariant, PTL
-----------------------------------------------------------------------------
(***************************************************************************)
(* PlanExecution implements PlanPromise.  A step stands as execute()'s     *)
(* sets have it; each action moves the standing of one step, skips some,   *)
(* calls a tool, cancels, ends, or changes nothing a caller sees.          *)
(***************************************************************************)
LEMMA SoundPlans ==
  ASSUME NEW d
  PROVE  d \in Promise!Orders <=> d \in [Steps -> SUBSET Steps] /\ Acyclic(d)
BY DEF Promise!Orders, Acyclic

LEMMA StatusStays ==
  ASSUME NEW t \in TaskRecords, NEW s \in Steps
  PROVE  /\ Touched(StepStarted(t, s)).status = t.status
         /\ Touched(StepCompleted(t, s)).status = t.status
         /\ Touched(StepFailed(t, s)).status = t.status
BY DEF Touched, StepStarted, StepCompleted, StepFailed, Settled, WithStep, TaskRecords

\* Nothing a caller sees, but for what is said to change.
SameCalls == \A u \in Steps : worker'[u].tool = worker[u].tool
SameGiven == deps' = deps /\ manager' = manager

LEMMA StandsStill ==
  ASSUME SameGiven, SameCalls, IsCancelled' = IsCancelled, Result' = Result,
         \A u \in Steps : Standing(u)' = Standing(u)
  PROVE  UNCHANGED Promise!vars
BY DEF Promise!vars, Promise!given, SameCalls, SameGiven

LEMMA StandingBecomes ==
  ASSUME NEW s \in Steps, NEW how, Result = "none", Standing(s)' = how,
         SameGiven, SameCalls, IsCancelled' = IsCancelled, Result' = Result,
         \A u \in Steps \ {s} : Standing(u)' = Standing(u)
  PROVE  Promise!Becomes(s, how)
BY DEF Promise!Becomes, Promise!given, SameCalls, SameGiven

LEMMA StandingsSkip ==
  ASSUME NEW B \in SUBSET pending, Typed, Places, pc \in {"loop", "schedule"},
         \A s \in B : IsCancelled \/ deps[s] \cap (failed \cup skipped \cup B) # {},
         skipped' = skipped \cup B, pending' = pending \ B,
         UNCHANGED <<deps, manager, task, plan, completed, failed, futures, worker>>,
         pc' \in {"loop", "schedule"}
  PROVE  Promise!Skip(B)
<1>1. \A s \in B : s \in Steps /\ Standing(s) = "waiting" /\ s \notin failed \cup completed
  BY DEF Typed, ExecutionTypeOK, Places, Standing
<1>2. \A s \in Steps : Standing(s)' = IF s \in B THEN "skipped" ELSE Standing(s)
  BY <1>1 DEF Standing
<1>3. ASSUME NEW s \in B, ~IsCancelled
      PROVE  \E d \in deps[s] : d \in B \/ Standing(d) \in {"failed", "skipped"}
  <2>1. PICK d \in deps[s] : d \in failed \cup skipped \cup B
    BY <1>3
  <2>2. d \in B \/ Standing(d) \in {"failed", "skipped"}
    BY <2>1 DEF Places, Standing
  <2> QED
    BY <2>2
<1>4. \A s \in Steps : deps[s] \subseteq Steps
  BY DEF Typed, ExecutionTypeOK
<1>5. Result = "none" /\ Result' = "none" /\ IsCancelled' = IsCancelled
  BY DEF Result, Returned, IsCancelled
<1> QED
  BY <1>1, <1>2, <1>3, <1>4, <1>5 DEF Promise!Skip, Promise!given

\* The row becomes cancelled by the client that cancels, and by nobody else.
LEMMA OnlyTheClientCancels ==
  ASSUME ExecutionInv, [Next]_vars, ~Cancel
  PROVE  IsCancelled' = IsCancelled
<1>1. Typed /\ task \in TaskRecords
  BY DEF ExecutionInv, Typed, ExecutionTypeOK
<1>2. CASE task' = task
  BY <1>2 DEF IsCancelled
<1>3. CASE SaveRow /\ task' = Touched(After(pc, copy, at))
  <2>1. copy \in TaskRecords /\ pc \in StateCalls /\ Allowed(pc, copy, at)
    BY <1>1, <1>3 DEF SaveRow, Typed, ExecutionTypeOK
  <2>2. ~IsCancelled'
    <3>1. CASE pc \in {"start_step", "deny_step", "complete_step", "fail_step"}
      <4>1. at \in Steps /\ copy.status # "cancelled"
        BY <1>1, <2>1, <3>1 DEF Typed, StepPoints, Allowed, CanStartStep, CanSettleStep, Closed
      <4> QED
        BY <1>3, <2>1, <3>1, <4>1, StatusStays DEF After, IsCancelled
    <3>2. CASE pc \in {"start_task", "fail_task", "complete_task"}
      BY <1>3, <2>1, <3>2 DEF After, TaskStarted, TaskFailed, TaskCompleted, Touched, IsCancelled,
                              TaskRecords
    <3> QED
      BY <2>1, <3>1, <3>2 DEF StateCalls
  <2> QED
    BY <1>1, <2>2, CancelledForGood DEF ExecutionInv, IsCancelled
<1>4. ASSUME NEW s \in Steps, WorkerSaves(s), task' # task PROVE IsCancelled' = IsCancelled
  <2>1. worker[s].copy = task
    BY <1>4 DEF WorkerSaves, ExecutionInv, Copies, CopyOfRow
  <2>2. task'.status = task.status
    BY <1>1, <1>4, <2>1, StatusStays DEF WorkerSaves
  <2> QED
    BY <2>2 DEF IsCancelled
<1> QED
  BY <1>2, <1>3, <1>4
  DEF Next, Executor, ReadRow, SaveRow, RecordCall, LoopTop, LoopEnd, StopScheduling, PassOver,
      Deny, Reserve, Scheduled, Await, Settle, Finish, PropagateError, Worker, Dequeue, RunTool,
      ToolRaises, WorkerReads, WorkerSaves, WorkerRecords, TimeExpires, vars

PromisedStep == [Promise!Next]_(Promise!vars)

\* The step that a start, a denial or a result concerns is where it should be.
LEMMA StandingOfStep ==
  ASSUME ExecutionInv, NEW s \in Steps
  PROVE  /\ s \in pending /\ s \notin failed => Standing(s) = "waiting"
         /\ s \in futures => Standing(s) = "working"
         /\ pc = "settle" /\ s = at /\ s \notin failed => Standing(s) = "working"
         /\ Standing(s) = "working" => s \in futures \/ (pc = "settle" /\ s = at)
         /\ s \in failed => Standing(s) = "failed"
BY DEF ExecutionInv, Places, Standing

LEMMA DependenciesStand ==
  ASSUME ExecutionInv, NEW s \in Steps, deps[s] \subseteq completed
  PROVE  Promise!Enabled(s)
BY DEF Promise!Enabled, ExecutionInv, Typed, ExecutionTypeOK, Standing

LEMMA ReturnAsPromised ==
  ASSUME ExecutionInv, Acyclic(deps), pc \in Ending \ {"returned"}, pc' = "returned",
         plan' # "running", plan' = plan \/ (plan' = "cancelled" /\ IsCancelled),
         UNCHANGED <<deps, manager, sets, worker>>, IsCancelled' = IsCancelled
  PROVE  Promise!Return
<1>1. Result = "none" /\ Result' = plan'
  BY DEF Result, Returned, Ending
<1>2. \A s \in Steps : Standing(s) \in {"passed", "failed", "skipped"} /\ Standing(s)' = Standing(s)
  BY DEF ExecutionInv, Places, Ending, Standing, sets
<1>3. plan' = "failed" => \E s \in Steps : Standing(s) = "failed"
  BY StandingOfStep DEF ExecutionInv, Typed, ExecutionTypeOK, Outcome
<1>4. plan' = "completed" => \A s \in Steps : Standing(s) = "passed"
  BY DEF ExecutionInv, Outcome, Standing
<1>5. plan' \in {"failed", "completed"} \/ (plan' = "cancelled" /\ IsCancelled)
  BY DEF ExecutionInv, Typed, ExecutionTypeOK, Outcome
<1> QED
  BY <1>1, <1>2, <1>3, <1>4, <1>5 DEF Promise!Return, Promise!given

LEMMA ContinueKeepsPromise ==
  ASSUME ExecutionInv, Acyclic(deps), Continue, IsCancelled' = IsCancelled,
         pc = "start_step" => ~(manager = "durable" /\ IsCancelled)
  PROVE  PromisedStep
<1> USE DEF PromisedStep, Promise!Next
<1>1. CASE pc = "start_step"
  <2> PICK s \in Steps : s = at
    BY <1>1 DEF ExecutionInv, Typed, StepPoints
  <2>1. s \in pending /\ s \notin failed /\ deps[s] \subseteq completed
    BY <1>1 DEF ExecutionInv, Places, Runs
  <2>2. /\ pending' = pending \ {s}
        /\ UNCHANGED <<deps, manager, plan, completed, failed, skipped>> /\ pc' = "schedule"
    BY <1>1 DEF Continue, Goto, given
  <2>3. /\ Standing(s) = "waiting" /\ Standing(s)' = "working"
        /\ \A u \in Steps \ {s} : Standing(u)' = Standing(u)
    BY <2>1, <2>2 DEF ExecutionInv, Places, Standing
  <2>4. Result = "none" /\ Result' = "none"
    BY <1>1, <2>2 DEF Result, Returned
  <2>5. SameCalls /\ SameGiven
    BY <1>1, <2>2 DEF Continue, SameCalls, SameGiven, ExecutionInv, Typed, ExecutionTypeOK,
                      WorkerStates
  <2>6. Promise!Becomes(s, "working")
    BY <2>1, <2>3, <2>4, <2>5, StandingBecomes
  <2>7. Promise!Begin(s)
    BY <1>1, <2>1, <2>3, <2>6, DependenciesStand DEF Promise!Begin
  <2> QED
    BY <2>1, <2>7
<1>2. CASE pc \in {"start_task", "deny_step", "complete_step", "fail_step"}
  <2>1. /\ UNCHANGED <<deps, manager, plan, completed, failed, skipped, worker>>
        /\ pc' \in {"loop", "schedule"}
        /\ pending' = pending \/ (pc = "deny_step" /\ pending' = pending \ {at})
    BY <1>2 DEF Continue, Goto, given, sets
  <2>2. \A u \in Steps : Standing(u)' = Standing(u)
    BY <2>1 DEF ExecutionInv, Places, Standing
  <2>3. Result' = Result
    BY <1>2, <2>1 DEF Result, Returned
  <2> QED
    BY <2>1, <2>2, <2>3, StandsStill DEF SameGiven, SameCalls
<1>3. CASE pc \in {"fail_task", "complete_task"}
  <2>1. UNCHANGED <<deps, manager, plan, sets, worker>> /\ pc' = "returned"
    BY <1>3 DEF Continue, Goto, given
  <2>2. plan # "running"
    BY <1>3 DEF ExecutionInv, Outcome
  <2> QED
    BY <1>3, <2>1, <2>2, ReturnAsPromised DEF Ending
<1> QED
  BY <1>1, <1>2, <1>3 DEF Continue

LEMMA RowCallKeepsPromise ==
  ASSUME ExecutionInv, Acyclic(deps), [Next]_vars, SaveRow \/ RecordCall
  PROVE  PromisedStep
<1>1. IsCancelled' = IsCancelled
  <2>1. ~Cancel
    BY DEF SaveRow, RecordCall, Raise, Continue, Cancel, ExecutionInv, Typed, StateCalls, Goto
  <2> QED
    BY <2>1, OnlyTheClientCancels
<1>2. CASE Continue
  <2>1. ASSUME pc = "start_step", manager = "durable" PROVE ~IsCancelled
    <3>1. futures' = futures \cup {at} /\ at \notin futures
      BY <1>2, <2>1 DEF Continue, ExecutionInv, Places
    <3> QED
      BY <3>1, <2>1, StartsOnlyIfRunning
  <2> QED
    BY <1>1, <1>2, <2>1, ContinueKeepsPromise
<1>3. CASE Raise("conflict")
  <2>1. UNCHANGED <<given, sets, worker, plan>> /\ pc' = "raising" /\ pc \in StateCalls
    BY <1>3 DEF Raise, SaveRow, RecordCall, ExecutionInv, Typed
  <2>2. \A u \in Steps : Standing(u)' = Standing(u)
    BY <2>1 DEF Standing, sets
  <2>3. Result' = Result
    BY <2>1 DEF Result, Returned, StateCalls
  <2> QED
    BY <1>1, <2>1, <2>2, <2>3, StandsStill DEF PromisedStep, SameGiven, SameCalls, given
<1> QED
  BY <1>2, <1>3 DEF SaveRow, RecordCall

LEMMA SkipKeepsPromise ==
  ASSUME ExecutionInv, LoopTop \/ StopScheduling
  PROVE  PromisedStep
<1> USE DEF PromisedStep, Promise!Next
<1>1. /\ UNCHANGED <<deps, manager, task, plan, completed, failed, futures, worker>>
      /\ pc \in {"loop", "schedule"} /\ pc' \in {"loop", "schedule"}
  BY DEF LoopTop, StopScheduling, AtStep, Goto, given
<1>2. pending \subseteq Steps /\ Typed /\ Places
  BY DEF ExecutionInv, Typed, ExecutionTypeOK
<1>3. CASE IsCancelled /\ SkipPending
  <2>1. Promise!Skip(pending)
    BY <1>1, <1>2, <1>3, StandingsSkip DEF SkipPending
  <2> QED
    BY <1>2, <2>1
<1>4. CASE skipped' = skipped \cup Blocked /\ pending' = pending \ Blocked
  <2>1. Blocked \in SUBSET pending
    BY DEF Blocked
  <2>2. Promise!Skip(Blocked)
    BY <1>1, <1>2, <1>4, <2>1, BlockedHaveReasons, StandingsSkip
  <2> QED
    BY <1>2, <2>1, <2>2
<1> QED
  BY <1>3, <1>4 DEF LoopTop, StopScheduling

LEMMA DenyKeepsPromise ==
  ASSUME ExecutionInv, Deny
  PROVE  PromisedStep
<1> PICK s \in Steps : s = NextStep
  BY NextStepInTodo DEF Deny, AtStep, ExecutionInv, Typed, ExecutionTypeOK
<1>1. s \in pending /\ s \notin failed /\ pc = "schedule"
  BY NextStepInTodo DEF Deny, AtStep, ExecutionInv, Typed, ExecutionTypeOK, Places
<1>2. /\ UNCHANGED <<deps, manager, task, plan, pending, completed, skipped, worker>>
      /\ failed' = failed \cup {s} /\ pc' = "deny_step"
  BY DEF Deny, Goto, given
<1>3. Standing(s) = "waiting" /\ s \notin completed
  BY <1>1, StandingOfStep DEF ExecutionInv, Places
<1>4. Standing(s)' = "failed" /\ \A u \in Steps \ {s} : Standing(u)' = Standing(u)
  BY <1>2, <1>3 DEF Standing
<1>5. Result = "none" /\ Result' = "none"
  BY <1>1, <1>2 DEF Result, Returned
<1>6. Promise!Becomes(s, "failed")
  BY <1>2, <1>4, <1>5, StandingBecomes DEF SameGiven, SameCalls, IsCancelled
<1>7. Promise!Enabled(s)
  BY DependenciesStand DEF Deny, Ready
<1> QED
  BY <1>3, <1>6, <1>7 DEF PromisedStep, Promise!Next, Promise!Deny

\* A step whose result is awaited or settled has been called.
LEMMA EndKeepsPromise ==
  ASSUME ExecutionInv, NEW s \in Steps, NEW how \in {"passed", "failed"},
         Standing(s) = "working", worker[s].phase = "done", Standing(s)' = how,
         \A u \in Steps \ {s} : Standing(u)' = Standing(u),
         UNCHANGED <<deps, manager, task, worker>>, Result = "none", Result' = "none"
  PROVE  PromisedStep
<1>1. worker[s].tool # "none"
  BY DEF ExecutionInv, Calls
<1>2. Promise!Becomes(s, how)
  BY StandingBecomes DEF SameGiven, SameCalls, IsCancelled
<1> QED
  BY <1>1, <1>2 DEF PromisedStep, Promise!Next, Promise!End

LEMMA AwaitKeepsPromise ==
  ASSUME ExecutionInv, NEW s \in Steps, Await(s)
  PROVE  PromisedStep
<1>1. /\ UNCHANGED <<deps, manager, task, plan, pending, completed, skipped, worker>>
      /\ failed' = (IF expired THEN failed \cup {s} ELSE failed)
      /\ pc = "wait" /\ pc' = "settle"
  BY DEF Await, Goto, given
<1>2. Standing(s) = "working" /\ s \notin completed \cup failed \cup skipped \cup pending
  BY StandingOfStep DEF Await, ExecutionInv, Places
<1>3. Result = "none" /\ Result' = "none"
  BY <1>1 DEF Result, Returned
<1>4. CASE expired
  <2>1. Standing(s)' = "failed" /\ \A u \in Steps \ {s} : Standing(u)' = Standing(u)
    BY <1>1, <1>2, <1>4 DEF Standing
  <2> QED
    BY <1>1, <1>2, <1>3, <2>1, EndKeepsPromise DEF Await
<1>5. CASE ~expired
  <2>1. \A u \in Steps : Standing(u)' = Standing(u)
    BY <1>1, <1>5 DEF Standing
  <2> QED
    BY <1>1, <1>3, <2>1, StandsStill DEF PromisedStep, SameGiven, SameCalls, IsCancelled
<1> QED
  BY <1>4, <1>5

LEMMA SettleKeepsPromise ==
  ASSUME ExecutionInv, Settle
  PROVE  PromisedStep
<1> PICK s \in Steps : s = at
  BY DEF Settle, ExecutionInv, Typed, StepPoints
<1>1. /\ UNCHANGED <<deps, manager, task, plan, pending, skipped, worker>>
      /\ pc = "settle" /\ pc' \in {"loop", "complete_step", "fail_step"}
  BY DEF Settle, Goto, given
<1>2. s \notin pending \cup completed \cup skipped /\ worker[s].phase = "done"
  BY <1>1 DEF ExecutionInv, Places, Runs
<1>3. Result = "none" /\ Result' = "none"
  BY <1>1 DEF Result, Returned
<1>4. CASE Passed
  <2>1. completed' = completed \cup {s} /\ failed' = failed /\ s \notin failed
    BY <1>4 DEF Settle, Passed
  <2>2. Standing(s)' = "passed" /\ \A u \in Steps \ {s} : Standing(u)' = Standing(u)
    BY <1>1, <2>1 DEF Standing
  <2> QED
    BY <1>1, <1>2, <1>3, <2>1, <2>2, StandingOfStep, EndKeepsPromise
<1>5. CASE ~Passed
  <2>1. failed' = failed \cup {s} /\ completed' = completed
    BY <1>5 DEF Settle
  <2>2. Standing(s)' = "failed" /\ \A u \in Steps \ {s} : Standing(u)' = Standing(u)
    BY <1>1, <1>2, <2>1 DEF Standing
  <2>3. CASE s \in failed
    BY <1>1, <1>3, <2>2, <2>3, StandingOfStep, StandsStill
    DEF PromisedStep, SameGiven, SameCalls, IsCancelled
  <2>4. CASE s \notin failed
    BY <1>1, <1>2, <1>3, <2>2, <2>4, StandingOfStep, EndKeepsPromise
  <2> QED
    BY <2>3, <2>4
<1> QED
  BY <1>4, <1>5

LEMMA EndingKeepsPromise ==
  ASSUME ExecutionInv, Acyclic(deps), Finish \/ PropagateError
  PROVE  PromisedStep
<1> USE DEF PromisedStep
<1>1. UNCHANGED <<deps, manager, task, sets, worker>> /\ IsCancelled' = IsCancelled
  BY DEF Finish, PropagateError, given, IsCancelled
<1>2. \A u \in Steps : Standing(u)' = Standing(u)
  BY <1>1 DEF Standing, sets
<1>3. CASE Finish /\ IsCancelled
  BY <1>1, <1>3, ReturnAsPromised DEF Finish, Goto, Ending, Promise!Next
<1>4. CASE Finish /\ ~IsCancelled
  <2>1. Result = "none" /\ Result' = "none"
    BY <1>4 DEF Finish, Goto, Result, Returned
  <2> QED
    BY <1>1, <1>2, <2>1, StandsStill DEF SameGiven, SameCalls
<1>5. CASE PropagateError
  <2>1. Result = "none" /\ Result' = "raised" /\ pc = "raising"
    BY <1>5 DEF PropagateError, Goto, Result, Returned
  <2>2. ASSUME NEW s \in Steps, Standing(s) = "working" PROVE worker[s].tool # "none"
    <3>1. s \in futures
      BY <2>1, <2>2, StandingOfStep
    <3> QED
      BY <1>5, <3>1 DEF PropagateError, ExecutionInv, Calls
  <2>3. Promise!Raise
    BY <1>1, <1>2, <2>1, <2>2 DEF Promise!Raise, Promise!given
  <2> QED
    BY <2>3 DEF Promise!Next
<1> QED
  BY <1>3, <1>4, <1>5

\* What the caller of execute() does not see.
LEMMA UnseenKeepsPromise ==
  ASSUME ExecutionInv,
         ReadRow \/ LoopEnd \/ PassOver \/ Reserve \/ Scheduled \/ TimeExpires \/ UNCHANGED vars
  PROVE  PromisedStep
<1>1. /\ UNCHANGED <<deps, manager, task, plan, pending, completed, failed, skipped, worker>>
      /\ pc' = pc \/ (pc \notin {"returned", "raised"} /\ pc' \notin {"returned", "raised"})
  BY DEF ReadRow, LoopEnd, PassOver, Reserve, Scheduled, TimeExpires, vars, Raise, Goto, given,
         sets, StateCalls, AtStep
<1>2. Result' = Result /\ \A u \in Steps : Standing(u)' = Standing(u)
  BY <1>1 DEF Result, Returned, Standing
<1> QED
  BY <1>1, <1>2, StandsStill DEF PromisedStep, SameGiven, SameCalls, IsCancelled

LEMMA WorkerKeepsPromise ==
  ASSUME ExecutionInv, [Next]_vars, NEW s \in Steps, Worker(s)
  PROVE  PromisedStep
<1> USE DEF PromisedStep
<1>1. /\ UNCHANGED <<deps, manager, plan, sets, pc>>
      /\ \A u \in Steps \ {s} : worker'[u] = worker[u]
      /\ worker[s].phase \notin {"idle", "done"} /\ worker[s].phase \in Phases
  BY WorkerLeavesPlaces, WorkerAdvances DEF given, ExecutionInv, Typed, ExecutionTypeOK, WorkerStates
<1>2. \A u \in Steps : Standing(u)' = Standing(u)
  BY <1>1 DEF Standing, sets
<1>3. Result' = Result
  BY <1>1 DEF Result, Returned
<1>4. IsCancelled' = IsCancelled
  <2>1. worker' # worker \/ task' = task
    BY <1>1 DEF Worker, Dequeue, RunTool, ToolRaises, WorkerReads, WorkerSaves, WorkerRecords,
                FutureReturns, SetWorker, ExecutionInv, Typed, ExecutionTypeOK
  <2> QED
    BY <2>1, OnlyTheClientCancels DEF Cancel, IsCancelled
<1>5. s \in futures /\ Result = "none"
  BY <1>1 DEF ExecutionInv, Runs, Calls, InFlight, Places, Ending, Result, Returned
<1>6. CASE RunTool(s) \/ ToolRaises(s)
  <2>1. worker[s].tool = "none" /\ worker'[s].tool # "none"
    <3>1. worker[s].tool = "none"
      BY <1>6 DEF RunTool, ToolRaises, ExecutionInv, Calls
    <3>2. worker[s] \in WorkerStates /\ worker \in [Steps -> WorkerStates]
      BY DEF ExecutionInv, Typed, ExecutionTypeOK
    <3>3. CASE RunTool(s)
      BY <3>1, <3>2, <3>3 DEF RunTool, SetWorker, WorkerStates
    <3>4. CASE ToolRaises(s)
      BY <3>1, <3>2, <3>4 DEF ToolRaises, SetWorker, FutureRaises
    <3> QED
      BY <1>6, <3>1, <3>3, <3>4
  <2>2. Standing(s) = "working"
    BY <1>5, StandingOfStep
  <2>3. Promise!Call(s)
    BY <1>1, <1>2, <1>3, <1>4, <1>5, <2>1, <2>2 DEF Promise!Call, Promise!given
  <2> QED
    BY <2>3 DEF Promise!Next
<1>7. CASE ~RunTool(s) /\ ~ToolRaises(s)
  <2>1. worker'[s].tool = worker[s].tool
    <3> USE DEF SetWorker, FutureRaises, FutureReturns
    <3>1. worker[s] \in WorkerStates /\ worker \in [Steps -> WorkerStates]
      BY DEF ExecutionInv, Typed, ExecutionTypeOK
    <3>2. CASE Dequeue(s)
      BY <3>1, <3>2 DEF Dequeue, WorkerStates
    <3>3. CASE WorkerReads(s)
      <4>1. CASE SetWorker(s, [worker[s] EXCEPT !.phase = "saving", !.copy = task])
        BY <3>1, <4>1 DEF WorkerStates
      <4>2. CASE FutureRaises(s, worker[s].tool)
        BY <3>1, <4>2
      <4> QED
        BY <3>3, <4>1, <4>2 DEF WorkerReads
    <3>4. CASE WorkerSaves(s) \/ WorkerRecords(s)
      BY <3>1, <3>4 DEF WorkerSaves, WorkerRecords
    <3> QED
      BY <1>7, <3>2, <3>3, <3>4 DEF Worker
  <2> QED
    BY <1>1, <1>2, <1>3, <1>4, <2>1, StandsStill DEF SameGiven, SameCalls
<1> QED
  BY <1>6, <1>7

LEMMA CancelKeepsPromise ==
  ASSUME ExecutionInv, Cancel
  PROVE  PromisedStep
<1>1. ~IsCancelled /\ IsCancelled'
  BY DEF Cancel, CanCancelTask, TaskCancelled, Touched, IsCancelled, ExecutionInv, Typed,
         ExecutionTypeOK, TaskRecords
<1>2. UNCHANGED <<deps, manager, plan, sets, pc, worker>>
  BY DEF Cancel, given
<1>3. Result' = Result /\ \A u \in Steps : Standing(u)' = Standing(u)
  BY <1>2 DEF Result, Returned, Standing, sets
<1>4. Promise!Cancel
  BY <1>1, <1>2, <1>3 DEF Promise!Cancel, Promise!given
<1> QED
  BY <1>4 DEF PromisedStep, Promise!Next

LEMMA StepsKeepPromise ==
  ExecutionInv /\ Acyclic(deps) /\ [Next]_vars => PromisedStep
<1> SUFFICES ASSUME ExecutionInv, Acyclic(deps), [Next]_vars PROVE PromisedStep
  OBVIOUS
<1>1. CASE Executor
  BY <1>1, RowCallKeepsPromise, SkipKeepsPromise, DenyKeepsPromise, AwaitKeepsPromise,
     SettleKeepsPromise, EndingKeepsPromise, UnseenKeepsPromise
  DEF Executor
<1> QED
  BY <1>1, WorkerKeepsPromise, CancelKeepsPromise, UnseenKeepsPromise DEF Next

LEMMA InitKeepsPromise == Init /\ Acyclic(deps) => Promise!Init
<1> SUFFICES ASSUME Init, Acyclic(deps) PROVE Promise!Init
  OBVIOUS
<1>1. deps \in Promise!Orders
  BY SoundPlans, InitTyped DEF Typed, ExecutionTypeOK
<1>2. \A s \in Steps : Standing(s) = "waiting" /\ worker[s].tool = "none"
  BY DEF Init, Standing, NotRun
<1>3. Result = "none" /\ ~IsCancelled /\ IsCancelled \in BOOLEAN
  BY DEF Init, Result, Returned, IsCancelled, NewTask
<1> QED
  BY <1>1, <1>2, <1>3 DEF Promise!Init

\* execute(), with its pool, its budget and a row that others write, is the
\* plan PlanPromise describes: each step ends once, as its one call ended, or
\* is denied or skipped for a reason, and what is returned is what became of
\* the steps.
THEOREM ExecutionKeepsPromise == Spec => KeepsPromise
<1>1. deps \in Plans => Acyclic(deps)
  BY PlanAssumption
<1>2. Init => Promise!Init
  BY <1>1, InitKeepsPromise DEF Init
<1>3. ExecutionInv /\ deps \in Plans /\ [Next]_vars => [Promise!Next]_(Promise!vars)
  BY <1>1, StepsKeepPromise DEF PromisedStep
<1> QED
  BY <1>2, <1>3, ExecutionInvariant, PlanIsGiven, PTL DEF Spec, KeepsPromise, Promise!Spec

\* So is the execution in an agent run, for whatever plan is accepted.
THEOREM AgentKeepsPromise == AgentSpec => KeepsPromise
<1>1. AgentSpec => []Validated
  BY InitValidated, ValidatedStep, PTL DEF AgentSpec
<1>2. AgentInit => Promise!Init
  BY InitKeepsPromise, InitValidated DEF AgentInit, Validated
<1>3. ASSUME AgentInv, Validated, Validated', AcceptPlan PROVE PromisedStep
  <2>1. UNCHANGED <<manager, task, plan, sets, pc, worker>> /\ stage = "planning"
    BY <1>3 DEF AcceptPlan
  <2>2. pc = "start_task" /\ pending = Steps
    BY <1>3, <2>1 DEF AgentInv, Fresh
  <2>3. \A s \in Steps : Standing(s) = "waiting" /\ Standing(s)' = "waiting"
    BY <1>3, <2>1, <2>2 DEF AgentInv, ExecutionInv, Places, Standing, sets
  <2>4. Result = "none" /\ Result' = "none" /\ IsCancelled' = IsCancelled
    BY <2>1, <2>2 DEF Result, Returned, IsCancelled
  <2>5. deps' \in Promise!Orders
    BY <1>3, AcceptedPlanIsTyped, SoundPlans DEF AcceptPlan, Validated
  <2>6. Promise!Adopt
    BY <2>1, <2>3, <2>4, <2>5 DEF Promise!Adopt
  <2> QED
    BY <2>6 DEF PromisedStep, Promise!Next
<1>4. AgentInv /\ Validated /\ Validated' /\ [AgentNext]_agentVars
        => [Promise!Next]_(Promise!vars)
  BY <1>3, AgentSteps, StepsKeepPromise DEF PromisedStep, AgentInv, Validated
<1> QED
  BY <1>1, <1>2, <1>4, AgentInvariant, PTL DEF AgentSpec, KeepsPromise, Promise!Spec
=============================================================================
