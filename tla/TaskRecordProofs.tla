-------------------------- MODULE TaskRecordProofs --------------------------
(***************************************************************************)
(* Lemmas about the operations on a task record, for every number of steps *)
(* and keys: the theorems about TaskState and PlanExecution rest on them.  *)
(***************************************************************************)
EXTENDS TaskRecord, TLAPS

LEMMA WithStepTyped ==
  ASSUME NEW t \in TaskRecords, NEW s \in Steps, NEW r \in StepRecords,
         NEW current \in Steps \cup {NoStep}
  PROVE  WithStep(t, s, r, current) \in TaskRecords
BY DEF WithStep, TaskRecords

LEMMA WithStepFields ==
  ASSUME NEW t \in TaskRecords, NEW s \in Steps, NEW r \in StepRecords,
         NEW current \in Steps \cup {NoStep}
  PROVE  /\ WithStep(t, s, r, current).version = t.version
         /\ WithStep(t, s, r, current).status = t.status
BY DEF WithStep, TaskRecords

LEMMA TouchedTyped ==
  ASSUME NEW t \in TaskRecords
  PROVE  Touched(t) \in TaskRecords
BY DEF Touched, TaskRecords

LEMMA TouchedFields ==
  ASSUME NEW t \in TaskRecords
  PROVE  /\ Touched(t).version = t.version + 1
         /\ Touched(t).status = t.status
         /\ Touched(t).current = t.current
         /\ Touched(t).step = t.step
BY DEF Touched, TaskRecords

\* What an operation on one step makes of that step.
LEMMA StepResults ==
  ASSUME NEW t \in TaskRecords, NEW s \in Steps
  PROVE  /\ PendingStep \in StepRecords
         /\ Attempted(t.step[s]) \in StepRecords
         /\ \A st \in StepStatuses : Ended(t.step[s], st) \in StepRecords
         /\ t.current \in Steps \cup {NoStep}
<1>1. t.step[s] \in StepRecords /\ t.current \in Steps \cup {NoStep}
  BY DEF TaskRecords
<1>2. PendingStep \in StepRecords
  BY DEF PendingStep, StepRecords, StepStatuses
<1>3. Attempted(t.step[s]) \in StepRecords
  BY <1>1 DEF Attempted, StepRecords, StepStatuses
<1>4. ASSUME NEW st \in StepStatuses PROVE Ended(t.step[s], st) \in StepRecords
  BY <1>1 DEF Ended, StepRecords
<1>5. QED BY <1>1, <1>2, <1>3, <1>4

\* An operation on one step replaces that step's record and current_step_id.
LEMMA StepOperationEdits ==
  ASSUME NEW t \in TaskRecords, NEW s \in Steps, NEW u, StepOperation(t, u, s)
  PROVE  \E r \in StepRecords, current \in Steps \cup {NoStep} :
           u = Touched(WithStep(t, s, r, current))
<1>1. CASE u = Touched(StepAdded(t, s))
  BY <1>1, StepResults DEF StepAdded
<1>2. CASE u = Touched(StepStarted(t, s))
  BY <1>2, StepResults DEF StepStarted
<1>3. CASE u = Touched(StepCompleted(t, s))
  BY <1>3, StepResults DEF StepCompleted, Settled, StepStatuses
<1>4. CASE u = Touched(StepFailed(t, s))
  BY <1>4, StepResults DEF StepFailed, Settled, StepStatuses
<1>5. QED BY <1>1, <1>2, <1>3, <1>4 DEF StepOperation

\* A task operation changes the status and current_step_id.
LEMMA TaskOperationEdits ==
  ASSUME NEW t \in TaskRecords, NEW u, TaskOperation(t, u)
  PROVE  \E v \in TaskRecords :
           /\ u = Touched(v) /\ v.version = t.version /\ v.step = t.step
           /\ \/ v.status = "running" /\ v.current = t.current
              \/ v.status \in Closed /\ v.current = NoStep
           /\ v.status = "completed" => CanCompleteTask(t)
           /\ t.status \in {"completed", "cancelled"} => v.status = t.status
<1> USE DEF TaskRecords, TaskStatuses, Closed
<1>1. CASE CanStartTask(t) /\ u = Touched(TaskStarted(t))
  BY <1>1 DEF CanStartTask, TaskStarted
<1>2. CASE CanCompleteTask(t) /\ u = Touched(TaskCompleted(t))
  BY <1>2 DEF CanCompleteTask, TaskCompleted
<1>3. CASE CanFailTask(t) /\ u = Touched(TaskFailed(t))
  BY <1>3 DEF CanFailTask, TaskFailed
<1>4. CASE CanCancelTask(t) /\ u = Touched(TaskCancelled(t))
  BY <1>4 DEF CanCancelTask, TaskCancelled
<1>5. CASE CanResume(t) /\ u = Touched(Resumed(t))
  BY <1>5 DEF CanResume, Resumed
<1>6. QED BY <1>1, <1>2, <1>3, <1>4, <1>5 DEF TaskOperation

LEMMA MetadataEdit ==
  ASSUME NEW t \in TaskRecords, NEW k \in Keys
  PROVE  LET v == MetadataUpdated(t, k)
         IN  /\ v \in TaskRecords /\ v.version = t.version /\ v.status = t.status
             /\ v.current = t.current /\ v.step = t.step
BY DEF MetadataUpdated, TaskRecords

\* Every operation yields a well-formed record, exactly one version later.
LEMMA OperationTyped ==
  ASSUME NEW t \in TaskRecords, NEW u, OneOperation(t, u)
  PROVE  u \in TaskRecords /\ u.version = t.version + 1
<1>1. ASSUME NEW s \in Steps, StepOperation(t, u, s)
      PROVE  u \in TaskRecords /\ u.version = t.version + 1
  <2>1. PICK r \in StepRecords, current \in Steps \cup {NoStep} :
          u = Touched(WithStep(t, s, r, current))
    BY <1>1, StepOperationEdits
  <2>2. WithStep(t, s, r, current) \in TaskRecords
    BY WithStepTyped
  <2>3. WithStep(t, s, r, current).version = t.version
    BY WithStepFields
  <2>4. QED
    BY <2>1, <2>2, <2>3, TouchedTyped, TouchedFields
<1>2. ASSUME NEW k \in Keys, u = Touched(MetadataUpdated(t, k))
      PROVE  u \in TaskRecords /\ u.version = t.version + 1
  BY <1>2, MetadataEdit, TouchedTyped, TouchedFields
<1>3. CASE TaskOperation(t, u)
  BY <1>3, TaskOperationEdits, TouchedTyped, TouchedFields
<1>4. QED
  BY <1>1, <1>2, <1>3 DEF OneOperation

\* No operation settles an attempt twice, or leaves current_step_id on a step
\* that is not running.
LEMMA OperationConsistent ==
  ASSUME NEW t \in TaskRecords, NEW u, OneOperation(t, u), Consistent(t)
  PROVE  Consistent(u)
<1> USE DEF Consistent, LedgerBalanced, CurrentRuns
<1>1. ASSUME NEW s \in Steps, StepOperation(t, u, s)
      PROVE  Consistent(u)
  <2>1. CASE CanAddStep(t, s) /\ u = Touched(StepAdded(t, s))
    BY <2>1 DEF CanAddStep, Touched, StepAdded, WithStep, PendingStep, TaskRecords, StepRecords
  <2>2. CASE CanStartStep(t, s) /\ u = Touched(StepStarted(t, s))
    BY <2>2, NullAssumption
       DEF CanStartStep, Touched, StepStarted, WithStep, Attempted, TaskRecords, StepRecords
  <2>3. CASE CanSettleStep(t, s) /\ u = Touched(StepCompleted(t, s))
    BY <2>3, NullAssumption
       DEF CanSettleStep, Touched, StepCompleted, Settled, WithStep, Ended, TaskRecords,
           StepRecords
  <2>4. CASE CanSettleStep(t, s) /\ u = Touched(StepFailed(t, s))
    BY <2>4
       DEF CanSettleStep, Touched, StepFailed, Settled, WithStep, Ended, TaskRecords, StepRecords
  <2>5. QED
    BY <1>1, <2>1, <2>2, <2>3, <2>4 DEF StepOperation
<1>2. ASSUME NEW k \in Keys, u = Touched(MetadataUpdated(t, k))
      PROVE  Consistent(u)
  BY <1>2, MetadataEdit, TouchedFields
<1>3. CASE TaskOperation(t, u)
  BY <1>3, TaskOperationEdits, TouchedFields
<1>4. QED
  BY <1>1, <1>2, <1>3 DEF OneOperation

\* A COMPLETED or CANCELLED record keeps its status, and a record becomes
\* COMPLETED only with all of its steps done.
LEMMA OperationCloses ==
  ASSUME NEW t \in TaskRecords, NEW u, OneOperation(t, u)
  PROVE  /\ t.status \in {"completed", "cancelled"} => u.status = t.status
         /\ u.status = "completed" /\ t.status # "completed"
              => t.status \in {"pending", "running"} /\ AllStepsDone(t)
<1>1. ASSUME NEW s \in Steps, StepOperation(t, u, s)
      PROVE  u.status = t.status
  <2>1. PICK r \in StepRecords, current \in Steps \cup {NoStep} :
          u = Touched(WithStep(t, s, r, current))
    BY <1>1, StepOperationEdits
  <2>2. WithStep(t, s, r, current) \in TaskRecords
    BY WithStepTyped
  <2>3. WithStep(t, s, r, current).status = t.status
    BY WithStepFields
  <2>4. QED
    BY <2>1, <2>2, <2>3, TouchedFields
<1>2. ASSUME NEW k \in Keys, u = Touched(MetadataUpdated(t, k))
      PROVE  u.status = t.status
  BY <1>2, MetadataEdit, TouchedFields
<1>3. CASE TaskOperation(t, u)
  BY <1>3, TaskOperationEdits, TouchedFields
     DEF CanCompleteTask, Closed, TaskRecords, TaskStatuses
<1>4. QED
  BY <1>1, <1>2, <1>3 DEF OneOperation

LEMMA NewTaskSound == NewTask \in TaskRecords /\ NewTask.version = 0 /\ Consistent(NewTask)
BY NullAssumption DEF NewTask, AbsentStep, TaskRecords, TaskStatuses, StepRecords, StepStatuses,
   Consistent, LedgerBalanced, CurrentRuns

\* A recovered copy differs from the checkpoint in its version only.
LEMMA RecoveredCopy ==
  ASSUME NEW t \in TaskRecords, NEW v \in Nat
  PROVE  LET u == [t EXCEPT !.version = v]
         IN  u \in TaskRecords /\ u.version = v /\ (Consistent(t) => Consistent(u))
BY DEF TaskRecords, Consistent, LedgerBalanced, CurrentRuns
=============================================================================
