----------------------------- MODULE TaskRecord -----------------------------
(***************************************************************************)
(* The durable record of one task (AgentTaskState, with its                *)
(* AgentStepState entries) and what each AgentStateManager operation does  *)
(* to the copy it has read: one guard (Can...) and one result per          *)
(* operation.  The guards and the results are pure; who reads the copy and *)
(* when it is written back is the business of TaskState.                   *)
(*                                                                         *)
(* Abstracted: texts, timestamps and result payloads.  Of the observation  *)
(* list only the number of entries per step is kept ("outcomes"), of the   *)
(* metadata only which keys are present.                                   *)
(***************************************************************************)
EXTENDS Integers

CONSTANTS Steps,    \* step ids of the task
          Keys,     \* metadata keys
          NoStep,   \* current_step_id = None
          NoTask    \* no row for the task id

TaskStatuses == {"pending", "running", "completed", "failed", "cancelled"}

\* "absent": the step id is not in the steps dict.
StepStatuses == {"absent", "pending", "running", "completed", "failed", "skipped"}

StepRecords == [status : StepStatuses, attempts : Nat, outcomes : Nat]

TaskRecords ==
  [version : Nat,
   status  : TaskStatuses,
   current : Steps \cup {NoStep},
   step    : [Steps -> StepRecords],
   keys    : SUBSET Keys]

ASSUME NullAssumption == NoStep \notin Steps /\ NoTask \notin TaskRecords

AbsentStep == [status |-> "absent", attempts |-> 0, outcomes |-> 0]
PendingStep == [status |-> "pending", attempts |-> 0, outcomes |-> 0]

NewTask ==
  [version |-> 0, status |-> "pending", current |-> NoStep,
   step |-> [s \in Steps |-> AbsentStep], keys |-> {}]

\* Mutant: an operation that forgets to call touch().
Untouched(t) == t

Touched(t) == [t EXCEPT !.version = @ + 1]

Closed == {"cancelled", "completed", "failed"}

\* A step record after one more attempt, and after the end of an attempt.
Attempted(r) ==
  [status |-> "running", attempts |-> r.attempts + 1, outcomes |-> r.outcomes]
Ended(r, status) ==
  [status |-> status, attempts |-> r.attempts, outcomes |-> r.outcomes + 1]

WithStep(t, s, r, current) == [t EXCEPT !.step[s] = r, !.current = current]

CanAddStep(t, s) == t.step[s].status = "absent"
StepAdded(t, s)  == WithStep(t, s, PendingStep, t.current)

CanStartTask(t) == t.status \in {"pending", "failed"}
TaskStarted(t)  == [t EXCEPT !.status = "running"]

CanStartStep(t, s) ==
  /\ t.status = "running"
  /\ t.step[s].status \in {"pending", "failed"}
StepStarted(t, s) == WithStep(t, s, Attempted(t.step[s]), s)

\* Mutant: a step may be settled that was not started.
CanSettleUnstarted(t, s) ==
  /\ t.status \notin Closed
  /\ t.step[s].status \in {"pending", "running"}

CanSettleStep(t, s) ==
  /\ t.status \notin Closed
  /\ t.step[s].status = "running"

Settled(t, s, status, current) == WithStep(t, s, Ended(t.step[s], status), current)

\* Mutant: completing a step leaves it the current one.
StepCompletedStaysCurrent(t, s) == Settled(t, s, "completed", t.current)

StepCompleted(t, s) ==
  Settled(t, s, "completed", IF t.current = s THEN NoStep ELSE t.current)
StepFailed(t, s) == Settled(t, s, "failed", NoStep)

MetadataUpdated(t, k) == [t EXCEPT !.keys = @ \cup {k}]

AllStepsDone(t) ==
  \A s \in Steps : t.step[s].status \in {"absent", "completed", "skipped"}

CanCompleteTask(t) == t.status \notin Closed /\ AllStepsDone(t)
TaskCompleted(t)   == [t EXCEPT !.status = "completed", !.current = NoStep]

CanFailTask(t) == t.status \notin Closed
TaskFailed(t)  == [t EXCEPT !.status = "failed", !.current = NoStep]

\* Mutant: a completed task may still be cancelled.
CanCancelFinishedTask(t) == t.status # "cancelled"

CanCancelTask(t) == t.status \notin {"completed", "cancelled"}
TaskCancelled(t) == [t EXCEPT !.status = "cancelled", !.current = NoStep]

CanResume(t) == t.status \notin {"cancelled", "completed"}
Resumed(t)   == [t EXCEPT !.status = "running"]

(***************************************************************************)
(* u is t after one operation on the record, one version later.            *)
(***************************************************************************)
StepOperation(t, u, s) ==
  \/ CanAddStep(t, s)    /\ u = Touched(StepAdded(t, s))
  \/ CanStartStep(t, s)  /\ u = Touched(StepStarted(t, s))
  \/ CanSettleStep(t, s) /\ u = Touched(StepCompleted(t, s))
  \/ CanSettleStep(t, s) /\ u = Touched(StepFailed(t, s))

TaskOperation(t, u) ==
  \/ CanStartTask(t)    /\ u = Touched(TaskStarted(t))
  \/ CanCompleteTask(t) /\ u = Touched(TaskCompleted(t))
  \/ CanFailTask(t)     /\ u = Touched(TaskFailed(t))
  \/ CanCancelTask(t)   /\ u = Touched(TaskCancelled(t))
  \/ CanResume(t)       /\ u = Touched(Resumed(t))

OneOperation(t, u) ==
  \/ \E s \in Steps : StepOperation(t, u, s)
  \/ \E k \in Keys : u = Touched(MetadataUpdated(t, k))
  \/ TaskOperation(t, u)

(***************************************************************************)
(* Every attempt of a step is settled exactly once: the observation list   *)
(* holds one outcome for each start_step, except that of the attempt still *)
(* running.                                                                *)
(***************************************************************************)
LedgerBalanced(t) ==
  \A s \in Steps :
    t.step[s].attempts =
      t.step[s].outcomes + (IF t.step[s].status = "running" THEN 1 ELSE 0)

(***************************************************************************)
(* current_step_id names a step that is running, of a task that is running.*)
(***************************************************************************)
CurrentRuns(t) ==
  t.current # NoStep => /\ t.status = "running"
                        /\ t.step[t.current].status = "running"

Consistent(t) == LedgerBalanced(t) /\ CurrentRuns(t)
=============================================================================
