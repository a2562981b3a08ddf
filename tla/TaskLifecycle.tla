---------------------------- MODULE TaskLifecycle ----------------------------
(***************************************************************************)
(* What the durable task store promises its callers: every operation takes *)
(* effect at one instant, on the row as it is at that instant, and the     *)
(* row's version counts the operations.  No caller, no copy and no race    *)
(* appears here; TaskState is shown to implement this specification.       *)
(***************************************************************************)
EXTENDS TaskRecord

CONSTANTS CheckpointIds,
          NoCheckpoint

VARIABLES task,         \* the row, or NoTask
          checkpoints   \* checkpoint id -> saved copy, or NoCheckpoint

vars == <<task, checkpoints>>

Init ==
  /\ task = NoTask
  /\ checkpoints = [k \in CheckpointIds |-> NoCheckpoint]

Create ==
  /\ task = NoTask
  /\ task' = NewTask
  /\ UNCHANGED checkpoints

Operation ==
  /\ task # NoTask
  /\ OneOperation(task, task')
  /\ UNCHANGED checkpoints

\* A checkpoint holds a consistent copy that is not ahead of the row, and is
\* never overwritten.
Checkpoint(k) ==
  /\ task # NoTask
  /\ checkpoints[k] = NoCheckpoint
  /\ checkpoints'[k] # NoCheckpoint
  /\ checkpoints' = [checkpoints EXCEPT ![k] = checkpoints'[k]]
  /\ checkpoints'[k].version <= task.version
  /\ Consistent(checkpoints'[k])
  /\ UNCHANGED task

\* Recovery is a new version of the row, never a return to an old one.
Recover(k) ==
  /\ task # NoTask
  /\ checkpoints[k] # NoCheckpoint
  /\ task' = [checkpoints[k] EXCEPT !.version = task.version + 1]
  /\ UNCHANGED checkpoints

Next ==
  \/ Create
  \/ Operation
  \/ \E k \in CheckpointIds : Checkpoint(k) \/ Recover(k)

Spec == Init /\ [][Next]_vars
=============================================================================
