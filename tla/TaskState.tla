------------------------------ MODULE TaskState ------------------------------
(***************************************************************************)
(* AgentStateManager over DurableStateStore and CheckpointStore: several   *)
(* clients (request threads, executor workers, other processes) share one  *)
(* database and no lock.  A call reads a copy of the row, decides and      *)
(* edits on that copy, then hands it to the store, which compares versions *)
(* inside a write transaction.  Between the read and the save anything may *)
(* happen; a client may also crash there and its copy is lost.             *)
(***************************************************************************)
EXTENDS TaskRecord

CONSTANTS Clients,
          CheckpointIds,
          NoCheckpoint,
          MaxVersion,     \* bound: no call is begun on a row of this version
          MaxDeletes      \* bound: how often the row may be deleted

ASSUME BoundsAssumption == MaxVersion \in Nat /\ MaxDeletes \in Nat
ASSUME CheckpointAssumption == NoCheckpoint \notin TaskRecords

VARIABLES task,         \* the row of agent_task_state, or NoTask
          checkpoints,  \* the rows of agent_checkpoints for the task
          call,         \* each client's call in progress
          deletes       \* how often the row was deleted: a row's incarnation

vars == <<task, checkpoints, call, deletes>>

\* expected_version = None.
AnyVersion == -1

Idle == [kind |-> "idle"]

Saves ==
  [kind : {"save"}, op : {"create", "update", "recover"}, era : Nat,
   base : TaskRecords \cup {NoTask}, expected : Nat \cup {AnyVersion}, new : TaskRecords]
CheckpointSaves == [kind : {"checkpoint"}, id : CheckpointIds, copy : TaskRecords]
Recoveries == [kind : {"recovery"}, copy : TaskRecords]

TypeOK ==
  /\ task \in TaskRecords \cup {NoTask}
  /\ checkpoints \in [CheckpointIds -> TaskRecords \cup {NoCheckpoint}]
  /\ call \in [Clients -> {Idle} \cup Saves \cup CheckpointSaves \cup Recoveries]
  /\ deletes \in Nat

Init ==
  /\ task = NoTask
  /\ checkpoints = [k \in CheckpointIds |-> NoCheckpoint]
  /\ call = [c \in Clients |-> Idle]
  /\ deletes = 0

-----------------------------------------------------------------------------
(***************************************************************************)
(* The first half of a call: read, check, edit the copy.                   *)
(***************************************************************************)

Prepare(c, op, expected, new) ==
  /\ call' = [call EXCEPT ![c] =
       [kind |-> "save", op |-> op, era |-> deletes,
        base |-> task, expected |-> expected, new |-> new]]
  /\ UNCHANGED <<task, checkpoints, deletes>>

\* require_task: the call goes on only if there is a row.
Requires(c) ==
  /\ call[c] = Idle
  /\ task # NoTask
  /\ task.version < MaxVersion

Update(c, new) == Prepare(c, "update", task.version, Touched(new))

CreateTask(c) ==
  /\ call[c] = Idle
  /\ task = NoTask
  /\ Prepare(c, "create", AnyVersion, NewTask)

AddStep(c, s)      == Requires(c) /\ CanAddStep(task, s)    /\ Update(c, StepAdded(task, s))
StartTask(c)       == Requires(c) /\ CanStartTask(task)     /\ Update(c, TaskStarted(task))
StartStep(c, s)    == Requires(c) /\ CanStartStep(task, s)  /\ Update(c, StepStarted(task, s))
CompleteStep(c, s) == Requires(c) /\ CanSettleStep(task, s) /\ Update(c, StepCompleted(task, s))
FailStep(c, s)     == Requires(c) /\ CanSettleStep(task, s) /\ Update(c, StepFailed(task, s))
UpdateMetadata(c, k) == Requires(c) /\ Update(c, MetadataUpdated(task, k))
CompleteTask(c)    == Requires(c) /\ CanCompleteTask(task)  /\ Update(c, TaskCompleted(task))
FailTask(c)        == Requires(c) /\ CanFailTask(task)      /\ Update(c, TaskFailed(task))
CancelTask(c)      == Requires(c) /\ CanCancelTask(task)    /\ Update(c, TaskCancelled(task))
Resume(c)          == Requires(c) /\ CanResume(task)        /\ Update(c, Resumed(task))

TakeCheckpoint(c, k) ==
  /\ Requires(c)
  /\ call' = [call EXCEPT ![c] =
       [kind |-> "checkpoint", id |-> k, copy |-> task]]
  /\ UNCHANGED <<task, checkpoints, deletes>>

\* ORDER BY version DESC: a checkpoint of the highest version.  The second
\* key, created_at, is not modelled: any of those with that version.
Latest(k) ==
  /\ checkpoints[k] # NoCheckpoint
  /\ \A j \in CheckpointIds :
       checkpoints[j] # NoCheckpoint => checkpoints[j].version <= checkpoints[k].version

\* Recovery reads twice, the checkpoint first and the row afterwards.
ReadCheckpoint(c, k) ==
  /\ call[c] = Idle
  /\ Latest(k)
  /\ call' = [call EXCEPT ![c] = [kind |-> "recovery", copy |-> checkpoints[k]]]
  /\ UNCHANGED <<task, checkpoints, deletes>>

PrepareRecovery(c) ==
  /\ call[c].kind = "recovery"
  /\ \/ /\ task # NoTask
        /\ task.version < MaxVersion
        /\ Prepare(c, "recover", task.version,
                   [call[c].copy EXCEPT !.version = task.version + 1])
     \/ /\ task = NoTask
        /\ Prepare(c, "recover", AnyVersion, Touched(call[c].copy))

-----------------------------------------------------------------------------
(***************************************************************************)
(* The second half: the store.                                             *)
(***************************************************************************)

Return(c) == call' = [call EXCEPT ![c] = Idle]

\* Mutant: a store that only refuses to go back to an older version.
RejectedOnlyIfOlder(p) ==
  IF task # NoTask THEN p.new.version < task.version ELSE p.expected \notin {AnyVersion, 0}

\* save() raises: version conflict, version not growing, or an expected
\* version for a row that is not there.
Rejected(p) ==
  IF task # NoTask
  THEN \/ p.expected # AnyVersion /\ p.expected # task.version
       \/ p.new.version <= task.version
  ELSE p.expected \notin {AnyVersion, 0}

Commit(c) ==
  /\ call[c].kind = "save"
  /\ ~Rejected(call[c])
  /\ task' = call[c].new
  /\ Return(c)
  /\ UNCHANGED <<checkpoints, deletes>>

Conflict(c) ==
  /\ call[c].kind = "save"
  /\ Rejected(call[c])
  /\ Return(c)
  /\ UNCHANGED <<task, checkpoints, deletes>>

\* Mutant: INSERT OR REPLACE, a second checkpoint of an id wins.
ReplaceCheckpoint(c) ==
  /\ call[c].kind = "checkpoint"
  /\ checkpoints' = [checkpoints EXCEPT ![call[c].id] = call[c].copy]
  /\ Return(c)
  /\ UNCHANGED <<task, deletes>>

\* The primary key (task_id, checkpoint_id) refuses a second row.
SaveCheckpoint(c) ==
  /\ call[c].kind = "checkpoint"
  /\ checkpoints' = IF checkpoints[call[c].id] = NoCheckpoint
                    THEN [checkpoints EXCEPT ![call[c].id] = call[c].copy]
                    ELSE checkpoints
  /\ Return(c)
  /\ UNCHANGED <<task, deletes>>

Crash(c) ==
  /\ call[c] # Idle
  /\ Return(c)
  /\ UNCHANGED <<task, checkpoints, deletes>>

\* DurableStateStore.delete: the row goes, its checkpoints stay.
Delete ==
  /\ task # NoTask
  /\ deletes < MaxDeletes
  /\ task' = NoTask
  /\ deletes' = deletes + 1
  /\ UNCHANGED <<checkpoints, call>>

Begin(c) ==
  \/ CreateTask(c)
  \/ \E s \in Steps : AddStep(c, s) \/ StartStep(c, s) \/ CompleteStep(c, s) \/ FailStep(c, s)
  \/ \E k \in Keys : UpdateMetadata(c, k)
  \/ StartTask(c) \/ CompleteTask(c) \/ FailTask(c) \/ CancelTask(c) \/ Resume(c)
  \/ \E k \in CheckpointIds : TakeCheckpoint(c, k) \/ ReadCheckpoint(c, k)
  \/ PrepareRecovery(c)

Next ==
  \/ \E c \in Clients :
       Begin(c) \/ Commit(c) \/ Conflict(c) \/ SaveCheckpoint(c) \/ Crash(c)
  \/ Delete

Spec == Init /\ [][Next]_vars

-----------------------------------------------------------------------------
(***************************************************************************)
(* Properties.                                                             *)
(***************************************************************************)

\* Every copy of the record that exists anywhere: the row, the checkpoints,
\* and what the calls in progress hold.
Copies ==
  ({task} \cup {checkpoints[k] : k \in CheckpointIds}
     \cup {call[c].base : c \in {d \in Clients : call[d].kind = "save"}}
     \cup {call[c].new : c \in {d \in Clients : call[d].kind = "save"}}
     \cup {call[c].copy : c \in {d \in Clients : call[d].kind \in {"checkpoint", "recovery"}}})
  \ {NoTask, NoCheckpoint}

\* However calls race, crash, are checkpointed and recovered, no attempt of a
\* step is settled twice or settled without having been started, in the row
\* or in any copy of it.
EveryAttemptSettledOnce == \A t \in Copies : LedgerBalanced(t)

\* current_step_id never points at a step that is not running: it is cleared
\* whenever that step settles, the task closes or a recovery replaces the row.
CurrentStepRuns == \A t \in Copies : CurrentRuns(t)

\* A call that committed, of whatever kind, replaced exactly the row it had
\* read: no update that another client committed in between is overwritten.
\* The row's incarnation must be the one that was read, and recovery without
\* a row is the exception, because it saves with no expected version.
Blind(p) == p.op = "recover" /\ p.base = NoTask

NoLostUpdate ==
  [][\A c \in Clients :
       /\ call[c].kind = "save"
       /\ task' # task
       /\ call'[c] # call[c]
       /\ call[c].era = deletes
       /\ ~Blind(call[c])
       => call[c].base = task]_vars

\* The store refuses a save only when another client did commit since the
\* read: a client alone on its task is never refused.
NoSpuriousConflict ==
  \A c \in Clients :
    call[c].kind = "save" /\ Rejected(call[c]) => call[c].base # task

\* The task becomes COMPLETED only over a row whose steps are all done, not
\* over a row in which another client has meanwhile added or started a step.
Restores(c) ==
  /\ call[c].kind = "save" /\ call[c].op = "recover"
  /\ call'[c] = Idle /\ task' = call[c].new

SomeoneRestores == \E c \in Clients : Restores(c)

SameIncarnation == \A c \in Clients : call[c].kind = "save" => call[c].era = deletes

CompletionIsSound ==
  [][(/\ SameIncarnation
      /\ task # NoTask /\ task' # NoTask
      /\ task'.status = "completed" /\ task.status # "completed")
     => SomeoneRestores \/ (task.status \in {"pending", "running"} /\ AllStepsDone(task))]_vars

\* A COMPLETED or CANCELLED task keeps that status: of all the calls that read
\* the row before it was closed, none can reopen it.  Only a recovery writes
\* another status, and it does so as a new version of the row.
TerminalIsFinal ==
  [][(/\ SameIncarnation
      /\ task # NoTask /\ task' # NoTask
      /\ task.status \in {"completed", "cancelled"}
      /\ task'.status # task.status)
     => SomeoneRestores /\ task'.version > task.version]_vars

\* The concurrent store implements the atomic one (while no row is deleted):
\* its two tables are those of the store, and calls under way are not seen.
Lifecycle == INSTANCE TaskLifecycle WITH task <- task, checkpoints <- checkpoints
LifecycleSpec == Lifecycle!Spec

-----------------------------------------------------------------------------
(***************************************************************************)
(* The inductive invariant behind the properties.                          *)
(***************************************************************************)

\* What a call is about to save is one operation, or one recovery, away from
\* the row it read, under the version of that row.
SaveFollows(p) ==
  \/ /\ p.op = "create"
     /\ p.base = NoTask /\ p.expected = AnyVersion /\ p.new = NewTask
  \/ /\ p.op = "update"
     /\ p.base # NoTask /\ p.expected = p.base.version
     /\ OneOperation(p.base, p.new)
  \/ /\ p.op = "recover"
     /\ p.base # NoTask /\ p.expected = p.base.version
     /\ p.new.version = p.base.version + 1
  \/ /\ p.op = "recover"
     /\ p.base = NoTask /\ p.expected = AnyVersion

\* Within one incarnation the version of a row identifies it: a row as old as
\* the present one is the present one.
VersionIdentifies(p) ==
  /\ p.era <= deletes
  /\ p.era = deletes /\ p.base # NoTask
       => /\ task # NoTask
          /\ p.base.version <= task.version
          /\ p.base.version = task.version => p.base = task

SavesFollow == \A c \in Clients : call[c].kind = "save" => SaveFollows(call[c])
SavesKnowTheirRow == \A c \in Clients : call[c].kind = "save" => VersionIdentifies(call[c])

CopiesConsistent ==
  /\ task # NoTask => Consistent(task)
  /\ \A k \in CheckpointIds : checkpoints[k] # NoCheckpoint => Consistent(checkpoints[k])
  /\ \A c \in Clients :
       /\ call[c].kind = "save" =>
            /\ call[c].base # NoTask => Consistent(call[c].base)
            /\ Consistent(call[c].new)
       /\ call[c].kind \in {"checkpoint", "recovery"} => Consistent(call[c].copy)

IInv == TypeOK /\ SavesFollow /\ SavesKnowTheirRow /\ CopiesConsistent
=============================================================================
