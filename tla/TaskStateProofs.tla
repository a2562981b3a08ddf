--------------------------- MODULE TaskStateProofs ---------------------------
(***************************************************************************)
(* Theorems about TaskState for every number of clients, steps, keys and   *)
(* checkpoints, and every bound.                                           *)
(***************************************************************************)
EXTENDS TaskState, TaskRecordProofs

(***************************************************************************)
(* What the first half of a call may do: it reads the row and prepares one *)
(* of four kinds of saves, and touches nothing but the client's own call.  *)
(***************************************************************************)
Updating(c) ==
  \E u : task # NoTask /\ OneOperation(task, u) /\ Prepare(c, "update", task.version, u)

LEMMA BeginKinds ==
  ASSUME NEW c \in Clients, Begin(c)
  PROVE  \/ CreateTask(c)
         \/ Updating(c)
         \/ \E k \in CheckpointIds : TakeCheckpoint(c, k) \/ ReadCheckpoint(c, k)
         \/ PrepareRecovery(c)
<1>1. ASSUME NEW u, Requires(c), OneOperation(task, Touched(u)), Update(c, u)
      PROVE  Updating(c)
  BY <1>1 DEF Requires, Update, Updating
<1>2. ASSUME NEW s \in Steps,
             AddStep(c, s) \/ StartStep(c, s) \/ CompleteStep(c, s) \/ FailStep(c, s)
      PROVE  Updating(c)
  <2>1. CASE AddStep(c, s)
    BY <1>1, <2>1 DEF AddStep, OneOperation, StepOperation
  <2>2. CASE StartStep(c, s)
    BY <1>1, <2>2 DEF StartStep, OneOperation, StepOperation
  <2>3. CASE CompleteStep(c, s)
    BY <1>1, <2>3 DEF CompleteStep, OneOperation, StepOperation
  <2>4. CASE FailStep(c, s)
    BY <1>1, <2>4 DEF FailStep, OneOperation, StepOperation
  <2>5. QED BY <1>2, <2>1, <2>2, <2>3, <2>4
<1>3. ASSUME NEW k \in Keys, UpdateMetadata(c, k)
      PROVE  Updating(c)
  BY <1>1, <1>3 DEF UpdateMetadata, OneOperation
<1>4. ASSUME StartTask(c) \/ CompleteTask(c) \/ FailTask(c) \/ CancelTask(c) \/ Resume(c)
      PROVE  Updating(c)
  <2>1. CASE StartTask(c)
    BY <1>1, <2>1 DEF StartTask, OneOperation, TaskOperation
  <2>2. CASE CompleteTask(c)
    BY <1>1, <2>2 DEF CompleteTask, OneOperation, TaskOperation
  <2>3. CASE FailTask(c)
    BY <1>1, <2>3 DEF FailTask, OneOperation, TaskOperation
  <2>4. CASE CancelTask(c)
    BY <1>1, <2>4 DEF CancelTask, OneOperation, TaskOperation
  <2>5. CASE Resume(c)
    BY <1>1, <2>5 DEF Resume, OneOperation, TaskOperation
  <2>6. QED BY <1>4, <2>1, <2>2, <2>3, <2>4, <2>5
<1>5. QED
  BY <1>2, <1>3, <1>4 DEF Begin

(***************************************************************************)
(* The invariant, one call at a time.                                      *)
(***************************************************************************)
CallTypes == {Idle} \cup Saves \cup CheckpointSaves \cup Recoveries

\* What the invariant says of one call.
GoodCall(p) ==
  /\ p \in CallTypes
  /\ p.kind = "save" =>
       /\ SaveFollows(p)
       /\ VersionIdentifies(p)
       /\ p.base # NoTask => Consistent(p.base)
       /\ Consistent(p.new)
  /\ p.kind \in {"checkpoint", "recovery"} => Consistent(p.copy)

\* What it says of the tables.
GoodTables ==
  /\ task \in TaskRecords \cup {NoTask}
  /\ checkpoints \in [CheckpointIds -> TaskRecords \cup {NoCheckpoint}]
  /\ deletes \in Nat
  /\ task # NoTask => Consistent(task)
  /\ \A k \in CheckpointIds : checkpoints[k] # NoCheckpoint => Consistent(checkpoints[k])

GoodCalls ==
  /\ call \in [Clients -> CallTypes]
  /\ \A c \in Clients : GoodCall(call[c])

LEMMA IInvSplits == IInv <=> GoodTables /\ GoodCalls
BY DEF GoodCalls, IInv, TypeOK, SavesFollow, SavesKnowTheirRow, CopiesConsistent, GoodTables, GoodCall,
       CallTypes

LEMMA KindTells ==
  ASSUME NEW p \in CallTypes
  PROVE  /\ p.kind = "save" => p \in Saves
         /\ p.kind = "checkpoint" => p \in CheckpointSaves
         /\ p.kind = "recovery" => p \in Recoveries
BY DEF CallTypes, Idle, Saves, CheckpointSaves, Recoveries

LEMMA IdleGood == GoodCall(Idle)
BY DEF GoodCall, CallTypes, Idle

\* A step that changes nothing but one call, and leaves a good one.
LEMMA OneCallChanges ==
  ASSUME IInv, NEW c \in Clients, NEW p, GoodCall(p),
         call' = [call EXCEPT ![c] = p], UNCHANGED <<task, checkpoints, deletes>>
  PROVE  IInv'
<1>1. GoodTables'
  BY IInvSplits DEF GoodTables
<1>2. call' \in [Clients -> CallTypes]
  BY IInvSplits DEF GoodCalls, GoodCall
<1>3. ASSUME NEW q PROVE GoodCall(q) => GoodCall(q)'
  BY DEF GoodCall, VersionIdentifies, SaveFollows
<1>4. ASSUME NEW d \in Clients PROVE GoodCall(call[d])'
  <2>1. GoodCall(IF d = c THEN p ELSE call[d])
    BY IInvSplits DEF GoodCalls
  <2>2. call'[d] = IF d = c THEN p ELSE call[d]
    BY IInvSplits DEF GoodCalls
  <2>3. QED BY <2>1, <2>2, <1>3
<1>5. GoodCalls'
  BY <1>2, <1>4 DEF GoodCalls
<1>6. IInv' <=> GoodTables' /\ GoodCalls'
  BY IInvSplits, PTL
<1>7. QED BY <1>1, <1>5, <1>6

\* Preparing a save: the copy was read from the present row.
LEMMA PrepareGood ==
  ASSUME IInv, NEW c \in Clients, NEW op \in {"create", "update", "recover"},
         NEW expected \in Nat \cup {AnyVersion}, NEW new \in TaskRecords, Consistent(new),
         Prepare(c, op, expected, new),
         SaveFollows([kind |-> "save", op |-> op, era |-> deletes,
                      base |-> task, expected |-> expected, new |-> new])
  PROVE  IInv'
<1> DEFINE p == [kind |-> "save", op |-> op, era |-> deletes,
                 base |-> task, expected |-> expected, new |-> new]
<1>1. GoodTables
  BY IInvSplits
<1>2. p \in Saves
  BY <1>1 DEF Saves, GoodTables
<1>3. VersionIdentifies(p)
  BY <1>1 DEF VersionIdentifies, GoodTables, TaskRecords
<1>4. GoodCall(p)
  BY <1>1, <1>2, <1>3 DEF GoodCall, GoodTables, CallTypes
<1>5. call' = [call EXCEPT ![c] = p] /\ UNCHANGED <<task, checkpoints, deletes>>
  BY DEF Prepare
<1> HIDE DEF p
<1>6. QED BY <1>4, <1>5, OneCallChanges

LEMMA BeginInvariant ==
  ASSUME IInv, NEW c \in Clients, Begin(c)
  PROVE  IInv'
<1>0. GoodTables /\ GoodCalls
  BY IInvSplits
<1>1. CASE CreateTask(c)
  <2>1. SaveFollows([kind |-> "save", op |-> "create", era |-> deletes,
                     base |-> task, expected |-> AnyVersion, new |-> NewTask])
    BY <1>1 DEF CreateTask, SaveFollows
  <2>2. QED BY <1>1, <2>1, NewTaskSound, PrepareGood DEF CreateTask
<1>2. CASE Updating(c)
  <2>1. PICK u : task # NoTask /\ OneOperation(task, u)
                 /\ Prepare(c, "update", task.version, u)
    BY <1>2 DEF Updating
  <2>2. task \in TaskRecords /\ Consistent(task) /\ task.version \in Nat
    BY <1>0, <2>1 DEF GoodTables, TaskRecords
  <2>3. u \in TaskRecords /\ Consistent(u)
    BY <2>1, <2>2, OperationTyped, OperationConsistent
  <2>4. SaveFollows([kind |-> "save", op |-> "update", era |-> deletes,
                     base |-> task, expected |-> task.version, new |-> u])
    BY <2>1 DEF SaveFollows
  <2>5. QED BY <2>1, <2>2, <2>3, <2>4, PrepareGood
<1>3. ASSUME NEW k \in CheckpointIds, TakeCheckpoint(c, k)
      PROVE  IInv'
  <2>1. task \in TaskRecords /\ Consistent(task)
    BY <1>0, <1>3 DEF GoodTables, TakeCheckpoint, Requires
  <2>2. GoodCall([kind |-> "checkpoint", id |-> k, copy |-> task])
    BY <2>1 DEF GoodCall, CallTypes, CheckpointSaves
  <2>3. QED BY <1>3, <2>2, OneCallChanges DEF TakeCheckpoint
<1>4. ASSUME NEW k \in CheckpointIds, ReadCheckpoint(c, k)
      PROVE  IInv'
  <2>1. checkpoints[k] \in TaskRecords /\ Consistent(checkpoints[k])
    BY <1>0, <1>4 DEF GoodTables, ReadCheckpoint, Latest
  <2>2. GoodCall([kind |-> "recovery", copy |-> checkpoints[k]])
    BY <2>1 DEF GoodCall, CallTypes, Recoveries
  <2>3. QED BY <1>4, <2>2, OneCallChanges DEF ReadCheckpoint
<1>5. CASE PrepareRecovery(c)
  <2>0. call[c].copy \in TaskRecords /\ Consistent(call[c].copy)
    BY <1>0, <1>5, KindTells DEF PrepareRecovery, GoodCalls, GoodCall, Recoveries
  <2>1. CASE /\ task # NoTask
             /\ Prepare(c, "recover", task.version,
                        [call[c].copy EXCEPT !.version = task.version + 1])
    <3> DEFINE u == [call[c].copy EXCEPT !.version = task.version + 1]
    <3>1. task.version \in Nat
      BY <1>0, <2>1 DEF GoodTables, TaskRecords
    <3>2. u \in TaskRecords /\ u.version = task.version + 1 /\ Consistent(u)
      BY <2>0, <3>1, RecoveredCopy
    <3> HIDE DEF u
    <3>3. SaveFollows([kind |-> "save", op |-> "recover", era |-> deletes,
                       base |-> task, expected |-> task.version, new |-> u])
      BY <2>1, <3>2 DEF SaveFollows
    <3>4. Prepare(c, "recover", task.version, u)
      BY <2>1 DEF u
    <3>5. QED BY <3>1, <3>2, <3>3, <3>4, PrepareGood
  <2>2. CASE task = NoTask /\ Prepare(c, "recover", AnyVersion, Touched(call[c].copy))
    <3>1. Touched(call[c].copy) \in TaskRecords /\ Consistent(Touched(call[c].copy))
      BY <2>0, TouchedTyped, TouchedFields DEF Consistent, LedgerBalanced, CurrentRuns
    <3>2. SaveFollows([kind |-> "save", op |-> "recover", era |-> deletes, base |-> task,
                       expected |-> AnyVersion, new |-> Touched(call[c].copy)])
      BY <2>2 DEF SaveFollows
    <3>3. QED BY <2>2, <3>1, <3>2, PrepareGood
  <2>3. QED BY <1>5, <2>1, <2>2 DEF PrepareRecovery
<1>6. QED BY <1>1, <1>2, <1>3, <1>4, <1>5, BeginKinds

\* An accepted save is newer than the row it replaces.
LEMMA CommitGrows ==
  ASSUME IInv, NEW c \in Clients, Commit(c)
  PROVE  /\ call[c] \in Saves /\ GoodCall(call[c])
         /\ task # NoTask => task.version < call[c].new.version
         /\ task' = call[c].new
<1>1. call[c] \in CallTypes /\ GoodCall(call[c])
  BY IInvSplits DEF GoodCalls
<1>2. call[c] \in Saves
  BY <1>1, KindTells DEF Commit
<1>3. call[c].new \in TaskRecords /\ call[c].new.version \in Nat
  BY <1>2 DEF Saves, TaskRecords
<1>4. task # NoTask => task.version \in Nat
  BY IInvSplits DEF GoodTables, TaskRecords
<1>5. QED BY <1>1, <1>2, <1>3, <1>4 DEF Commit, Rejected

LEMMA CommitInvariant ==
  ASSUME IInv, NEW c \in Clients, Commit(c)
  PROVE  IInv'
<1>1. GoodTables /\ GoodCalls
  BY IInvSplits
<1>2. /\ call[c] \in Saves /\ GoodCall(call[c])
      /\ task # NoTask => task.version < call[c].new.version
      /\ task' = call[c].new
  BY CommitGrows
<1>3. task' \in TaskRecords /\ task' # NoTask /\ Consistent(task')
  BY <1>2, NullAssumption DEF Saves, GoodCall, Commit
<1>4. GoodTables'
  BY <1>1, <1>3 DEF GoodTables, Commit
<1>5. ASSUME NEW q \in CallTypes, GoodCall(q)
      PROVE  GoodCall(q)'
  <2>1. CASE q.kind = "save"
    <3>1. q \in Saves /\ VersionIdentifies(q)
      BY <1>5, <2>1, KindTells DEF GoodCall
    <3>2. q.base # NoTask => q.base.version \in Nat
      BY <3>1 DEF Saves, TaskRecords
    <3>3. task # NoTask => task.version \in Nat
      BY <1>1 DEF GoodTables, TaskRecords
    <3>4. task'.version \in Nat
      BY <1>3 DEF TaskRecords
    <3>5. VersionIdentifies(q)'
      BY <1>2, <1>3, <3>1, <3>2, <3>3, <3>4 DEF VersionIdentifies, Commit
    <3>6. QED BY <1>5, <2>1, <3>5 DEF GoodCall, SaveFollows
  <2>2. CASE q.kind # "save"
    BY <1>5, <2>2 DEF GoodCall
  <2>3. QED BY <2>1, <2>2
<1>6. GoodCalls'
  <2>1. call' \in [Clients -> CallTypes]
    BY <1>1 DEF GoodCalls, Commit, Return, CallTypes
  <2>2. ASSUME NEW d \in Clients PROVE GoodCall(call[d])'
    <3>1. call'[d] = IF d = c THEN Idle ELSE call[d]
      BY <1>1 DEF GoodCalls, Commit, Return
    <3>2. Idle \in CallTypes /\ call[d] \in CallTypes /\ GoodCall(call[d])
      BY <1>1 DEF GoodCalls, CallTypes
    <3>3. QED BY <3>1, <3>2, <1>5, IdleGood
  <2>3. QED BY <2>1, <2>2 DEF GoodCalls
<1>7. IInv' <=> GoodTables' /\ GoodCalls'
  BY IInvSplits, PTL
<1>8. QED BY <1>4, <1>6, <1>7

LEMMA SaveCheckpointInvariant ==
  ASSUME IInv, NEW c \in Clients, SaveCheckpoint(c)
  PROVE  IInv'
<1>1. GoodTables /\ GoodCalls
  BY IInvSplits
<1>2. /\ call[c].id \in CheckpointIds
      /\ call[c].copy \in TaskRecords
      /\ Consistent(call[c].copy)
  BY <1>1, KindTells DEF SaveCheckpoint, GoodCalls, GoodCall, CheckpointSaves
<1>3. GoodTables'
  BY <1>1, <1>2 DEF GoodTables, SaveCheckpoint
<1>4. ASSUME NEW d \in Clients PROVE GoodCall(call[d])'
  <2>1. call'[d] = IF d = c THEN Idle ELSE call[d]
    BY <1>1 DEF GoodCalls, SaveCheckpoint, Return
  <2>2. GoodCall(call[d]) /\ UNCHANGED <<task, deletes>>
    BY <1>1 DEF GoodCalls, SaveCheckpoint
  <2>3. QED BY <2>1, <2>2, IdleGood DEF GoodCall, VersionIdentifies, SaveFollows
<1>5. GoodCalls'
  BY <1>1, <1>4 DEF GoodCalls, SaveCheckpoint, Return, CallTypes
<1>6. IInv' <=> GoodTables' /\ GoodCalls'
  BY IInvSplits, PTL
<1>7. QED BY <1>3, <1>5, <1>6

\* A deleted row starts a new incarnation: no copy of the old one is of it.
LEMMA DeleteInvariant ==
  ASSUME IInv, Delete
  PROVE  IInv'
<1>1. GoodTables /\ GoodCalls
  BY IInvSplits
<1>2. GoodTables'
  BY <1>1 DEF GoodTables, Delete
<1>3. ASSUME NEW q \in CallTypes, GoodCall(q)
      PROVE  GoodCall(q)'
  <2>1. CASE q.kind = "save"
    <3>1. q \in Saves /\ VersionIdentifies(q)
      BY <1>3, <2>1, KindTells DEF GoodCall
    <3>2. q.era \in Nat /\ deletes \in Nat /\ deletes' = deletes + 1
      BY <1>1, <3>1 DEF Saves, GoodTables, Delete
    <3>3. VersionIdentifies(q)'
      BY <3>1, <3>2 DEF VersionIdentifies
    <3>4. QED BY <1>3, <2>1, <3>3 DEF GoodCall, SaveFollows
  <2>2. CASE q.kind # "save"
    BY <1>3, <2>2 DEF GoodCall
  <2>3. QED BY <2>1, <2>2
<1>4. GoodCalls'
  BY <1>1, <1>3 DEF GoodCalls, Delete
<1>5. IInv' <=> GoodTables' /\ GoodCalls'
  BY IInvSplits, PTL
<1>6. QED BY <1>2, <1>4, <1>5

LEMMA ReturnInvariant ==
  ASSUME IInv, NEW c \in Clients, Conflict(c) \/ Crash(c)
  PROVE  IInv'
BY IdleGood, OneCallChanges DEF Conflict, Crash, Return

(***************************************************************************)
(* The theorems.                                                           *)
(***************************************************************************)

\* The inductive invariant holds in every reachable state.
THEOREM Invariant == Spec => []IInv
<1>1. Init => IInv
  <2> SUFFICES ASSUME Init PROVE IInv
    OBVIOUS
  <2>1. GoodTables
    BY DEF Init, GoodTables
  <2>2. GoodCalls
    BY IdleGood DEF Init, GoodCalls, GoodCall
  <2>3. QED BY <2>1, <2>2, IInvSplits
<1>2. IInv /\ [Next]_vars => IInv'
  <2> SUFFICES ASSUME IInv, [Next]_vars PROVE IInv'
    OBVIOUS
  <2>1. CASE Next
    BY <2>1, BeginInvariant, CommitInvariant, SaveCheckpointInvariant, ReturnInvariant,
       DeleteInvariant DEF Next
  <2>2. CASE UNCHANGED vars
    <3>1. GoodTables' /\ GoodCalls'
      BY <2>2, IInvSplits
         DEF vars, GoodTables, GoodCalls, GoodCall, VersionIdentifies, SaveFollows
    <3>2. IInv' <=> GoodTables' /\ GoodCalls'
      BY IInvSplits, PTL
    <3>3. QED BY <3>1, <3>2
  <2>3. QED BY <2>1, <2>2
<1>3. QED BY <1>1, <1>2, PTL DEF Spec

\* Type correctness.
THEOREM TypeCorrect == Spec => []TypeOK
<1>1. IInv => TypeOK
  BY DEF IInv
<1>2. QED BY <1>1, Invariant, PTL

\* No attempt of a step is settled twice, in the row or in any copy of it.
THEOREM SettledOnce == Spec => []EveryAttemptSettledOnce
<1>1. IInv => EveryAttemptSettledOnce
  BY DEF IInv, CopiesConsistent, Consistent, EveryAttemptSettledOnce, Copies
<1>2. QED BY <1>1, Invariant, PTL

\* current_step_id only ever names a running step.
THEOREM CurrentRunning == Spec => []CurrentStepRuns
<1>1. IInv => CurrentStepRuns
  BY DEF IInv, CopiesConsistent, Consistent, CurrentStepRuns, Copies
<1>2. QED BY <1>1, Invariant, PTL

\* The store refuses a save only if the row changed since it was read.
THEOREM ConflictsAreReal == Spec => []NoSpuriousConflict
<1>1. IInv => NoSpuriousConflict
  <2> SUFFICES ASSUME IInv, NEW c \in Clients, call[c].kind = "save", call[c].base = task
               PROVE  ~Rejected(call[c])
    BY DEF NoSpuriousConflict
  <2>1. GoodTables /\ call[c] \in Saves /\ SaveFollows(call[c])
    BY IInvSplits, KindTells DEF GoodCalls, GoodCall
  <2>2. CASE task = NoTask
    BY <2>1, <2>2 DEF SaveFollows, Rejected
  <2>3. CASE task # NoTask
    <3>1. task \in TaskRecords /\ task.version \in Nat
      BY <2>1, <2>3 DEF GoodTables, TaskRecords
    <3>2. call[c].new.version = task.version + 1 /\ call[c].expected = task.version
      BY <2>1, <2>3, <3>1, OperationTyped DEF SaveFollows
    <3>3. QED BY <2>3, <3>1, <3>2 DEF Rejected
  <2>4. QED BY <2>2, <2>3
<1>2. QED BY <1>1, Invariant, PTL

(***************************************************************************)
(* Action properties.                                                      *)
(***************************************************************************)

\* Only a commit changes the row and ends a save, and only a delete removes
\* the row.
LEMMA OnlyCommitsWrite ==
  ASSUME IInv, Next, task' # task
  PROVE  \/ \E c \in Clients : Commit(c)
         \/ task' = NoTask /\ call' = call
<1>1. ASSUME NEW c \in Clients, Begin(c)
      PROVE  task' = task
  BY <1>1, BeginKinds DEF CreateTask, Updating, TakeCheckpoint, ReadCheckpoint, PrepareRecovery,
     Prepare
<1>2. QED
  BY <1>1 DEF Next, Conflict, SaveCheckpoint, Crash, Delete

\* A commit within the incarnation it read writes over the row it read.
LEMMA CommitOverItsBase ==
  ASSUME IInv, NEW c \in Clients, Commit(c), call[c].era = deletes, ~Blind(call[c])
  PROVE  call[c].base = task
<1>1. /\ call[c] \in Saves /\ SaveFollows(call[c]) /\ VersionIdentifies(call[c])
      /\ task # NoTask => task.version < call[c].new.version
  BY CommitGrows DEF GoodCall, Commit
<1>2. task # NoTask => task.version \in Nat
  BY IInvSplits DEF GoodTables, TaskRecords
<1>3. CASE call[c].op = "create"
  <2>1. call[c].base = NoTask /\ call[c].new.version = 0
    BY <1>1, <1>3, NewTaskSound DEF SaveFollows
  <2>2. QED BY <1>1, <1>2, <2>1
<1>4. CASE call[c].op # "create"
  <2>1. call[c].base # NoTask /\ call[c].expected = call[c].base.version
    BY <1>1, <1>4 DEF SaveFollows, Blind
  <2>2. call[c].base.version \in Nat
    BY <1>1, <2>1 DEF Saves, TaskRecords
  <2>3. task # NoTask
    BY <1>1, <2>1 DEF VersionIdentifies
  <2>4. call[c].base.version = task.version
    BY <2>1, <2>2, <2>3 DEF Commit, Rejected, AnyVersion
  <2>5. QED BY <1>1, <2>1, <2>4 DEF VersionIdentifies
<1>5. QED BY <1>3, <1>4

\* No call overwrites a row it has not read.
THEOREM LostUpdatesExcluded == Spec => NoLostUpdate
<1> DEFINE Overwrites(c) ==
      /\ call[c].kind = "save"
      /\ task' # task
      /\ call'[c] # call[c]
      /\ call[c].era = deletes
      /\ ~Blind(call[c])
<1>1. IInv /\ [Next]_vars => [\A c \in Clients : Overwrites(c) => call[c].base = task]_vars
  <2> SUFFICES ASSUME IInv, Next, NEW c \in Clients, Overwrites(c)
               PROVE  call[c].base = task
    OBVIOUS
  <2>1. PICK d \in Clients : Commit(d)
    BY OnlyCommitsWrite
  <2>2. d = c
    BY <2>1, IInvSplits DEF GoodCalls, Commit, Return
  <2>3. QED BY <2>1, <2>2, CommitOverItsBase
<1>2. QED BY <1>1, Invariant, PTL DEF Spec, NoLostUpdate

\* What a step that replaces one row by another may be, when no copy of an
\* earlier incarnation is still held by a call.
LEMMA Replacement ==
  ASSUME IInv, Next, SameIncarnation, task # NoTask, task' # NoTask, task' # task
  PROVE  \/ SomeoneRestores /\ task'.version > task.version
         \/ task \in TaskRecords /\ OneOperation(task, task')
<1>1. PICK c \in Clients : Commit(c)
  BY OnlyCommitsWrite
<1>2. /\ call[c] \in Saves /\ SaveFollows(call[c])
      /\ task.version < call[c].new.version
      /\ task' = call[c].new /\ call[c].new \in TaskRecords
      /\ task \in TaskRecords
  BY <1>1, CommitGrows, IInvSplits DEF GoodCall, Commit, GoodTables, Saves
<1>3. task.version \in Nat /\ call[c].new.version \in Nat
  BY <1>2 DEF TaskRecords
<1>4. CASE call[c].op = "recover"
  <2>1. call'[c] = Idle
    BY <1>1, IInvSplits DEF GoodCalls, Commit, Return
  <2>2. QED BY <1>1, <1>2, <1>3, <1>4, <2>1 DEF SomeoneRestores, Restores, Commit
<1>5. CASE call[c].op # "recover"
  <2>1. call[c].base = task
    BY <1>1, <1>5, CommitOverItsBase DEF SameIncarnation, Commit, Blind
  <2>2. QED BY <1>2, <1>5, <2>1 DEF SaveFollows
<1>6. QED BY <1>4, <1>5

\* A COMPLETED or CANCELLED task leaves that status by recovery only.
THEOREM TerminalStatusesFinal == Spec => TerminalIsFinal
<1>1. IInv /\ [Next]_vars =>
        [(/\ SameIncarnation
          /\ task # NoTask /\ task' # NoTask
          /\ task.status \in {"completed", "cancelled"}
          /\ task'.status # task.status)
         => SomeoneRestores /\ task'.version > task.version]_vars
  BY Replacement, OperationCloses
<1>2. QED BY <1>1, Invariant, PTL DEF Spec, TerminalIsFinal

\* A task becomes COMPLETED only over a row whose steps are all done.
THEOREM CompletionSound == Spec => CompletionIsSound
<1>1. IInv /\ [Next]_vars =>
        [(/\ SameIncarnation
          /\ task # NoTask /\ task' # NoTask
          /\ task'.status = "completed" /\ task.status # "completed")
         => SomeoneRestores \/ (task.status \in {"pending", "running"} /\ AllStepsDone(task))]_vars
  BY Replacement, OperationCloses
<1>2. QED BY <1>1, Invariant, PTL DEF Spec, CompletionIsSound

-----------------------------------------------------------------------------
(***************************************************************************)
(* TaskState implements TaskLifecycle, as long as no row is deleted: every *)
(* commit is one atomic operation on the row as it is at that moment, and  *)
(* every other step of a call is invisible.                                *)
(***************************************************************************)

\* Where a recovery's copy comes from.
Recovered(u, base) ==
  \E k \in CheckpointIds :
    /\ checkpoints[k] # NoCheckpoint
    /\ u = [checkpoints[k] EXCEPT !.version = base.version + 1]

\* What a call holds, besides what IInv says of it.
Traceable(p) ==
  /\ p.kind = "checkpoint" => task # NoTask /\ p.copy.version <= task.version
  /\ p.kind = "recovery" =>
       \E k \in CheckpointIds : checkpoints[k] # NoCheckpoint /\ p.copy = checkpoints[k]
  /\ p.kind = "save" =>
       /\ p.era = 0
       /\ p.op = "recover" => p.base # NoTask /\ Recovered(p.new, p.base)

\* Checkpoints are copies of versions the row has had.
CheckpointsBehind ==
  \A k \in CheckpointIds :
    checkpoints[k] # NoCheckpoint =>
      task # NoTask /\ checkpoints[k].version <= task.version

RInv ==
  /\ deletes = 0
  /\ CheckpointsBehind
  /\ \A c \in Clients : Traceable(call[c])

(***************************************************************************)
(* The operations of the two specifications are the same.                  *)
(***************************************************************************)
LEMMA SameOperations ==
  ASSUME NEW t, NEW u
  PROVE  /\ Lifecycle!OneOperation(t, u) <=> OneOperation(t, u)
         /\ Lifecycle!Consistent(t) <=> Consistent(t)
         /\ Lifecycle!NewTask = NewTask
<1>1. Lifecycle!NewTask = NewTask
  BY DEF Lifecycle!NewTask, NewTask, Lifecycle!AbsentStep, AbsentStep
<1>2. Lifecycle!Consistent(t) <=> Consistent(t)
  BY DEF Lifecycle!Consistent, Consistent, Lifecycle!LedgerBalanced, LedgerBalanced,
         Lifecycle!CurrentRuns, CurrentRuns
<1>3. ASSUME NEW s
      PROVE  Lifecycle!StepOperation(t, u, s) <=> StepOperation(t, u, s)
  BY DEF Lifecycle!StepOperation, StepOperation, Lifecycle!Touched, Touched,
         Lifecycle!CanAddStep, CanAddStep, Lifecycle!StepAdded, StepAdded,
         Lifecycle!CanStartStep, CanStartStep, Lifecycle!StepStarted, StepStarted,
         Lifecycle!CanSettleStep, CanSettleStep, Lifecycle!Closed, Closed,
         Lifecycle!StepCompleted, StepCompleted, Lifecycle!StepFailed, StepFailed,
         Lifecycle!Settled, Settled, Lifecycle!WithStep, WithStep, Lifecycle!Ended, Ended,
         Lifecycle!Attempted, Attempted, Lifecycle!PendingStep, PendingStep
<1>4. Lifecycle!TaskOperation(t, u) <=> TaskOperation(t, u)
  BY DEF Lifecycle!TaskOperation, TaskOperation, Lifecycle!Touched, Touched,
         Lifecycle!CanStartTask, CanStartTask, Lifecycle!TaskStarted, TaskStarted,
         Lifecycle!CanCompleteTask, CanCompleteTask, Lifecycle!TaskCompleted, TaskCompleted,
         Lifecycle!CanFailTask, CanFailTask, Lifecycle!TaskFailed, TaskFailed,
         Lifecycle!CanCancelTask, CanCancelTask, Lifecycle!TaskCancelled, TaskCancelled,
         Lifecycle!CanResume, CanResume, Lifecycle!Resumed, Resumed,
         Lifecycle!AllStepsDone, AllStepsDone, Lifecycle!Closed, Closed
<1>5. ASSUME NEW k
      PROVE  Lifecycle!Touched(Lifecycle!MetadataUpdated(t, k)) = Touched(MetadataUpdated(t, k))
  BY DEF Lifecycle!Touched, Touched, Lifecycle!MetadataUpdated, MetadataUpdated
<1>6. Lifecycle!OneOperation(t, u) <=> OneOperation(t, u)
  BY <1>3, <1>4, <1>5 DEF Lifecycle!OneOperation, OneOperation
<1>7. QED BY <1>1, <1>2, <1>6

(***************************************************************************)
(* The second invariant.                                                   *)
(***************************************************************************)

\* Where Begin leaves the call, for a client that had a traceable one.
LEMMA BeginTraceable ==
  ASSUME IInv, RInv, NEW c \in Clients, Begin(c)
  PROVE  RInv'
<1>0. GoodTables /\ GoodCalls
  BY IInvSplits
<1>1. UNCHANGED <<task, checkpoints, deletes>>
  BY BeginKinds DEF CreateTask, Updating, TakeCheckpoint, ReadCheckpoint, PrepareRecovery,
     Prepare
<1>2. ASSUME NEW p, Traceable(p), call' = [call EXCEPT ![c] = p]
      PROVE  RInv'
  <2>1. ASSUME NEW q PROVE Traceable(q) => Traceable(q)'
    BY <1>1 DEF Traceable, Recovered
  <2>2. ASSUME NEW d \in Clients PROVE Traceable(call[d])'
    <3>1. call'[d] = IF d = c THEN p ELSE call[d]
      BY <1>0, <1>2 DEF GoodCalls
    <3>2. Traceable(call[d])
      BY DEF RInv
    <3>3. QED BY <1>2, <2>1, <3>1, <3>2
  <2>3. QED BY <1>1, <2>2 DEF RInv, CheckpointsBehind
<1>3. ASSUME NEW op \in {"create", "update"}, NEW expected, NEW new,
             Prepare(c, op, expected, new)
      PROVE  RInv'
  <2>1. Traceable([kind |-> "save", op |-> op, era |-> deletes,
                   base |-> task, expected |-> expected, new |-> new])
    BY DEF Traceable, RInv
  <2>2. QED BY <1>2, <1>3, <2>1 DEF Prepare
<1>4. CASE CreateTask(c) \/ Updating(c)
  BY <1>3, <1>4 DEF CreateTask, Updating
<1>5. ASSUME NEW k \in CheckpointIds, TakeCheckpoint(c, k)
      PROVE  RInv'
  <2>1. task # NoTask /\ task.version \in Nat
    BY <1>0, <1>5 DEF TakeCheckpoint, Requires, GoodTables, TaskRecords
  <2>2. Traceable([kind |-> "checkpoint", id |-> k, copy |-> task])
    BY <2>1 DEF Traceable
  <2>3. QED BY <1>2, <1>5, <2>2 DEF TakeCheckpoint
<1>6. ASSUME NEW k \in CheckpointIds, ReadCheckpoint(c, k)
      PROVE  RInv'
  <2>1. Traceable([kind |-> "recovery", copy |-> checkpoints[k]])
    BY <1>6 DEF Traceable, ReadCheckpoint, Latest
  <2>2. QED BY <1>2, <1>6, <2>1 DEF ReadCheckpoint
<1>7. CASE PrepareRecovery(c)
  <2>1. PICK k \in CheckpointIds : checkpoints[k] # NoCheckpoint /\ call[c].copy = checkpoints[k]
    BY <1>7 DEF PrepareRecovery, RInv, Traceable
  <2>2. task # NoTask
    BY <2>1 DEF RInv, CheckpointsBehind
  <2> DEFINE u == [call[c].copy EXCEPT !.version = task.version + 1]
  <2>3. Recovered(u, task)
    BY <2>1 DEF Recovered
  <2>4. Prepare(c, "recover", task.version, u)
    BY <1>7, <2>2 DEF PrepareRecovery
  <2> HIDE DEF u
  <2>5. Traceable([kind |-> "save", op |-> "recover", era |-> deletes,
                   base |-> task, expected |-> task.version, new |-> u])
    BY <2>2, <2>3 DEF Traceable, RInv
  <2>6. QED BY <1>2, <2>4, <2>5 DEF Prepare
<1>8. QED BY <1>4, <1>5, <1>6, <1>7, BeginKinds

\* A step that ends one call and lets the row and the checkpoints only grow.
LEMMA ReturnTraceable ==
  ASSUME IInv, RInv, NEW c \in Clients, Return(c), deletes' = deletes,
         CheckpointsBehind',
         \A k \in CheckpointIds :
           checkpoints[k] # NoCheckpoint => checkpoints'[k] = checkpoints[k],
         task # NoTask => task' \in TaskRecords /\ task' # NoTask /\ task.version <= task'.version
  PROVE  RInv'
<1>0. GoodTables /\ GoodCalls
  BY IInvSplits
<1>1. ASSUME NEW q \in CallTypes, Traceable(q)
      PROVE  Traceable(q)'
  <2>1. CASE q.kind = "checkpoint"
    <3>1. q.copy.version \in Nat /\ task # NoTask /\ q.copy.version <= task.version
      BY <1>1, <2>1, KindTells DEF CheckpointSaves, Traceable, TaskRecords
    <3>2. task.version \in Nat /\ task'.version \in Nat
      BY <1>0, <3>1 DEF GoodTables, TaskRecords
    <3>3. QED BY <2>1, <3>1, <3>2 DEF Traceable
  <2>2. CASE q.kind = "recovery"
    BY <1>1, <2>2 DEF Traceable
  <2>3. CASE q.kind = "save"
    BY <1>1, <2>3 DEF Traceable, Recovered
  <2>4. CASE q.kind \notin {"checkpoint", "recovery", "save"}
    BY <2>4 DEF Traceable
  <2>5. QED BY <2>1, <2>2, <2>3, <2>4
<1>2. ASSUME NEW d \in Clients PROVE Traceable(call[d])'
  <2>1. call'[d] = IF d = c THEN Idle ELSE call[d]
    BY <1>0 DEF GoodCalls, Return
  <2>2. Traceable(Idle)'
    BY DEF Traceable, Idle
  <2>3. call[d] \in CallTypes /\ Traceable(call[d])
    BY <1>0 DEF GoodCalls, RInv
  <2>4. QED BY <2>1, <2>2, <2>3, <1>1
<1>3. QED BY <1>2 DEF RInv

LEMMA CommitTraceable ==
  ASSUME IInv, RInv, NEW c \in Clients, Commit(c)
  PROVE  RInv'
<1>0. GoodTables /\ GoodCalls
  BY IInvSplits
<1>1. /\ task' \in TaskRecords
      /\ task # NoTask => task.version < task'.version
  BY CommitGrows DEF Saves
<1>2. task' # NoTask /\ task'.version \in Nat
  BY <1>1, NullAssumption DEF TaskRecords
<1>3. task # NoTask => task.version \in Nat
  BY <1>0 DEF GoodTables, TaskRecords
<1>4. \A k \in CheckpointIds : checkpoints[k] # NoCheckpoint => checkpoints[k].version \in Nat
  BY <1>0 DEF GoodTables, TaskRecords
<1>5. CheckpointsBehind'
  BY <1>1, <1>2, <1>3, <1>4 DEF RInv, CheckpointsBehind, Commit
<1>6. task # NoTask => task.version <= task'.version
  BY <1>1, <1>2, <1>3
<1>7. QED BY <1>1, <1>2, <1>5, <1>6, ReturnTraceable DEF Commit

LEMMA SaveCheckpointTraceable ==
  ASSUME IInv, RInv, NEW c \in Clients, SaveCheckpoint(c)
  PROVE  RInv'
<1>0. GoodTables /\ GoodCalls
  BY IInvSplits
<1>1. call[c].id \in CheckpointIds /\ task # NoTask /\ call[c].copy.version <= task.version
  BY <1>0, KindTells DEF SaveCheckpoint, GoodCalls, CheckpointSaves, RInv, Traceable
<1>2. CheckpointsBehind'
  BY <1>0, <1>1 DEF SaveCheckpoint, RInv, CheckpointsBehind, GoodTables
<1>3. \A k \in CheckpointIds : checkpoints[k] # NoCheckpoint => checkpoints'[k] = checkpoints[k]
  BY <1>0, <1>1 DEF SaveCheckpoint, GoodTables
<1>4. task' \in TaskRecords /\ task' # NoTask /\ task.version <= task'.version
  BY <1>0, <1>1 DEF SaveCheckpoint, GoodTables, TaskRecords
<1>5. QED BY <1>2, <1>3, <1>4, ReturnTraceable DEF SaveCheckpoint

LEMMA NothingSavedTraceable ==
  ASSUME IInv, RInv, NEW c \in Clients, Conflict(c) \/ Crash(c)
  PROVE  RInv'
<1>1. task # NoTask => task' \in TaskRecords /\ task' # NoTask /\ task.version <= task'.version
  BY IInvSplits DEF Conflict, Crash, GoodTables, TaskRecords
<1>2. CheckpointsBehind'
  BY DEF Conflict, Crash, RInv, CheckpointsBehind
<1>3. QED BY <1>1, <1>2, ReturnTraceable DEF Conflict, Crash

THEOREM Tracing == ASSUME MaxDeletes = 0 PROVE Spec => []RInv
<1>1. Init => RInv
  BY DEF Init, RInv, CheckpointsBehind, Traceable, Idle
<1>2. IInv /\ RInv /\ [Next]_vars => RInv'
  <2> SUFFICES ASSUME IInv, RInv, [Next]_vars PROVE RInv'
    OBVIOUS
  <2>1. ~Delete
    BY DEF Delete, RInv
  <2>2. CASE Next
    BY <2>1, <2>2, BeginTraceable, CommitTraceable, SaveCheckpointTraceable,
       NothingSavedTraceable DEF Next
  <2>3. CASE UNCHANGED vars
    BY <2>3 DEF vars, RInv, CheckpointsBehind, Traceable, Recovered
  <2>4. QED BY <2>2, <2>3
<1>3. QED BY <1>1, <1>2, Invariant, PTL DEF Spec

(***************************************************************************)
(* Every step is an atomic operation or invisible.                         *)
(***************************************************************************)
LEMMA CommitImplements ==
  ASSUME IInv, RInv, NEW c \in Clients, Commit(c)
  PROVE  Lifecycle!Next
<1>1. /\ call[c] \in Saves /\ SaveFollows(call[c]) /\ Traceable(call[c])
      /\ task' = call[c].new /\ checkpoints' = checkpoints
  BY CommitGrows DEF GoodCall, Commit, RInv
<1>2. call[c].base = task
  BY <1>1, CommitOverItsBase DEF Traceable, Commit, RInv, Blind
<1>3. CASE call[c].op = "create"
  <2>1. task = NoTask /\ task' = NewTask
    BY <1>1, <1>2, <1>3 DEF SaveFollows
  <2>2. Lifecycle!Create
    BY <1>1, <2>1, SameOperations DEF Lifecycle!Create
  <2>3. QED BY <2>2 DEF Lifecycle!Next
<1>4. CASE call[c].op = "update"
  <2>1. task # NoTask /\ OneOperation(task, task')
    BY <1>1, <1>2, <1>4 DEF SaveFollows
  <2>2. Lifecycle!Operation
    BY <1>1, <2>1, SameOperations DEF Lifecycle!Operation
  <2>3. QED BY <2>2 DEF Lifecycle!Next
<1>5. CASE call[c].op = "recover"
  <2>1. task # NoTask /\ Recovered(task', task)
    BY <1>1, <1>2, <1>5, Zenon DEF Traceable, Commit
  <2>2. PICK k \in CheckpointIds :
          checkpoints[k] # NoCheckpoint
          /\ task' = [checkpoints[k] EXCEPT !.version = task.version + 1]
    BY <2>1 DEF Recovered
  <2>3. Lifecycle!Recover(k)
    BY <1>1, <2>1, <2>2 DEF Lifecycle!Recover
  <2>4. QED BY <2>3 DEF Lifecycle!Next
<1>6. QED BY <1>1, <1>3, <1>4, <1>5 DEF Saves

LEMMA SaveCheckpointImplements ==
  ASSUME IInv, RInv, NEW c \in Clients, SaveCheckpoint(c)
  PROVE  [Lifecycle!Next]_(Lifecycle!vars)
<1>0. GoodTables /\ GoodCalls
  BY IInvSplits
<1> DEFINE k == call[c].id
           copy == call[c].copy
<1>1. /\ k \in CheckpointIds /\ copy \in TaskRecords /\ Consistent(copy)
      /\ task # NoTask /\ copy.version <= task.version
  BY <1>0, KindTells
     DEF SaveCheckpoint, GoodCalls, GoodCall, CheckpointSaves, RInv, Traceable
<1>2. CASE checkpoints[k] = NoCheckpoint
  <2>1. checkpoints' = [checkpoints EXCEPT ![k] = copy] /\ checkpoints'[k] = copy
    BY <1>0, <1>1, <1>2 DEF SaveCheckpoint, GoodTables
  <2>2. copy # NoCheckpoint
    BY <1>1, CheckpointAssumption
  <2> HIDE DEF k, copy
  <2>3. Lifecycle!Checkpoint(k)
    BY <1>1, <1>2, <2>1, <2>2, SameOperations DEF Lifecycle!Checkpoint, SaveCheckpoint
  <2>4. QED BY <1>1, <2>3 DEF Lifecycle!Next
<1>3. CASE checkpoints[k] # NoCheckpoint
  BY <1>3 DEF SaveCheckpoint, Lifecycle!vars
<1>4. QED BY <1>2, <1>3

\* The concurrent store with its two-step calls, crashes and refused saves
\* implements the atomic store.
THEOREM Implements == ASSUME MaxDeletes = 0 PROVE Spec => LifecycleSpec
<1>1. Init => Lifecycle!Init
  BY DEF Init, Lifecycle!Init
<1>2. IInv /\ RInv /\ [Next]_vars => [Lifecycle!Next]_(Lifecycle!vars)
  <2> SUFFICES ASSUME IInv, RInv, [Next]_vars PROVE [Lifecycle!Next]_(Lifecycle!vars)
    OBVIOUS
  <2>1. ASSUME NEW c \in Clients, Begin(c)
        PROVE  UNCHANGED Lifecycle!vars
    BY <2>1, BeginKinds
       DEF CreateTask, Updating, TakeCheckpoint, ReadCheckpoint, PrepareRecovery, Prepare,
           Lifecycle!vars
  <2>2. ASSUME NEW c \in Clients, Conflict(c) \/ Crash(c)
        PROVE  UNCHANGED Lifecycle!vars
    BY <2>2 DEF Conflict, Crash, Lifecycle!vars
  <2>3. ~Delete
    BY DEF Delete, RInv
  <2>4. CASE UNCHANGED vars
    BY <2>4 DEF vars, Lifecycle!vars
  <2>5. CASE Next
    BY <2>1, <2>2, <2>3, <2>5, CommitImplements, SaveCheckpointImplements DEF Next
  <2>6. QED BY <2>4, <2>5
<1>3. QED
  BY <1>1, <1>2, Invariant, Tracing, PTL DEF Spec, LifecycleSpec, Lifecycle!Spec
=============================================================================
