-------------------------- MODULE ExecutionGateProofs --------------------------
(***************************************************************************)
(* Approvals with one manager for all its clients: a request is decided    *)
(* once and its tool runs at most once, for any number of requests and     *)
(* clients.  The gate and the broker act on requests through the manager   *)
(* only, so that what is proved of the manager holds of the three          *)
(* together; and no sensitive tool runs more often than approvals of it    *)
(* were recorded, nor does an audit trail miss a call that ran.            *)
(***************************************************************************)
EXTENDS ExecutionGate, FiniteSetTheorems, TLAPS

OneManager == \A c, d \in Clients : Manager[c] = Manager[d]

\* No manager lock is held by two, so nobody but c is under way in the lock.
LEMMA Exclusive ==
  ASSUME OneManager, HoldersHold, NEW c \in Clients, NEW d \in Clients,
         InLock(c), InLock(d)
  PROVE  c = d
  BY DEF OneManager, HoldersHold

LEMMA FreeLock ==
  ASSUME OneManager, HoldersHold, NEW c \in Clients, NEW d \in Clients, Acquire(c)
  PROVE  ~InLock(d)
  BY NobodyAssumption DEF OneManager, HoldersHold, Acquire

LEMMA Typing == TypeOK /\ [Next]_vars => TypeOK'
<1> SUFFICES ASSUME TypeOK, [Next]_vars PROVE TypeOK'
  OBVIOUS
<1> USE ManagerAssumption, ExpiringAssumption DEF TypeOK
<1>2. CASE UNCHANGED vars
  BY <1>2 DEF vars
<1>3. ASSUME NEW c \in Clients, NEW a \in Approvals, NEW op \in Operations, Ask(c, op, a)
      PROVE  TypeOK'
  <2>2. [phase |-> "wait", op |-> op, id |-> a, seen |-> "none", new |-> "none", ids |-> {}]
          \in Calls
    BY DEF Calls, Statuses
  <2> QED
    BY <1>3, <2>2 DEF Ask, Step
<1>5. ASSUME NEW c \in Clients, Continue(c) \/ Abort(c) PROVE TypeOK'
  <2>1. call[c] # Idle
    <3>1. call[c] # Idle \/ call[c].phase # "idle"
      BY <1>5 DEF Continue, Abort, Read, ReadPending, Acquire, NextPending, DecideLapsed,
                  Decide, DecideNothing, Save, Execute
    <3> QED
      BY <3>1 DEF Idle
  <2> DEFINE r == call[c]
  <2>2. r \in Calls
    BY <2>1
  <2>3. /\ \A ph \in {"read", "write", "next", "execute"} : [r EXCEPT !.phase = ph] \in Calls
        /\ \A v \in Statuses : [r EXCEPT !.phase = "write", !.new = v] \in Calls
        /\ \A a \in Approvals :
             [r EXCEPT !.phase = "read", !.id = a, !.ids = r.ids \ {a}] \in Calls
        /\ r.id \in Approvals /\ r.new \in Statuses /\ r.op \in Operations
        /\ r.ids \in SUBSET Approvals
    BY <2>2 DEF Calls
  <2>30. CASE Read(c) \/ ReadPending(c)
    <3>1. /\ [r EXCEPT !.phase = "read", !.seen = row[r.id], !.new = row[r.id]] \in Calls
          /\ [r EXCEPT !.phase = "next", !.seen = "pending", !.new = "pending", !.ids = Pending]
               \in Calls
      <4>1. row[r.id] \in Statuses /\ "pending" \in Statuses /\ Pending \in SUBSET Approvals
        BY <2>3 DEF Pending, Statuses
      <4> QED
        BY <2>2, <4>1 DEF Calls
    <3> QED
      BY <2>30, <3>1 DEF Read, ReadPending, Acquire, Step
  <2>31. ASSUME NEW q \in {Idle} \cup Calls, Step(c, q)
        PROVE  call' \in [Clients -> {Idle} \cup Calls]
    BY <2>31 DEF Step
  <2>32. Release(c) => lock' \in [Managers -> Clients \cup {Nobody}]
    BY DEF Release
  <2>4. CASE NextPending(c)
    <3>1. UNCHANGED <<row, lapsed, executions>>
      BY <2>4 DEF NextPending
    <3>2. CASE Return(c)
      BY <2>31, <2>32, <3>1, <3>2 DEF Return
    <3>3. ASSUME NEW a \in r.ids, UNCHANGED lock,
                 Step(c, [r EXCEPT !.phase = "read", !.id = a, !.ids = r.ids \ {a}])
          PROVE  TypeOK'
      <4>1. [r EXCEPT !.phase = "read", !.id = a, !.ids = r.ids \ {a}] \in Calls
        BY <2>3
      <4> QED
        BY <2>31, <3>1, <3>3, <4>1
    <3> QED
      BY <2>4, <3>2, <3>3 DEF NextPending
  <2>5. CASE DecideLapsed(c)
    <3>1. Write(c, "expired") /\ "expired" \in Statuses
      BY <2>5 DEF DecideLapsed, Statuses, Decided
    <3> QED
      BY <2>3, <3>1 DEF Write, Step
  <2>6. CASE Decide(c)
    <3>1. Target(r.op) \in Statuses
      BY <2>3, <2>6 DEF Decide, Refused, Target, Operations, Transitions, Statuses, Decided
    <3>2. Write(c, Target(r.op))
      BY <2>6 DEF Decide
    <3> QED
      BY <2>3, <3>1, <3>2 DEF Write, Step
  <2>7. CASE DecideNothing(c)
    <3>1. UNCHANGED <<row, lapsed, executions>> /\ ReturnOrNext(c)
      BY <2>7 DEF DecideNothing
    <3>2. CASE Return(c)
      BY <2>31, <2>32, <3>1, <3>2 DEF Return
    <3>3. CASE Step(c, [r EXCEPT !.phase = "next"]) /\ UNCHANGED lock
      BY <2>3, <2>31, <3>1, <3>3
    <3> QED
      BY <3>1, <3>2, <3>3 DEF ReturnOrNext
  <2>8. CASE Save(c)
    <3>1. row' \in [Approvals -> Statuses] /\ UNCHANGED <<lapsed, executions>>
      BY <2>3, <2>8 DEF Save
    <3>2. lock' \in [Managers -> Clients \cup {Nobody}]
      BY <2>8 DEF Save, ReturnOrNext, Return, Release
    <3>3. call' \in [Clients -> {Idle} \cup Calls]
      BY <2>3, <2>8 DEF Save, ReturnOrNext, Return, Step
    <3> QED
      BY <3>1, <3>2, <3>3
  <2>9. CASE Execute(c)
    <3>1. executions' \in [Approvals -> Nat] /\ UNCHANGED <<row, lapsed, lock>>
      <4>0. r.id \in Approvals
        BY <2>3
      <4>1. executions[r.id] \in Nat /\ executions[r.id] + 1 \in Nat
        <5> HIDE DEF r
        <5> QED
          BY <4>0
      <4>2. executions' = [executions EXCEPT ![r.id] = executions[r.id] + 1]
        BY <2>9 DEF Execute
      <4>3. UNCHANGED <<row, lapsed, lock>>
        BY <2>9 DEF Execute
      <4> HIDE DEF r
      <4> QED
        BY <4>0, <4>1, <4>2, <4>3
    <3>2. call' \in [Clients -> {Idle} \cup Calls]
      BY <2>9 DEF Execute, Step
    <3> QED
      BY <3>1, <3>2
  <2>10. CASE Abort(c)
    BY <2>10 DEF Abort, Release, Step
  <2> QED
    BY <1>5, <2>30, <2>4, <2>5, <2>6, <2>7, <2>8, <2>9, <2>10 DEF Continue
<1>6. ASSUME NEW a \in Expiring, Lapse(a) PROVE TypeOK'
  BY <1>6 DEF Lapse
<1> QED
  BY <1>2, <1>3, <1>5, <1>6 DEF Next

-----------------------------------------------------------------------------
\* What Step(c, r) does to the calls.
LEMMA Frame ==
  ASSUME TypeOK, NEW c \in Clients, NEW r, Step(c, r)
  PROVE  call'[c] = r /\ \A d \in Clients \ {c} : call'[d] = call[d]
  BY DEF TypeOK, Step

\* The rest of the invariant, client by client.
Sound(d) ==
  /\ InLock(d) => lock[Manager[d]] = d
  /\ call[d].phase \in {"read", "write"} =>
       call[d].seen = row[call[d].id] /\ call[d].id \notin call[d].ids
  /\ InLock(d) => \A a \in call[d].ids : row[a] = "pending"
  /\ InLock(d) /\ (call[d].op = "list" \/ call[d].phase = "next") => call[d].seen = "pending"
  /\ call[d].phase = "write" =>
       \/ call[d].seen = "pending" /\ call[d].new \in Decided
       \/ call[d].seen = "none" /\ call[d].new = "pending"
  /\ call[d].phase = "execute" => row[call[d].id] = "approved" /\ executions[call[d].id] = 0
  /\ call[d].phase = "wait" => call[d].ids = {}

AllSound == \A d \in Clients : Sound(d)

OneExecutor ==
  \A c, d \in Clients :
    call[c].phase = "execute" /\ call[d].phase = "execute" /\ call[c].id = call[d].id => c = d

Counted == \A a \in Approvals : executions[a] > 0 => executions[a] = 1 /\ row[a] = "approved"

LEMMA Regrouped ==
  ASSUME TypeOK
  PROVE  IInv <=> AllSound /\ OneExecutor /\ Counted
<1>1. ASSUME NEW a \in Approvals PROVE executions[a] \in Nat
  BY DEF TypeOK
<1>2. ASSUME NEW c \in Clients, call[c].phase = "execute" PROVE call[c].id \in Approvals
  BY <1>2 DEF TypeOK, Calls, Idle
<1>3. ASSUME IInv PROVE AllSound /\ OneExecutor /\ Counted
  <2>1. AllSound
    BY <1>1, <1>2, <1>3 DEF IInv, HoldersHold, CopiesAreFresh, WritesAreLegal,
       NoExecutionWithoutApproval, ExecutedAtMostOnce, AllSound, Sound, Executing
  <2>2. OneExecutor
    BY <1>2, <1>3 DEF IInv, ExecutedAtMostOnce, OneExecutor, Executing
  <2>3. Counted
    BY <1>1, <1>3 DEF IInv, ExecutedAtMostOnce, NoExecutionWithoutApproval, Counted
  <2> QED
    BY <2>1, <2>2, <2>3
<1>4. ASSUME AllSound, OneExecutor, Counted PROVE IInv
  <2>1. HoldersHold /\ CopiesAreFresh /\ WritesAreLegal
    BY <1>4 DEF HoldersHold, CopiesAreFresh, WritesAreLegal, AllSound, Sound
  <2>2. NoExecutionWithoutApproval
    BY <1>4 DEF NoExecutionWithoutApproval, AllSound, Sound, Counted
  <2>3. ExecutedAtMostOnce
    <3>1. ASSUME NEW a \in Approvals PROVE executions[a] <= 1
      BY <1>1, <1>4 DEF Counted
    <3>2. ASSUME NEW a \in Approvals, NEW c \in Executing(a)
          PROVE  executions[a] = 0 /\ Executing(a) = {c}
      BY <1>4 DEF AllSound, Sound, OneExecutor, Executing
    <3> QED
      BY <3>1, <3>2 DEF ExecutedAtMostOnce
  <2> QED
    BY <2>1, <2>2, <2>3 DEF IInv
<1> QED
  BY <1>3, <1>4

-----------------------------------------------------------------------------
\* A client that is not in the lock and does not move stays sound, as long as
\* the request it is about to execute is left alone.
LEMMA Bystander ==
  ASSUME NEW d \in Clients, Sound(d), ~InLock(d), call'[d] = call[d],
         call[d].phase = "execute" =>
           row'[call[d].id] = row[call[d].id] /\ executions'[call[d].id] = executions[call[d].id]
  PROVE  Sound(d)'
  BY DEF Sound, InLock

LEMMA HoldersFromSound == AllSound => HoldersHold
  BY DEF AllSound, Sound, HoldersHold

\* The executors are those there were, or fewer.
LEMMA ExecutorsStay ==
  ASSUME OneExecutor,
         \A d \in Clients : call'[d].phase = "execute" =>
           call[d].phase = "execute" /\ call'[d].id = call[d].id
  PROVE  OneExecutor'
  BY DEF OneExecutor

LEMMA AskStep ==
  ASSUME TypeOK, AllSound, OneExecutor, Counted, NEW c \in Clients, NEW a \in Approvals,
         NEW op \in Operations, Ask(c, op, a)
  PROVE  AllSound' /\ OneExecutor' /\ Counted'
<1>1. call'[c].phase = "wait" /\ call'[c].ids = {} /\ UNCHANGED <<row, lock, executions>>
  BY Frame DEF Ask
<1>2. ASSUME NEW d \in Clients \ {c} PROVE call'[d] = call[d]
  BY Frame DEF Ask
<1>3. Sound(c)'
  BY <1>1 DEF Sound, InLock
<1>4. ASSUME NEW d \in Clients \ {c} PROVE Sound(d)'
  BY <1>1, <1>2 DEF AllSound, Sound, InLock
<1> QED
  BY <1>1, <1>2, <1>3, <1>4, ExecutorsStay DEF AllSound, Counted

LEMMA AcquireStep ==
  ASSUME OneManager, TypeOK, AllSound, OneExecutor, Counted, NEW c \in Clients,
         ReadPending(c) \/ Read(c)
  PROVE  AllSound' /\ OneExecutor' /\ Counted'
<1> DEFINE r == call[c]
<1>1. HoldersHold
  BY HoldersFromSound
<1>2. Acquire(c) /\ UNCHANGED <<row, executions>>
  BY DEF Read, ReadPending
<1>3. lock'[Manager[c]] = c
  BY <1>2, ManagerAssumption DEF TypeOK, Acquire
<1>4. ASSUME NEW d \in Clients \ {c} PROVE call'[d] = call[d]
  BY DEF Read, ReadPending, Step, TypeOK
<1>5. ASSUME NEW d \in Clients \ {c} PROVE Sound(d)'
  BY <1>1, <1>2, <1>4, FreeLock, Bystander DEF AllSound
<1>6. r \in Calls
  BY <1>2 DEF Acquire, TypeOK, Idle
<1>7. Sound(c)' /\ call'[c].phase # "execute"
  <2>1. CASE ReadPending(c)
    <3>1. call'[c] = [r EXCEPT !.phase = "next", !.seen = "pending", !.new = "pending",
                               !.ids = Pending]
      BY <2>1, Frame DEF ReadPending
    <3>2. call'[c].phase = "next" /\ call'[c].seen = "pending" /\ call'[c].ids = Pending
      BY <1>6, <3>1 DEF Calls
    <3> QED
      BY <1>2, <1>3, <3>2 DEF Sound, InLock, Pending
  <2>2. CASE Read(c)
    <3>1. call'[c] = [r EXCEPT !.phase = "read", !.seen = row[r.id], !.new = row[r.id]]
      BY <2>2, Frame DEF Read
    <3>2. /\ call'[c].phase = "read" /\ call'[c].seen = row[r.id] /\ call'[c].id = r.id
          /\ call'[c].op = r.op /\ call'[c].ids = r.ids /\ r.op # "list"
      BY <1>6, <2>2, <3>1 DEF Calls, Read
    <3>3. r.ids = {}
      BY <1>2 DEF AllSound, Sound, Acquire
    <3> QED
      BY <1>2, <1>3, <3>2, <3>3 DEF Sound, InLock
  <2> QED
    BY <2>1, <2>2
<1> QED
  BY <1>2, <1>4, <1>5, <1>7, ExecutorsStay DEF AllSound, Counted

\* The steps under the lock that do not save.
LEMMA LockedStep ==
  ASSUME OneManager, TypeOK, AllSound, OneExecutor, Counted, NEW c \in Clients,
         NextPending(c) \/ DecideLapsed(c) \/ Decide(c) \/ DecideNothing(c)
  PROVE  AllSound' /\ OneExecutor' /\ Counted'
<1> DEFINE r == call[c]
<1>1. InLock(c) /\ lock[Manager[c]] = c /\ Sound(c)
  BY DEF AllSound, Sound, InLock, NextPending, DecideLapsed, Decide, DecideNothing
<1>2. UNCHANGED <<row, executions>>
  BY DEF NextPending, DecideLapsed, Decide, DecideNothing, Write
<1>3. \E q : Step(c, q)
  BY DEF NextPending, DecideLapsed, Decide, DecideNothing, Write, ReturnOrNext, Return
<1>4. ASSUME NEW d \in Clients \ {c} PROVE call'[d] = call[d]
  BY <1>3, Frame
<1>5. ASSUME NEW d \in Clients \ {c} PROVE Sound(d)'
  BY <1>1, <1>2, <1>4, HoldersFromSound, Exclusive, Bystander DEF AllSound
<1>6. r \in Calls
  <2>1. r # Idle
    BY <1>1 DEF InLock, Idle
  <2> QED
    BY <2>1 DEF TypeOK
<1>7. Sound(c)' /\ call'[c].phase # "execute"
  <2>1. CASE call'[c] = Idle
    BY <2>1 DEF Sound, InLock, Idle
  <2>2. CASE NextPending(c) /\ call'[c] # Idle
    <3>1. PICK a \in r.ids :
            /\ call'[c] = [r EXCEPT !.phase = "read", !.id = a, !.ids = r.ids \ {a}]
            /\ UNCHANGED lock
      BY <2>2, Frame DEF NextPending, Return
    <3>2. /\ call'[c].phase = "read" /\ call'[c].id = a /\ call'[c].ids = r.ids \ {a}
          /\ call'[c].seen = r.seen /\ call'[c].op = r.op
      BY <1>6, <3>1 DEF Calls
    <3>3. r.seen = "pending" /\ row[a] = "pending"
      BY <1>1, <2>2, <3>1 DEF Sound, NextPending, InLock
    <3> QED
      BY <1>1, <1>2, <3>1, <3>2, <3>3 DEF Sound, InLock
  <2>3. ASSUME NEW v, Write(c, v), r.phase = "read",
               \/ r.seen = "pending" /\ v \in Decided
               \/ r.seen = "none" /\ v = "pending"
        PROVE  Sound(c)' /\ call'[c].phase # "execute"
    <3>1. call'[c] = [r EXCEPT !.phase = "write", !.new = v] /\ UNCHANGED lock
      BY <2>3, Frame DEF Write
    <3>2. /\ call'[c].phase = "write" /\ call'[c].new = v /\ call'[c].id = r.id
          /\ call'[c].ids = r.ids /\ call'[c].seen = r.seen /\ call'[c].op = r.op
      BY <1>6, <3>1 DEF Calls
    <3> QED
      BY <1>1, <1>2, <2>3, <3>1, <3>2 DEF Sound, InLock
  <2>5. CASE DecideLapsed(c)
    BY <2>3, <2>5 DEF DecideLapsed, Lapsed, Decided
  <2>6. CASE Decide(c)
    <3>1. Write(c, Target(r.op)) /\ r.phase = "read" /\ ~Refused(r) /\ r.op \in Operations
      BY <1>6, <2>6 DEF Decide, Calls
    <3>2. \/ r.seen = "pending" /\ Target(r.op) \in Decided
          \/ r.seen = "none" /\ Target(r.op) = "pending"
      BY <3>1 DEF Refused, Target, Operations, Transitions, Decided
    <3> QED
      BY <2>3, <3>1, <3>2
  <2>4. CASE DecideNothing(c) /\ call'[c] # Idle
    <3>1. call'[c] = [r EXCEPT !.phase = "next"] /\ UNCHANGED lock /\ r.op = "list"
      BY <2>4, Frame DEF DecideNothing, ReturnOrNext, Return
    <3>2. /\ call'[c].phase = "next" /\ call'[c].ids = r.ids /\ call'[c].op = r.op
          /\ call'[c].seen = r.seen
      BY <1>6, <3>1 DEF Calls
    <3> QED
      BY <1>1, <1>2, <3>1, <3>2 DEF Sound, InLock
  <2> QED
    BY <2>1, <2>2, <2>4, <2>5, <2>6
<1> QED
  BY <1>2, <1>4, <1>5, <1>7, ExecutorsStay DEF AllSound, Counted

LEMMA SaveStep ==
  ASSUME OneManager, TypeOK, AllSound, OneExecutor, Counted, NEW c \in Clients, Save(c)
  PROVE  /\ AllSound' /\ OneExecutor' /\ Counted'
         /\ \A a \in Approvals : row[a] \in Decided => row'[a] = row[a]
<1> DEFINE r == call[c]
<1>1. InLock(c) /\ lock[Manager[c]] = c /\ Sound(c) /\ r.phase = "write"
  BY DEF AllSound, Sound, InLock, Save
<1>2. r \in Calls
  <2>1. r # Idle
    BY <1>1 DEF InLock, Idle
  <2> QED
    BY <2>1 DEF TypeOK
<1>3. r.id \in Approvals
  BY <1>2 DEF Calls
<1>4. /\ row[r.id] = r.seen /\ r.id \notin r.ids
      /\ \/ r.seen = "pending" /\ r.new \in Decided
         \/ r.seen = "none" /\ r.new = "pending"
  BY <1>1 DEF Sound
<1>5. /\ row'[r.id] = r.new
      /\ \A a \in Approvals \ {r.id} : row'[a] = row[a]
      /\ executions' = executions
  BY <1>3 DEF Save, TypeOK
<1>6. row[r.id] \in {"none", "pending"}
  BY <1>4
<1>7. \A a \in Approvals : row[a] \in Decided => row'[a] = row[a]
  BY <1>5, <1>6 DEF Decided
<1>8. \A a \in Approvals : row[a] = "approved" => row'[a] = "approved"
  BY <1>7 DEF Decided
<1>9. executions[r.id] = 0
  <2>1. executions[r.id] \in Nat /\ ~(executions[r.id] > 0)
    BY <1>3, <1>6 DEF Counted, TypeOK
  <2> QED
    BY <2>1
<1>10. \E q : Step(c, q)
  BY DEF Save, ReturnOrNext, Return
<1>11. ASSUME NEW d \in Clients \ {c} PROVE call'[d] = call[d]
  BY <1>10, Frame
<1>12. ASSUME NEW d \in Clients, call[d].phase = "execute"
       PROVE  call[d].id \in Approvals /\ row[call[d].id] = "approved"
  <2>1. call[d] \in Calls
    BY <1>12 DEF TypeOK, Idle
  <2> QED
    BY <1>12, <2>1 DEF Calls, AllSound, Sound
<1>13. ASSUME NEW d \in Clients \ {c} PROVE Sound(d)'
  <2>1. ~InLock(d) /\ Sound(d)
    BY <1>1, HoldersFromSound, Exclusive DEF AllSound
  <2> QED
    BY <1>5, <1>6, <1>11, <1>12, <2>1, Bystander
<1>14. Sound(c)' /\ (call'[c].phase = "execute" => call'[c].id = r.id /\ row[r.id] # "approved")
  <2>1. CASE Granted(r) /\ Step(c, [r EXCEPT !.phase = "execute"])
    <3>1. /\ call'[c].phase = "execute" /\ call'[c].id = r.id
      BY <1>2, <2>1, Frame DEF Calls
    <3> QED
      BY <1>5, <1>6, <1>9, <2>1, <3>1 DEF Sound, InLock, Granted
  <2>2. CASE r.op = "list" /\ Step(c, [r EXCEPT !.phase = "next"]) /\ UNCHANGED lock
    <3>1. /\ call'[c].phase = "next" /\ call'[c].ids = r.ids /\ call'[c].op = r.op
          /\ call'[c].seen = r.seen
      BY <1>2, <2>2, Frame DEF Calls
    <3>2. \A a \in r.ids : a \in Approvals /\ row'[a] = "pending"
      BY <1>1, <1>2, <1>4, <1>5 DEF Sound, Calls
    <3> QED
      BY <1>1, <2>2, <3>1, <3>2 DEF Sound, InLock
  <2>3. CASE call'[c] = Idle
    BY <2>3 DEF Sound, InLock, Idle
  <2> QED
    BY <2>1, <2>2, <2>3, Frame DEF Save, ReturnOrNext, Return
<1>15. OneExecutor'
  BY <1>11, <1>12, <1>14 DEF OneExecutor
<1>16. Counted'
  BY <1>5, <1>8 DEF Counted
<1> QED
  BY <1>7, <1>13, <1>14, <1>15, <1>16 DEF AllSound

LEMMA ExecuteStep ==
  ASSUME TypeOK, AllSound, OneExecutor, Counted, NEW c \in Clients, Execute(c)
  PROVE  AllSound' /\ OneExecutor' /\ Counted'
<1> DEFINE a == call[c].id
<1>1. call[c].phase = "execute" /\ call'[c] = Idle
  BY Frame DEF Execute
<1>2. a \in Approvals /\ row[a] = "approved" /\ executions[a] = 0
  BY <1>1 DEF TypeOK, Calls, Idle, AllSound, Sound
<1>3. executions' = [executions EXCEPT ![a] = executions[a] + 1] /\ UNCHANGED <<row, lock>>
  BY DEF Execute
<1>4. executions'[a] = 1 /\ \A b \in Approvals \ {a} : executions'[b] = executions[b]
  <2> HIDE DEF a
  <2> QED
    BY <1>2, <1>3 DEF TypeOK
<1>5. ASSUME NEW d \in Clients \ {c} PROVE call'[d] = call[d]
  BY Frame DEF Execute
<1>6. ASSUME NEW d \in Clients \ {c}, call[d].phase = "execute"
      PROVE  call[d].id \in Approvals \ {a}
  <2>1. call[d].id \in Approvals
    BY <1>6 DEF TypeOK, Calls, Idle
  <2> QED
    BY <1>1, <1>6, <2>1 DEF OneExecutor
<1>7. ASSUME NEW d \in Clients \ {c} PROVE Sound(d)'
  BY <1>3, <1>4, <1>5, <1>6 DEF AllSound, Sound, InLock
<1>8. Sound(c)' /\ call'[c].phase # "execute"
  BY <1>1 DEF Sound, InLock, Idle
<1>9. OneExecutor'
  BY <1>5, <1>8, ExecutorsStay
<1>10. Counted'
  BY <1>2, <1>3, <1>4 DEF Counted
<1> QED
  BY <1>7, <1>8, <1>9, <1>10 DEF AllSound

LEMMA AbortStep ==
  ASSUME OneManager, TypeOK, AllSound, OneExecutor, Counted, NEW c \in Clients, Abort(c)
  PROVE  AllSound' /\ OneExecutor' /\ Counted'
<1>1. call'[c] = Idle /\ UNCHANGED <<row, executions>> /\ call[c] # Idle
  BY Frame DEF Abort
<1>2. ASSUME NEW d \in Clients \ {c} PROVE call'[d] = call[d]
  BY Frame DEF Abort
<1>3. ASSUME NEW d \in Clients \ {c} PROVE Sound(d)'
  <2>1. CASE call[c].phase \in {"wait", "execute"}
    BY <1>1, <1>2, <2>1 DEF Abort, AllSound, Sound, InLock
  <2>2. CASE call[c].phase \notin {"wait", "execute"}
    <3>1. InLock(c)
      BY <1>1, <2>2 DEF TypeOK, Calls, InLock
    <3> QED
      BY <1>1, <1>2, <3>1, HoldersFromSound, Exclusive, Bystander DEF AllSound
  <2> QED
    BY <2>1, <2>2
<1>4. Sound(c)' /\ call'[c].phase # "execute"
  BY <1>1 DEF Sound, InLock, Idle
<1> QED
  BY <1>1, <1>2, <1>3, <1>4, ExecutorsStay DEF AllSound, Counted

-----------------------------------------------------------------------------
LEMMA InitSound == Init => TypeOK /\ AllSound /\ OneExecutor /\ Counted
  BY DEF Init, TypeOK, Statuses, Idle, AllSound, Sound, InLock, OneExecutor, Counted

LEMMA NextSound ==
  ASSUME OneManager, TypeOK, AllSound, OneExecutor, Counted, [Next]_vars
  PROVE  /\ AllSound' /\ OneExecutor' /\ Counted'
         /\ \A a \in Approvals : row[a] \in Decided => row'[a] = row[a]
<1>1. CASE UNCHANGED vars
  BY <1>1 DEF vars, AllSound, Sound, InLock, OneExecutor, Counted
<1>2. ASSUME NEW c \in Clients, NEW a \in Approvals, NEW op \in Operations, Ask(c, op, a)
      PROVE  AllSound' /\ OneExecutor' /\ Counted' /\ UNCHANGED row
  BY <1>2, AskStep DEF Ask
<1>6. ASSUME NEW c \in Clients, Read(c) \/ ReadPending(c)
      PROVE  AllSound' /\ OneExecutor' /\ Counted' /\ UNCHANGED row
  BY <1>6, AcquireStep DEF Read, ReadPending
<1>3. ASSUME NEW c \in Clients, NextPending(c) \/ DecideLapsed(c) \/ Decide(c) \/ DecideNothing(c)
      PROVE  AllSound' /\ OneExecutor' /\ Counted' /\ UNCHANGED row
  <2>1. UNCHANGED row
    BY <1>3 DEF NextPending, DecideLapsed, Decide, DecideNothing, Write
  <2> QED
    BY <1>3, <2>1, LockedStep
<1>4. ASSUME NEW c \in Clients, Execute(c) \/ Abort(c)
      PROVE  AllSound' /\ OneExecutor' /\ Counted' /\ UNCHANGED row
  <2>1. UNCHANGED row
    BY <1>4 DEF Execute, Abort
  <2> QED
    BY <1>4, <2>1, ExecuteStep, AbortStep
<1>5. ASSUME NEW a \in Expiring, Lapse(a)
      PROVE  AllSound' /\ OneExecutor' /\ Counted' /\ UNCHANGED row
  BY <1>5 DEF Lapse, AllSound, Sound, InLock, OneExecutor, Counted
<1> QED
  BY <1>1, <1>2, <1>3, <1>4, <1>5, <1>6, SaveStep DEF vars, Next, Continue

(***************************************************************************)
(* Everything the run checks but liveness, for every number of requests    *)
(* and clients, provided that all the clients share one manager.           *)
(***************************************************************************)

\* The inductive invariant, in its parts.
THEOREM Invariant == OneManager => (Spec => [](TypeOK /\ AllSound /\ OneExecutor /\ Counted))
<1> SUFFICES ASSUME OneManager PROVE Spec => [](TypeOK /\ AllSound /\ OneExecutor /\ Counted)
  OBVIOUS
<1>1. TypeOK /\ AllSound /\ OneExecutor /\ Counted /\ [Next]_vars
        => (TypeOK /\ AllSound /\ OneExecutor /\ Counted)'
  BY Typing, NextSound
<1> QED
  BY InitSound, <1>1, PTL DEF Spec

\* TypeOK does not depend on how many managers there are.
THEOREM TypeCorrect == Spec => []TypeOK
<1>1. Init => TypeOK
  BY DEF Init, TypeOK, Statuses, Idle
<1> QED
  BY <1>1, Typing, PTL DEF Spec

\* The tool runs only for a request whose row says approved, and says so for
\* ever: approve_and_execute of ApprovalExecutionGate.
THEOREM ApprovedBeforeExecution == OneManager => (Spec => []NoExecutionWithoutApproval)
<1> SUFFICES ASSUME OneManager PROVE Spec => []NoExecutionWithoutApproval
  OBVIOUS
<1>1. TypeOK /\ AllSound /\ OneExecutor /\ Counted => NoExecutionWithoutApproval
  BY Regrouped DEF IInv
<1> QED
  BY Invariant, <1>1, PTL

\* And it runs once, however many callers approve_and_execute has.
THEOREM AtMostOnce == OneManager => (Spec => []ExecutedAtMostOnce)
<1> SUFFICES ASSUME OneManager PROVE Spec => []ExecutedAtMostOnce
  OBVIOUS
<1>1. TypeOK /\ AllSound /\ OneExecutor /\ Counted => ExecutedAtMostOnce
  BY Regrouped DEF IInv
<1> QED
  BY Invariant, <1>1, PTL

\* No interleaving of the calls of one manager changes a decision.
THEOREM DecisionsStay == OneManager => (Spec => DecisionIsFinal)
<1> SUFFICES ASSUME OneManager PROVE Spec => DecisionIsFinal
  OBVIOUS
<1>1. TypeOK /\ AllSound /\ OneExecutor /\ Counted /\ [Next]_vars
        => [\A a \in Approvals : row[a] \in Decided => row'[a] = row[a]]_vars
  BY NextSound
<1> QED
  BY Invariant, <1>1, PTL DEF Spec, DecisionIsFinal

(***************************************************************************)
(* One manager implements ApprovalPromise: a Save is the decision, and the *)
(* grant if the gate asked for it; the reads before it are invisible.      *)
(***************************************************************************)
PromisedStep == [Promise!Next]_(Promise!vars)

\* Who executes for a request, when only c has moved.
LEMMA ExecutingFrame ==
  ASSUME TypeOK, NEW c \in Clients, NEW r, Step(c, r)
  PROVE  \A a \in Approvals :
           Executing(a)' = IF r.phase = "execute" /\ r.id = a THEN Executing(a) \cup {c}
                                                            ELSE Executing(a) \ {c}
BY Frame DEF Executing

\* A step of a client that does not execute before it or after it.
LEMMA UnseenStep ==
  ASSUME TypeOK, NEW c \in Clients, NEW r, Step(c, r), UNCHANGED <<row, executions>>,
         call[c].phase # "execute", r.phase # "execute"
  PROVE  PromisedStep
<1>1. \A a \in Approvals : Executing(a)' = Executing(a)
  BY ExecutingFrame DEF Executing
<1> QED
  BY <1>1 DEF PromisedStep, Promise!vars

LEMMA AskPromised ==
  ASSUME TypeOK, NEW c \in Clients, NEW a \in Approvals, NEW op \in Operations, Ask(c, op, a)
  PROVE  PromisedStep
<1>1. call[c].phase # "execute" /\ UNCHANGED <<row, executions>>
  BY DEF Ask, Idle
<1> QED
  BY <1>1, UnseenStep DEF Ask

LEMMA ReadPromised ==
  ASSUME TypeOK, NEW c \in Clients, Read(c) \/ ReadPending(c)
  PROVE  PromisedStep
<1>1. call[c].phase = "wait" /\ UNCHANGED <<row, executions>>
  BY DEF Read, ReadPending, Acquire
<1>2. call[c] \in Calls
  BY <1>1 DEF TypeOK, Idle
<1>3. \E r : Step(c, r) /\ r.phase # "execute"
  <2>1. /\ [call[c] EXCEPT !.phase = "read", !.seen = row[call[c].id],
                             !.new = row[call[c].id]].phase = "read"
        /\ [call[c] EXCEPT !.phase = "next", !.seen = "pending", !.new = "pending",
                             !.ids = Pending].phase = "next"
    BY <1>2 DEF Calls
  <2> QED
    BY <2>1 DEF Read, ReadPending
<1> QED
  BY <1>1, <1>3, UnseenStep

LEMMA LockedStepPromised ==
  ASSUME TypeOK, NEW c \in Clients,
         NextPending(c) \/ DecideLapsed(c) \/ Decide(c) \/ DecideNothing(c)
  PROVE  PromisedStep
<1>1. /\ call[c].phase \in {"next", "read"} /\ UNCHANGED <<row, executions>>
  BY DEF NextPending, DecideLapsed, Decide, DecideNothing, Write
<1>2. call[c] \in Calls
  BY <1>1 DEF TypeOK, Idle
<1>3. CASE NextPending(c)
  <2>1. ASSUME NEW a \in call[c].ids,
               Step(c, [call[c] EXCEPT !.phase = "read", !.id = a, !.ids = call[c].ids \ {a}])
        PROVE  PromisedStep
    <3>1. [call[c] EXCEPT !.phase = "read", !.id = a, !.ids = call[c].ids \ {a}].phase = "read"
      BY <1>2 DEF Calls
    <3> QED
      BY <1>1, <2>1, <3>1, UnseenStep
  <2>2. CASE Step(c, Idle)
    BY <1>1, <2>2, UnseenStep DEF Idle
  <2> QED
    BY <1>3, <2>1, <2>2 DEF NextPending, Return
<1>4. CASE DecideLapsed(c) \/ Decide(c)
  <2>1. PICK status : Step(c, [call[c] EXCEPT !.phase = "write", !.new = status])
    BY <1>4 DEF DecideLapsed, Decide, Write
  <2>2. [call[c] EXCEPT !.phase = "write", !.new = status].phase = "write"
    BY <1>2 DEF Calls
  <2> QED
    BY <1>1, <2>1, <2>2, UnseenStep
<1>5. CASE DecideNothing(c)
  <2>1. [call[c] EXCEPT !.phase = "next"].phase = "next" /\ Idle.phase = "idle"
    BY <1>2 DEF Calls, Idle
  <2> QED
    BY <1>1, <1>5, <2>1, UnseenStep DEF DecideNothing, ReturnOrNext, Return
<1> QED
  BY <1>3, <1>4, <1>5

LEMMA SavePromised ==
  ASSUME TypeOK, AllSound, NEW c \in Clients, Save(c)
  PROVE  PromisedStep
<1> USE DEF PromisedStep, Promise!Next, Promise!Becomes
<1> DEFINE r == call[c]
<1>1. r \in Calls /\ r.phase = "write" /\ r.id \in Approvals
  BY DEF Save, TypeOK, Idle, Calls
<1> PICK a \in Approvals : a = r.id
  BY <1>1
<1>2. /\ row' = [row EXCEPT ![a] = r.new] /\ UNCHANGED executions
      /\ \/ row[a] = "pending" /\ r.new \in Decided
         \/ row[a] = "none" /\ r.new = "pending"
  BY <1>1 DEF Save, AllSound, Sound
<1>3. CASE Granted(r) /\ Step(c, [r EXCEPT !.phase = "execute"])
  <2>1. [r EXCEPT !.phase = "execute"].phase = "execute" /\ [r EXCEPT !.phase = "execute"].id = a
    BY <1>1 DEF Calls
  <2>2. \A b \in Approvals :
          Executing(b)' = IF b = a THEN Executing(b) \cup {c} ELSE Executing(b)
    <3>1. \A b \in Approvals : c \notin Executing(b)
      BY <1>1 DEF Executing
    <3>2. ASSUME NEW q, Step(c, q), q.phase = "execute", q.id = a, NEW b \in Approvals
          PROVE  Executing(b)' = IF b = a THEN Executing(b) \cup {c} ELSE Executing(b) \ {c}
      BY <3>2, ExecutingFrame
    <3>3. \A b \in Approvals : Executing(b) \ {c} = Executing(b)
      BY <3>1
    <3> QED
      BY <1>3, <2>1, <3>2, <3>3
  <2>3. {b \in Approvals : Executing(b) # {}}' = {b \in Approvals : Executing(b) # {}} \cup {a}
    BY <2>2
  <2>4. Promise!Grant(a)
    BY <1>2, <1>3, <2>3 DEF Promise!Grant, Granted
  <2> QED
    BY <2>4
<1>4. CASE ReturnOrNext(c)
  <2>1. \E q : Step(c, q) /\ q.phase # "execute"
    <3>1. [r EXCEPT !.phase = "next"].phase = "next" /\ Idle.phase = "idle"
      BY <1>1 DEF Calls, Idle
    <3> QED
      BY <1>4, <3>1 DEF ReturnOrNext, Return
  <2>2. \A b \in Approvals : Executing(b)' = Executing(b)
    BY <1>1, <2>1, ExecutingFrame DEF Executing
  <2>3. Promise!Enter(a) \/ Promise!Decide(a)
    BY <1>2, <2>2 DEF Promise!Enter, Promise!Decide, Decided
  <2> QED
    BY <2>3
<1> QED
  BY <1>3, <1>4 DEF Save

\* A grant has one caller who may use it; with him it goes.
LEMMA GrantIsUsedUp ==
  ASSUME TypeOK, OneExecutor, NEW c \in Clients, call[c].phase = "execute", Step(c, Idle)
  PROVE  /\ call[c].id \in Approvals /\ Executing(call[c].id) # {}
         /\ {b \in Approvals : Executing(b) # {}}'
              = {b \in Approvals : Executing(b) # {}} \ {call[c].id}
<1>1. call[c].id \in Approvals /\ c \in Executing(call[c].id)
  BY DEF TypeOK, Calls, Idle, Executing
<1>2. \A b \in Approvals : Executing(b)' = Executing(b) \ {c}
  BY ExecutingFrame DEF Idle
<1>3. Executing(call[c].id) = {c} /\ \A b \in Approvals : b # call[c].id => c \notin Executing(b)
  BY <1>1 DEF Executing, OneExecutor
<1> QED
  BY <1>1, <1>2, <1>3

LEMMA ExecutePromised ==
  ASSUME TypeOK, OneExecutor, NEW c \in Clients, Execute(c) \/ Abort(c)
  PROVE  PromisedStep
<1> USE DEF PromisedStep, Promise!Next
<1>1. Step(c, Idle) /\ UNCHANGED row
  BY DEF Execute, Abort
<1>2. CASE call[c].phase = "execute"
  <2> PICK a \in Approvals : a = call[c].id
    BY <1>1, <1>2, GrantIsUsedUp
  <2>1. /\ Executing(a) # {}
        /\ {b \in Approvals : Executing(b) # {}}' = {b \in Approvals : Executing(b) # {}} \ {a}
    BY <1>1, <1>2, GrantIsUsedUp
  <2>2. Promise!Execute(a) \/ Promise!Forfeit(a)
    BY <1>1, <2>1 DEF Execute, Abort, Promise!Execute, Promise!Forfeit
  <2> QED
    BY <2>2
<1>3. CASE call[c].phase # "execute"
  <2>1. UNCHANGED executions /\ Idle.phase # "execute"
    BY <1>3 DEF Execute, Abort, Idle
  <2> QED
    BY <1>1, <1>3, <2>1, UnseenStep
<1> QED
  BY <1>2, <1>3

\* One manager's requests are decided at an instant, whatever calls overlap, and
\* an approval for execution is used at most once, by whoever obtained it.
THEOREM GrantsAreKept == OneManager => (Spec => KeepsGrants)
<1> SUFFICES ASSUME OneManager PROVE Spec => KeepsGrants
  OBVIOUS
<1>1. Init => Promise!Init
  BY DEF Init, Promise!Init, Executing, Idle
<1>2. TypeOK /\ AllSound /\ OneExecutor /\ Counted /\ [Next]_vars
        => [Promise!Next]_(Promise!vars)
  <2> SUFFICES ASSUME TypeOK, AllSound, OneExecutor, [Next]_vars PROVE PromisedStep
    BY DEF PromisedStep
  <2>1. ASSUME UNCHANGED vars \/ \E a \in Expiring : Lapse(a) PROVE PromisedStep
    BY <2>1 DEF vars, Lapse, PromisedStep, Promise!vars, Executing
  <2> QED
    BY <2>1, AskPromised, ReadPromised, LockedStepPromised, SavePromised, ExecutePromised
    DEF Next, Continue
<1> QED
  BY <1>1, <1>2, Invariant, PTL DEF Spec, KeepsGrants, Promise!Spec

-----------------------------------------------------------------------------
(***************************************************************************)
(* The gate and the broker around the manager.                             *)
(***************************************************************************)
LEMMA GateStepIsManagerStep == [GateNext]_allVars => [Next]_vars
<1> SUFFICES ASSUME [GateNext]_allVars
             PROVE  [Next]_vars
  OBVIOUS
<1>1. CASE UNCHANGED allVars
  BY <1>1 DEF allVars
<1>2. CASE \E a \in Expiring : Lapse(a) /\ UNCHANGED gateVars
  BY <1>2 DEF Next
<1>3. ASSUME NEW c \in Clients, NEW t \in Tools,
             SubmitRejected(c, t) \/ \E args \in BOOLEAN : SubmitDirect(c, t, args)
      PROVE  UNCHANGED vars
  BY <1>3 DEF SubmitRejected, SubmitDirect
<1>4. ASSUME NEW c \in Clients, NEW a \in Approvals,
             \/ SubmitForApproval(c, a) \/ CallManager(c, a)
             \/ \E op \in Transitions : DecideThroughGate(c, op, a)
      PROVE  Next
  <2>1. \E op \in Operations : Ask(c, op, a)
    BY <1>4 DEF SubmitForApproval, CallManager, DecideThroughGate, Operations, Transitions
  <2> QED
    BY <2>1 DEF Next
<1>5. ASSUME NEW c \in Clients, Proceed(c) \/ AbortJob(c)
      PROVE  Next \/ UNCHANGED vars
  <2>1. CASE ManagerStep(c) \/ ExecuteApproved(c) \/ AbortJob(c)
    BY <2>1, Zenon DEF ManagerStep, ExecuteApproved, AbortJob, Next, Continue
  <2>2. CASE RecordOutcome(c) \/ Evaluate(c) \/ Enforce(c) \/ RunNothing(c) \/ RunTool(c)
             \/ SandboxRaises(c) \/ End(c)
    BY <2>2, Zenon
    DEF RecordOutcome, Evaluate, Enforce, RunNothing, RunTool, SandboxRaises, End
  <2> QED
    BY <1>5, <2>1, <2>2 DEF Proceed
<1> QED
  BY <1>1, <1>2, <1>3, <1>4, <1>5, Zenon DEF GateNext

\* The composition implements the manager alone.
THEOREM GateOverManager == GateSpec => Spec
<1>1. GateInit => Init
  BY DEF GateInit
<1> QED
  BY <1>1, GateStepIsManagerStep, PTL DEF GateSpec, Spec

\* With one manager the gate calls the broker only for a request whose row says
\* approved, at most once, and the decision stays: ApprovalExecutionGate.
THEOREM GateKeepsDecisions ==
  OneManager => (GateSpec => []NoExecutionWithoutApproval /\ []ExecutedAtMostOnce /\ DecisionIsFinal)
BY GateOverManager, ApprovedBeforeExecution, AtMostOnce, DecisionsStay, PTL

\* To whoever looks at the requests, gate and broker do nothing but enter,
\* decide, grant and execute them.
THEOREM GateKeepsGrants == OneManager => (GateSpec => KeepsGrants)
BY GateOverManager, GrantsAreKept, PTL

-----------------------------------------------------------------------------
(***************************************************************************)
(* Runs against approvals, counted with the calls on their way to the tool.*)
(***************************************************************************)

Bound(c, t) == job[c].tool = t /\ job[c].pc \in {"evaluate", "enforce", "run"}
InFlight(t) == {c \in Clients : Bound(c, t)}

GateTyped ==
  /\ job \in [Clients -> Jobs]
  /\ trail \in [Tools -> [Events -> Nat]]
  /\ ran \in [Tools -> Nat]

OnlyRunnable ==
  /\ \A c \in Clients : job[c].pc = "run" => job[c].tool \in Runnable
  /\ \A t \in Tools : ran[t] > 0 => t \in Runnable

Covered(t) == ran[t] + Cardinality(InFlight(t)) <= trail[t]["approved"]
AllCovered == \A t \in Sensitive : Covered(t)

GateInv == TypeOK /\ GateTyped /\ OnlyRunnable /\ AllCovered

LEMMA SensitiveAreTools == Sensitive \subseteq Tools
BY GateAssumption DEF Sensitive, Permitted

LEMMA InFlightFinite ==
  ASSUME NEW t
  PROVE  IsFiniteSet(InFlight(t)) /\ Cardinality(InFlight(t)) \in Nat
<1>1. InFlight(t) \in SUBSET Clients
  BY DEF InFlight
<1> QED
  BY <1>1, GateAssumption, FS_Subset, FS_CardinalityType

\* A step that brings no call on its way and runs nothing keeps what covers t.
LEMMA Quiet ==
  ASSUME GateTyped, GateTyped', NEW t \in Tools, Covered(t),
         \A c \in Clients : Bound(c, t)' => Bound(c, t),
         ran'[t] = ran[t], trail'[t]["approved"] >= trail[t]["approved"]
  PROVE  Covered(t)'
<1>1. InFlight(t)' \in SUBSET InFlight(t)
  BY DEF InFlight
<1>2. Cardinality(InFlight(t)') <= Cardinality(InFlight(t)) /\ Cardinality(InFlight(t)') \in Nat
  BY <1>1, InFlightFinite, FS_Subset, FS_CardinalityType
<1>3. trail[t]["approved"] \in Nat /\ trail'[t]["approved"] \in Nat /\ ran[t] \in Nat
  BY DEF GateTyped, Events
<1> QED
  BY <1>2, <1>3, InFlightFinite DEF Covered

\* A call that enters the tool is on its way no more.
LEMMA Entering ==
  ASSUME GateTyped, GateTyped', NEW t \in Tools, Covered(t), NEW c \in Clients,
         Bound(c, t), ~Bound(c, t)', \A d \in Clients \ {c} : Bound(d, t)' => Bound(d, t),
         ran'[t] = ran[t] + 1, trail'[t]["approved"] = trail[t]["approved"]
  PROVE  Covered(t)'
<1>1. InFlight(t)' \in SUBSET (InFlight(t) \ {c}) /\ c \in InFlight(t)
  BY DEF InFlight
<1>2. IsFiniteSet(InFlight(t) \ {c}) /\ Cardinality(InFlight(t) \ {c}) = Cardinality(InFlight(t)) - 1
  BY <1>1, InFlightFinite, FS_RemoveElement
<1>3. Cardinality(InFlight(t)') <= Cardinality(InFlight(t)) - 1 /\ Cardinality(InFlight(t)') \in Nat
  BY <1>1, <1>2, FS_Subset, FS_CardinalityType
<1>4. trail[t]["approved"] \in Nat /\ ran[t] \in Nat
  BY DEF GateTyped, Events
<1> QED
  BY <1>3, <1>4, InFlightFinite DEF Covered

\* A recorded approval covers the call it lets through.
LEMMA Approving ==
  ASSUME GateTyped, GateTyped', NEW t \in Tools, Covered(t), NEW c \in Clients,
         \A d \in Clients \ {c} : Bound(d, t)' => Bound(d, t),
         ran'[t] = ran[t], trail'[t]["approved"] = trail[t]["approved"] + 1
  PROVE  Covered(t)'
<1>1. InFlight(t)' \in SUBSET (InFlight(t) \cup {c})
  BY DEF InFlight
<1>2. /\ IsFiniteSet(InFlight(t) \cup {c})
      /\ Cardinality(InFlight(t) \cup {c}) <= Cardinality(InFlight(t)) + 1
      /\ Cardinality(InFlight(t) \cup {c}) \in Nat
  <2>1. IsFiniteSet(InFlight(t)) /\ Cardinality(InFlight(t)) \in Nat
    BY InFlightFinite
  <2>2. /\ IsFiniteSet(InFlight(t) \cup {c})
        /\ Cardinality(InFlight(t) \cup {c}) =
             IF c \in InFlight(t) THEN Cardinality(InFlight(t)) ELSE Cardinality(InFlight(t)) + 1
    BY <2>1, FS_AddElement
  <2> QED
    BY <2>1, <2>2
<1>3. Cardinality(InFlight(t)') <= Cardinality(InFlight(t)) + 1 /\ Cardinality(InFlight(t)') \in Nat
  BY <1>1, <1>2, InFlightFinite, FS_Subset, FS_CardinalityType
<1>4. trail[t]["approved"] \in Nat /\ ran[t] \in Nat
  BY DEF GateTyped, Events
<1> QED
  BY <1>3, <1>4, InFlightFinite DEF Covered

LEMMA Increment ==
  ASSUME NEW S, NEW f \in [S -> Nat], NEW e
  PROVE  /\ [f EXCEPT ![e] = @ + 1] \in [S -> Nat]
         /\ \A x \in S : [f EXCEPT ![e] = @ + 1][x] >= f[x]
         /\ e \in S => [f EXCEPT ![e] = @ + 1][e] = f[e] + 1
<1> DEFINE g == [f EXCEPT ![e] = @ + 1]
<1>1. \A x \in S : f[x] \in Nat /\ g[x] = IF x = e THEN f[x] + 1 ELSE f[x]
  OBVIOUS
<1>2. \A x \in S : g[x] \in Nat /\ g[x] >= f[x] /\ (x = e => g[x] = f[x] + 1)
  <2> HIDE DEF g
  <2> QED
    BY <1>1
<1>3. g \in [S -> Nat]
  <2>1. g = [x \in S |-> g[x]]
    OBVIOUS
  <2> HIDE DEF g
  <2> QED
    BY <1>2, <2>1
<1> HIDE DEF g
<1>4. \A x \in S : g[x] >= f[x]
  BY <1>2
<1>5. e \in S => g[e] = f[e] + 1
  BY <1>2
<1> QED
  BY <1>3, <1>4, <1>5 DEF g

\* The trail only grows.
LEMMA Recorded ==
  ASSUME GateTyped, NEW t \in Tools, NEW e, Record(t, e)
  PROVE  /\ trail' \in [Tools -> [Events -> Nat]]
         /\ \A u \in Tools : trail'[u]["approved"] >= trail[u]["approved"]
         /\ e = "approved" => trail'[t][e] = trail[t][e] + 1
         /\ \A u \in Tools \ {t} : trail'[u] = trail[u]
<1> DEFINE grown == [trail[t] EXCEPT ![e] = @ + 1]
<1>1. trail \in [Tools -> [Events -> Nat]] /\ "approved" \in Events
  BY DEF GateTyped, Events
<1>2. trail' = [trail EXCEPT ![t] = grown]
  BY DEF Record
<1>3. grown \in [Events -> Nat] /\ grown["approved"] >= trail[t]["approved"]
  BY <1>1, Increment
<1>4. e = "approved" => grown[e] = trail[t][e] + 1
  BY <1>1
<1>5. \A u \in Tools : trail[u]["approved"] \in Nat
  BY <1>1
<1> HIDE DEF grown
<1> QED
  BY <1>1, <1>2, <1>3, <1>4, <1>5

\* One client's job changes.
LEMMA JobFrame ==
  ASSUME GateTyped, NEW c \in Clients, NEW j, SetJob(c, j)
  PROVE  job'[c] = j /\ \A d \in Clients \ {c} : job'[d] = job[d]
BY DEF GateTyped, SetJob

JobChanges(c) == job' = job \/ \E j \in Jobs : SetJob(c, j)
TrailChanges(t) == trail' = trail \/ \E e : Record(t, e)
RanChanges == ran' = ran \/ \E t \in Tools : ran' = [ran EXCEPT ![t] = @ + 1]

\* What a step of a call does to the three variables.
LEMMA StepShapes ==
  ASSUME TypeOK, GateTyped, NEW c \in Clients, Proceed(c) \/ AbortJob(c)
  PROVE  JobChanges(c) /\ RanChanges /\ \E t \in Tools : TrailChanges(t)
<1> USE DEF JobChanges, RanChanges, TrailChanges
<1>1. job[c] \in Jobs
  BY DEF GateTyped
<1>2. NoJob \in Jobs
  BY GateAssumption DEF NoJob, Jobs
<1>3. \A pc \in {"record", "enforce", "run", "end"} :
        [job[c] EXCEPT !.pc = pc] \in Jobs
  BY <1>1 DEF Jobs
<1>4. \A ok \in BOOLEAN : [job[c] EXCEPT !.pc = "end", !.ok = ok] \in Jobs
  BY <1>1 DEF Jobs
<1>5. job[c].tool \in Tools /\ Sandbox \in Tools
  BY <1>1, GateAssumption DEF Jobs
<1>6. CASE ManagerStep(c)
  BY <1>2, <1>3, <1>5, <1>6 DEF ManagerStep, Goto
<1>7. CASE RecordOutcome(c)
  BY <1>2, <1>5, <1>7 DEF RecordOutcome
<1>8. CASE ExecuteApproved(c)
  <2>1. call[c] \in Calls
    BY <1>8 DEF ExecuteApproved, Execute, TypeOK, Idle
  <2>2. ToolOf[call[c].id] \in Tools
    BY <2>1, GateAssumption DEF Calls
  <2>3. [NoJob EXCEPT !.pc = "evaluate", !.tool = ToolOf[call[c].id]] \in Jobs
    BY <1>2, <2>2 DEF Jobs
  <2> QED
    BY <1>8, <2>2, <2>3 DEF ExecuteApproved
<1>9. CASE Evaluate(c)
  BY <1>2, <1>3, <1>5, <1>9 DEF Evaluate, Goto
<1>10. CASE Enforce(c)
  BY <1>2, <1>3, <1>5, <1>10 DEF Enforce, Goto
<1>11. CASE RunNothing(c)
  BY <1>4, <1>5, <1>11 DEF RunNothing
<1>12. CASE RunTool(c)
  BY <1>4, <1>5, <1>12 DEF RunTool, Enter
<1>13. CASE SandboxRaises(c)
  BY <1>2, <1>5, <1>13 DEF SandboxRaises, Enter
<1>14. CASE End(c)
  BY <1>2, <1>5, <1>14 DEF End
<1>15. CASE AbortJob(c)
  BY <1>2, <1>5, <1>15 DEF AbortJob
<1> QED
  BY <1>6, <1>7, <1>8, <1>9, <1>10, <1>11, <1>12, <1>13, <1>14, <1>15 DEF Proceed

LEMMA ShapesTyped ==
  ASSUME GateTyped, NEW c \in Clients, JobChanges(c), RanChanges, NEW t \in Tools, TrailChanges(t)
  PROVE  GateTyped'
<1>1. job' \in [Clients -> Jobs]
  BY DEF GateTyped, JobChanges, SetJob
<1>2. ran' \in [Tools -> Nat]
  BY Increment DEF GateTyped, RanChanges
<1>3. trail' \in [Tools -> [Events -> Nat]]
  BY Recorded DEF GateTyped, TrailChanges
<1> QED
  BY <1>1, <1>2, <1>3 DEF GateTyped

\* What begins a call in the gate or the manager.
Beginning(c) ==
  \/ \E t \in Tools :
       (\E args \in BOOLEAN : SubmitDirect(c, t, args)) \/ SubmitRejected(c, t)
  \/ \E a \in Approvals :
       \/ SubmitForApproval(c, a) \/ CallManager(c, a)
       \/ \E op \in Transitions : DecideThroughGate(c, op, a)

LEMMA BeginningShapes ==
  ASSUME GateTyped, NEW c \in Clients, Beginning(c)
  PROVE  /\ JobChanges(c) /\ trail' = trail /\ ran' = ran
         /\ job'[c] # job[c] => job'[c].pc \in {"manager", "evaluate"}
         /\ job'[c].pc = "evaluate" => job'[c] = job[c] \/ job'[c].tool \notin Sensitive
<1> USE DEF JobChanges
<1>1. NoJob \in Jobs
  BY GateAssumption DEF NoJob, Jobs
<1>2. ASSUME NEW t \in Tools, NEW args \in BOOLEAN, SubmitDirect(c, t, args)
      PROVE  /\ \E j \in Jobs : SetJob(c, j)
             /\ trail' = trail /\ ran' = ran
             /\ job'[c].pc = "evaluate" /\ job'[c].tool \notin Sensitive
  <2> DEFINE j == [NoJob EXCEPT !.pc = "evaluate", !.tool = t, !.args = args]
  <2>1. j \in Jobs /\ j.pc = "evaluate" /\ j.tool = t
    BY <1>1 DEF Jobs
  <2>2. SetJob(c, j) /\ trail' = trail /\ ran' = ran /\ t \notin Sensitive
    BY <1>2 DEF SubmitDirect
  <2> QED
    BY <2>1, <2>2, JobFrame
<1>3. ASSUME NEW a \in Approvals, SubmitForApproval(c, a) \/ \E op \in Transitions : DecideThroughGate(c, op, a)
      PROVE  /\ \E j \in Jobs : SetJob(c, j)
             /\ trail' = trail /\ ran' = ran /\ job'[c].pc = "manager"
  <2> DEFINE J(e) == [NoJob EXCEPT !.pc = "manager", !.tool = ToolOf[a], !.event = e]
  <2>1. ToolOf[a] \in Tools
    BY GateAssumption
  <2>2. \A e \in {"requested"} \cup Closed : J(e) \in Jobs /\ J(e).pc = "manager"
    BY <1>1, <2>1 DEF Jobs, Events
  <2>3. \A op \in {"reject", "cancel", "expire"} : Target(op) \in Closed
    BY DEF Target, Closed
  <2>4. PICK e \in {"requested"} \cup Closed : SetJob(c, J(e))
    BY <1>3, <2>3 DEF SubmitForApproval, DecideThroughGate
  <2>5. trail' = trail /\ ran' = ran
    BY <1>3 DEF SubmitForApproval, DecideThroughGate
  <2> HIDE DEF J
  <2>6. J(e) \in Jobs /\ J(e).pc = "manager" /\ SetJob(c, J(e))
    BY <2>2, <2>4
  <2>7. job'[c] = J(e)
    BY <2>6, JobFrame
  <2> QED
    BY <2>5, <2>6, <2>7
<1>4. ASSUME (\E t \in Tools : SubmitRejected(c, t)) \/ \E a \in Approvals : CallManager(c, a)
      PROVE  job' = job /\ trail' = trail /\ ran' = ran
  BY <1>4 DEF SubmitRejected, CallManager, gateVars
<1> QED
  BY <1>2, <1>3, <1>4 DEF Beginning

LEMMA BeginningKeeps ==
  ASSUME GateInv, NEW c \in Clients, Beginning(c)
  PROVE  GateTyped' /\ OnlyRunnable' /\ AllCovered'
<1> USE DEF GateInv
<1>1. /\ JobChanges(c) /\ trail' = trail /\ ran' = ran
      /\ job'[c] # job[c] => job'[c].pc \in {"manager", "evaluate"}
      /\ job'[c].pc = "evaluate" => job'[c] = job[c] \/ job'[c].tool \notin Sensitive
  BY BeginningShapes
<1>2. \A d \in Clients \ {c} : job'[d] = job[d]
  BY <1>1, JobFrame DEF JobChanges
<1>3. GateTyped'
  BY <1>1, ShapesTyped, GateAssumption DEF RanChanges, TrailChanges
<1>4. OnlyRunnable'
  <2>1. ASSUME NEW d \in Clients, job'[d].pc = "run" PROVE job'[d] = job[d]
    BY <1>1, <1>2, <2>1
  <2> QED
    BY <1>1, <2>1 DEF OnlyRunnable
<1>5. ASSUME NEW t \in Sensitive PROVE Covered(t)'
  <2>1. t \in Tools /\ Covered(t)
    BY SensitiveAreTools DEF AllCovered
  <2>2. ASSUME NEW d \in Clients, Bound(d, t)' PROVE Bound(d, t)
    BY <1>1, <1>2, <2>2 DEF Bound
  <2>3. trail[t]["approved"] \in Nat
    BY <2>1 DEF GateTyped, Events
  <2> QED
    BY <1>1, <1>3, <2>1, <2>2, <2>3, Quiet
<1> QED
  BY <1>3, <1>4, <1>5 DEF AllCovered

LEMMA Ended ==
  ASSUME NEW j \in Jobs, NEW ok \in BOOLEAN
  PROVE  [j EXCEPT !.pc = "end", !.ok = ok].pc = "end"
BY DEF Jobs

\* Steps that leave the tool alone and the call no nearer to one.
Idling(c) ==
  \/ ManagerStep(c) \/ RecordOutcome(c) \/ Evaluate(c) \/ Enforce(c) \/ RunNothing(c)
  \/ End(c) \/ AbortJob(c)

LEMMA IdlingShapes ==
  ASSUME GateInv, NEW c \in Clients, Idling(c)
  PROVE  /\ ran' = ran
         /\ job'[c].pc = "run" => job'[c] = job[c] \/ job'[c].tool \in Runnable
         /\ \A t \in Tools : Bound(c, t)' => Bound(c, t)
<1> USE DEF GateInv, Bound
<1>1. job[c] \in Jobs
  BY DEF GateTyped
<1>2. CASE ManagerStep(c)
  <2>1. ran' = ran /\ (job' = job \/ SetJob(c, NoJob) \/ SetJob(c, [job[c] EXCEPT !.pc = "record"]))
    BY <1>2 DEF ManagerStep, Goto
  <2>2. job'[c] = job[c] \/ job'[c].pc \in {"none", "record"}
    BY <1>1, <2>1, JobFrame DEF NoJob, Jobs
  <2> QED
    BY <2>1, <2>2
<1>3. CASE RecordOutcome(c) \/ End(c) \/ AbortJob(c)
  <2>1. ran' = ran /\ SetJob(c, NoJob)
    BY <1>3 DEF RecordOutcome, End, AbortJob
  <2> QED
    BY <2>1, JobFrame DEF NoJob
<1>4. CASE Evaluate(c)
  <2>1. /\ ran' = ran /\ job[c].pc = "evaluate"
        /\ SetJob(c, NoJob) \/ SetJob(c, [job[c] EXCEPT !.pc = "enforce"])
    BY <1>4 DEF Evaluate, Goto
  <2>2. job'[c].pc = "none" \/ (job'[c].pc = "enforce" /\ job'[c].tool = job[c].tool)
    BY <1>1, <2>1, JobFrame DEF NoJob, Jobs
  <2> QED
    BY <2>1, <2>2
<1>5. CASE Enforce(c)
  <2>1. /\ ran' = ran /\ job[c].pc = "enforce"
        /\ \/ SetJob(c, NoJob)
           \/ job[c].tool \in Runnable /\ SetJob(c, [job[c] EXCEPT !.pc = "run"])
    BY <1>5 DEF Enforce, Goto
  <2>2. \/ job'[c].pc = "none"
        \/ job'[c].pc = "run" /\ job'[c].tool = job[c].tool /\ job[c].tool \in Runnable
    BY <1>1, <2>1, JobFrame DEF NoJob, Jobs
  <2> QED
    BY <2>1, <2>2
<1>6. CASE RunNothing(c)
  <2>1. ran' = ran /\ SetJob(c, [job[c] EXCEPT !.pc = "end", !.ok = FALSE])
    BY <1>6 DEF RunNothing
  <2>2. job'[c].pc = "end"
    <3> DEFINE j == [job[c] EXCEPT !.pc = "end", !.ok = FALSE]
    <3>1. j.pc = "end" /\ SetJob(c, j)
      BY <1>1, <2>1, Ended
    <3> HIDE DEF j
    <3> QED
      BY <3>1, JobFrame
  <2> QED
    BY <2>1, <2>2
<1> QED
  BY <1>2, <1>3, <1>4, <1>5, <1>6 DEF Idling

LEMMA IdlingKeeps ==
  ASSUME GateInv, NEW c \in Clients, Idling(c)
  PROVE  GateTyped' /\ OnlyRunnable' /\ AllCovered'
<1> USE DEF GateInv
<1>1. /\ ran' = ran
      /\ job'[c].pc = "run" => job'[c] = job[c] \/ job'[c].tool \in Runnable
      /\ \A t \in Tools : Bound(c, t)' => Bound(c, t)
  BY IdlingShapes
<1>2. JobChanges(c) /\ RanChanges /\ \E t \in Tools : TrailChanges(t)
  BY StepShapes DEF Idling, Proceed
<1>3. \A d \in Clients \ {c} : job'[d] = job[d]
  BY <1>2, JobFrame DEF JobChanges
<1>4. GateTyped'
  BY <1>2, ShapesTyped
<1>5. OnlyRunnable'
  <2>1. ASSUME NEW d \in Clients, job'[d].pc = "run" PROVE job'[d].tool \in Runnable
    BY <1>1, <1>3, <2>1 DEF OnlyRunnable
  <2> QED
    BY <1>1, <2>1 DEF OnlyRunnable
<1>6. ASSUME NEW t \in Sensitive PROVE Covered(t)'
  <2>1. t \in Tools /\ Covered(t)
    BY SensitiveAreTools DEF AllCovered
  <2>2. ASSUME NEW d \in Clients, Bound(d, t)' PROVE Bound(d, t)
    BY <1>1, <1>3, <2>1, <2>2 DEF Bound
  <2>3. trail'[t]["approved"] >= trail[t]["approved"]
    <3>1. trail[t]["approved"] \in Nat
      BY <2>1 DEF GateTyped, Events
    <3> QED
      BY <1>2, <2>1, <3>1, Recorded DEF TrailChanges
  <2> QED
    BY <1>1, <1>4, <2>1, <2>2, <2>3, Quiet
<1> QED
  BY <1>4, <1>5, <1>6 DEF AllCovered

LEMMA EnteringKeeps ==
  ASSUME GateInv, NEW c \in Clients, RunTool(c) \/ SandboxRaises(c)
  PROVE  GateTyped' /\ OnlyRunnable' /\ AllCovered'
<1> USE DEF GateInv
<1> DEFINE t == job[c].tool
<1>1. /\ job[c].pc = "run" /\ trail' = trail
      /\ ran' = [ran EXCEPT ![t] = @ + 1]
      /\ SetJob(c, NoJob) \/ \E ok \in BOOLEAN : SetJob(c, [job[c] EXCEPT !.pc = "end", !.ok = ok])
  BY DEF RunTool, SandboxRaises, Enter
<1>2. JobChanges(c) /\ RanChanges /\ \E u \in Tools : TrailChanges(u)
  BY StepShapes DEF Proceed
<1>3. \A d \in Clients \ {c} : job'[d] = job[d]
  BY <1>2, JobFrame DEF JobChanges
<1>4. GateTyped'
  BY <1>2, ShapesTyped
<1>5. job[c] \in Jobs /\ t \in Tools
  BY DEF GateTyped, Jobs
<1>6. job'[c].pc \in {"none", "end"}
  <2> DEFINE J(ok) == [job[c] EXCEPT !.pc = "end", !.ok = ok]
  <2>1. \A ok \in BOOLEAN : J(ok).pc = "end"
    BY <1>5, Ended
  <2>2. SetJob(c, NoJob) \/ \E ok \in BOOLEAN : SetJob(c, J(ok))
    BY <1>1
  <2> HIDE DEF J
  <2> QED
    BY <2>1, <2>2, JobFrame DEF NoJob
<1> HIDE DEF t
<1>7. ran \in [Tools -> Nat] /\ ran'[t] = ran[t] + 1 /\ \A u \in Tools \ {t} : ran'[u] = ran[u]
  BY <1>1, <1>5 DEF GateTyped
<1>8. OnlyRunnable'
  <2>1. t \in Runnable
    BY <1>1 DEF OnlyRunnable, t
  <2>2. ASSUME NEW u \in Tools, ran'[u] > 0 PROVE u \in Runnable
    BY <1>7, <2>1, <2>2 DEF OnlyRunnable
  <2> QED
    BY <1>3, <1>6, <2>2 DEF OnlyRunnable
<1>9. ASSUME NEW u \in Sensitive PROVE Covered(u)'
  <2>1. u \in Tools /\ Covered(u) /\ trail[u]["approved"] \in Nat
    BY SensitiveAreTools DEF AllCovered, GateTyped, Events
  <2>2. \A d \in Clients \ {c} : Bound(d, u)' => Bound(d, u)
    BY <1>3 DEF Bound
  <2>3. ~Bound(c, u)'
    BY <1>6 DEF Bound
  <2>4. CASE u = t
    <3>1. Bound(c, u)
      BY <1>1, <2>4 DEF Bound, t
    <3> QED
      BY <1>1, <1>4, <1>7, <2>1, <2>2, <2>3, <2>4, <3>1, Entering
  <2>5. CASE u # t
    <3>1. ran'[u] = ran[u]
      BY <1>7, <2>1, <2>5
    <3>2. trail' = trail
      BY <1>1
    <3>3. trail'[u]["approved"] >= trail[u]["approved"]
      BY <2>1, <3>2
    <3>4. \A d \in Clients : Bound(d, u)' => Bound(d, u)
      BY <2>2, <2>3
    <3> QED
      BY <1>4, <2>1, <3>1, <3>3, <3>4, Quiet
  <2> QED
    BY <2>4, <2>5
<1> QED
  BY <1>4, <1>8, <1>9 DEF AllCovered

LEMMA ApprovedKeeps ==
  ASSUME GateInv, NEW c \in Clients, ExecuteApproved(c)
  PROVE  GateTyped' /\ OnlyRunnable' /\ AllCovered'
<1> USE DEF GateInv
<1> DEFINE t == ToolOf[call[c].id]
<1>1. /\ Record(t, "approved") /\ ran' = ran
      /\ SetJob(c, [NoJob EXCEPT !.pc = "evaluate", !.tool = t])
  BY DEF ExecuteApproved
<1>2. JobChanges(c) /\ RanChanges /\ \E u \in Tools : TrailChanges(u)
  BY StepShapes DEF Proceed
<1>3. \A d \in Clients \ {c} : job'[d] = job[d]
  BY <1>2, JobFrame DEF JobChanges
<1>4. GateTyped'
  BY <1>2, ShapesTyped
<1>5. t \in Tools
  <2>1. call[c] \in Calls
    BY DEF ExecuteApproved, Execute, TypeOK, Idle
  <2> QED
    BY <2>1, GateAssumption DEF Calls
<1>6. job'[c].pc = "evaluate" /\ job'[c].tool = t
  <2> DEFINE j == [NoJob EXCEPT !.pc = "evaluate", !.tool = t]
  <2>1. j.pc = "evaluate" /\ j.tool = t
    BY DEF NoJob
  <2>2. SetJob(c, j)
    BY <1>1
  <2> HIDE DEF j
  <2>3. job'[c] = j
    BY <2>2, JobFrame
  <2> QED
    BY <2>1, <2>3
<1>7. OnlyRunnable'
  BY <1>1, <1>3, <1>6 DEF OnlyRunnable
<1>8. ASSUME NEW u \in Sensitive PROVE Covered(u)'
  <2>1. u \in Tools /\ Covered(u) /\ trail[u]["approved"] \in Nat
    BY SensitiveAreTools DEF AllCovered, GateTyped, Events
  <2>2. \A d \in Clients \ {c} : Bound(d, u)' => Bound(d, u)
    BY <1>3 DEF Bound
  <2>3. CASE u = t
    <3>1. trail'[u]["approved"] = trail[u]["approved"] + 1
      BY <1>1, <1>5, <2>3, Recorded
    <3> QED
      BY <1>1, <1>4, <2>1, <2>2, <3>1, Approving
  <2>4. CASE u # t
    <3>1. trail'[u]["approved"] >= trail[u]["approved"]
      BY <1>1, <1>5, <2>1, Recorded
    <3>2. ~Bound(c, u)'
      BY <1>6, <2>4 DEF Bound
    <3> QED
      BY <1>1, <1>4, <2>1, <2>2, <3>1, <3>2, Quiet
  <2> QED
    BY <2>3, <2>4
<1> QED
  BY <1>4, <1>7, <1>8 DEF AllCovered

-----------------------------------------------------------------------------
LEMMA GateInvariant == GateSpec => []GateInv
<1>1. GateInit => GateInv
  <2> SUFFICES ASSUME GateInit PROVE GateInv
    OBVIOUS
  <2>1. TypeOK
    BY DEF GateInit, Init, TypeOK, Statuses, Idle
  <2>2. GateTyped /\ OnlyRunnable
    BY GateAssumption DEF GateInit, GateTyped, OnlyRunnable, NoJob, Jobs
  <2>3. ASSUME NEW t \in Sensitive PROVE Covered(t)
    <3>1. InFlight(t) = {}
      BY DEF GateInit, NoJob, InFlight, Bound
    <3>2. Cardinality(InFlight(t)) = 0
      BY <3>1, FS_EmptySet
    <3>3. ran[t] = 0 /\ trail[t]["approved"] = 0
      BY SensitiveAreTools DEF GateInit, Events
    <3> QED
      BY <3>2, <3>3 DEF Covered
  <2> QED
    BY <2>1, <2>2, <2>3 DEF GateInv, AllCovered
<1>2. GateInv /\ [GateNext]_allVars => GateInv'
  <2> SUFFICES ASSUME GateInv, [GateNext]_allVars PROVE GateInv'
    OBVIOUS
  <2>1. TypeOK'
    BY GateStepIsManagerStep, Typing DEF GateInv
  <2>2. CASE UNCHANGED gateVars
    BY <2>1, <2>2
    DEF GateInv, gateVars, GateTyped, OnlyRunnable, AllCovered, Covered, InFlight, Bound
  <2>3. ASSUME NEW c \in Clients, Beginning(c) PROVE GateInv'
    BY <2>1, <2>3, BeginningKeeps DEF GateInv
  <2>4. ASSUME NEW c \in Clients, Proceed(c) \/ AbortJob(c) PROVE GateInv'
    <3>1. Idling(c) \/ RunTool(c) \/ SandboxRaises(c) \/ ExecuteApproved(c)
      BY <2>4, Zenon DEF Proceed, Idling
    <3> QED
      BY <2>1, <3>1, IdlingKeeps, EnteringKeeps, ApprovedKeeps DEF GateInv
  <2> QED
    BY <2>2, <2>3, <2>4, Zenon DEF GateNext, allVars, Beginning
<1> QED
  BY <1>1, <1>2, PTL DEF GateSpec

\* What the broker enters is permitted and enforced, and the runs of a sensitive
\* tool never outnumber its recorded approvals: gate.submit,
\* approve_and_execute and broker.execute, with any number of callers, of
\* requests and of managers.
THEOREM SensitiveToolsWait == GateSpec => []SensitiveRunsAreApproved
<1>1. GateInv => SensitiveRunsAreApproved
  <2> SUFFICES ASSUME GateInv, NEW t \in Tools
               PROVE  /\ ran[t] > 0 => t \in Runnable
                      /\ t \in Sensitive => ran[t] <= trail[t]["approved"]
    BY DEF SensitiveRunsAreApproved
  <2>1. ran[t] \in Nat /\ trail[t]["approved"] \in Nat
    BY DEF GateInv, GateTyped, Events
  <2> QED
    BY <2>1, InFlightFinite DEF GateInv, OnlyRunnable, AllCovered, Covered
<1> QED
  BY <1>1, GateInvariant, PTL

-----------------------------------------------------------------------------
(***************************************************************************)
(* The books of the broker.  For each tool what was allowed is accounted   *)
(* for by how it ended and by the calls under way, and what was started,   *)
(* entered and completed is too.                                           *)
(***************************************************************************)
Broker == {"enforce", "run", "end"}
At(t, P) == {c \in Clients : job[c].tool = t /\ job[c].pc \in P}
EndingWell(t) == {c \in Clients : job[c].tool = t /\ job[c].pc = "end" /\ job[c].ok}

Ledger(t) ==
  /\ trail[t]["allowed"] =
       trail[t]["completed"] + trail[t]["failed"] + Cardinality(At(t, Broker)) + lost[t]
  /\ trail[t]["started"] + Cardinality(At(t, {"enforce"})) <= trail[t]["allowed"]
  /\ ran[t] + Cardinality(At(t, {"run"})) <= trail[t]["started"]
  /\ trail[t]["completed"] + lost[t] + Cardinality(EndingWell(t)) <= ran[t]

\* Who is past the manager is not in it: a caller that dies leaves no entry open.
Apart ==
  \A c \in Clients :
    job[c].pc \in {"record", "evaluate"} \cup Broker => call[c] = Idle

Recording == \A c \in Clients : job[c].event \in {"none", "requested"} \cup Closed

LostTyped == lost \in [Tools -> Nat]

LedgerInv == LostTyped /\ Apart /\ Recording /\ \A t \in Tools : Ledger(t)

LEMMA OneMoves ==
  ASSUME NEW A \in SUBSET Clients, NEW B \in SUBSET Clients, NEW c \in Clients,
         A \ {c} = B \ {c}
  PROVE  /\ Cardinality(A) \in Nat /\ Cardinality(B) \in Nat
         /\ Cardinality(B) + (IF c \in A THEN 1 ELSE 0)
              = Cardinality(A) + (IF c \in B THEN 1 ELSE 0)
<1>1. IsFiniteSet(A) /\ IsFiniteSet(B)
  BY GateAssumption, FS_Subset
<1>2. Cardinality(A) \in Nat /\ Cardinality(B) \in Nat
  BY <1>1, FS_CardinalityType
<1> DEFINE rest == A \ {c}
<1>3. rest \subseteq A /\ rest = B \ {c} /\ c \notin rest
  OBVIOUS
<1>4. IsFiniteSet(rest)
  BY <1>1, <1>3, FS_Subset
<1>5. Cardinality(rest) \in Nat
  BY <1>4, FS_CardinalityType
<1>6. ASSUME NEW S \in {A, B}
      PROVE  Cardinality(S) = Cardinality(rest) + (IF c \in S THEN 1 ELSE 0)
  <2>1. CASE c \in S
    <3>1. S = rest \cup {c}
      BY <1>3, <2>1
    <3>2. Cardinality(rest \cup {c}) = Cardinality(rest) + 1
      BY <1>3, <1>4, FS_AddElement
    <3> QED
      BY <2>1, <3>1, <3>2
  <2>2. CASE c \notin S
    <3>1. S = rest
      BY <1>3, <2>2
    <3> QED
      BY <1>5, <2>2, <3>1
  <2> QED
    BY <2>1, <2>2
<1> HIDE DEF rest
<1> QED
  BY <1>2, <1>5, <1>6

\* The counts of calls under way, when only the job of c changes.
LEMMA Counts ==
  ASSUME NEW c \in Clients, \A d \in Clients \ {c} : job'[d] = job[d], NEW t
  PROVE  /\ \A P : /\ Cardinality(At(t, P)) \in Nat /\ Cardinality(At(t, P)') \in Nat
                   /\ Cardinality(At(t, P)') + (IF c \in At(t, P) THEN 1 ELSE 0)
                      = Cardinality(At(t, P)) + (IF c \in At(t, P)' THEN 1 ELSE 0)
         /\ Cardinality(EndingWell(t)) \in Nat /\ Cardinality(EndingWell(t)') \in Nat
         /\ Cardinality(EndingWell(t)') + (IF c \in EndingWell(t) THEN 1 ELSE 0)
              = Cardinality(EndingWell(t)) + (IF c \in EndingWell(t)' THEN 1 ELSE 0)
<1>1. ASSUME NEW P
      PROVE  /\ Cardinality(At(t, P)) \in Nat /\ Cardinality(At(t, P)') \in Nat
             /\ Cardinality(At(t, P)') + (IF c \in At(t, P) THEN 1 ELSE 0)
                  = Cardinality(At(t, P)) + (IF c \in At(t, P)' THEN 1 ELSE 0)
  <2>1. /\ At(t, P) \in SUBSET Clients /\ At(t, P)' \in SUBSET Clients
        /\ At(t, P) \ {c} = At(t, P)' \ {c}
    BY DEF At
  <2> QED
    BY <2>1, OneMoves
<1>2. /\ EndingWell(t) \in SUBSET Clients /\ EndingWell(t)' \in SUBSET Clients
      /\ EndingWell(t) \ {c} = EndingWell(t)' \ {c}
  BY Zenon DEF EndingWell
<1>3. /\ Cardinality(EndingWell(t)) \in Nat /\ Cardinality(EndingWell(t)') \in Nat
      /\ Cardinality(EndingWell(t)') + (IF c \in EndingWell(t) THEN 1 ELSE 0)
           = Cardinality(EndingWell(t)) + (IF c \in EndingWell(t)' THEN 1 ELSE 0)
  BY <1>2, OneMoves
<1> QED
  BY <1>1, <1>3

\* What one event does to the counts of all the tools.
LEMMA Charged ==
  ASSUME GateTyped, NEW t \in Tools, NEW e \in Events, Record(t, e)
  PROVE  \A u \in Tools : \A f \in Events :
           trail'[u][f] = IF u = t /\ f = e THEN trail[u][f] + 1 ELSE trail[u][f]
<1> DEFINE grown == [trail[t] EXCEPT ![e] = @ + 1]
<1>1. trail \in [Tools -> [Events -> Nat]] /\ trail[t] \in [Events -> Nat]
  BY DEF GateTyped
<1>2. trail' = [trail EXCEPT ![t] = grown]
  BY DEF Record
<1>3. \A f \in Events : grown[f] = IF f = e THEN trail[t][f] + 1 ELSE trail[t][f]
  BY <1>1
<1> HIDE DEF grown
<1> QED
  BY <1>1, <1>2, <1>3

\* A tool whose calls and counts do not change.
LEMMA Untouched ==
  ASSUME GateTyped, NEW c \in Clients, \A d \in Clients \ {c} : job'[d] = job[d],
         NEW u \in Tools, Ledger(u), LostTyped,
         ~(job[c].tool = u /\ job[c].pc \in Broker),
         ~(job'[c].tool = u /\ job'[c].pc \in Broker),
         ran'[u] = ran[u], lost'[u] = lost[u],
         \A e \in {"allowed", "started", "completed", "failed"} : trail'[u][e] = trail[u][e]
  PROVE  Ledger(u)'
<1>1. ASSUME NEW P \in SUBSET Broker
      PROVE  Cardinality(At(u, P)') = Cardinality(At(u, P))
  <2>1. /\ Cardinality(At(u, P)) \in Nat /\ Cardinality(At(u, P)') \in Nat
        /\ Cardinality(At(u, P)') + (IF c \in At(u, P) THEN 1 ELSE 0)
             = Cardinality(At(u, P)) + (IF c \in At(u, P)' THEN 1 ELSE 0)
    BY Counts
  <2>2. c \notin At(u, P) /\ c \notin At(u, P)'
    BY <1>1 DEF At
  <2> QED
    BY <2>1, <2>2
<1>2. Cardinality(EndingWell(u)') = Cardinality(EndingWell(u))
  <2>1. /\ Cardinality(EndingWell(u)) \in Nat /\ Cardinality(EndingWell(u)') \in Nat
        /\ Cardinality(EndingWell(u)') + (IF c \in EndingWell(u) THEN 1 ELSE 0)
             = Cardinality(EndingWell(u)) + (IF c \in EndingWell(u)' THEN 1 ELSE 0)
    BY Counts
  <2>2. "end" \in Broker
    BY DEF Broker
  <2>3. c \notin EndingWell(u) /\ c \notin EndingWell(u)'
    BY <2>2, Zenon DEF EndingWell
  <2> QED
    BY <2>1, <2>3
<1>3. /\ Cardinality(At(u, Broker)') = Cardinality(At(u, Broker))
      /\ Cardinality(At(u, {"enforce"})') = Cardinality(At(u, {"enforce"}))
      /\ Cardinality(At(u, {"run"})') = Cardinality(At(u, {"run"}))
  BY <1>1 DEF Broker
<1> QED
  BY <1>2, <1>3 DEF Ledger

\* The tool whose call goes on: what the counts of its calls become.
LEMMA Advance ==
  ASSUME NEW c \in Clients, \A d \in Clients \ {c} : job'[d] = job[d], NEW t,
         job[c].tool = t, job'[c].tool = t \/ job'[c].pc \notin Broker
  PROVE  /\ \A P \in SUBSET Broker :
              /\ Cardinality(At(t, P)) \in Nat /\ Cardinality(At(t, P)') \in Nat
              /\ Cardinality(At(t, P)') + (IF job[c].pc \in P THEN 1 ELSE 0)
                   = Cardinality(At(t, P)) + (IF job'[c].pc \in P THEN 1 ELSE 0)
         /\ Cardinality(EndingWell(t)) \in Nat /\ Cardinality(EndingWell(t)') \in Nat
         /\ job[c].pc # "end" => Cardinality(EndingWell(t)') <= Cardinality(EndingWell(t)) + 1
         /\ job[c].pc # "end" /\ (job'[c].pc = "end" => ~job'[c].ok)
              => Cardinality(EndingWell(t)') = Cardinality(EndingWell(t))
         /\ job'[c].pc # "end" => Cardinality(EndingWell(t)') <= Cardinality(EndingWell(t))
         /\ job[c].pc = "end" /\ job[c].ok /\ job'[c].pc # "end"
              => Cardinality(EndingWell(t)') + 1 = Cardinality(EndingWell(t))
<1>1. ASSUME NEW P \in SUBSET Broker
      PROVE  /\ Cardinality(At(t, P)) \in Nat /\ Cardinality(At(t, P)') \in Nat
             /\ Cardinality(At(t, P)') + (IF job[c].pc \in P THEN 1 ELSE 0)
                  = Cardinality(At(t, P)) + (IF job'[c].pc \in P THEN 1 ELSE 0)
  <2>1. (c \in At(t, P) <=> job[c].pc \in P) /\ (c \in At(t, P)' <=> job'[c].pc \in P)
    BY <1>1 DEF At
  <2>2. /\ Cardinality(At(t, P)) \in Nat /\ Cardinality(At(t, P)') \in Nat
        /\ Cardinality(At(t, P)') + (IF c \in At(t, P) THEN 1 ELSE 0)
             = Cardinality(At(t, P)) + (IF c \in At(t, P)' THEN 1 ELSE 0)
    BY Counts
  <2> QED
    BY <2>1, <2>2
<1>2. /\ Cardinality(EndingWell(t)) \in Nat /\ Cardinality(EndingWell(t)') \in Nat
      /\ Cardinality(EndingWell(t)') + (IF c \in EndingWell(t) THEN 1 ELSE 0)
           = Cardinality(EndingWell(t)) + (IF c \in EndingWell(t)' THEN 1 ELSE 0)
  BY Counts
<1>3. /\ job[c].pc # "end" => c \notin EndingWell(t)
      /\ job'[c].pc # "end" => c \notin EndingWell(t)'
      /\ (job'[c].pc = "end" => ~job'[c].ok) => c \notin EndingWell(t)'
      /\ job[c].pc = "end" /\ job[c].ok => c \in EndingWell(t)
  BY Zenon DEF EndingWell
<1>4. /\ job[c].pc # "end" => Cardinality(EndingWell(t)') <= Cardinality(EndingWell(t)) + 1
      /\ job'[c].pc # "end" => Cardinality(EndingWell(t)') <= Cardinality(EndingWell(t))
  BY <1>2, <1>3
<1>5. ASSUME job[c].pc # "end", job'[c].pc = "end" => ~job'[c].ok
      PROVE  Cardinality(EndingWell(t)') = Cardinality(EndingWell(t))
  <2>1. c \notin EndingWell(t) /\ c \notin EndingWell(t)'
    BY <1>3, <1>5, Zenon
  <2> QED
    BY <1>2, <2>1
<1>6. ASSUME job[c].pc = "end", job[c].ok, job'[c].pc # "end"
      PROVE  Cardinality(EndingWell(t)') + 1 = Cardinality(EndingWell(t))
  <2>1. c \in EndingWell(t) /\ c \notin EndingWell(t)'
    BY <1>3, <1>6, Zenon
  <2> QED
    BY <1>2, <2>1
<1> QED
  BY <1>1, <1>2, <1>4, <1>5, <1>6, Zenon

\* The numbers the ledger of a tool is made of.
LEMMA LedgerNumbers ==
  ASSUME GateTyped, LostTyped, NEW t \in Tools
  PROVE  /\ \A e \in {"allowed", "started", "completed", "failed", "approved"} : trail[t][e] \in Nat
         /\ ran[t] \in Nat /\ lost[t] \in Nat
BY DEF GateTyped, LostTyped, Events

\* What one step may make of a job.
LEMMA GoesOn ==
  ASSUME GateTyped, NEW c \in Clients
  PROVE  /\ \A pc \in {"record", "enforce", "run"} : Goto(c, pc) => job'[c].pc = pc
         /\ \A ok \in BOOLEAN : SetJob(c, [job[c] EXCEPT !.pc = "end", !.ok = ok])
                                  => job'[c].pc = "end" /\ job'[c].ok = ok
         /\ SetJob(c, NoJob) => job'[c].pc = "none"
<1>1. job[c] \in Jobs
  BY DEF GateTyped
<1> DEFINE J(ok) == [job[c] EXCEPT !.pc = "end", !.ok = ok]
           On(pc) == [job[c] EXCEPT !.pc = pc]
<1>2. \A pc \in {"record", "enforce", "run"} : On(pc).pc = pc
  BY <1>1 DEF Jobs
<1>3. \A ok \in BOOLEAN : J(ok).pc = "end" /\ J(ok).ok = ok
  <2> TAKE ok \in BOOLEAN
  <2>1. J(ok).pc = "end"
    BY <1>1, Ended
  <2>2. J(ok).ok = ok
    BY <1>1, Zenon DEF Jobs
  <2> QED
    BY <2>1, <2>2
<1>4. \A pc \in {"record", "enforce", "run"} : Goto(c, pc) => job'[c].pc = pc
  <2> TAKE pc \in {"record", "enforce", "run"}
  <2> HAVE Goto(c, pc)
  <2>1. SetJob(c, On(pc))
    BY DEF Goto
  <2> HIDE DEF On
  <2> QED
    BY <1>2, <2>1, JobFrame
<1>5. \A ok \in BOOLEAN : SetJob(c, J(ok)) => job'[c].pc = "end" /\ job'[c].ok = ok
  <2> TAKE ok \in BOOLEAN
  <2> HAVE SetJob(c, J(ok))
  <2> HIDE DEF J
  <2>1. job'[c] = J(ok)
    BY JobFrame
  <2> QED
    BY <1>3, <2>1, Zenon
<1>6. SetJob(c, NoJob) => job'[c].pc = "none"
  BY JobFrame DEF NoJob
<1> QED
  BY <1>4, <1>5, <1>6

\* Broker steps: the call of c goes on at its own tool.
LEMMA BrokerMoves ==
  ASSUME GateTyped, NEW c \in Clients,
         \/ Evaluate(c) \/ Enforce(c) \/ RunNothing(c) \/ RunTool(c) \/ SandboxRaises(c) \/ End(c)
  PROVE  /\ job[c] \in Jobs /\ job[c].tool \in Tools
         /\ job'[c].tool = job[c].tool \/ job'[c].pc = "none"
         /\ job'[c].pc \in {"none"} \cup Broker
         /\ job'[c].event \in {job[c].event, "none"}
         /\ \A d \in Clients \ {c} : job'[d] = job[d]
<1>1. job[c] \in Jobs /\ job[c].tool \in Tools
  BY DEF GateTyped, Jobs
<1> DEFINE J(ok) == [job[c] EXCEPT !.pc = "end", !.ok = ok]
           On(pc) == [job[c] EXCEPT !.pc = pc]
<1>2. \/ SetJob(c, NoJob) \/ SetJob(c, On("enforce")) \/ SetJob(c, On("run"))
      \/ \E ok \in BOOLEAN : SetJob(c, J(ok))
  BY DEF Evaluate, Enforce, RunNothing, RunTool, SandboxRaises, End, Goto
<1>3. \A ok \in BOOLEAN : J(ok).pc = "end" /\ J(ok).tool = job[c].tool /\ J(ok).event = job[c].event
  BY <1>1 DEF Jobs
<1>4. \A pc \in {"enforce", "run"} :
        On(pc).pc = pc /\ On(pc).tool = job[c].tool /\ On(pc).event = job[c].event
  BY <1>1 DEF Jobs
<1>5. NoJob.pc = "none" /\ NoJob.event = "none"
  BY DEF NoJob
<1> HIDE DEF J, On
<1>6. \/ job'[c] = NoJob \/ job'[c] = On("enforce") \/ job'[c] = On("run")
      \/ \E ok \in BOOLEAN : job'[c] = J(ok)
  BY <1>2, JobFrame
<1>7. \A d \in Clients \ {c} : job'[d] = job[d]
  BY <1>2, JobFrame
<1> QED
  BY <1>1, <1>3, <1>4, <1>5, <1>6, <1>7 DEF Broker

BrokerStep(c) ==
  Evaluate(c) \/ Enforce(c) \/ RunNothing(c) \/ RunTool(c) \/ SandboxRaises(c) \/ End(c)

\* All that a broker step leaves to be shown is what it does to the counts.
LEMMA Standing ==
  ASSUME GateTyped, LedgerInv, NEW c \in Clients, BrokerStep(c), NEW t \in Tools, job[c].tool = t
  PROVE  /\ Ledger(t) /\ ran[t] \in Nat /\ lost[t] \in Nat
         /\ \A e \in {"allowed", "started", "completed", "failed"} : trail[t][e] \in Nat
         /\ Cardinality(At(t, Broker)) \in Nat /\ Cardinality(At(t, Broker)') \in Nat
         /\ Cardinality(At(t, {"enforce"})) \in Nat /\ Cardinality(At(t, {"enforce"})') \in Nat
         /\ Cardinality(At(t, {"run"})) \in Nat /\ Cardinality(At(t, {"run"})') \in Nat
         /\ Cardinality(EndingWell(t)) \in Nat /\ Cardinality(EndingWell(t)') \in Nat
         /\ Cardinality(At(t, Broker)') + (IF job[c].pc \in Broker THEN 1 ELSE 0)
              = Cardinality(At(t, Broker)) + (IF job'[c].pc \in Broker THEN 1 ELSE 0)
         /\ Cardinality(At(t, {"enforce"})') + (IF job[c].pc = "enforce" THEN 1 ELSE 0)
              = Cardinality(At(t, {"enforce"})) + (IF job'[c].pc = "enforce" THEN 1 ELSE 0)
         /\ Cardinality(At(t, {"run"})') + (IF job[c].pc = "run" THEN 1 ELSE 0)
              = Cardinality(At(t, {"run"})) + (IF job'[c].pc = "run" THEN 1 ELSE 0)
<1>1. /\ \A d \in Clients \ {c} : job'[d] = job[d]
      /\ job'[c].tool = t \/ job'[c].pc \notin Broker
  BY BrokerMoves DEF Broker, BrokerStep
<1>2. /\ Ledger(t) /\ ran[t] \in Nat /\ lost[t] \in Nat
      /\ \A e \in {"allowed", "started", "completed", "failed"} : trail[t][e] \in Nat
  BY LedgerNumbers DEF LedgerInv
<1>3. Broker \in SUBSET Broker /\ {"enforce"} \in SUBSET Broker /\ {"run"} \in SUBSET Broker
  BY DEF Broker
<1>4. ASSUME NEW P \in SUBSET Broker
      PROVE  /\ Cardinality(At(t, P)) \in Nat /\ Cardinality(At(t, P)') \in Nat
             /\ Cardinality(At(t, P)') + (IF job[c].pc \in P THEN 1 ELSE 0)
                  = Cardinality(At(t, P)) + (IF job'[c].pc \in P THEN 1 ELSE 0)
  BY <1>1, Advance
<1>5. Cardinality(EndingWell(t)) \in Nat /\ Cardinality(EndingWell(t)') \in Nat
  BY <1>1, Counts
<1> QED
  BY <1>2, <1>3, <1>4, <1>5

\* The ledgers of the tools the step is not about.
LEMMA OtherLedgers ==
  ASSUME GateTyped, LedgerInv, NEW c \in Clients, BrokerStep(c), NEW t \in Tools, job[c].tool = t,
         NEW u \in Tools \ {t}, ran'[u] = ran[u], lost'[u] = lost[u],
         \A e \in {"allowed", "started", "completed", "failed"} : trail'[u][e] = trail[u][e]
  PROVE  Ledger(u)'
<1>1. /\ \A d \in Clients \ {c} : job'[d] = job[d]
      /\ job'[c].tool = t \/ job'[c].pc \notin Broker
  BY BrokerMoves DEF Broker, BrokerStep
<1>2. /\ ~(job[c].tool = u /\ job[c].pc \in Broker)
      /\ ~(job'[c].tool = u /\ job'[c].pc \in Broker)
  BY <1>1
<1> QED
  BY <1>1, <1>2, Untouched DEF LedgerInv

LEMMA EvaluateKeepsLedger ==
  ASSUME GateTyped, LedgerInv, NEW c \in Clients, Evaluate(c), NEW t \in Tools, job[c].tool = t
  PROVE  LostTyped' /\ \A u \in Tools : Ledger(u)'
<1>1. LostTyped' /\ ran' = ran /\ lost' = lost
  BY DEF Evaluate, LedgerInv, LostTyped
<1>2. /\ job[c].pc = "evaluate" /\ job[c] \in Jobs
      /\ \/ Record(t, "allowed") /\ job'[c].pc = "enforce"
         \/ Record(t, "denied") /\ job'[c].pc = "none"
      /\ \A d \in Clients \ {c} : job'[d] = job[d]
      /\ job'[c].tool = t \/ job'[c].pc \notin Broker
  <2>1. \/ Record(t, "allowed") /\ job'[c].pc = "enforce"
        \/ Record(t, "denied") /\ job'[c].pc = "none"
    BY GoesOn DEF Evaluate
  <2> QED
    BY <2>1, BrokerMoves DEF Evaluate, Broker
<1>3. \A u \in Tools :
        /\ \A e \in {"started", "completed", "failed"} : trail'[u][e] = trail[u][e]
        /\ trail'[u]["allowed"] =
             IF u = t /\ job'[c].pc = "enforce" THEN trail[u]["allowed"] + 1
             ELSE trail[u]["allowed"]
  BY <1>2, Charged DEF Events
<1>4. Cardinality(EndingWell(t)') = Cardinality(EndingWell(t))
  BY <1>2, Advance
<1>5. /\ Ledger(t) /\ ran[t] \in Nat /\ lost[t] \in Nat
      /\ \A e \in {"allowed", "started", "completed", "failed"} : trail[t][e] \in Nat
      /\ Cardinality(At(t, {"enforce"})) \in Nat /\ Cardinality(At(t, {"run"})) \in Nat
      /\ Cardinality(EndingWell(t)) \in Nat /\ Cardinality(At(t, Broker)) \in Nat
  BY Standing DEF BrokerStep
<1>6. /\ Cardinality(At(t, {"run"})') = Cardinality(At(t, {"run"}))
      /\ job'[c].pc = "enforce" =>
           /\ Cardinality(At(t, Broker)') = Cardinality(At(t, Broker)) + 1
           /\ Cardinality(At(t, {"enforce"})') = Cardinality(At(t, {"enforce"})) + 1
      /\ job'[c].pc = "none" =>
           /\ Cardinality(At(t, Broker)') = Cardinality(At(t, Broker))
           /\ Cardinality(At(t, {"enforce"})') = Cardinality(At(t, {"enforce"}))
  BY <1>2, Standing DEF Broker, BrokerStep
<1>7. Ledger(t)'
  BY <1>1, <1>2, <1>3, <1>4, <1>5, <1>6 DEF Ledger
<1>8. ASSUME NEW u \in Tools \ {t} PROVE Ledger(u)'
  BY <1>1, <1>3, <1>8, OtherLedgers DEF BrokerStep
<1> QED
  BY <1>1, <1>7, <1>8

LEMMA EnforceKeepsLedger ==
  ASSUME GateTyped, LedgerInv, NEW c \in Clients, Enforce(c), NEW t \in Tools, job[c].tool = t
  PROVE  LostTyped' /\ \A u \in Tools : Ledger(u)'
<1>1. LostTyped' /\ ran' = ran /\ lost' = lost
  BY DEF Enforce, LedgerInv, LostTyped
<1>2. /\ job[c].pc = "enforce"
      /\ \/ Record(t, "started") /\ job'[c].pc = "run"
         \/ Record(t, "failed") /\ job'[c].pc = "none"
      /\ \A d \in Clients \ {c} : job'[d] = job[d]
      /\ job'[c].tool = t \/ job'[c].pc \notin Broker
  <2>1. \/ Record(t, "started") /\ job'[c].pc = "run"
        \/ Record(t, "failed") /\ job'[c].pc = "none"
    BY GoesOn DEF Enforce
  <2> QED
    BY <2>1, BrokerMoves DEF Enforce, Broker
<1>3. \A u \in Tools :
        /\ \A e \in {"allowed", "completed"} : trail'[u][e] = trail[u][e]
        /\ trail'[u]["started"] =
             IF u = t /\ job'[c].pc = "run" THEN trail[u]["started"] + 1 ELSE trail[u]["started"]
        /\ trail'[u]["failed"] =
             IF u = t /\ job'[c].pc = "none" THEN trail[u]["failed"] + 1 ELSE trail[u]["failed"]
  BY <1>2, Charged DEF Events
<1>4. Cardinality(EndingWell(t)') = Cardinality(EndingWell(t))
  BY <1>2, Advance
<1>5. /\ Ledger(t) /\ ran[t] \in Nat /\ lost[t] \in Nat
      /\ \A e \in {"allowed", "started", "completed", "failed"} : trail[t][e] \in Nat
      /\ Cardinality(At(t, {"enforce"})) \in Nat /\ Cardinality(At(t, {"run"})) \in Nat
      /\ Cardinality(EndingWell(t)) \in Nat /\ Cardinality(At(t, Broker)) \in Nat
      /\ Cardinality(At(t, {"enforce"})') \in Nat /\ Cardinality(At(t, {"run"})') \in Nat
      /\ Cardinality(EndingWell(t)') \in Nat /\ Cardinality(At(t, Broker)') \in Nat
  BY Standing DEF BrokerStep
<1>6. /\ Cardinality(At(t, {"enforce"})') + 1 = Cardinality(At(t, {"enforce"}))
      /\ job'[c].pc = "run" =>
           /\ Cardinality(At(t, Broker)') = Cardinality(At(t, Broker))
           /\ Cardinality(At(t, {"run"})') = Cardinality(At(t, {"run"})) + 1
      /\ job'[c].pc = "none" =>
           /\ Cardinality(At(t, Broker)') + 1 = Cardinality(At(t, Broker))
           /\ Cardinality(At(t, {"run"})') = Cardinality(At(t, {"run"}))
  BY <1>2, Standing DEF Broker, BrokerStep
<1>7. Ledger(t)'
  BY <1>1, <1>2, <1>3, <1>4, <1>5, <1>6 DEF Ledger
<1>8. ASSUME NEW u \in Tools \ {t} PROVE Ledger(u)'
  BY <1>1, <1>3, <1>8, OtherLedgers DEF BrokerStep
<1> QED
  BY <1>1, <1>7, <1>8

LEMMA RunNothingKeepsLedger ==
  ASSUME GateTyped, LedgerInv, NEW c \in Clients, RunNothing(c), NEW t \in Tools, job[c].tool = t
  PROVE  LostTyped' /\ \A u \in Tools : Ledger(u)'
<1>1. LostTyped' /\ ran' = ran /\ lost' = lost
  BY DEF RunNothing, LedgerInv, LostTyped
<1>2. /\ job[c].pc = "run" /\ job'[c].pc = "end" /\ ~job'[c].ok
      /\ \A d \in Clients \ {c} : job'[d] = job[d]
      /\ job'[c].tool = t \/ job'[c].pc \notin Broker
  <2>1. job'[c].pc = "end" /\ job'[c].ok = FALSE
    BY GoesOn, Zenon DEF RunNothing
  <2>2. ~job'[c].ok
    BY <2>1, Zenon
  <2> QED
    BY <2>1, <2>2, BrokerMoves DEF RunNothing, Broker
<1>3. trail' = trail
  BY DEF RunNothing
<1>4. Cardinality(EndingWell(t)') = Cardinality(EndingWell(t))
  <2>1. job[c].pc # "end"
    BY <1>2
  <2> QED
    BY <1>2, <2>1, Advance, Zenon
<1>5. /\ Ledger(t) /\ ran[t] \in Nat /\ lost[t] \in Nat
      /\ \A e \in {"allowed", "started", "completed", "failed"} : trail[t][e] \in Nat
      /\ Cardinality(At(t, {"enforce"})) \in Nat /\ Cardinality(At(t, {"run"})) \in Nat
      /\ Cardinality(EndingWell(t)) \in Nat /\ Cardinality(At(t, Broker)) \in Nat
      /\ Cardinality(At(t, {"enforce"})') \in Nat /\ Cardinality(At(t, {"run"})') \in Nat
      /\ Cardinality(EndingWell(t)') \in Nat /\ Cardinality(At(t, Broker)') \in Nat
  BY Standing DEF BrokerStep
<1>6. /\ Cardinality(At(t, {"enforce"})') = Cardinality(At(t, {"enforce"}))
      /\ Cardinality(At(t, Broker)') = Cardinality(At(t, Broker))
      /\ Cardinality(At(t, {"run"})') + 1 = Cardinality(At(t, {"run"}))
  BY <1>2, Standing DEF Broker, BrokerStep
<1>7. Ledger(t)'
  BY <1>1, <1>3, <1>4, <1>5, <1>6 DEF Ledger
<1>8. ASSUME NEW u \in Tools \ {t} PROVE Ledger(u)'
  BY <1>1, <1>3, <1>8, OtherLedgers DEF BrokerStep
<1> QED
  BY <1>1, <1>7, <1>8

LEMMA RunToolKeepsLedger ==
  ASSUME GateTyped, LedgerInv, NEW c \in Clients, RunTool(c), NEW t \in Tools, job[c].tool = t
  PROVE  LostTyped' /\ \A u \in Tools : Ledger(u)'
<1>1. LostTyped' /\ lost' = lost
  BY DEF RunTool, LedgerInv, LostTyped
<1>2. /\ job[c].pc = "run" /\ job'[c].pc = "end"
      /\ \A d \in Clients \ {c} : job'[d] = job[d]
      /\ job'[c].tool = t \/ job'[c].pc \notin Broker
  <2>1. job'[c].pc = "end"
    BY GoesOn, Zenon DEF RunTool
  <2> QED
    BY <2>1, BrokerMoves DEF RunTool, Enter, Broker
<1>3. /\ trail' = trail
      /\ \A u \in Tools : ran'[u] = IF u = t THEN ran[u] + 1 ELSE ran[u]
  BY DEF RunTool, Enter, GateTyped
<1>4. Cardinality(EndingWell(t)') <= Cardinality(EndingWell(t)) + 1
  BY <1>2, Advance
<1>5. /\ Ledger(t) /\ ran[t] \in Nat /\ lost[t] \in Nat
      /\ \A e \in {"allowed", "started", "completed", "failed"} : trail[t][e] \in Nat
      /\ Cardinality(At(t, {"enforce"})) \in Nat /\ Cardinality(At(t, {"run"})) \in Nat
      /\ Cardinality(EndingWell(t)) \in Nat /\ Cardinality(At(t, Broker)) \in Nat
      /\ Cardinality(At(t, {"enforce"})') \in Nat /\ Cardinality(At(t, {"run"})') \in Nat
      /\ Cardinality(EndingWell(t)') \in Nat /\ Cardinality(At(t, Broker)') \in Nat
  BY Standing DEF BrokerStep
<1>6. /\ Cardinality(At(t, {"enforce"})') = Cardinality(At(t, {"enforce"}))
      /\ Cardinality(At(t, Broker)') = Cardinality(At(t, Broker))
      /\ Cardinality(At(t, {"run"})') + 1 = Cardinality(At(t, {"run"}))
  BY <1>2, Standing DEF Broker, BrokerStep
<1>7. Ledger(t)'
  BY <1>1, <1>3, <1>4, <1>5, <1>6 DEF Ledger
<1>8. ASSUME NEW u \in Tools \ {t} PROVE Ledger(u)'
  BY <1>1, <1>3, <1>8, OtherLedgers DEF BrokerStep
<1> QED
  BY <1>1, <1>7, <1>8

LEMMA SandboxRaisesKeepsLedger ==
  ASSUME GateTyped, LedgerInv, NEW c \in Clients, SandboxRaises(c), NEW t \in Tools, job[c].tool = t
  PROVE  LostTyped' /\ \A u \in Tools : Ledger(u)'
<1>1. /\ LostTyped'
      /\ \A u \in Tools : lost'[u] = IF u = t THEN lost[u] + 1 ELSE lost[u]
  <2>1. lost' = [lost EXCEPT ![t] = @ + 1]
    BY DEF SandboxRaises
  <2>2. lost \in [Tools -> Nat]
    BY DEF LedgerInv, LostTyped
  <2> QED
    BY <2>1, <2>2, Increment DEF LostTyped
<1>2. /\ job[c].pc = "run" /\ job'[c].pc = "none"
      /\ \A d \in Clients \ {c} : job'[d] = job[d]
      /\ job'[c].tool = t \/ job'[c].pc \notin Broker
  BY GoesOn, BrokerMoves DEF SandboxRaises, Enter, Broker, BrokerStep
<1>3. /\ trail' = trail
      /\ \A u \in Tools : ran'[u] = IF u = t THEN ran[u] + 1 ELSE ran[u]
  BY DEF SandboxRaises, Enter, GateTyped
<1>4. Cardinality(EndingWell(t)') = Cardinality(EndingWell(t))
  BY <1>2, Advance
<1>5. /\ Ledger(t) /\ ran[t] \in Nat /\ lost[t] \in Nat
      /\ \A e \in {"allowed", "started", "completed", "failed"} : trail[t][e] \in Nat
      /\ Cardinality(At(t, {"enforce"})) \in Nat /\ Cardinality(At(t, {"run"})) \in Nat
      /\ Cardinality(EndingWell(t)) \in Nat /\ Cardinality(At(t, Broker)) \in Nat
      /\ Cardinality(At(t, {"enforce"})') \in Nat /\ Cardinality(At(t, {"run"})') \in Nat
      /\ Cardinality(EndingWell(t)') \in Nat /\ Cardinality(At(t, Broker)') \in Nat
  BY Standing DEF BrokerStep
<1>6. /\ Cardinality(At(t, {"enforce"})') = Cardinality(At(t, {"enforce"}))
      /\ Cardinality(At(t, Broker)') + 1 = Cardinality(At(t, Broker))
      /\ Cardinality(At(t, {"run"})') + 1 = Cardinality(At(t, {"run"}))
  BY <1>2, Standing DEF Broker, BrokerStep
<1>7. Ledger(t)'
  BY <1>1, <1>3, <1>4, <1>5, <1>6 DEF Ledger
<1>8. ASSUME NEW u \in Tools \ {t} PROVE Ledger(u)'
  BY <1>1, <1>3, <1>8, OtherLedgers DEF BrokerStep
<1> QED
  BY <1>1, <1>7, <1>8

LEMMA EndKeepsLedger ==
  ASSUME GateTyped, LedgerInv, NEW c \in Clients, End(c), NEW t \in Tools, job[c].tool = t
  PROVE  LostTyped' /\ \A u \in Tools : Ledger(u)'
<1>1. LostTyped' /\ ran' = ran /\ lost' = lost
  BY DEF End, LedgerInv, LostTyped
<1>2. /\ job[c].pc = "end" /\ job'[c].pc = "none"
      /\ \A d \in Clients \ {c} : job'[d] = job[d]
      /\ job'[c].tool = t \/ job'[c].pc \notin Broker
  BY GoesOn, BrokerMoves DEF End, Broker
<1> DEFINE well == IF job[c].ok THEN "completed" ELSE "failed"
<1>20. /\ well \in {"completed", "failed"} /\ Record(t, well)
  BY DEF End
<1>21. well = "completed" => job[c].ok
  BY Zenon
<1> HIDE DEF well
<1>3. \A u \in Tools :
        /\ \A e \in {"allowed", "started"} : trail'[u][e] = trail[u][e]
        /\ \A e \in {"completed", "failed"} :
             trail'[u][e] = IF u = t /\ e = well THEN trail[u][e] + 1 ELSE trail[u][e]
  BY <1>20, Charged DEF Events
<1>4. /\ Cardinality(EndingWell(t)') <= Cardinality(EndingWell(t))
      /\ well = "completed" => Cardinality(EndingWell(t)') + 1 = Cardinality(EndingWell(t))
  <2>1. job'[c].pc # "end"
    BY <1>2
  <2> QED
    BY <1>2, <1>21, <2>1, Advance, Zenon
<1>5. /\ Ledger(t) /\ ran[t] \in Nat /\ lost[t] \in Nat
      /\ \A e \in {"allowed", "started", "completed", "failed"} : trail[t][e] \in Nat
      /\ Cardinality(At(t, {"enforce"})) \in Nat /\ Cardinality(At(t, {"run"})) \in Nat
      /\ Cardinality(EndingWell(t)) \in Nat /\ Cardinality(At(t, Broker)) \in Nat
      /\ Cardinality(At(t, {"enforce"})') \in Nat /\ Cardinality(At(t, {"run"})') \in Nat
      /\ Cardinality(EndingWell(t)') \in Nat /\ Cardinality(At(t, Broker)') \in Nat
  BY Standing DEF BrokerStep
<1>6. /\ Cardinality(At(t, {"enforce"})') = Cardinality(At(t, {"enforce"}))
      /\ Cardinality(At(t, Broker)') + 1 = Cardinality(At(t, Broker))
      /\ Cardinality(At(t, {"run"})') = Cardinality(At(t, {"run"}))
  BY <1>2, Standing DEF Broker, BrokerStep
<1>7. Ledger(t)'
  <2>1. CASE well = "completed"
    BY <1>1, <1>3, <1>4, <1>5, <1>6, <2>1 DEF Ledger
  <2>2. CASE well = "failed"
    BY <1>1, <1>3, <1>4, <1>5, <1>6, <2>2 DEF Ledger
  <2> QED
    BY <1>20, <2>1, <2>2
<1>8. ASSUME NEW u \in Tools \ {t} PROVE Ledger(u)'
  BY <1>1, <1>3, <1>8, OtherLedgers DEF BrokerStep
<1> QED
  BY <1>1, <1>7, <1>8

\* A step outside the broker: it leaves its books alone.
LEMMA Elsewhere ==
  ASSUME GateTyped, LedgerInv, NEW c \in Clients, \A d \in Clients \ {c} : job'[d] = job[d],
         job[c].pc \notin Broker, job'[c].pc \notin Broker, ran' = ran, lost' = lost,
         \A u \in Tools : \A e \in {"allowed", "started", "completed", "failed"} :
           trail'[u][e] = trail[u][e]
  PROVE  LostTyped' /\ \A u \in Tools : Ledger(u)'
<1>1. LostTyped'
  BY DEF LedgerInv, LostTyped
<1>2. ASSUME NEW u \in Tools PROVE Ledger(u)'
  BY <1>2, Untouched DEF LedgerInv
<1> QED
  BY <1>1, <1>2

LEMMA Uncharged ==
  ASSUME GateTyped, NEW t \in Tools, NEW e, Record(t, e), NEW f \in Events, f # e
  PROVE  \A u \in Tools : trail'[u][f] = trail[u][f]
<1> DEFINE grown == [trail[t] EXCEPT ![e] = @ + 1]
<1>1. trail \in [Tools -> [Events -> Nat]] /\ trail[t] \in [Events -> Nat]
  BY DEF GateTyped
<1>2. trail' = [trail EXCEPT ![t] = grown]
  BY DEF Record
<1>3. grown[f] = trail[t][f]
  BY <1>1
<1> HIDE DEF grown
<1> QED
  BY <1>1, <1>2, <1>3

\* In a call of the manager only the caller's own call changes.
LEMMA CallFrame ==
  ASSUME TypeOK, NEW c \in Clients, Continue(c) \/ Abort(c)
  PROVE  call[c] # Idle /\ \A d \in Clients \ {c} : call'[d] = call[d]
<1>1. call[c] # Idle
  <2>1. call[c] # Idle \/ call[c].phase # "idle"
    BY DEF Continue, Abort, Read, ReadPending, Acquire, NextPending, DecideLapsed, Decide,
           DecideNothing, Save, Execute
  <2> QED
    BY <2>1 DEF Idle
<1>2. \E r : Step(c, r)
  BY DEF Continue, Abort, Read, ReadPending, NextPending, DecideLapsed, Decide, DecideNothing,
         Save, Execute, Write, Return, ReturnOrNext
<1>3. \A d \in Clients \ {c} : call'[d] = call[d]
  BY <1>2 DEF Step, TypeOK
<1> QED
  BY <1>1, <1>3

\* What a step of c may not do to its job and its call.
Keeps(c) ==
  /\ job'[c].pc \in {"record", "evaluate"} \cup Broker => call'[c] = Idle
  /\ job'[c].event \in {"none", "requested"} \cup Closed
  /\ \A d \in Clients \ {c} : job'[d] = job[d] /\ call'[d] = call[d]

LEMMA KeepsApart ==
  ASSUME LedgerInv, NEW c \in Clients, Keeps(c)
  PROVE  Apart' /\ Recording'
BY DEF LedgerInv, Keeps, Apart, Recording

LEMMA BeginningKeepsLedger ==
  ASSUME TypeOK, GateTyped, LedgerInv, NEW c \in Clients, Beginning(c)
  PROVE  LedgerInv'
<1>1. /\ trail' = trail /\ ran' = ran /\ JobChanges(c)
      /\ job'[c] # job[c] => job'[c].pc \in {"manager", "evaluate"}
  BY BeginningShapes
<1>2. job[c] = NoJob /\ call[c] = Idle /\ lost' = lost
  BY DEF Beginning, SubmitDirect, SubmitRejected, SubmitForApproval, CallManager,
         DecideThroughGate, Free, gateVars
<1>3. NoJob.pc = "none" /\ NoJob.event = "none"
  BY DEF NoJob
<1>4. \A d \in Clients \ {c} : job'[d] = job[d]
  BY <1>1, JobFrame DEF JobChanges
<1>5. job[c].pc \notin Broker /\ job'[c].pc \notin Broker
  <2>1. "none" \notin Broker /\ "manager" \notin Broker /\ "evaluate" \notin Broker
    BY DEF Broker
  <2> QED
    BY <1>1, <1>2, <1>3, <2>1
<1>6. \A d \in Clients \ {c} : call'[d] = call[d]
  <2>1. call' = call \/ \E r : Step(c, r)
    BY DEF Beginning, SubmitDirect, SubmitRejected, SubmitForApproval, CallManager,
           DecideThroughGate, Ask, vars
  <2> QED
    BY <2>1 DEF Step, TypeOK
<1>7. /\ job'[c].pc \in {"record", "evaluate"} \cup Broker => call'[c] = Idle
      /\ job'[c].event \in {"none", "requested"} \cup Closed
  <2>1. ASSUME NEW t \in Tools, NEW args \in BOOLEAN, SubmitDirect(c, t, args)
        PROVE  call'[c] = Idle /\ job'[c].event = "none"
    <3> DEFINE j == [NoJob EXCEPT !.pc = "evaluate", !.tool = t, !.args = args]
    <3>1. j.event = "none"
      BY DEF NoJob
    <3>2. SetJob(c, j) /\ call' = call
      BY <2>1 DEF SubmitDirect, vars
    <3> HIDE DEF j
    <3> QED
      BY <1>2, <3>1, <3>2, JobFrame
  <2>2. ASSUME NEW a \in Approvals,
               SubmitForApproval(c, a) \/ \E op \in Transitions : DecideThroughGate(c, op, a)
        PROVE  job'[c].pc = "manager" /\ job'[c].event \in {"requested"} \cup Closed
    <3> DEFINE J(e) == [NoJob EXCEPT !.pc = "manager", !.tool = ToolOf[a], !.event = e]
    <3>1. \A e \in {"requested"} \cup Closed : J(e).pc = "manager" /\ J(e).event = e
      BY DEF NoJob
    <3>2. \A op \in {"reject", "cancel", "expire"} : Target(op) \in Closed
      BY DEF Target, Closed
    <3>3. PICK e \in {"requested"} \cup Closed : SetJob(c, J(e))
      BY <2>2, <3>2 DEF SubmitForApproval, DecideThroughGate
    <3> HIDE DEF J
    <3> QED
      BY <3>1, <3>3, JobFrame
  <2>3. ASSUME (\E t \in Tools : SubmitRejected(c, t)) \/ \E a \in Approvals : CallManager(c, a)
        PROVE  job' = job
    BY <2>3 DEF SubmitRejected, CallManager, gateVars
  <2>4. "none" \notin {"record", "evaluate"} \cup Broker
        /\ "manager" \notin {"record", "evaluate"} \cup Broker
    BY DEF Broker
  <2> QED
    BY <1>2, <1>3, <2>1, <2>2, <2>3, <2>4 DEF Beginning
<1>8. LostTyped' /\ \A u \in Tools : Ledger(u)'
  BY <1>1, <1>2, <1>4, <1>5, Elsewhere
<1>9. Apart' /\ Recording'
  BY <1>4, <1>6, <1>7, KeepsApart DEF Keeps
<1> QED
  BY <1>8, <1>9 DEF LedgerInv

LEMMA ManagerKeepsLedger ==
  ASSUME TypeOK, GateTyped, LedgerInv, NEW c \in Clients, ManagerStep(c)
  PROVE  LedgerInv'
<1>1. /\ Continue(c)
      /\ \/ job' = job
         \/ call'[c] = Idle /\ Goto(c, "record")
         \/ SetJob(c, NoJob)
      /\ trail' = trail /\ ran' = ran /\ lost' = lost
  BY Zenon DEF ManagerStep, Continue
<1>2. call[c] # Idle /\ \A d \in Clients \ {c} : call'[d] = call[d]
  BY <1>1, CallFrame
<1>3. job[c].pc \notin {"record", "evaluate"} \cup Broker
  BY <1>2 DEF LedgerInv, Apart
<1>4. job[c] \in Jobs /\ job[c].event \in {"none", "requested"} \cup Closed
  BY DEF GateTyped, LedgerInv, Recording
<1>5. /\ \A d \in Clients \ {c} : job'[d] = job[d]
      /\ \/ job'[c] = job[c]
         \/ call'[c] = Idle /\ job'[c].pc = "record" /\ job'[c].event = job[c].event
         \/ job'[c].pc = "none" /\ job'[c].event = "none"
  <2>1. CASE job' = job
    BY <2>1
  <2>2. CASE call'[c] = Idle /\ Goto(c, "record")
    <3> DEFINE j == [job[c] EXCEPT !.pc = "record"]
    <3>1. j.pc = "record" /\ j.event = job[c].event
      BY <1>4 DEF Jobs
    <3>2. SetJob(c, j)
      BY <2>2 DEF Goto
    <3> HIDE DEF j
    <3> QED
      BY <2>2, <3>1, <3>2, JobFrame
  <2>3. CASE SetJob(c, NoJob)
    BY <2>3, JobFrame DEF NoJob
  <2> QED
    BY <1>1, <2>1, <2>2, <2>3
<1>6. "none" \notin {"record", "evaluate"} \cup Broker /\ "record" \notin Broker
  BY DEF Broker
<1>7. LostTyped' /\ \A u \in Tools : Ledger(u)'
  <2>1. job[c].pc \notin Broker /\ job'[c].pc \notin Broker
    BY <1>3, <1>5, <1>6
  <2> QED
    BY <1>1, <1>5, <2>1, Elsewhere
<1>8. Keeps(c)
  BY <1>2, <1>3, <1>4, <1>5, <1>6 DEF Keeps
<1> QED
  BY <1>7, <1>8, KeepsApart DEF LedgerInv

LEMMA RecordKeepsLedger ==
  ASSUME TypeOK, GateTyped, LedgerInv, NEW c \in Clients, RecordOutcome(c)
  PROVE  LedgerInv'
<1> DEFINE t == job[c].tool
           e == job[c].event
<1>1. /\ job[c].pc = "record" /\ SetJob(c, NoJob) /\ Record(t, e)
      /\ call' = call /\ ran' = ran /\ lost' = lost
  BY DEF RecordOutcome, vars
<1>2. job'[c].pc = "none" /\ job'[c].event = "none" /\ \A d \in Clients \ {c} : job'[d] = job[d]
  BY <1>1, JobFrame DEF NoJob
<1>3. t \in Tools /\ e \in {"none", "requested"} \cup Closed
  BY DEF GateTyped, Jobs, LedgerInv, Recording
<1> HIDE DEF t, e
<1>4. \A f \in {"allowed", "started", "completed", "failed"} : f \in Events /\ f # e
  BY <1>3 DEF Events, Closed
<1>5. \A u \in Tools : \A f \in {"allowed", "started", "completed", "failed"} :
        trail'[u][f] = trail[u][f]
  BY <1>1, <1>3, <1>4, Uncharged
<1>6. LostTyped' /\ \A u \in Tools : Ledger(u)'
  BY <1>1, <1>2, <1>5, Elsewhere DEF Broker
<1>7. Keeps(c)
  BY <1>1, <1>2 DEF Keeps, Broker
<1> QED
  BY <1>6, <1>7, KeepsApart DEF LedgerInv

LEMMA ApprovedKeepsLedger ==
  ASSUME TypeOK, GateTyped, LedgerInv, NEW c \in Clients, ExecuteApproved(c)
  PROVE  LedgerInv'
<1> DEFINE t == ToolOf[call[c].id]
           j == [NoJob EXCEPT !.pc = "evaluate", !.tool = t]
<1>1. /\ Execute(c) /\ Record(t, "approved") /\ SetJob(c, j)
      /\ ran' = ran /\ lost' = lost
  BY DEF ExecuteApproved
<1>2. j.pc = "evaluate" /\ j.event = "none"
  BY DEF NoJob
<1>3. t \in Tools
  <2>1. call[c] \in Calls
    BY DEF ExecuteApproved, Execute, TypeOK, Idle
  <2> QED
    BY <2>1, GateAssumption DEF Calls
<1>4. call[c] # Idle /\ \A d \in Clients \ {c} : call'[d] = call[d]
  BY <1>1, CallFrame DEF Continue
<1>5. call'[c] = Idle
  BY <1>1 DEF Execute, Step, TypeOK
<1> HIDE DEF t, j
<1>6. job'[c].pc = "evaluate" /\ job'[c].event = "none" /\ \A d \in Clients \ {c} : job'[d] = job[d]
  BY <1>1, <1>2, JobFrame
<1>7. \A u \in Tools : \A f \in {"allowed", "started", "completed", "failed"} :
        trail'[u][f] = trail[u][f]
  <2>1. \A f \in {"allowed", "started", "completed", "failed"} : f \in Events /\ f # "approved"
    BY DEF Events
  <2> QED
    BY <1>1, <1>3, <2>1, Uncharged
<1>8. job[c].pc \notin Broker
  BY <1>4 DEF LedgerInv, Apart
<1>9. LostTyped' /\ \A u \in Tools : Ledger(u)'
  BY <1>1, <1>6, <1>7, <1>8, Elsewhere DEF Broker
<1>10. Keeps(c)
  BY <1>4, <1>5, <1>6 DEF Keeps
<1> QED
  BY <1>9, <1>10, KeepsApart DEF LedgerInv

LEMMA AbortKeepsLedger ==
  ASSUME TypeOK, GateTyped, LedgerInv, NEW c \in Clients, AbortJob(c)
  PROVE  LedgerInv'
<1>1. /\ Abort(c) /\ SetJob(c, NoJob) /\ trail' = trail /\ ran' = ran /\ lost' = lost
  BY DEF AbortJob
<1>2. job'[c].pc = "none" /\ job'[c].event = "none" /\ \A d \in Clients \ {c} : job'[d] = job[d]
  BY <1>1, JobFrame DEF NoJob
<1>3. call[c] # Idle /\ \A d \in Clients \ {c} : call'[d] = call[d]
  BY <1>1, CallFrame
<1>4. job[c].pc \notin Broker
  BY <1>3 DEF LedgerInv, Apart
<1>5. LostTyped' /\ \A u \in Tools : Ledger(u)'
  BY <1>1, <1>2, <1>4, Elsewhere DEF Broker
<1>6. Keeps(c)
  BY <1>2, <1>3 DEF Keeps, Broker
<1> QED
  BY <1>5, <1>6, KeepsApart DEF LedgerInv

LEMMA BrokerKeepsLedger ==
  ASSUME TypeOK, GateTyped, LedgerInv, NEW c \in Clients, BrokerStep(c)
  PROVE  LedgerInv'
<1>1. /\ job[c].tool \in Tools
      /\ job'[c].pc \in {"none"} \cup Broker
      /\ job'[c].event \in {job[c].event, "none"}
      /\ \A d \in Clients \ {c} : job'[d] = job[d]
  BY BrokerMoves DEF BrokerStep
<1>2. LostTyped' /\ \A u \in Tools : Ledger(u)'
  BY <1>1, EvaluateKeepsLedger, EnforceKeepsLedger, RunNothingKeepsLedger, RunToolKeepsLedger,
     SandboxRaisesKeepsLedger, EndKeepsLedger DEF BrokerStep
<1>3. call' = call
  BY DEF BrokerStep, Evaluate, Enforce, RunNothing, RunTool, SandboxRaises, End, vars
<1>4. job[c].pc \in {"record", "evaluate"} \cup Broker
  BY DEF BrokerStep, Evaluate, Enforce, RunNothing, RunTool, SandboxRaises, End, Enter, Broker
<1>5. Keeps(c)
  BY <1>1, <1>3, <1>4 DEF Keeps, LedgerInv, Apart, Recording
<1> QED
  BY <1>2, <1>5, KeepsApart DEF LedgerInv

LEMMA LedgerInvariant == GateSpec => []LedgerInv
<1>1. GateInit => LedgerInv
  <2> SUFFICES ASSUME GateInit PROVE LedgerInv
    OBVIOUS
  <2>1. \A c \in Clients : job[c].pc = "none" /\ job[c].event = "none" /\ call[c] = Idle
    BY DEF GateInit, Init, NoJob
  <2>2. ASSUME NEW t \in Tools PROVE Ledger(t)
    <3>1. At(t, Broker) = {} /\ At(t, {"enforce"}) = {} /\ At(t, {"run"}) = {} /\ EndingWell(t) = {}
      BY <2>1 DEF At, EndingWell, Broker
    <3>2. /\ \A e \in {"allowed", "started", "completed", "failed"} : trail[t][e] = 0
          /\ ran[t] = 0 /\ lost[t] = 0
      BY DEF GateInit, Events
    <3> QED
      BY <3>1, <3>2, FS_EmptySet DEF Ledger
  <2> QED
    BY <2>1, <2>2 DEF GateInit, LedgerInv, LostTyped, Apart, Recording
<1>2. GateInv /\ LedgerInv /\ [GateNext]_allVars => LedgerInv'
  <2> SUFFICES ASSUME GateInv, LedgerInv, [GateNext]_allVars PROVE LedgerInv'
    OBVIOUS
  <2>1. TypeOK /\ GateTyped
    BY DEF GateInv
  <2>2. CASE UNCHANGED <<gateVars, call>>
    BY <2>2 DEF LedgerInv, gateVars, LostTyped, Apart, Recording, Ledger, At, EndingWell
  <2>3. ASSUME NEW a \in Expiring, Lapse(a), UNCHANGED gateVars PROVE UNCHANGED <<gateVars, call>>
    BY <2>3 DEF Lapse
  <2>4. ASSUME NEW c \in Clients, Beginning(c) \/ Proceed(c) \/ AbortJob(c) PROVE LedgerInv'
    BY <2>1, <2>4, BeginningKeepsLedger, ManagerKeepsLedger, RecordKeepsLedger,
       ApprovedKeepsLedger, AbortKeepsLedger, BrokerKeepsLedger, Zenon DEF Proceed, BrokerStep
  <2> QED
    BY <2>2, <2>3, <2>4, Zenon DEF GateNext, allVars, vars, Beginning
<1> QED
  BY <1>1, <1>2, GateInvariant, PTL DEF GateSpec

(***************************************************************************)
(* Recorded approvals are executed requests, each counted once; the rows   *)
(* bear them out as long as no decision is overwritten.                    *)
(***************************************************************************)
Executed(t) == {a \in Approvals : ToolOf[a] = t /\ executions[a] > 0}
Touched == {a \in Approvals : row[a] # "none"}

ApprovalsCounted ==
  /\ IsFiniteSet(Touched)
  /\ \A t \in Tools : trail[t]["approved"] = Cardinality(Executed(t))

LEMMA RowsTouched ==
  ASSUME TypeOK, [Next]_vars, IsFiniteSet(Touched)
  PROVE  IsFiniteSet(Touched')
<1>1. row' = row \/ \E c \in Clients : call[c].phase = "write"
                      /\ row' = [row EXCEPT ![call[c].id] = call[c].new]
  BY DEF Next, vars, Ask, Read, ReadPending, Continue, NextPending, DecideLapsed, Decide,
         DecideNothing, Save, Execute, Abort, Lapse, Write
<1>2. PICK a : \A b \in Approvals \ {a} : row'[b] = row[b]
  BY <1>1 DEF TypeOK
<1>3. Touched' \in SUBSET (Touched \cup {a})
  BY <1>2 DEF Touched
<1>4. IsFiniteSet(Touched \cup {a})
  BY FS_AddElement
<1> QED
  BY <1>3, <1>4, FS_Subset

\* Only the execution of an approved request counts as one, and records one.
LEMMA NothingApproved ==
  ASSUME GateInv, LedgerInv, [GateNext]_allVars, \A c \in Clients : ~ExecuteApproved(c)
  PROVE  /\ executions' = executions
         /\ \A t \in Tools : trail'[t]["approved"] = trail[t]["approved"]
<1>1. TypeOK /\ GateTyped /\ "approved" \in Events
  BY DEF GateInv, Events
<1>2. CASE UNCHANGED allVars
  BY <1>2 DEF allVars, vars, gateVars
<1>3. ASSUME NEW a \in Expiring, Lapse(a), UNCHANGED gateVars
      PROVE  UNCHANGED <<executions, trail>>
  BY <1>3 DEF Lapse, gateVars
<1>4. ASSUME NEW c \in Clients, Beginning(c) PROVE UNCHANGED <<executions, trail>>
  <2>1. trail' = trail
    BY <1>1, <1>4, BeginningShapes
  <2>2. executions' = executions
    BY <1>4 DEF Beginning, SubmitDirect, SubmitRejected, SubmitForApproval, CallManager,
                DecideThroughGate, Ask, vars
  <2> QED
    BY <2>1, <2>2
<1>5. ASSUME NEW c \in Clients, ManagerStep(c) PROVE UNCHANGED <<executions, trail>>
  BY <1>5 DEF ManagerStep, Read, ReadPending, NextPending, DecideLapsed, Decide, DecideNothing,
              Save, Write
<1>6. ASSUME NEW c \in Clients, AbortJob(c) PROVE UNCHANGED <<executions, trail>>
  BY <1>6 DEF AbortJob, Abort
<1>7. ASSUME NEW c \in Clients, RecordOutcome(c) \/ BrokerStep(c)
      PROVE  /\ executions' = executions
             /\ \A t \in Tools : trail'[t]["approved"] = trail[t]["approved"]
  <2>1. executions' = executions
    BY <1>7 DEF RecordOutcome, BrokerStep, Evaluate, Enforce, RunNothing, RunTool, SandboxRaises,
                End, vars
  <2>2. job[c].tool \in Tools /\ job[c].event # "approved"
    BY <1>1 DEF GateTyped, Jobs, LedgerInv, Recording, Closed
  <2>3. trail' = trail \/ \E e : e # "approved" /\ Record(job[c].tool, e)
    BY <1>7, <2>2 DEF RecordOutcome, BrokerStep, Evaluate, Enforce, RunNothing, RunTool,
                      SandboxRaises, End
  <2> QED
    BY <1>1, <2>1, <2>2, <2>3, Uncharged
<1> QED
  BY <1>2, <1>3, <1>4, <1>5, <1>6, <1>7, Zenon DEF GateNext, Beginning, Proceed, BrokerStep

LEMMA ExecutedOnce ==
  ASSUME GateInv, ApprovalsCounted, NoExecutionWithoutApproval, ExecutedAtMostOnce,
         NEW c \in Clients, ExecuteApproved(c)
  PROVE  \A t \in Tools : trail'[t]["approved"] = Cardinality(Executed(t)')
<1> DEFINE a == call[c].id
<1>1. /\ call[c].phase = "execute" /\ Record(ToolOf[a], "approved")
      /\ executions' = [executions EXCEPT ![a] = @ + 1]
  BY DEF ExecuteApproved, Execute
<1>2. a \in Approvals /\ ToolOf[a] \in Tools
  <2>1. call[c] \in Calls
    BY <1>1 DEF GateInv, TypeOK, Idle
  <2> QED
    BY <2>1, GateAssumption DEF Calls
<1>3. executions[a] = 0
  <2>1. c \in Executing(a)
    BY <1>1 DEF Executing
  <2> QED
    BY <1>2, <2>1 DEF ExecutedAtMostOnce
<1>4. executions \in [Approvals -> Nat] /\ GateTyped
  BY DEF GateInv, TypeOK
<1> HIDE DEF a
<1>5. \A b \in Approvals : executions'[b] = IF b = a THEN 1 ELSE executions[b]
  BY <1>1, <1>2, <1>3, <1>4
<1>6. \A t \in Tools : /\ trail[t]["approved"] \in Nat
                       /\ trail'[t]["approved"] =
                            IF t = ToolOf[a] THEN trail[t]["approved"] + 1 ELSE trail[t]["approved"]
  <2>1. "approved" \in Events
    BY DEF Events
  <2> QED
    BY <1>1, <1>2, <1>4, <2>1, Charged DEF GateTyped
<1>7. ASSUME NEW t \in Tools
      PROVE  trail'[t]["approved"] = Cardinality(Executed(t)')
  <2>1. trail[t]["approved"] = Cardinality(Executed(t))
    BY DEF ApprovalsCounted
  <2>2. CASE t # ToolOf[a]
    <3>1. Executed(t)' = Executed(t)
      BY <1>5, <2>2 DEF Executed
    <3> QED
      BY <1>6, <2>1, <2>2, <3>1
  <2>3. CASE t = ToolOf[a]
    <3>1. Executed(t)' = Executed(t) \cup {a} /\ a \notin Executed(t)
      BY <1>2, <1>3, <1>5, <2>3 DEF Executed
    <3>2. IsFiniteSet(Executed(t))
      <4>1. Executed(t) \in SUBSET Touched
        BY DEF Executed, Touched, NoExecutionWithoutApproval
      <4> QED
        BY <4>1, FS_Subset DEF ApprovalsCounted
    <3>3. Cardinality(Executed(t) \cup {a}) = Cardinality(Executed(t)) + 1
      BY <3>1, <3>2, FS_AddElement
    <3> QED
      BY <1>6, <2>1, <2>3, <3>1, <3>3
  <2> QED
    BY <2>2, <2>3
<1> QED
  BY <1>7

LEMMA ApprovalsCountedInvariant == OneManager => (GateSpec => []ApprovalsCounted)
<1> SUFFICES ASSUME OneManager PROVE GateSpec => []ApprovalsCounted
  OBVIOUS
<1>1. GateInit => ApprovalsCounted
  <2> SUFFICES ASSUME GateInit PROVE ApprovalsCounted
    OBVIOUS
  <2>1. Touched = {} /\ \A t \in Tools : Executed(t) = {} /\ trail[t]["approved"] = 0
    BY DEF GateInit, Init, Touched, Executed, Events
  <2> QED
    BY <2>1, FS_EmptySet DEF ApprovalsCounted
<1>2. GateInv /\ LedgerInv /\ NoExecutionWithoutApproval /\ ExecutedAtMostOnce
        /\ ApprovalsCounted /\ [GateNext]_allVars => ApprovalsCounted'
  <2> SUFFICES ASSUME GateInv, LedgerInv, NoExecutionWithoutApproval, ExecutedAtMostOnce,
                      ApprovalsCounted, [GateNext]_allVars
               PROVE  ApprovalsCounted'
    OBVIOUS
  <2>1. IsFiniteSet(Touched')
    BY GateStepIsManagerStep, RowsTouched DEF GateInv, ApprovalsCounted
  <2>2. CASE \A c \in Clients : ~ExecuteApproved(c)
    <3>1. executions' = executions /\ \A t \in Tools : trail'[t]["approved"] = trail[t]["approved"]
      BY <2>2, NothingApproved
    <3>2. \A t \in Tools : Executed(t)' = Executed(t)
      BY <3>1 DEF Executed
    <3> QED
      BY <2>1, <3>1, <3>2 DEF ApprovalsCounted
  <2>3. CASE \E c \in Clients : ExecuteApproved(c)
    BY <2>1, <2>3, ExecutedOnce DEF ApprovalsCounted
  <2> QED
    BY <2>2, <2>3
<1>3. GateSpec => []NoExecutionWithoutApproval /\ []ExecutedAtMostOnce
  BY GateKeepsDecisions
<1> QED
  BY <1>1, <1>2, <1>3, GateInvariant, LedgerInvariant, PTL DEF GateSpec

\* The audit trail adds up for every tool, with any number of callers that die,
\* sandboxes that raise and decisions past the gate: broker.execute and
\* approve_and_execute.  Only that no more approvals are recorded than the rows
\* bear out needs one manager.
THEOREM TrailStaysComplete == OneManager => (GateSpec => []TrailIsComplete)
<1> SUFFICES ASSUME OneManager PROVE GateSpec => []TrailIsComplete
  OBVIOUS
<1>1. GateInv /\ LedgerInv /\ NoExecutionWithoutApproval /\ ApprovalsCounted => TrailIsComplete
  <2> SUFFICES ASSUME GateInv, LedgerInv, NoExecutionWithoutApproval, ApprovalsCounted,
                      NEW t \in Tools
               PROVE  /\ trail[t]["allowed"] =
                           trail[t]["completed"] + trail[t]["failed"] + InBroker(t) + lost[t]
                      /\ ran[t] <= trail[t]["started"] /\ trail[t]["started"] <= trail[t]["allowed"]
                      /\ trail[t]["completed"] + lost[t] <= ran[t]
                      /\ trail[t]["approved"] <= Cardinality(Approved(t))
    BY DEF TrailIsComplete
  <2>1. /\ Ledger(t) /\ ran[t] \in Nat /\ lost[t] \in Nat
        /\ \A e \in {"allowed", "started", "completed", "failed", "approved"} : trail[t][e] \in Nat
    BY LedgerNumbers DEF GateInv, LedgerInv
  <2>2. /\ Cardinality(At(t, {"enforce"})) \in Nat /\ Cardinality(At(t, {"run"})) \in Nat
        /\ Cardinality(EndingWell(t)) \in Nat
    <3>1. /\ At(t, {"enforce"}) \in SUBSET Clients /\ At(t, {"run"}) \in SUBSET Clients
          /\ EndingWell(t) \in SUBSET Clients
      BY DEF At, EndingWell
    <3> QED
      BY <3>1, GateAssumption, FS_Subset, FS_CardinalityType
  <2>3. InBroker(t) = Cardinality(At(t, Broker))
    BY DEF InBroker, At, Broker
  <2>4. trail[t]["approved"] <= Cardinality(Approved(t))
    <3>1. Executed(t) \in SUBSET Approved(t) /\ Approved(t) \in SUBSET Touched
      BY DEF Executed, Approved, Touched, NoExecutionWithoutApproval
    <3>2. IsFiniteSet(Approved(t))
      BY <3>1, FS_Subset DEF ApprovalsCounted
    <3>3. Cardinality(Executed(t)) <= Cardinality(Approved(t))
      BY <3>1, <3>2, FS_Subset
    <3> QED
      BY <3>3 DEF ApprovalsCounted
  <2> QED
    BY <2>1, <2>2, <2>3, <2>4 DEF Ledger
<1>2. GateSpec => []NoExecutionWithoutApproval
  BY GateKeepsDecisions, PTL
<1> QED
  BY <1>1, <1>2, GateInvariant, LedgerInvariant, ApprovalsCountedInvariant, PTL

\* The gate, the broker and the audit trail keep their types.
THEOREM GateTypeCorrect == GateSpec => []GateTypeOK
<1>1. GateSpec => [](jobs \in 0 .. MaxJobs)
  <2>1. GateInit => jobs \in 0 .. MaxJobs
    BY GateAssumption DEF GateInit
  <2>2. jobs \in 0 .. MaxJobs /\ [GateNext]_allVars => (jobs \in 0 .. MaxJobs)'
    <3> SUFFICES ASSUME jobs \in 0 .. MaxJobs, [GateNext]_allVars PROVE jobs' \in 0 .. MaxJobs
      OBVIOUS
    <3>1. jobs' = jobs \/ Begin
      BY DEF GateNext, allVars, gateVars, SubmitDirect, SubmitRejected, SubmitForApproval,
             CallManager, DecideThroughGate, Proceed, ManagerStep, RecordOutcome,
             ExecuteApproved, Evaluate, Enforce, RunNothing, RunTool, SandboxRaises, End, AbortJob
    <3> QED
      BY <3>1, GateAssumption DEF Begin
  <2> QED
    BY <2>1, <2>2, PTL DEF GateSpec
<1>2. GateInv /\ LedgerInv /\ jobs \in 0 .. MaxJobs => GateTypeOK
  BY DEF GateInv, GateTyped, LedgerInv, LostTyped, GateTypeOK
<1> QED
  BY <1>1, <1>2, GateInvariant, LedgerInvariant, PTL
=============================================================================
