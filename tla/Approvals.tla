------------------------------ MODULE Approvals ------------------------------
(***************************************************************************)
(* Human approval: ApprovalManager over ApprovalStore, and the             *)
(* ApprovalExecutionGate that runs a tool once its request is approved.    *)
(* A manager serialises its callers with a lock of its own; the store      *)
(* upserts the status without comparing it with anything.  Managers of     *)
(* one database know nothing of each other.                                *)
(*                                                                         *)
(* Abstracted: all of a request but its status and whether its expires_at  *)
(* has passed; the broker's own decision; audit events.                    *)
(***************************************************************************)
EXTENDS Integers, FiniteSets

CONSTANTS Approvals,     \* approval ids
          Expiring,      \* those created with an expires_at
          Clients,       \* request threads and gate callers
          Managers,      \* ApprovalManager instances on the one database
          Manager,       \* the instance each client calls
          Nobody

ASSUME ManagerAssumption == Manager \in [Clients -> Managers]
ASSUME ExpiringAssumption == Expiring \subseteq Approvals
ASSUME NobodyAssumption == Nobody \notin Clients

VARIABLES row,          \* approval id -> status, "none" if there is no row
          lapsed,       \* ids whose expires_at is over
          lock,         \* manager -> holder
          call,         \* client -> call in progress
          executions    \* approval id -> broker.execute calls made for it

vars == <<row, lapsed, lock, call, executions>>

Decided == {"approved", "rejected", "expired", "cancelled"}
Statuses == {"none", "pending"} \cup Decided

Transitions == {"approve", "approve_and_execute", "reject", "cancel", "expire"}
Operations == {"create", "get", "list"} \cup Transitions

Idle == [phase |-> "idle"]

\* "wait": for the manager's lock; "read": the row has been read; "write": a new status is about to be saved;
\* "next": a list_pending goes on to the next row; "execute": the gate has its
\* approval and calls the broker.  ids: what a list_pending has left.
Calls ==
  [phase : {"wait", "read", "write", "next", "execute"}, op : Operations, id : Approvals,
   seen : Statuses, new : Statuses, ids : SUBSET Approvals]

TypeOK ==
  /\ row \in [Approvals -> Statuses]
  /\ lapsed \subseteq Expiring
  /\ lock \in [Managers -> Clients \cup {Nobody}]
  /\ call \in [Clients -> {Idle} \cup Calls]
  /\ executions \in [Approvals -> Nat]

Init ==
  /\ row = [a \in Approvals |-> "none"]
  /\ lapsed = {}
  /\ lock = [m \in Managers |-> Nobody]
  /\ call = [c \in Clients |-> Idle]
  /\ executions = [a \in Approvals |-> 0]

-----------------------------------------------------------------------------
Acquire(c) ==
  /\ call[c].phase = "wait"
  /\ lock[Manager[c]] = Nobody
  /\ lock' = [lock EXCEPT ![Manager[c]] = c]

Release(c) == lock' = [lock EXCEPT ![Manager[c]] = Nobody]

Step(c, r) == call' = [call EXCEPT ![c] = r]

\* End of a call, with a result or an exception.
Return(c) == Step(c, Idle) /\ Release(c)

ReturnOrNext(c) ==
  \/ /\ call[c].op = "list"
     /\ Step(c, [call[c] EXCEPT !.phase = "next"])
     /\ UNCHANGED lock
  \/ call[c].op # "list" /\ Return(c)

Pending == {a \in Approvals : row[a] = "pending"}

\* The id of a new request is a fresh uuid4: no two callers create it.
Fresh(a) ==
  row[a] = "none" /\ \A c \in Clients : call[c] # Idle /\ call[c].id = a => call[c].op # "create"

\* The id in the record of a list_pending that waits means nothing.
Whichever == CHOOSE a \in Approvals : TRUE

\* A call of the manager, which takes the lock first.
Ask(c, op, a) ==
  /\ call[c] = Idle
  /\ op = "create" => Fresh(a)
  /\ op = "list" => a = Whichever
  /\ Step(c, [phase |-> "wait", op |-> op, id |-> a, seen |-> "none", new |-> "none",
              ids |-> {}])
  /\ UNCHANGED <<row, lapsed, lock, executions>>

Read(c) ==
  /\ Acquire(c) /\ call[c].op # "list"
  /\ Step(c, [call[c] EXCEPT !.phase = "read", !.seen = row[call[c].id],
                             !.new = row[call[c].id]])
  /\ UNCHANGED <<row, lapsed, executions>>

\* list_pending: one query, then the rows of its answer one after the other.
ReadPending(c) ==
  /\ Acquire(c) /\ call[c].op = "list"
  /\ Step(c, [call[c] EXCEPT !.phase = "next", !.seen = "pending", !.new = "pending",
                             !.ids = Pending])
  /\ UNCHANGED <<row, lapsed, executions>>

\* Mutant: the loop never drops the row it has dealt with.
NextPendingAgain(c) ==
  /\ call[c].phase = "next"
  /\ \/ /\ call[c].ids = {}
        /\ Return(c)
     \/ \E a \in call[c].ids :
          /\ Step(c, [call[c] EXCEPT !.phase = "read", !.id = a])
          /\ UNCHANGED lock
  /\ UNCHANGED <<row, lapsed, executions>>

NextPending(c) ==
  /\ call[c].phase = "next"
  /\ \/ /\ call[c].ids = {}
        /\ Return(c)
     \/ \E a \in call[c].ids :
          /\ Step(c, [call[c] EXCEPT !.phase = "read", !.id = a, !.ids = call[c].ids \ {a}])
          /\ UNCHANGED lock
  /\ UNCHANGED <<row, lapsed, executions>>

\* Mutant: the expiry is noticed of a request that has been decided, too.
LapsedEvenIfDecided(r) == r.seen # "none" /\ r.id \in lapsed

\* _expire_if_needed on the copy that was read.
Lapsed(r) == r.seen = "pending" /\ r.id \in lapsed

\* The status an operation saves.
Target(op) ==
  CASE op = "create" -> "pending"
    [] op \in {"approve", "approve_and_execute"} -> "approved"
    [] op = "reject" -> "rejected"
    [] op = "cancel" -> "cancelled"
    [] OTHER -> "expired"

\* Mutant: only requests that were approved already are refused.
RefusedIfApproved(r) ==
  \/ r.op = "create" /\ r.seen # "none"
  \/ r.op \in {"get", "list"}
  \/ r.op \in Transitions /\ r.seen \in {"none", "approved"}

\* Mutant: a repeated approval is taken for a success.
RefusedUnlessApprovable(r) ==
  \/ r.op = "create" /\ r.seen # "none"
  \/ r.op \in {"get", "list"}
  \/ r.op \in Transitions /\ r.seen \notin {"pending", "approved"}

\* Whether the manager raises, or returns, without saving.
Refused(r) ==
  \/ r.op = "create" /\ r.seen # "none"
  \/ r.op \in {"get", "list"}
  \/ r.op \in Transitions /\ r.seen # "pending"

Write(c, status) ==
  /\ Step(c, [call[c] EXCEPT !.phase = "write", !.new = status])
  /\ UNCHANGED <<row, lapsed, lock, executions>>

DecideLapsed(c) ==
  /\ call[c].phase = "read"
  /\ call[c].op # "expire" /\ Lapsed(call[c])
  /\ Write(c, "expired")

Decide(c) ==
  /\ call[c].phase = "read"
  /\ call[c].op = "expire" \/ ~Lapsed(call[c])
  /\ ~Refused(call[c])
  /\ Write(c, Target(call[c].op))

DecideNothing(c) ==
  /\ call[c].phase = "read"
  /\ call[c].op = "expire" \/ ~Lapsed(call[c])
  /\ Refused(call[c])
  /\ ReturnOrNext(c)
  /\ UNCHANGED <<row, lapsed, executions>>

\* Mutant: the gate calls the broker whatever became of the request.
SaveAndExecute(c) ==
  /\ call[c].phase = "write"
  /\ row' = [row EXCEPT ![call[c].id] = call[c].new]
  /\ \/ /\ call[c].op = "approve_and_execute"
        /\ Step(c, [call[c] EXCEPT !.phase = "execute"])
        /\ Release(c)
     \/ call[c].op # "approve_and_execute" /\ ReturnOrNext(c)
  /\ UNCHANGED <<lapsed, executions>>

Granted(r) == r.op = "approve_and_execute" /\ r.new = "approved"

\* store.save; the gate goes on with the approved request, outside the lock.
Save(c) ==
  /\ call[c].phase = "write"
  /\ row' = [row EXCEPT ![call[c].id] = call[c].new]
  /\ \/ /\ Granted(call[c])
        /\ Step(c, [call[c] EXCEPT !.phase = "execute"])
        /\ Release(c)
     \/ ~Granted(call[c]) /\ ReturnOrNext(c)
  /\ UNCHANGED <<lapsed, executions>>

Execute(c) ==
  /\ call[c].phase = "execute"
  /\ executions' = [executions EXCEPT ![call[c].id] = @ + 1]
  /\ Step(c, Idle)
  /\ UNCHANGED <<row, lapsed, lock>>

\* An exception of the store, or the death of the caller.
Abort(c) ==
  /\ call[c] # Idle
  /\ Step(c, Idle)
  /\ IF call[c].phase \in {"wait", "execute"} THEN UNCHANGED lock ELSE Release(c)
  /\ UNCHANGED <<row, lapsed, executions>>

\* The clock passes expires_at (an expires_at before created_at is ignored).
Lapse(a) ==
  /\ a \in Expiring \ lapsed /\ row[a] # "none"
  /\ lapsed' = lapsed \cup {a}
  /\ UNCHANGED <<row, lock, call, executions>>

Continue(c) ==
  \/ Read(c) \/ ReadPending(c)
  \/ NextPending(c) \/ DecideLapsed(c) \/ Decide(c) \/ DecideNothing(c)
  \/ Save(c) \/ Execute(c)

Next ==
  \/ \E c \in Clients, a \in Approvals, op \in Operations : Ask(c, op, a)
  \/ \E c \in Clients : Continue(c) \/ Abort(c)
  \/ \E a \in Expiring : Lapse(a)

Spec == Init /\ [][Next]_vars

-----------------------------------------------------------------------------
(***************************************************************************)
(* Properties.  They hold when one manager serves everybody.               *)
(***************************************************************************)

\* A request is decided once: whatever calls overlap, and whoever notices its
\* expiry first, an approval, rejection, cancellation or expiry stays.
DecisionIsFinal ==
  [][\A a \in Approvals : row[a] \in Decided => row'[a] = row[a]]_vars

\* The gate calls the broker for a request only while the row says approved,
\* from the return of approve() to the end of the execution and ever after.
NoExecutionWithoutApproval ==
  /\ \A a \in Approvals : executions[a] > 0 => row[a] = "approved"
  /\ \A c \in Clients : call[c].phase = "execute" => row[call[c].id] = "approved"

Executing(a) == {c \in Clients : call[c].phase = "execute" /\ call[c].id = a}

\* Several callers of approve_and_execute run the tool once between them, also
\* when one of them dies between the approval and the execution.
ExecutedAtMostOnce ==
  \A a \in Approvals :
    /\ executions[a] <= 1
    /\ \A c \in Executing(a) : executions[a] = 0 /\ Executing(a) = {c}

Promise == INSTANCE ApprovalPromise WITH
  granted <- {a \in Approvals : Executing(a) # {}}

\* The manager's calls, each a read and a write under its lock, and the gate's
\* execution outside it are, to whoever looks at the requests, single steps: a
\* request is decided at the moment it is granted, and a grant is used up by
\* the one execution or by the death of its caller.
KeepsGrants == Promise!Spec

-----------------------------------------------------------------------------
(***************************************************************************)
(* The inductive invariant behind them.                                    *)
(***************************************************************************)

InLock(c) == call[c].phase \in {"read", "write", "next"}

HoldersHold == \A c \in Clients : InLock(c) => lock[Manager[c]] = c

\* Under the lock the copy is the row, and what list_pending has left is
\* still pending.
CopiesAreFresh ==
  \A c \in Clients :
    /\ call[c].phase \in {"read", "write"} => call[c].seen = row[call[c].id]
    /\ InLock(c) => \A a \in call[c].ids : row[a] = "pending"
    /\ call[c].phase \in {"read", "write"} => call[c].id \notin call[c].ids
    /\ InLock(c) /\ (call[c].op = "list" \/ call[c].phase = "next") => call[c].seen = "pending"
    /\ call[c].phase = "wait" => call[c].ids = {}

WritesAreLegal ==
  \A c \in Clients : call[c].phase = "write" =>
    \/ call[c].seen = "pending" /\ call[c].new \in Decided
    \/ call[c].seen = "none" /\ call[c].new = "pending"

IInv ==
  /\ TypeOK /\ HoldersHold /\ CopiesAreFresh /\ WritesAreLegal
  /\ NoExecutionWithoutApproval /\ ExecutedAtMostOnce
=============================================================================
