----------------------------- MODULE ExecutionGate -----------------------------
(***************************************************************************)
(* Execution of tools: ApprovalExecutionGate over the approval manager and *)
(* the ExecutionBroker, which asks the governance policy and the execution *)
(* policy, runs the tool and writes the audit trail.  The gate and the     *)
(* broker hold no lock; API handlers decide requests past the gate.        *)
(*                                                                         *)
(* Abstracted: arguments, to whether the sandbox gets valid ones; audit    *)
(* events, to their number per tool and type.                              *)
(***************************************************************************)
EXTENDS Approvals

CONSTANTS Tools,              \* tool names a caller may ask for
          Registry,           \* registered tool -> its ToolSpec
          Handlers,           \* tools with a registered handler
          Sandbox,            \* the name CodeSandbox
          ToolOf,             \* approval id -> the tool it is about
          Governance, Enforced, ApprovalPolicy,   \* the three policies
          MaxJobs             \* bound on submissions and decisions through the gate

ASSUME GateAssumption ==
  /\ DOMAIN Registry \subseteq Tools
  /\ Sandbox \in Tools
  /\ IsFiniteSet(Clients)
  /\ ToolOf \in [Approvals -> DOMAIN Registry]
  /\ MaxJobs \in Nat

VARIABLES job,    \* client -> what it is doing in the gate or the broker
          trail,  \* tool -> audit event type -> number of events
          ran,    \* history: tool -> times its handler or the sandbox was entered
          lost,   \* history: tool -> broker calls that ended with an exception
          jobs    \* jobs begun

gateVars == <<job, trail, ran, lost, jobs>>
allVars == <<vars, gateVars>>

Closed == {"rejected", "cancelled", "expired"}
Events ==
  {"allowed", "denied", "started", "completed", "failed", "requested", "approved"} \cup Closed

NoJob == [pc |-> "none", tool |-> Sandbox, args |-> FALSE, ok |-> FALSE, event |-> "none"]

\* "manager": the manager has been called; "record": it has succeeded and the
\* event is still to be recorded.  The rest is broker.execute.
Jobs ==
  [pc : {"none", "manager", "record", "evaluate", "enforce", "run", "end"},
   tool : Tools, args : BOOLEAN, ok : BOOLEAN, event : Events \cup {"none"}]

GateTypeOK ==
  /\ TypeOK
  /\ job \in [Clients -> Jobs]
  /\ trail \in [Tools -> [Events -> Nat]]
  /\ ran \in [Tools -> Nat]
  /\ lost \in [Tools -> Nat]
  /\ jobs \in 0 .. MaxJobs

GateInit ==
  /\ Init
  /\ job = [c \in Clients |-> NoJob]
  /\ trail = [t \in Tools |-> [e \in Events |-> 0]]
  /\ ran = [t \in Tools |-> 0]
  /\ lost = [t \in Tools |-> 0]
  /\ jobs = 0

-----------------------------------------------------------------------------
Rank == [low |-> 0, medium |-> 1, high |-> 2, critical |-> 3]

\* PolicyEngine.evaluate.  An empty set of allowed things allows everything.
Permits(policy, t, spec) ==
  /\ policy.enabled /\ spec.enabled
  /\ t \notin policy.denied
  /\ policy.tools = {} \/ t \in policy.tools
  /\ policy.methods = {} \/ spec.method \in policy.methods
  /\ policy.permissions = {} \/ spec.permissions \subseteq policy.permissions
  /\ spec.risk \in DOMAIN Rank /\ Rank[spec.risk] <= Rank[policy.maxRisk]
  /\ spec.timeout \in 1 .. policy.maxTimeout
  /\ policy.approvalFrom # "none" => Rank[spec.risk] < Rank[policy.approvalFrom]

\* ExecutionPolicyEnforcer.validate returns no error.
Enforces(policy, spec) ==
  /\ spec.enabled
  /\ spec.method \in policy.methods
  /\ spec.risk \in DOMAIN Rank /\ Rank[spec.risk] <= Rank[policy.maxRisk]
  /\ spec.permissions \subseteq policy.permissions
  /\ spec.timeout \in 1 .. policy.maxTimeout

\* ApprovalPolicyEngine.evaluate.  A ToolSpec has neither an action nor an
\* external side effect: the action is the name of the tool.
Approves(policy, t, spec) ==
  /\ policy.enabled
  /\ \/ policy.always
     \/ spec.risk \in policy.risks
     \/ spec.permissions \cap policy.sensitive # {}
     \/ t \in policy.destructive

\* What each policy says of the registered tools.
Permitted == {t \in DOMAIN Registry : Permits(Governance, t, Registry[t])}
Runnable == {t \in Permitted : Enforces(Enforced, Registry[t])}
Sensitive == {t \in Permitted : Approves(ApprovalPolicy, t, Registry[t])}

-----------------------------------------------------------------------------
Record(t, e) == trail' = [trail EXCEPT ![t][e] = @ + 1]
SetJob(c, j) == job' = [job EXCEPT ![c] = j]
Goto(c, pc) == SetJob(c, [job[c] EXCEPT !.pc = pc])
Begin == jobs < MaxJobs /\ jobs' = jobs + 1
Free(c) == call[c] = Idle /\ job[c] = NoJob

\* gate.submit of a tool that needs no approval goes on to the broker, also for
\* a tool the registry does not know.  Only the sandbox's arguments matter.
SubmitDirect(c, t, args) ==
  /\ Free(c) /\ t \in Permitted \cup (Tools \ DOMAIN Registry) /\ t \notin Sensitive
  /\ args => t = Sandbox
  /\ Begin
  /\ SetJob(c, [NoJob EXCEPT !.pc = "evaluate", !.tool = t, !.args = args])
  /\ UNCHANGED <<vars, trail, ran, lost>>

\* Governance forbids it: "rejected", without an event.
SubmitRejected(c, t) ==
  /\ Free(c) /\ t \in DOMAIN Registry \ Permitted
  /\ Begin
  /\ UNCHANGED <<vars, job, trail, ran, lost>>

\* It needs approval: a request is created.
SubmitForApproval(c, a) ==
  /\ Free(c) /\ ToolOf[a] \in Sensitive
  /\ Begin
  /\ Ask(c, "create", a)
  /\ SetJob(c, [NoJob EXCEPT !.pc = "manager", !.tool = ToolOf[a], !.event = "requested"])
  /\ UNCHANGED <<trail, ran, lost>>

\* reject, cancel and expire of the gate.
DecideThroughGate(c, op, a) ==
  /\ Free(c) /\ op \in {"reject", "cancel", "expire"}
  /\ Begin
  /\ Ask(c, op, a)
  /\ SetJob(c, [NoJob EXCEPT !.pc = "manager", !.tool = ToolOf[a], !.event = Target(op)])
  /\ UNCHANGED <<trail, ran, lost>>

\* The API calls the manager itself, and approve_and_execute begins with it.
CallManager(c, a) ==
  /\ Free(c)
  /\ \E op \in Operations \ {"create"} : Ask(c, op, a)
  /\ UNCHANGED gateVars

\* The manager has done what it was asked, or expire() finds it done already.
Succeeds(r) ==
  \/ r.phase = "write" /\ r.new = Target(r.op)
  \/ r.phase = "read" /\ r.op = "expire" /\ r.seen = "expired"

\* A step of the manager.  A gate call goes on when the manager's has succeeded,
\* and fails with any other end of it.
ManagerStep(c) ==
  /\ \/ Read(c) \/ ReadPending(c)
     \/ NextPending(c) \/ DecideLapsed(c) \/ Decide(c) \/ DecideNothing(c) \/ Save(c)
  /\ IF job[c] = NoJob \/ call'[c] # Idle THEN UNCHANGED job
     ELSE IF Succeeds(call[c]) THEN Goto(c, "record")
     ELSE SetJob(c, NoJob)
  /\ UNCHANGED <<trail, ran, lost, jobs>>

RecordOutcome(c) ==
  /\ job[c].pc = "record"
  /\ Record(job[c].tool, job[c].event) /\ SetJob(c, NoJob)
  /\ UNCHANGED <<vars, ran, lost, jobs>>

\* Mutant: the approval is not recorded.
ExecuteUnrecorded(c) ==
  /\ Execute(c)
  /\ SetJob(c, [NoJob EXCEPT !.pc = "evaluate", !.tool = ToolOf[call[c].id]])
  /\ UNCHANGED <<trail, ran, lost, jobs>>

\* The gate has its approval, records it and calls the broker, with the tool of
\* the request and without the arguments it was submitted with.
ExecuteApproved(c) ==
  /\ Execute(c)
  /\ Record(ToolOf[call[c].id], "approved")
  /\ SetJob(c, [NoJob EXCEPT !.pc = "evaluate", !.tool = ToolOf[call[c].id]])
  /\ UNCHANGED <<ran, lost, jobs>>

-----------------------------------------------------------------------------
\* broker.execute.
Evaluate(c) ==
  /\ job[c].pc = "evaluate"
  /\ \/ job[c].tool \in Permitted /\ Record(job[c].tool, "allowed") /\ Goto(c, "enforce")
     \/ job[c].tool \notin Permitted /\ Record(job[c].tool, "denied") /\ SetJob(c, NoJob)
  /\ UNCHANGED <<vars, ran, lost, jobs>>

\* Mutant: the second policy is only asked about tools of the first kind.
EnforceNothing(c) ==
  /\ job[c].pc = "enforce"
  /\ Record(job[c].tool, "started") /\ Goto(c, "run")
  /\ UNCHANGED <<vars, ran, lost, jobs>>

\* What the execution policy forbids fails without having started.
Enforce(c) ==
  /\ job[c].pc = "enforce"
  /\ \/ job[c].tool \in Runnable /\ Record(job[c].tool, "started") /\ Goto(c, "run")
     \/ job[c].tool \notin Runnable /\ Record(job[c].tool, "failed") /\ SetJob(c, NoJob)
  /\ UNCHANGED <<vars, ran, lost, jobs>>

\* A tool without a handler, and sandbox arguments that are not valid, among
\* them the empty ones of an approved request: a failed result, nothing is run.
RunNothing(c) ==
  /\ job[c].pc = "run"
  /\ job[c].tool \notin Handlers
  /\ job[c].tool = Sandbox => ~job[c].args
  /\ SetJob(c, [job[c] EXCEPT !.pc = "end", !.ok = FALSE])
  /\ UNCHANGED <<vars, trail, ran, lost, jobs>>

Enter(c) == job[c].pc = "run" /\ ran' = [ran EXCEPT ![job[c].tool] = @ + 1]

\* A handler's exception is a failed result.
RunTool(c) ==
  /\ job[c].tool \in Handlers \/ (job[c].tool = Sandbox /\ job[c].args)
  /\ Enter(c)
  /\ \E ok \in BOOLEAN : SetJob(c, [job[c] EXCEPT !.pc = "end", !.ok = ok])
  /\ UNCHANGED <<vars, trail, lost, jobs>>

\* The sandbox is called outside a try: the broker's caller gets its exception.
SandboxRaises(c) ==
  /\ job[c].tool = Sandbox /\ job[c].args
  /\ Enter(c)
  /\ lost' = [lost EXCEPT ![Sandbox] = @ + 1]
  /\ SetJob(c, NoJob)
  /\ UNCHANGED <<vars, trail, jobs>>

\* Mutant: only a success is recorded.
EndQuietly(c) ==
  /\ job[c].pc = "end"
  /\ IF job[c].ok THEN Record(job[c].tool, "completed") ELSE UNCHANGED trail
  /\ SetJob(c, NoJob)
  /\ UNCHANGED <<vars, ran, lost, jobs>>

End(c) ==
  /\ job[c].pc = "end"
  /\ Record(job[c].tool, IF job[c].ok THEN "completed" ELSE "failed")
  /\ SetJob(c, NoJob)
  /\ UNCHANGED <<vars, ran, lost, jobs>>

\* The caller dies in the manager or in the gate; in the broker only a sandbox
\* can raise.
AbortJob(c) ==
  /\ Abort(c) /\ SetJob(c, NoJob)
  /\ UNCHANGED <<trail, ran, lost, jobs>>

Proceed(c) ==
  \/ ManagerStep(c) \/ RecordOutcome(c) \/ ExecuteApproved(c)
  \/ Evaluate(c) \/ Enforce(c) \/ RunNothing(c) \/ RunTool(c) \/ SandboxRaises(c) \/ End(c)

GateNext ==
  \/ \E c \in Clients :
       \/ \E t \in Tools :
            \/ \E args \in BOOLEAN : SubmitDirect(c, t, args)
            \/ SubmitRejected(c, t)
       \/ \E a \in Approvals :
            \/ SubmitForApproval(c, a) \/ CallManager(c, a)
            \/ \E op \in Transitions : DecideThroughGate(c, op, a)
       \/ Proceed(c) \/ AbortJob(c)
  \/ \E a \in Expiring : Lapse(a) /\ UNCHANGED gateVars

GateSpec == GateInit /\ [][GateNext]_allVars

\* A call that is under way is not suspended for ever.
FairGateSpec == GateSpec /\ \A c \in Clients : WF_<<call, job>>(Proceed(c))

-----------------------------------------------------------------------------
InBroker(t) == Cardinality({c \in Clients : job[c].tool = t /\ job[c].pc \in {"enforce", "run", "end"}})
Approved(t) == {a \in Approvals : ToolOf[a] = t /\ row[a] = "approved"}

\* The audit trail tells of every tool how often it was allowed, begun and
\* ended: each permission ends in one completion or failure, but for the calls
\* under way and those a sandbox's exception cut short, no tool is entered
\* without a start, and no approval is recorded that no row bears out.
TrailIsComplete ==
  \A t \in Tools :
    /\ trail[t]["allowed"] = trail[t]["completed"] + trail[t]["failed"] + InBroker(t) + lost[t]
    /\ ran[t] <= trail[t]["started"] /\ trail[t]["started"] <= trail[t]["allowed"]
    /\ trail[t]["completed"] + lost[t] <= ran[t]
    /\ trail[t]["approved"] <= Cardinality(Approved(t))

\* Nothing runs that one of the two policies forbids, whoever approved it, and a
\* tool that needs approval runs at most once per recorded approval, however
\* submissions, decisions past the gate, expiry and executions overlap.
SensitiveRunsAreApproved ==
  \A t \in Tools :
    /\ ran[t] > 0 => t \in Runnable
    /\ t \in Sensitive => ran[t] <= trail[t]["approved"]

Waits(c) == call[c].phase = "wait"
LockFree(c) == lock[Manager[c]] = Nobody

\* Every call ends, whatever is decided, listed or expires under it and whoever
\* dies, the wait for the manager's lock included; unless others take the lock and
\* give it back again and again: no call keeps it, none takes it into its grave.
CallersFinish ==
  \A c \in Clients :
    \/ []<>Free(c)
    \/ <>[]Waits(c) /\ []<>LockFree(c) /\ []<>~LockFree(c)
=============================================================================
