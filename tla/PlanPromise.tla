----------------------------- MODULE PlanPromise -----------------------------
(***************************************************************************)
(* What PlanExecutor.execute promises whoever hands it a plan: each step   *)
(* goes from waiting to one final standing, by way of its one tool call or *)
(* past it, no step before what it depends on; and what is returned        *)
(* accounts for every step.  No thread, no queue, no budget and no row     *)
(* appears here; PlanExecution is shown to implement this specification.   *)
(***************************************************************************)
CONSTANT Steps

VARIABLES deps,       \* the plan
          durable,    \* whether the state manager stores what it is told
          standing,   \* of each step
          called,     \* the steps whose tool has been called
          cancelled,  \* whether the task is
          outcome     \* what execute() returned, or "raised", or "none" as yet

given == <<deps, durable>>
vars == <<given, standing, called, cancelled, outcome>>

\* Every set of steps has one that depends on none of them.
Orders ==
  {d \in [Steps -> SUBSET Steps] :
     \A S \in SUBSET Steps : S # {} => \E s \in S : d[s] \cap S = {}}

Init ==
  /\ deps \in Orders /\ durable \in BOOLEAN
  /\ standing = [s \in Steps |-> "waiting"]
  /\ called = {} /\ cancelled = FALSE /\ outcome = "none"

\* A plan is handed over, or exchanged, only while none of its steps has moved.
Adopt ==
  /\ standing = [s \in Steps |-> "waiting"] /\ outcome = "none"
  /\ deps' \in Orders
  /\ UNCHANGED <<durable, standing, called, cancelled, outcome>>

Enabled(s) == \A d \in deps[s] : standing[d] = "passed"

Becomes(s, how) ==
  /\ outcome = "none"
  /\ standing' = [standing EXCEPT ![s] = how]
  /\ UNCHANGED <<given, called, cancelled, outcome>>

\* A cancellation that is stored stops the plan at once.
Begin(s) ==
  /\ standing[s] = "waiting" /\ Enabled(s)
  /\ ~(durable /\ cancelled)
  /\ Becomes(s, "working")

\* The budget is exhausted: the step fails without a call.
Deny(s) ==
  /\ standing[s] = "waiting" /\ Enabled(s)
  /\ Becomes(s, "failed")

Call(s) ==
  /\ standing[s] = "working" /\ s \notin called
  /\ outcome = "none"
  /\ called' = called \cup {s}
  /\ UNCHANGED <<given, standing, cancelled, outcome>>

\* The result of a call, for good or ill; nothing passes without one.
End(s) ==
  /\ standing[s] = "working" /\ s \in called
  /\ \E how \in {"passed", "failed"} : Becomes(s, how)

\* Steps may be skipped several at a time, when what they wait for will not
\* come or the task is cancelled.
Skip(B) ==
  /\ outcome = "none"
  /\ \A s \in B :
       /\ standing[s] = "waiting"
       /\ cancelled \/ \E d \in deps[s] : d \in B \/ standing[d] \in {"failed", "skipped"}
  /\ standing' = [s \in Steps |-> IF s \in B THEN "skipped" ELSE standing[s]]
  /\ UNCHANGED <<given, called, cancelled, outcome>>

Cancel ==
  /\ ~cancelled /\ cancelled' = TRUE
  /\ UNCHANGED <<given, standing, called, outcome>>

\* No step is left behind, and the outcome is what became of the steps.
Return ==
  /\ outcome = "none"
  /\ \A s \in Steps : standing[s] \in {"passed", "failed", "skipped"}
  /\ \/ cancelled /\ outcome' = "cancelled"
     \/ (\E s \in Steps : standing[s] = "failed") /\ outcome' = "failed"
     \/ (\A s \in Steps : standing[s] = "passed") /\ outcome' = "completed"
  /\ UNCHANGED <<given, standing, called, cancelled>>

\* An exception leaves execute(), when every tool that was started has been
\* called: none is called behind the caller's back.
Raise ==
  /\ outcome = "none"
  /\ \A s \in Steps : standing[s] = "working" => s \in called
  /\ outcome' = "raised"
  /\ UNCHANGED <<given, standing, called, cancelled>>

Next ==
  \/ Adopt \/ Cancel \/ Return \/ Raise
  \/ \E s \in Steps : Begin(s) \/ Deny(s) \/ Call(s) \/ End(s)
  \/ \E B \in SUBSET Steps : Skip(B)

Spec == Init /\ [][Next]_vars
=============================================================================
