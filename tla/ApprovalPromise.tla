--------------------------- MODULE ApprovalPromise ---------------------------
(***************************************************************************)
(* What one ApprovalManager and its gate promise: a request is entered     *)
(* once and decided once, each at one instant, and an approval through     *)
(* approve_and_execute is worth at most one execution.  No caller, no lock *)
(* and no copy of a row appears here; Approvals with one manager is shown  *)
(* to implement this specification.                                        *)
(***************************************************************************)
EXTENDS Naturals

CONSTANT Approvals

VARIABLES row,          \* approval id -> status, "none" if there is no row
          granted,      \* ids approved for an execution that is still to come
          executions    \* approval id -> executions so far

vars == <<row, granted, executions>>

Init ==
  /\ row = [a \in Approvals |-> "none"]
  /\ granted = {}
  /\ executions = [a \in Approvals |-> 0]

Becomes(a, status) == row' = [row EXCEPT ![a] = status] /\ UNCHANGED executions

Enter(a) ==
  /\ row[a] = "none" /\ Becomes(a, "pending")
  /\ UNCHANGED granted

Decide(a) ==
  /\ row[a] = "pending"
  /\ \E status \in {"approved", "rejected", "expired", "cancelled"} : Becomes(a, status)
  /\ UNCHANGED granted

\* One instant for the decision and the right to execute.
Grant(a) ==
  /\ row[a] = "pending" /\ Becomes(a, "approved")
  /\ granted' = granted \cup {a}

Execute(a) ==
  /\ a \in granted
  /\ granted' = granted \ {a}
  /\ executions' = [executions EXCEPT ![a] = @ + 1]
  /\ UNCHANGED row

\* Whoever was to execute dies: nobody else may.
Forfeit(a) ==
  /\ a \in granted
  /\ granted' = granted \ {a}
  /\ UNCHANGED <<row, executions>>

Next == \E a \in Approvals : Enter(a) \/ Decide(a) \/ Grant(a) \/ Execute(a) \/ Forfeit(a)

Spec == Init /\ [][Next]_vars
=============================================================================
