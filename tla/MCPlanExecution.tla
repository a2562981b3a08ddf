--------------------------- MODULE MCPlanExecution ---------------------------
EXTENDS PlanExecution

\* Every acyclic dependency relation over the steps.
AllPlans == {d \in [Steps -> SUBSET Steps] : Acyclic(d)}
=============================================================================
