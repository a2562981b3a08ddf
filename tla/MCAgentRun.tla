----------------------------- MODULE MCAgentRun -----------------------------
EXTENDS AgentRun

\* Every acyclic dependency relation over the steps.
AllPlans == {d \in [Steps -> SUBSET Steps] : Acyclic(d)}
=============================================================================
