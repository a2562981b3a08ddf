----------------------------- MODULE MCApprovals -----------------------------
EXTENDS Approvals, TLC

CONSTANTS m1, m2

\* Everybody on one manager, and the API and the gate each on one of its own.
OneManager == [c \in Clients |-> m1]
api == CHOOSE c \in Clients : TRUE
TwoManagers == [c \in Clients |-> IF c = api THEN m1 ELSE m2]
=============================================================================
