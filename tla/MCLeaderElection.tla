--------------------------- MODULE MCLeaderElection ---------------------------
EXTENDS LeaderElection
CONSTANTS p1, p2, p3, h1
OneHost == [p \in Proc |-> h1]
==============================================================================
