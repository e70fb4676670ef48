----------------------------- MODULE SingleLeader -----------------------------
(***************************************************************************)
(* What leader election is for: one background loop runs in at most one    *)
(* process of the deployment, and it moves from one process to another     *)
(* only through a moment in which nobody runs it.                          *)
(***************************************************************************)
CONSTANT Proc

VARIABLE leaders   \* the processes in which the loop is running

Init == leaders = {}

Elect(p) ==
  /\ leaders = {}
  /\ leaders' = {p}

StepDown(p) ==
  /\ leaders = {p}
  /\ leaders' = {}

Next == \E p \in Proc : Elect(p) \/ StepDown(p)

Spec == Init /\ [][Next]_leaders

==============================================================================
