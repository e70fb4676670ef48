------------------------------- MODULE JobQueue -------------------------------
(***************************************************************************)
(* What the durable notification queue is for: a job that was accepted is  *)
(* settled once and for all, as done only when every recipient it is for   *)
(* has an outcome on record.                                               *)
(***************************************************************************)
CONSTANTS Job, Target,
          Recipients      \* the targets each job is for

VARIABLES
  state,     \* "absent", "pending", "done" or "failed"
  covered    \* the targets with an outcome on record

Init ==
  /\ state = [j \in Job |-> "absent"]
  /\ covered = [j \in Job |-> {}]

Accept(j) ==
  /\ state[j] = "absent"
  /\ state' = [state EXCEPT ![j] = "pending"]
  /\ UNCHANGED covered

Record(j, S) ==
  /\ state[j] = "pending"
  /\ covered' = [covered EXCEPT ![j] = @ \cup S]
  /\ UNCHANGED state

Complete(j) ==
  /\ state[j] = "pending" /\ Recipients[j] \subseteq covered[j]
  /\ state' = [state EXCEPT ![j] = "done"]
  /\ UNCHANGED covered

GiveUp(J) ==
  /\ \A j \in J : state[j] = "pending"
  /\ state' = [j \in Job |-> IF j \in J THEN "failed" ELSE state[j]]
  /\ UNCHANGED covered

Next ==
  \/ \E j \in Job :
       \/ Accept(j) \/ Complete(j)
       \/ \E S \in SUBSET Target : Record(j, S)
  \/ \E J \in SUBSET Job : GiveUp(J)

Spec == Init /\ [][Next]_<<state, covered>>

==============================================================================
