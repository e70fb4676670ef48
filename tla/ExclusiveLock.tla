---------------------------- MODULE ExclusiveLock ----------------------------
(***************************************************************************)
(* What a lock promises to the processes that bid for it, whatever it is   *)
(* made of: the Redis lease of core/cache.py and the flock()ed file of     *)
(* simulator/local_lock.py both implement it.  A holder is replaced only   *)
(* after the lock was free; the lock of a process that ended may stay with *)
(* an identity (Orphan) that nobody has any more.                          *)
(***************************************************************************)
CONSTANTS Proc, Free, Orphan

VARIABLE holder

Init == holder = Free

\* A process gets the lock only when it is free.
Grant(p) ==
  /\ holder = Free
  /\ holder' = p

\* The lock becomes free: released by its holder, expired, or lost.
Drop ==
  /\ holder # Free
  /\ holder' = Free

\* The holder ends and nobody can renew or release the lock any more.
Abandon(p) ==
  /\ holder = p
  /\ holder' = Orphan

Next ==
  \/ \E p \in Proc : Grant(p) \/ Abandon(p)
  \/ Drop

Spec == Init /\ [][Next]_holder

==============================================================================
