------------------------- MODULE LeaderElectionProofs -------------------------
(***************************************************************************)
(* Proofs about LeaderElection, for any number of processes and hosts and  *)
(* any periods.                                                            *)
(***************************************************************************)
EXTENDS LeaderElection, TLAPS

\* Every action keeps every variable in its type: ages and countdowns stay within
\* the periods they measure, the backoff within its cap.
THEOREM TypeCorrect == Spec => []TypeOK
<1> USE ConstantsAssumption
<1>1. Init => TypeOK
  BY DEF Init, TypeOK, FreeLease, PCs, WorkerStates, AgeCap
<1>2. TypeOK /\ [Next]_vars => TypeOK'
  <2> SUFFICES ASSUME TypeOK, [Next]_vars PROVE TypeOK'
    OBVIOUS
  <2> USE DEF TypeOK, PCs, WorkerStates, AgeCap, locks, clientVars, outageVars,
              workerVars
  <2>1. ASSUME NEW p \in Proc, GetClient(p)
        PROVE  /\ client' \in [Proc -> BOOLEAN]
               /\ retryIn' \in [Proc -> 0..BackoffCap]
               /\ backoff' \in [Proc -> 1..BackoffCap]
    <3>1. CASE MarkUp(p)
      BY <3>1 DEF MarkUp
    <3>2. CASE MarkDown(p)
      BY <3>2 DEF MarkDown, DoubledBackoff
    <3>3. CASE UNCHANGED clientVars
      BY <3>3
    <3> QED BY <2>1, <3>1, <3>2, <3>3 DEF GetClient
  <2>2. ASSUME NEW p \in Proc, MarkDown(p)
        PROVE  /\ client' \in [Proc -> BOOLEAN]
               /\ retryIn' \in [Proc -> 0..BackoffCap]
               /\ backoff' \in [Proc -> 1..BackoffCap]
    BY <2>2 DEF MarkDown, DoubledBackoff
  <2>3. ASSUME NEW p \in Proc, NEW how \in {"redis", "local"}, Lead(p, how)
        PROVE  /\ pc' \in [Proc -> PCs] /\ pollIn' \in [Proc -> (-Late)..Poll]
               /\ worker' \in [Proc -> WorkerStates]
               /\ basis' \in [Proc -> {"none", "redis", "local"}]
    BY <2>3 DEF Lead, StartWorker, SleepUntilNextPoll
  <2>4. ASSUME NEW p \in Proc, Follow(p)
        PROVE  /\ pc' \in [Proc -> PCs] /\ pollIn' \in [Proc -> (-Late)..Poll]
               /\ worker' \in [Proc -> WorkerStates]
               /\ basis' \in [Proc -> {"none", "redis", "local"}]
    BY <2>4 DEF Follow, SleepUntilNextPoll
  <2>5. ASSUME NEW p \in Proc PROVE LeaseOf(p) \in [holder : Proc \cup {None, Orphan}, ttl : 0..Lease]
    BY DEF LeaseOf
  <2>6. ASSUME NEW p \in Proc
        PROVE  /\ LeaseReleased(p) \in [holder : Proc \cup {None, Orphan}, ttl : 0..Lease]
               /\ LeaseAbandoned(p) \in [holder : Proc \cup {None, Orphan}, ttl : 0..Lease]
    BY DEF LeaseReleased, FreeLease, LeaseAbandoned
  <2>7. ASSUME NEW p \in Proc, LocalRelease(p) PROVE flock' \in [Host -> Proc \cup {None}]
    BY <2>7 DEF LocalRelease
  <2>8. ASSUME NEW p \in Proc, Vanish(p)
        PROVE  /\ client' \in [Proc -> BOOLEAN]
               /\ retryIn' \in [Proc -> 0..BackoffCap]
               /\ backoff' \in [Proc -> 1..BackoffCap]
               /\ pc' \in [Proc -> PCs] /\ pollIn' \in [Proc -> (-Late)..Poll]
               /\ everReached' \in [Proc -> BOOLEAN] /\ sinceConn' \in [Proc -> 0..AgeCap]
               /\ worker' \in [Proc -> WorkerStates]
               /\ basis' \in [Proc -> {"none", "redis", "local"}]
               /\ stopHung' \in [Proc -> BOOLEAN]
    BY <2>8 DEF Vanish, BootTime
  <2>9. ASSUME NEW p \in Proc, ExitWithoutRelease(p), UNCHANGED reach PROVE TypeOK'
    BY <2>9, <2>6, <2>7, <2>8 DEF ExitWithoutRelease
  <2>10. ASSUME NEW p \in Proc, Tick(p) PROVE TypeOK'
    <3>1. /\ client' \in [Proc -> BOOLEAN]
          /\ retryIn' \in [Proc -> 0..BackoffCap]
          /\ backoff' \in [Proc -> 1..BackoffCap]
      BY <2>1, <2>10 DEF Tick
    <3>2. everReached' \in [Proc -> BOOLEAN] /\ sinceConn' \in [Proc -> 0..AgeCap]
      <4>1. OutageUpdate(p, RedisState(p))
        BY <2>10 DEF Tick
      <4> QED BY <4>1 DEF OutageUpdate
    <3>3. CASE TickLocal(p)
      <4>1. /\ pc' \in [Proc -> PCs] /\ pollIn' \in [Proc -> (-Late)..Poll]
            /\ worker' \in [Proc -> WorkerStates]
            /\ basis' \in [Proc -> {"none", "redis", "local"}]
        BY <2>3, <2>4, <3>3 DEF TickLocal
      <4>2. flock' \in [Host -> Proc \cup {None}]
        BY <3>3 DEF TickLocal
      <4> QED BY <2>10, <3>1, <3>2, <4>1, <4>2 DEF Tick
    <3>4. CASE LocalRelease(p) /\ pc' = [pc EXCEPT ![p] = "bid"] /\ UNCHANGED <<pollIn, workerVars>>
      BY <2>7, <2>10, <3>1, <3>2, <3>4 DEF Tick
    <3> QED BY <2>10, <3>3, <3>4 DEF Tick
  <2>11. ASSUME NEW p \in Proc, Bid(p) PROVE TypeOK'
    <3>1. /\ client' \in [Proc -> BOOLEAN]
          /\ retryIn' \in [Proc -> 0..BackoffCap]
          /\ backoff' \in [Proc -> 1..BackoffCap]
      BY <2>1, <2>2, <2>11 DEF Bid
    <3>2. /\ pc' \in [Proc -> PCs] /\ pollIn' \in [Proc -> (-Late)..Poll]
          /\ worker' \in [Proc -> WorkerStates]
          /\ basis' \in [Proc -> {"none", "redis", "local"}]
      BY <2>3, <2>4, <2>11 DEF Bid
    <3>3. lease' \in [holder : Proc \cup {None, Orphan}, ttl : 0..Lease]
      BY <2>5, <2>11 DEF Bid
    <3> QED BY <2>11, <3>1, <3>2, <3>3 DEF Bid
  <2>12. ASSUME NEW p \in Proc, BidAnswerLost(p) PROVE TypeOK'
    BY <2>12, <2>2, <2>4, <2>5 DEF BidAnswerLost
  <2>13. ASSUME NEW p \in Proc, StepDownDone(p) \/ StepDownFails(p) PROVE TypeOK'
    BY <2>13 DEF StepDownDone, StepDownFails, SleepUntilNextPoll
  <2>14. ASSUME NEW p \in Proc, Stop(p) PROVE TypeOK'
    BY <2>14, <2>9 DEF Stop, StopSleeping, StopStepping, StopRaises
  <2>15. ASSUME NEW p \in Proc, HungStopRaises(p) \/ StopJoinFails(p) \/ Crash(p) PROVE TypeOK'
    BY <2>15, <2>9 DEF HungStopRaises, StopJoinFails, Crash
  <2>16. ASSUME NEW p \in Proc, StopJoined(p) \/ Start(p) \/ WorkerCrash(p) PROVE TypeOK'
    BY <2>16 DEF StopJoined, Start, WorkerCrash
  <2>17. ASSUME NEW p \in Proc, StopRelease(p) PROVE TypeOK'
    BY <2>17, <2>6, <2>7, <2>8 DEF StopRelease
  <2>18. ASSUME NEW p \in Proc, CacheCall(p) PROVE TypeOK'
    BY <2>18, <2>1, <2>2 DEF CacheCall
  <2>19. CASE (\E S \in SUBSET Proc : Outage(S)) \/ Heal
    BY <2>19 DEF Outage, Heal
  <2>20. CASE LoseLease
    <3>1. lease' \in [holder : Proc \cup {None, Orphan}, ttl : 0..Lease]
      BY <2>20 DEF LoseLease, FreeLease
    <3>2. kept' \in BOOLEAN
      BY <2>20 DEF LoseLease
    <3> QED BY <2>20, <3>1, <3>2 DEF LoseLease
  <2>21. CASE Time
    <3>1. lease' \in [holder : Proc \cup {None, Orphan}, ttl : 0..Lease]
      BY <2>21 DEF Time, FreeLease
    <3>2. retryIn' \in [Proc -> 0..BackoffCap]
      <4>1. ASSUME NEW p \in Proc PROVE Passed(retryIn[p]) \in 0..BackoffCap
        BY DEF Passed
      <4> QED BY <2>21, <4>1 DEF Time
    <3>3. pollIn' \in [Proc -> (-Late)..Poll]
      <4>1. ASSUME NEW p \in Proc
            PROVE  /\ pc[p] \in {"sleeping", "bid"} => pollIn[p] - 1 \in (-Late)..Poll
                   /\ pc[p] = "off" => Passed(pollIn[p]) \in (-Late)..Poll
        BY <2>21 DEF Time, Settled, Passed
      <4> QED BY <2>21, <4>1 DEF Time
    <3>4. sinceConn' \in [Proc -> 0..AgeCap]
      <4>1. ASSUME NEW p \in Proc PROVE sinceConn'[p] \in 0..AgeCap
        BY <2>21 DEF Time
      <4> QED BY <2>21, <4>1 DEF Time
    <3> QED BY <2>21, <3>1, <3>2, <3>3, <3>4 DEF Time
  <2>22. CASE UNCHANGED vars
    BY <2>22 DEF vars
  <2> QED
    BY <2>10, <2>11, <2>12, <2>13, <2>14, <2>15, <2>16, <2>17, <2>18, <2>19, <2>20,
       <2>21, <2>22 DEF Next, Election, Fault
<1> QED BY <1>1, <1>2, PTL DEF Spec

-------------------------------------------------------------------------------
\* Where the election task is determines what its worker can be.
ControlInv ==
  \A p \in Proc :
    /\ pc[p] \in {"off", "died", "releasing"} => worker[p] = "none"
    /\ pc[p] \in {"stepping", "joining"} <=> worker[p] = "cancelling"
    /\ basis[p] = "none" <=> worker[p] = "none"

\* Strengthens LocalLeadersHoldFlock with workers that have crashed and will be
\* restarted, and with the reason the local lock was tried at all.
LocalInv ==
  \A p \in Proc :
    /\ ~RedisEnabled => ~everReached[p]
    /\ basis[p] = "local" /\ pc[p] \in {"sleeping", "joining"}
         => flock[HostOf[p]] = p
    /\ basis[p] = "local" /\ pc[p] = "sleeping"
         => ~everReached[p] \/ sinceConn[p] >= Lease

\* Strengthens RedisLeadersHoldLease with the time that is left: the lease of a
\* process between two ticks outlives its next tick.
LeaseInv ==
  kept => \A p \in Proc : basis[p] = "redis" =>
    /\ lease.holder = p /\ lease.ttl >= 1
    /\ pc[p] \in {"sleeping", "bid"} => lease.ttl >= pollIn[p] + (Lease - Poll)

LEMMA ControlStep == TypeOK /\ ControlInv /\ [Next]_vars => ControlInv'
<1> SUFFICES ASSUME TypeOK, ControlInv, [Next]_vars PROVE ControlInv'
  OBVIOUS
<1> USE DEF TypeOK, ControlInv, workerVars
<1>1. ASSUME NEW p \in Proc, Lead(p, "redis") \/ Lead(p, "local") PROVE ControlInv'
  BY <1>1 DEF Lead, StartWorker, SleepUntilNextPoll
<1>2. ASSUME NEW p \in Proc, pc[p] \in {"sleeping", "bid"}, Follow(p) PROVE ControlInv'
  BY <1>2 DEF Follow, SleepUntilNextPoll
<1>3. ASSUME NEW p \in Proc, Vanish(p) PROVE ControlInv'
  BY <1>3 DEF Vanish
<1>4. ASSUME NEW p \in Proc, Tick(p) PROVE ControlInv'
  <2>1. CASE TickLocal(p)
    BY <1>1, <1>2, <1>4, <2>1 DEF Tick, TickLocal
  <2>2. CASE pc' = [pc EXCEPT ![p] = "bid"] /\ UNCHANGED <<pollIn, workerVars>>
    BY <1>4, <2>2 DEF Tick
  <2> QED BY <1>4, <2>1, <2>2 DEF Tick
<1>5. ASSUME NEW p \in Proc, Bid(p) \/ BidAnswerLost(p) PROVE ControlInv'
  BY <1>1, <1>2, <1>5 DEF Bid, BidAnswerLost
<1>6. ASSUME NEW p \in Proc, StepDownDone(p) \/ StepDownFails(p) \/ StopJoined(p)
      PROVE  ControlInv'
  BY <1>6 DEF StepDownDone, StepDownFails, StopJoined, SleepUntilNextPoll
<1>7. ASSUME NEW p \in Proc, Stop(p) PROVE ControlInv'
  <2>1. CASE StopSleeping(p)
    BY <2>1 DEF StopSleeping
  <2>2. CASE StopStepping(p)
    BY <2>2 DEF StopStepping
  <2>3. CASE StopRaises(p)
    BY <1>3, <2>3 DEF StopRaises, ExitWithoutRelease
  <2> QED BY <1>7, <2>1, <2>2, <2>3 DEF Stop
<1>8. ASSUME NEW p \in Proc,
             HungStopRaises(p) \/ StopJoinFails(p) \/ Crash(p) \/ StopRelease(p)
      PROVE  ControlInv'
  BY <1>3, <1>8 DEF HungStopRaises, StopJoinFails, Crash, ExitWithoutRelease, StopRelease
<1>9. ASSUME NEW p \in Proc, Start(p) \/ WorkerCrash(p) PROVE ControlInv'
  BY <1>9 DEF Start, WorkerCrash
<1>10. CASE \/ \E p \in Proc : CacheCall(p)
            \/ \E S \in SUBSET Proc : Outage(S)
            \/ Heal \/ LoseLease \/ Time \/ UNCHANGED vars
  BY <1>10 DEF CacheCall, Outage, Heal, LoseLease, Time, vars
<1> QED
  BY <1>4, <1>5, <1>6, <1>7, <1>8, <1>9, <1>10 DEF Next, Election, Fault

LEMMA LocalStep ==
  TypeOK /\ ControlInv /\ LocalInv /\ [Next]_vars => LocalInv'
<1> SUFFICES ASSUME TypeOK, ControlInv, LocalInv, [Next]_vars PROVE LocalInv'
  OBVIOUS
<1> USE ConstantsAssumption DEF TypeOK, ControlInv, LocalInv, locks, workerVars, outageVars
<1>1. ASSUME NEW p \in Proc, LocalRelease(p), Vanish(p) PROVE LocalInv'
  BY <1>1 DEF LocalRelease, Vanish
<1>2. ASSUME NEW p \in Proc, Tick(p) PROVE LocalInv'
  <2>1. CASE FallsBack(p, RedisState(p)) /\ TickLocal(p) /\ FlockGrants(p)
    <3>1. /\ flock' = [flock EXCEPT ![HostOf[p]] = p] /\ flock[HostOf[p]] \in {None, p}
          /\ pc' = [pc EXCEPT ![p] = "sleeping"]
          /\ basis' = [basis EXCEPT ![p] = "local"]
      BY <2>1 DEF TickLocal, FlockGrants, Lead, StartWorker, SleepUntilNextPoll
    <3>2. /\ everReached' = everReached /\ sinceConn' = sinceConn
          /\ ~everReached[p] \/ sinceConn[p] >= Lease
      BY <1>2, <2>1 DEF Tick, FallsBack, OutageUpdate, OutageExceedsLease, RedisState
    <3> QED BY <3>1, <3>2
  <2>2. CASE FallsBack(p, RedisState(p)) /\ TickLocal(p) /\ ~FlockGrants(p)
    <3>1. /\ everReached' = everReached /\ sinceConn' = sinceConn
      BY <1>2, <2>2 DEF Tick, FallsBack, OutageUpdate, RedisState
    <3>2. Follow(p) /\ UNCHANGED flock
      BY <2>2 DEF TickLocal
    <3>3. flock[HostOf[p]] # p \/ HostOf[p] \notin LockFileUsable
      BY <2>2 DEF FlockGrants
    <3> QED BY <1>2, <3>1, <3>2, <3>3 DEF Follow, SleepUntilNextPoll, Tick
  <2>3. CASE ~FallsBack(p, RedisState(p))
    BY <1>2, <2>3 DEF Tick, LocalRelease, OutageUpdate, RedisState, FallsBack
  <2> QED BY <1>2, <2>1, <2>2, <2>3 DEF Tick
<1>3. ASSUME NEW p \in Proc, Bid(p) \/ BidAnswerLost(p) PROVE LocalInv'
  <2>1. UNCHANGED <<flock, everReached, sinceConn>>
    BY <1>3 DEF Bid, BidAnswerLost
  <2>2. CASE Lead(p, "redis")
    BY <2>1, <2>2 DEF Lead, StartWorker, SleepUntilNextPoll
  <2>3. CASE Follow(p) /\ pc[p] = "bid"
    BY <2>1, <2>3 DEF Follow, SleepUntilNextPoll
  <2> QED BY <1>3, <2>2, <2>3 DEF Bid, BidAnswerLost
<1>4. ASSUME NEW p \in Proc, StepDownDone(p) \/ StepDownFails(p) \/ StopJoined(p)
      PROVE  LocalInv'
  BY <1>4 DEF StepDownDone, StepDownFails, StopJoined, SleepUntilNextPoll
<1>5. ASSUME NEW p \in Proc, Stop(p) PROVE LocalInv'
  <2>1. CASE StopSleeping(p)
    BY <2>1 DEF StopSleeping
  <2>2. CASE StopStepping(p)
    BY <2>2 DEF StopStepping
  <2>3. CASE StopRaises(p)
    BY <1>1, <2>3 DEF StopRaises, ExitWithoutRelease
  <2> QED BY <1>5, <2>1, <2>2, <2>3 DEF Stop
<1>6. ASSUME NEW p \in Proc,
             HungStopRaises(p) \/ StopJoinFails(p) \/ Crash(p) \/ StopRelease(p)
      PROVE  LocalInv'
  BY <1>1, <1>6 DEF HungStopRaises, StopJoinFails, Crash, ExitWithoutRelease, StopRelease
<1>7. ASSUME NEW p \in Proc, Start(p) \/ WorkerCrash(p) PROVE LocalInv'
  BY <1>7 DEF Start, WorkerCrash
<1>8. CASE Time
  <2>1. UNCHANGED <<flock, pc, everReached, basis>>
    BY <1>8 DEF Time
  <2>2. ASSUME NEW p \in Proc PROVE sinceConn[p] >= Lease => sinceConn'[p] >= Lease
    BY <1>8 DEF Time, AgeCap
  <2> QED BY <2>1, <2>2
<1>9. CASE \/ \E p \in Proc : CacheCall(p)
           \/ \E S \in SUBSET Proc : Outage(S)
           \/ Heal \/ LoseLease \/ UNCHANGED vars
  BY <1>9 DEF CacheCall, Outage, Heal, LoseLease, vars
<1> QED
  BY <1>2, <1>3, <1>4, <1>5, <1>6, <1>7, <1>8, <1>9 DEF Next, Election, Fault

\* The lease of a leader is long enough to reach its next tick when it is granted,
\* and loses one unit of time exactly when the tick comes one unit closer.
LEMMA LeaseStep ==
  ASSUME Timely
  PROVE  TypeOK /\ ControlInv /\ LeaseInv /\ [Next]_vars => LeaseInv'
<1> SUFFICES ASSUME TypeOK, ControlInv, LeaseInv, [Next]_vars PROVE LeaseInv'
  OBVIOUS
<1> USE ConstantsAssumption DEF TypeOK, ControlInv, LeaseInv, locks, workerVars, Timely
<1>1. ASSUME NEW p \in Proc, LeaseInv, UNCHANGED kept, lease' \in {LeaseReleased(p), LeaseAbandoned(p)},
             Vanish(p)
      PROVE  LeaseInv'
  BY <1>1 DEF LeaseReleased, LeaseAbandoned, FreeLease, Vanish
<1>2. ASSUME NEW p \in Proc, pc[p] \in {"sleeping", "bid"}, Follow(p),
             UNCHANGED kept, lease' = lease \/ (lease.holder \in {None, p} /\ lease' = LeaseOf(p))
      PROVE  LeaseInv'
  BY <1>2 DEF Follow, SleepUntilNextPoll, LeaseOf
<1>3. ASSUME NEW p \in Proc, Tick(p) PROVE LeaseInv'
  <2>1. CASE TickLocal(p) /\ FlockGrants(p)
    BY <1>3, <2>1 DEF Tick, TickLocal, Lead, StartWorker, SleepUntilNextPoll
  <2>2. CASE TickLocal(p) /\ ~FlockGrants(p)
    BY <1>2, <1>3, <2>2 DEF Tick, TickLocal
  <2>3. CASE pc' = [pc EXCEPT ![p] = "bid"] /\ UNCHANGED <<pollIn, workerVars>>
    BY <1>3, <2>3 DEF Tick
  <2> QED BY <1>3, <2>1, <2>2, <2>3 DEF Tick
<1>4. ASSUME NEW p \in Proc, Bid(p) \/ BidAnswerLost(p) PROVE LeaseInv'
  <2>0. UNCHANGED kept
    BY <1>4 DEF Bid, BidAnswerLost
  <2>1. CASE Lead(p, "redis") /\ LeaseGrants(p) /\ lease' = LeaseOf(p)
    BY <2>0, <2>1 DEF Lead, StartWorker, SleepUntilNextPoll, LeaseGrants, LeaseOf
  <2>2. CASE Follow(p) /\ pc[p] = "bid"
             /\ (lease' = lease \/ (LeaseGrants(p) /\ lease' = LeaseOf(p)))
    BY <1>2, <2>0, <2>2 DEF LeaseGrants
  <2> QED BY <1>4, <2>1, <2>2 DEF Bid, BidAnswerLost
<1>5. ASSUME NEW p \in Proc, StepDownDone(p) \/ StepDownFails(p) \/ StopJoined(p)
      PROVE  LeaseInv'
  <2>1. /\ UNCHANGED <<lease, kept>>
        /\ basis' = [basis EXCEPT ![p] = "none"]
        /\ \A q \in Proc \ {p} : pc'[q] = pc[q] /\ pollIn'[q] = pollIn[q]
    BY <1>5 DEF StepDownDone, StepDownFails, StopJoined, SleepUntilNextPoll
  <2> QED BY <2>1
<1>6. ASSUME NEW p \in Proc, Stop(p) PROVE LeaseInv'
  <2>1. CASE StopSleeping(p)
    BY <2>1 DEF StopSleeping
  <2>2. CASE StopStepping(p)
    BY <2>2 DEF StopStepping
  <2>3. CASE StopRaises(p)
    BY <1>1, <2>3 DEF StopRaises, ExitWithoutRelease
  <2> QED BY <1>6, <2>1, <2>2, <2>3 DEF Stop
<1>7. ASSUME NEW p \in Proc,
             HungStopRaises(p) \/ StopJoinFails(p) \/ Crash(p) \/ StopRelease(p)
      PROVE  LeaseInv'
  BY <1>1, <1>7 DEF HungStopRaises, StopJoinFails, Crash, ExitWithoutRelease, StopRelease
<1>8. ASSUME NEW p \in Proc, Start(p) \/ WorkerCrash(p) PROVE LeaseInv'
  BY <1>8 DEF Start, WorkerCrash
<1>9. CASE Time
  <2>1. UNCHANGED <<pc, basis, kept>>
    BY <1>9 DEF Time
  <2>2. ASSUME NEW p \in Proc, basis[p] = "redis"
        PROVE  /\ pc[p] \in {"sleeping", "bid"} /\ pollIn[p] > -Late
               /\ pollIn'[p] = pollIn[p] - 1
    BY <1>9, <2>2 DEF Time, Settled
  <2>3. ASSUME kept, NEW p \in Proc, basis[p] = "redis"
        PROVE  lease' = [lease EXCEPT !.ttl = lease.ttl - 1] /\ lease.ttl >= 2
    BY <1>9, <2>2, <2>3 DEF Time
  <2>4. ASSUME kept, NEW p \in Proc, basis[p] = "redis"
        PROVE  lease'.holder = lease.holder /\ lease'.ttl = lease.ttl - 1
    BY <2>3, <2>4
  <2> QED BY <2>1, <2>2, <2>3, <2>4
<1>10. CASE \/ \E p \in Proc : CacheCall(p)
            \/ \E S \in SUBSET Proc : Outage(S)
            \/ Heal \/ UNCHANGED vars
  BY <1>10 DEF CacheCall, Outage, Heal, vars
<1>11. CASE LoseLease
  BY <1>11 DEF LoseLease
<1> QED
  BY <1>3, <1>4, <1>5, <1>6, <1>7, <1>8, <1>9, <1>10, <1>11 DEF Next, Election, Fault

-------------------------------------------------------------------------------
\* A process that leads by the local lock holds the lock file of its host, except
\* inside the tick that has just released it (local_lock.py, _election_tick).
THEOREM LocalLeadersSafe == Spec => []LocalLeadersHoldFlock
<1>1. Init => ControlInv /\ LocalInv
  BY DEF Init, ControlInv, LocalInv
<1>2. ControlInv /\ LocalInv => LocalLeadersHoldFlock
  BY DEF ControlInv, LocalInv, LocalLeadersHoldFlock, Working
<1> QED
  BY <1>1, <1>2, TypeCorrect, ControlStep, LocalStep, PTL DEF Spec

\* With timely ticks and a Redis that keeps its keys, whoever leads by the lease
\* holds it at every instant, for every number of processes and every choice of
\* the lease and poll periods (the EVAL scripts, _election_tick, stop()).
THEOREM RedisLeadersSafe ==
  ASSUME Timely
  PROVE  Spec => []RedisLeadersHoldLease
<1>1. Init => ControlInv /\ LeaseInv
  BY DEF Init, ControlInv, LeaseInv
<1>2. LeaseInv => RedisLeadersHoldLease
  BY DEF LeaseInv, RedisLeadersHoldLease
<1> QED
  BY <1>1, <1>2, TypeCorrect, ControlStep, LeaseStep, PTL DEF Spec

\* With timely ticks, and until Redis first loses the key, whoever leads holds what it
\* leads by (_election_tick, stop()).
THEOREM LeadersSafe ==
  ASSUME Timely
  PROVE  Spec => []LeadersHoldLocks
<1>1. Spec => []RedisLeadersHoldLease
  BY RedisLeadersSafe
<1>2. Spec => []LocalLeadersHoldFlock
  BY LocalLeadersSafe
<1>3. RedisLeadersHoldLease /\ LocalLeadersHoldFlock => LeadersHoldLocks
  BY DEF LeadersHoldLocks
<1> QED BY <1>1, <1>2, <1>3, PTL

\* Two processes lead at once, one by the lease and one by a local lock, only when
\* the second lost Redis for a whole lease period, or never had it, while the
\* first renewed its lease within one poll period.
THEOREM DualLeadersSafe ==
  ASSUME Timely
  PROVE  Spec => []DualLeadersDisagree
<1>1. Init => ControlInv /\ LocalInv /\ LeaseInv
  BY DEF Init, ControlInv, LocalInv, LeaseInv
<1>2. TypeOK /\ LocalInv /\ LeaseInv => DualLeadersDisagree
  BY ConstantsAssumption DEF TypeOK, LocalInv, LeaseInv, DualLeadersDisagree
<1> QED
  BY <1>1, <1>2, TypeCorrect, ControlStep, LocalStep, LeaseStep, PTL DEF Spec

-------------------------------------------------------------------------------
(***************************************************************************)
(* The deployment implements SingleLeader where its processes cannot       *)
(* disagree about Redis.                                                   *)
(***************************************************************************)
Unique == \A p, q \in Proc : Working(p) /\ Working(q) => p = q

OneWorkerChanges ==
  worker' = worker \/ \E p \in Proc : \E w \in WorkerStates : worker' = [worker EXCEPT ![p] = w]

LEMMA WorkerStep == TypeOK /\ [Next]_vars => OneWorkerChanges
<1> SUFFICES ASSUME TypeOK, [Next]_vars PROVE OneWorkerChanges
  OBVIOUS
<1> USE DEF OneWorkerChanges, workerVars
<1>1. ASSUME NEW p \in Proc, (\E how : Lead(p, how)) \/ Follow(p) \/ Vanish(p)
      PROVE  OneWorkerChanges
  BY <1>1 DEF Lead, StartWorker, Follow, Vanish, WorkerStates
<1>2. ASSUME NEW p \in Proc, Election(p) PROVE OneWorkerChanges
  <2>1. CASE Tick(p) \/ Bid(p)
    BY <1>1, <2>1 DEF Tick, TickLocal, Bid
  <2>2. CASE StepDownDone(p) \/ StopJoined(p)
    BY <2>2 DEF StepDownDone, StopJoined, WorkerStates
  <2>3. CASE StopRelease(p) \/ HungStopRaises(p)
    BY <1>1, <2>3 DEF StopRelease, HungStopRaises, ExitWithoutRelease
  <2> QED BY <1>2, <2>1, <2>2, <2>3 DEF Election
<1>3. ASSUME NEW p \in Proc, Fault(p) PROVE OneWorkerChanges
  <2>1. CASE BidAnswerLost(p)
    BY <1>1, <2>1 DEF BidAnswerLost
  <2>2. CASE StepDownFails(p) \/ WorkerCrash(p)
    BY <2>2 DEF StepDownFails, WorkerCrash, WorkerStates
  <2>3. CASE StopJoinFails(p) \/ Crash(p)
    BY <1>1, <2>3 DEF StopJoinFails, Crash, ExitWithoutRelease
  <2> QED BY <1>3, <2>1, <2>2, <2>3 DEF Fault
<1>4. ASSUME NEW p \in Proc, Stop(p) PROVE OneWorkerChanges
  BY <1>1, <1>4 DEF Stop, StopSleeping, StopStepping, StopRaises, ExitWithoutRelease,
                    WorkerStates
<1>5. CASE \/ \E p \in Proc : Start(p) \/ CacheCall(p)
           \/ \E S \in SUBSET Proc : Outage(S)
           \/ Heal \/ LoseLease \/ Time \/ UNCHANGED vars
  BY <1>5 DEF Start, CacheCall, Outage, Heal, LoseLease, Time, vars
<1> QED BY <1>2, <1>3, <1>4, <1>5 DEF Next

\* If there is at most one leader before and after a step that changes one worker,
\* the step elects the only leader, deposes it, or leaves the leaders alone.
LEMMA UniqueImplements ==
  TypeOK /\ Unique /\ Unique' /\ OneWorkerChanges => [LeaderSpec!Next]_Leaders
<1> SUFFICES ASSUME TypeOK, Unique, Unique', OneWorkerChanges
             PROVE  [LeaderSpec!Next]_Leaders
  OBVIOUS
<1>1. CASE worker' = worker
  BY <1>1 DEF Leaders, Working
<1>2. ASSUME NEW p \in Proc, NEW w \in WorkerStates, worker' = [worker EXCEPT ![p] = w]
      PROVE  [LeaderSpec!Next]_Leaders
  <2>1. \A q \in Proc \ {p} : worker'[q] = worker[q]
    BY <1>2 DEF TypeOK
  <2>2. CASE Working(p) /\ ~Working(p)'
    <3>1. Leaders = {p} /\ Leaders' = {}
      BY <2>1, <2>2 DEF Unique, Leaders, Working
    <3> QED BY <3>1 DEF LeaderSpec!Next, LeaderSpec!StepDown
  <2>3. CASE ~Working(p) /\ Working(p)'
    <3>1. Leaders = {} /\ Leaders' = {p}
      BY <2>1, <2>3 DEF Unique, Leaders, Working
    <3> QED BY <3>1 DEF LeaderSpec!Next, LeaderSpec!Elect
  <2>4. CASE Working(p) <=> Working(p)'
    BY <2>1, <2>4 DEF Leaders, Working
  <2> QED BY <2>2, <2>3, <2>4
<1> QED BY <1>1, <1>2 DEF OneWorkerChanges

\* Redis answers every call, so every tick goes on to bid for the lease.
RedisInv ==
  /\ reach = Proc /\ kept
  /\ \A p \in Proc : retryIn[p] = 0 /\ basis[p] # "local"

LEMMA RedisStep ==
  ASSUME RedisEnabled, "outage" \notin Faults, "loss" \notin Faults
  PROVE  TypeOK /\ ControlInv /\ RedisInv /\ [Next]_vars => RedisInv'
<1> SUFFICES ASSUME TypeOK, ControlInv, RedisInv, [Next]_vars PROVE RedisInv'
  OBVIOUS
<1> USE DEF TypeOK, ControlInv, RedisInv, locks, clientVars, workerVars
<1>1. \A p \in Proc : HasClient(p) /\ ~CommandFails(p) /\ ~FallsBack(p, RedisState(p))
  BY DEF HasClient, MayProbe, CommandFails, FallsBack, RedisState
<1>2. ASSUME NEW p \in Proc, GetClient(p) PROVE retryIn' = retryIn
  BY <1>2 DEF GetClient, MarkUp
<1>3. ASSUME NEW p \in Proc, Vanish(p), UNCHANGED <<reach, kept>> PROVE RedisInv'
  BY <1>3 DEF Vanish
<1>4. ASSUME NEW p \in Proc, Tick(p) PROVE RedisInv'
  BY <1>1, <1>2, <1>4 DEF Tick
<1>5. ASSUME NEW p \in Proc, Bid(p) PROVE RedisInv'
  <2>1. /\ GetClient(p) /\ UNCHANGED <<reach, kept>>
        /\ Lead(p, "redis") \/ Follow(p)
    BY <1>1, <1>5 DEF Bid
  <2>2. basis' = [basis EXCEPT ![p] = "redis"] \/ basis' = [basis EXCEPT ![p] = "none"]
        \/ basis' = basis
    BY <2>1 DEF Lead, StartWorker, Follow
  <2> QED BY <1>2, <2>1, <2>2
<1>6. ASSUME NEW p \in Proc,
             \/ StepDownDone(p) \/ StepDownFails(p) \/ StopJoined(p)
             \/ Start(p) \/ WorkerCrash(p)
      PROVE  RedisInv'
  BY <1>6 DEF StepDownDone, StepDownFails, StopJoined, Start, WorkerCrash
<1>7. ASSUME NEW p \in Proc,
             HungStopRaises(p) \/ StopJoinFails(p) \/ Crash(p) \/ StopRelease(p)
      PROVE  RedisInv'
  BY <1>3, <1>7 DEF HungStopRaises, StopJoinFails, Crash, ExitWithoutRelease, StopRelease
<1>8. ASSUME NEW p \in Proc, Stop(p) PROVE RedisInv'
  BY <1>3, <1>8 DEF Stop, StopSleeping, StopStepping, StopRaises, ExitWithoutRelease
<1>9. ASSUME NEW p \in Proc, CacheCall(p) PROVE RedisInv'
  BY <1>1, <1>2, <1>9 DEF CacheCall
<1>10. CASE Time
  <2>1. /\ UNCHANGED <<reach, kept, basis>>
        /\ retryIn' = [p \in Proc |-> Passed(retryIn[p])]
    BY <1>10 DEF Time
  <2>2. \A p \in Proc : retryIn'[p] = 0
    BY <2>1 DEF Passed
  <2> QED BY <2>1, <2>2
<1>11. CASE Heal \/ UNCHANGED vars
  BY <1>11 DEF Heal, vars
<1>12. /\ \A p \in Proc : ~BidAnswerLost(p)
       /\ \A S \in SUBSET Proc : ~Outage(S)
       /\ ~LoseLease
  BY DEF BidAnswerLost, Outage, LoseLease
<1> QED
  BY <1>4, <1>5, <1>6, <1>7, <1>8, <1>9, <1>10, <1>11, <1>12 DEF Next, Election, Fault

\* While Redis stays up and ticks are timely, the election implements a single
\* leader, through crashes, restarts, shutdowns and failures of the loop, on any
\* number of hosts (the lease alone decides).
THEOREM RedisImplementsSingleLeader ==
  ASSUME RedisEnabled, Timely, "outage" \notin Faults, "loss" \notin Faults
  PROVE  Spec => ImplementsSingleLeader
<1>1. Init => ControlInv /\ LeaseInv /\ RedisInv /\ LeaderSpec!Init
  BY DEF Init, ControlInv, LeaseInv, RedisInv, LeaderSpec!Init, Leaders, Working
<1>2. ControlInv /\ LeaseInv /\ RedisInv /\ TypeOK => Unique
  BY DEF ControlInv, LeaseInv, RedisInv, Unique, Working, TypeOK
<1>3. TypeOK /\ Unique /\ Unique' /\ [Next]_vars => [LeaderSpec!Next]_Leaders
  BY WorkerStep, UniqueImplements
<1> QED
  BY <1>1, <1>2, <1>3, TypeCorrect, ControlStep, LeaseStep, RedisStep,
     PTL DEF Spec, ImplementsSingleLeader, LeaderSpec!Spec

\* Without Redis, every tick bids for the lock file of the one host.
FileInv ==
  /\ \A p \in Proc : pc[p] \notin {"bid", "stepping"} /\ basis[p] # "redis"
  /\ \A h \in Host : flock[h] = None \/ h \in LockFileUsable

LEMMA FileStep ==
  ASSUME ~RedisEnabled
  PROVE  TypeOK /\ ControlInv /\ LocalInv /\ FileInv /\ [Next]_vars => FileInv'
<1> SUFFICES ASSUME TypeOK, ControlInv, LocalInv, FileInv, [Next]_vars PROVE FileInv'
  OBVIOUS
<1> USE ConstantsAssumption DEF TypeOK, ControlInv, FileInv, locks, workerVars
<1>1. ASSUME NEW p \in Proc, LocalRelease(p), Vanish(p) PROVE FileInv'
  BY <1>1 DEF LocalRelease, Vanish
<1>2. ASSUME NEW p \in Proc, Tick(p) PROVE FileInv'
  <2>1. TickLocal(p) /\ pc[p] = "sleeping"
    BY <1>2 DEF Tick, FallsBack, RedisState
  <2>2. CASE FlockGrants(p) /\ flock' = [flock EXCEPT ![HostOf[p]] = p] /\ Lead(p, "local")
    BY <2>2 DEF FlockGrants, Lead, StartWorker, SleepUntilNextPoll
  <2>3. CASE ~FlockGrants(p) /\ Follow(p) /\ UNCHANGED flock
    <3>1. worker[p] # "running"
      BY <2>1, <2>3 DEF FlockGrants, LocalInv
    <3> QED BY <2>3, <3>1 DEF Follow, SleepUntilNextPoll
  <2> QED BY <2>1, <2>2, <2>3 DEF TickLocal
<1>3. ASSUME NEW p \in Proc, Bid(p) \/ BidAnswerLost(p) \/ StepDownDone(p) \/ StepDownFails(p)
      PROVE  FALSE
  BY <1>3 DEF Bid, BidAnswerLost, StepDownDone, StepDownFails
<1>4. ASSUME NEW p \in Proc, StopJoined(p) \/ Start(p) \/ WorkerCrash(p) PROVE FileInv'
  BY <1>4 DEF StopJoined, Start, WorkerCrash
<1>5. ASSUME NEW p \in Proc,
             HungStopRaises(p) \/ StopJoinFails(p) \/ Crash(p) \/ StopRelease(p)
      PROVE  FileInv'
  BY <1>1, <1>5 DEF HungStopRaises, StopJoinFails, Crash, ExitWithoutRelease, StopRelease
<1>6. ASSUME NEW p \in Proc, Stop(p) PROVE FileInv'
  <2>1. CASE StopSleeping(p)
    BY <2>1 DEF StopSleeping
  <2>2. CASE StopStepping(p)
    BY <2>2 DEF StopStepping
  <2>3. CASE StopRaises(p)
    BY <1>1, <2>3 DEF StopRaises, ExitWithoutRelease
  <2> QED BY <1>6, <2>1, <2>2, <2>3 DEF Stop
<1>7. CASE \/ \E p \in Proc : CacheCall(p)
           \/ \E S \in SUBSET Proc : Outage(S)
           \/ Heal \/ LoseLease \/ Time \/ UNCHANGED vars
  BY <1>7 DEF CacheCall, Outage, Heal, LoseLease, Time, vars
<1> QED
  BY <1>2, <1>3, <1>4, <1>5, <1>6, <1>7 DEF Next, Election, Fault

\* With Redis disabled and the processes on one host, the lock file alone makes the
\* election implement a single leader, under every fault.
THEOREM FileImplementsSingleLeader ==
  ASSUME ~RedisEnabled, \A p, q \in Proc : HostOf[p] = HostOf[q]
  PROVE  Spec => ImplementsSingleLeader
<1>1. Init => ControlInv /\ LocalInv /\ FileInv /\ LeaderSpec!Init
  BY DEF Init, ControlInv, LocalInv, FileInv, LeaderSpec!Init, Leaders, Working
<1>2. ControlInv /\ LocalInv /\ FileInv /\ TypeOK => Unique
  <2> SUFFICES ASSUME ControlInv, LocalInv, FileInv, TypeOK,
                      NEW p \in Proc, NEW q \in Proc, Working(p), Working(q)
               PROVE  p = q
    BY DEF Unique
  <2>1. ASSUME NEW r \in Proc, Working(r) PROVE flock[HostOf[r]] = r
    <3>1. basis[r] = "local"
      BY <2>1 DEF ControlInv, FileInv, TypeOK, Working
    <3>2. pc[r] \in {"sleeping", "joining"}
      BY <2>1 DEF ControlInv, FileInv, TypeOK, Working, PCs
    <3> QED BY <3>1, <3>2 DEF LocalInv
  <2> QED BY <2>1
<1>3. TypeOK /\ Unique /\ Unique' /\ [Next]_vars => [LeaderSpec!Next]_Leaders
  BY WorkerStep, UniqueImplements
<1> QED
  BY <1>1, <1>2, <1>3, TypeCorrect, ControlStep, LocalStep, FileStep,
     PTL DEF Spec, ImplementsSingleLeader, LeaderSpec!Spec

-------------------------------------------------------------------------------
\* The Redis key is an exclusive lock under every fault, lost keys and late ticks
\* included: the EVAL scripts compare the holder before they write.
THEOREM LeaseExclusive == Spec => LeaseIsExclusiveLock
<1>1. Init => LeaseLock!Init
  BY DEF Init, FreeLease, LeaseLock!Init
<1>2. TypeOK /\ [Next]_vars => [LeaseLock!Next]_(lease.holder)
  <2> SUFFICES ASSUME TypeOK, [Next]_vars PROVE [LeaseLock!Next]_(lease.holder)
    OBVIOUS
  <2> USE ConstantsAssumption
      DEF TypeOK, LeaseLock!Next, LeaseLock!Grant, LeaseLock!Drop, LeaseLock!Abandon, locks
  <2>1. ASSUME NEW p \in Proc,
               \/ LeaseGrants(p) /\ lease' = LeaseOf(p)
               \/ lease' \in {LeaseReleased(p), LeaseAbandoned(p)}
        PROVE  [LeaseLock!Next]_(lease.holder)
    BY <2>1 DEF LeaseGrants, LeaseOf, LeaseReleased, LeaseAbandoned, FreeLease
  <2>2. CASE lease' = FreeLease \/ UNCHANGED lease
    BY <2>2 DEF FreeLease
  <2>3. ASSUME NEW p \in Proc, Election(p) PROVE [LeaseLock!Next]_(lease.holder)
    BY <2>1, <2>2, <2>3 DEF Election, Tick, Bid, StepDownDone, StopJoined, StopRelease,
                            HungStopRaises, ExitWithoutRelease
  <2>4. ASSUME NEW p \in Proc, Fault(p) PROVE [LeaseLock!Next]_(lease.holder)
    BY <2>1, <2>2, <2>4 DEF Fault, BidAnswerLost, StepDownFails, StopJoinFails, Crash,
                            WorkerCrash, ExitWithoutRelease
  <2>5. ASSUME NEW p \in Proc, Start(p) \/ Stop(p) \/ CacheCall(p)
        PROVE  [LeaseLock!Next]_(lease.holder)
    BY <2>1, <2>2, <2>5 DEF Start, Stop, StopSleeping, StopStepping, StopRaises,
                            ExitWithoutRelease, CacheCall
  <2>6. CASE Time
    <3>1. lease' = FreeLease \/ lease'.holder = lease.holder
      BY <2>6 DEF Time
    <3> QED BY <2>2, <3>1
  <2>7. CASE (\E S \in SUBSET Proc : Outage(S)) \/ Heal \/ LoseLease \/ UNCHANGED vars
    BY <2>2, <2>7 DEF Outage, Heal, LoseLease, vars
  <2> QED BY <2>3, <2>4, <2>5, <2>6, <2>7 DEF Next
<1> QED BY <1>1, <1>2, TypeCorrect, PTL DEF Spec, LeaseIsExclusiveLock, LeaseLock!Spec

==============================================================================
