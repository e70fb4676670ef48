---------------------------- MODULE LeaderElection ----------------------------
(***************************************************************************)
(* One background loop and the LeaderElection objects that bid to run it,  *)
(* one per worker process (simulator/leader_election.py), over the two     *)
(* locks they use: the Redis lease of core/cache.py, reached through a     *)
(* client with a per-process reconnect backoff, and the per-host flock of  *)
(* simulator/local_lock.py.                                                *)
(*                                                                         *)
(* Time is counted in units that divide the poll and lease periods.  Every *)
(* instant the code stores is kept as the time left until it, or since it, *)
(* so the state space is finite without a bound on time.                   *)
(***************************************************************************)
EXTENDS Integers, FiniteSets

CONSTANTS
  Proc,            \* worker processes, of every host
  Host,            \* hosts
  HostOf,          \* the host each process runs on
  None, Orphan,    \* no holder; a holder id whose process has ended
  RedisEnabled,    \* CACHE_ENABLED and REDIS_URL
  LockFileUsable,  \* hosts where flock() exists and the lock file can be opened
  Lease, Poll,     \* lease_seconds and poll_seconds
  Late,            \* how late after it is due a tick may start and end
  BackoffCap,      \* _BACKOFF_CAP_SECONDS; the floor is one unit
  Faults           \* the faults of the environment that this instance admits

FaultKinds == {"outage", "heal", "loss", "crash", "shutdown", "worker"}

ASSUME ConstantsAssumption ==
  /\ HostOf \in [Proc -> Host]
  /\ None \notin Proc /\ Orphan \notin Proc /\ None # Orphan
  /\ RedisEnabled \in BOOLEAN
  /\ LockFileUsable \subseteq Host
  /\ Lease \in Nat \ {0} /\ Poll \in Nat \ {0} /\ Late \in Nat
  /\ BackoffCap \in Nat \ {0}
  /\ Faults \subseteq FaultKinds

VARIABLES
  \* shared
  reach,      \* processes whose calls to Redis get through
  lease,      \* the Redis key: its value and the time to live left
  flock,      \* per host, the process that has the lock file locked
  kept,       \* history: Redis has not lost the key so far
  \* per process: its Redis client
  client,     \* a connected client object exists
  retryIn,    \* time until _next_retry_at
  backoff,    \* _current_backoff
  \* per process: its LeaderElection
  pc,         \* where its election task, or its stop(), is
  pollIn,     \* time until the next tick is due, negative once it is late; for
              \* a process that is gone, time until a new one can have started
  everReached, \* _redis_ever_reachable
  sinceConn,   \* time since _last_connected_at
  worker,     \* _worker_task
  basis,      \* which lock the running worker was started or kept on
  stopHung    \* stop() is awaiting an election task that lost its cancellation

locks == <<lease, flock, kept>>
clientVars == <<client, retryIn, backoff>>
outageVars == <<everReached, sinceConn>>
workerVars == <<worker, basis>>
vars == <<reach, lease, flock, kept, client, retryIn, backoff, pc, pollIn,
          everReached, sinceConn, worker, basis, stopHung>>

(***************************************************************************)
(* pc: "off" no process; "sleeping" between two ticks; "bid" in a tick,    *)
(* about to call try_acquire_or_renew_lock; "stepping" in a tick, awaiting *)
(* the cancelled worker; "died" election task ended by an exception;       *)
(* "joining" stop() awaits the cancelled worker; "releasing" stop() is     *)
(* about to release both locks.                                            *)
(* worker: "cancelling" is a task that was cancelled and has not finished; *)
(* "crashed" a finished task that holds an exception.                      *)
(***************************************************************************)
PCs == {"off", "sleeping", "bid", "stepping", "died", "joining", "releasing"}
WorkerStates == {"none", "running", "cancelling", "crashed"}
AgeCap == Lease + Poll + Late

TypeOK ==
  /\ reach \subseteq Proc
  /\ lease \in [holder : Proc \cup {None, Orphan}, ttl : 0..Lease]
  /\ flock \in [Host -> Proc \cup {None}]
  /\ kept \in BOOLEAN
  /\ client \in [Proc -> BOOLEAN]
  /\ retryIn \in [Proc -> 0..BackoffCap]
  /\ backoff \in [Proc -> 1..BackoffCap]
  /\ pc \in [Proc -> PCs]
  /\ pollIn \in [Proc -> (-Late)..Poll]
  /\ everReached \in [Proc -> BOOLEAN]
  /\ sinceConn \in [Proc -> 0..AgeCap]
  /\ worker \in [Proc -> WorkerStates]
  /\ basis \in [Proc -> {"none", "redis", "local"}]
  /\ stopHung \in [Proc -> BOOLEAN]

\* A process takes at least one unit to start, so it cannot come and go for ever
\* while no time passes.
BootTime == 1

FreeLease == [holder |-> None, ttl |-> 0]

Init ==
  /\ reach = Proc
  /\ lease = FreeLease
  /\ flock = [h \in Host |-> None]
  /\ kept = TRUE
  /\ client = [p \in Proc |-> FALSE]
  /\ retryIn = [p \in Proc |-> 0]
  /\ backoff = [p \in Proc |-> 1]
  /\ pc = [p \in Proc |-> "off"]
  /\ pollIn = [p \in Proc |-> 0]
  /\ everReached = [p \in Proc |-> FALSE]
  /\ sinceConn = [p \in Proc |-> 0]
  /\ worker = [p \in Proc |-> "none"]
  /\ basis = [p \in Proc |-> "none"]
  /\ stopHung = [p \in Proc |-> FALSE]

\* is_active(): the task exists and is not done.
Working(p) == worker[p] \in {"running", "cancelling"}
Leaders == {p \in Proc : Working(p)}
Timely == Poll + Late < Lease

-------------------------------------------------------------------------------
(***************************************************************************)
(* The Redis client (core/cache.py).                                       *)
(***************************************************************************)

\* _get_client: an existing client is returned without a probe; a missing one
\* is built and pinged unless the backoff forbids it.
MayProbe(p) == ~client[p] /\ retryIn[p] = 0
HasClient(p) == client[p] \/ (MayProbe(p) /\ p \in reach)

\* A slip: the backoff has no cap.
UncappedBackoff(p) == 2 * backoff[p]

DoubledBackoff(p) == IF 2 * backoff[p] > BackoffCap THEN BackoffCap ELSE 2 * backoff[p]

MarkDown(p) ==
  /\ client' = [client EXCEPT ![p] = FALSE]
  /\ retryIn' = [retryIn EXCEPT ![p] = backoff[p]]
  /\ backoff' = [backoff EXCEPT ![p] = DoubledBackoff(p)]

MarkUp(p) ==
  /\ client' = [client EXCEPT ![p] = TRUE]
  /\ backoff' = [backoff EXCEPT ![p] = 1]
  /\ UNCHANGED retryIn

\* What _get_client leaves behind.
GetClient(p) ==
  \/ MayProbe(p) /\ p \in reach /\ MarkUp(p)
  \/ MayProbe(p) /\ p \notin reach /\ MarkDown(p)
  \/ ~MayProbe(p) /\ UNCHANGED clientVars

\* A command sent by a client whose connection is broken raises.
CommandFails(p) == HasClient(p) /\ p \notin reach

-------------------------------------------------------------------------------
(***************************************************************************)
(* The Redis scripts: acquire or renew if free or mine, delete if mine.    *)
(***************************************************************************)
\* A slip: SET without looking at the current holder.
GrantsAny(p) == TRUE

LeaseGrants(p) == lease.holder \in {None, p}

LeaseOf(p) == [holder |-> p, ttl |-> Lease]

\* A slip: DEL without comparing the holder.
ReleasesAny(p) == FreeLease

LeaseReleased(p) == IF lease.holder = p THEN FreeLease ELSE lease

-------------------------------------------------------------------------------
(***************************************************************************)
(* The worker task.                                                        *)
(***************************************************************************)
StartWorker(p, how) ==
  /\ worker' = [worker EXCEPT ![p] = "running"]
  /\ basis' = [basis EXCEPT ![p] = how]

SleepUntilNextPoll(p) ==
  /\ pc' = [pc EXCEPT ![p] = "sleeping"]
  /\ pollIn' = [pollIn EXCEPT ![p] = Poll]

\* A tick that won: _start_worker starts a task if there is none or it is done.
Lead(p, how) == StartWorker(p, how) /\ SleepUntilNextPoll(p)

\* A slip: a tick that lost leaves the worker running.
FollowKeepsWorker(p) ==
  /\ SleepUntilNextPoll(p)
  /\ UNCHANGED workerVars

\* A tick that lost: _stop_worker cancels the task and awaits it.  Awaiting a
\* task that already crashed raises its exception, which nothing catches: the
\* election task ends.
Follow(p) ==
  \/ /\ worker[p] = "none"
     /\ SleepUntilNextPoll(p)
     /\ UNCHANGED workerVars
  \/ /\ worker[p] = "running"
     /\ worker' = [worker EXCEPT ![p] = "cancelling"]
     /\ pc' = [pc EXCEPT ![p] = "stepping"]
     /\ UNCHANGED <<basis, pollIn>>
  \/ /\ worker[p] = "crashed"
     /\ worker' = [worker EXCEPT ![p] = "none"]
     /\ basis' = [basis EXCEPT ![p] = "none"]
     /\ pc' = [pc EXCEPT ![p] = "died"]
     /\ UNCHANGED pollIn

-------------------------------------------------------------------------------
(***************************************************************************)
(* One tick: it reads the state of the client, then either bids for the    *)
(* local lock at once or goes on to bid for the lease.                     *)
(***************************************************************************)
RedisState(p) ==
  IF ~RedisEnabled THEN "disabled"
  ELSE IF HasClient(p) THEN "connected" ELSE "unreachable"

OutageUpdate(p, state) ==
  /\ everReached' = [everReached EXCEPT ![p] = @ \/ state = "connected"]
  /\ sinceConn' = [sinceConn EXCEPT ![p] = IF state = "connected" THEN 0 ELSE @]

\* Slips: to fall back at the first tick that notices the outage, or never.
OutageNoticed(p) == everReached[p]
OutageNeverExceeds(p) == FALSE

\* _redis_down_since is set, by the first tick that finds a once reachable Redis
\* unreachable, to _last_connected_at: the outage is as old as sinceConn.
OutageExceedsLease(p) == everReached[p] /\ sinceConn[p] >= Lease

FallsBack(p, state) ==
  \/ state = "disabled"
  \/ state = "unreachable" /\ (~everReached[p] \/ OutageExceedsLease(p))

\* A slip: the lock file is opened, not locked.
FlockGrantsAny(p) == HostOf[p] \in LockFileUsable

FlockGrants(p) ==
  HostOf[p] \in LockFileUsable /\ flock[HostOf[p]] \in {None, p}

\* local_lock.release by its holder; nothing for anyone else.
LocalRelease(p) ==
  flock' = [flock EXCEPT ![HostOf[p]] = IF @ = p THEN None ELSE @]

TickLocal(p) ==
  \/ /\ FlockGrants(p)
     /\ flock' = [flock EXCEPT ![HostOf[p]] = p]
     /\ Lead(p, "local")
  \/ /\ ~FlockGrants(p)
     /\ Follow(p)
     /\ UNCHANGED flock

Tick(p) ==
  LET state == RedisState(p) IN
  /\ pc[p] = "sleeping" /\ pollIn[p] <= 0
  /\ IF RedisEnabled THEN GetClient(p) ELSE UNCHANGED clientVars
  /\ OutageUpdate(p, state)
  /\ \/ FallsBack(p, state) /\ TickLocal(p)
     \/ /\ ~FallsBack(p, state)
        /\ LocalRelease(p)
        /\ pc' = [pc EXCEPT ![p] = "bid"]
        /\ UNCHANGED <<pollIn, workerVars>>
  /\ UNCHANGED <<reach, lease, kept, stopHung>>

\* try_acquire_or_renew_lock and what the tick does with its answer.
Bid(p) ==
  /\ pc[p] = "bid"
  /\ \/ /\ HasClient(p) /\ p \in reach /\ LeaseGrants(p)
        /\ GetClient(p)
        /\ lease' = LeaseOf(p)
        /\ Lead(p, "redis")
     \/ /\ HasClient(p) /\ p \in reach /\ ~LeaseGrants(p)
        /\ GetClient(p)
        /\ Follow(p)
        /\ UNCHANGED lease
     \/ /\ CommandFails(p)
        /\ MarkDown(p)
        /\ Follow(p)
        /\ UNCHANGED lease
     \/ /\ ~HasClient(p)
        /\ GetClient(p)
        /\ Follow(p)
        /\ UNCHANGED lease
  /\ UNCHANGED <<reach, flock, kept, outageVars, stopHung>>

\* The script runs and its answer is lost with the connection: the lease is
\* taken or renewed, the caller sees an exception and steps down.
BidAnswerLost(p) ==
  /\ "outage" \in Faults
  /\ pc[p] = "bid"
  /\ HasClient(p) /\ p \in reach /\ LeaseGrants(p)
  /\ lease' = LeaseOf(p)
  /\ reach' = reach \ {p}
  /\ MarkDown(p)
  /\ Follow(p)
  /\ UNCHANGED <<flock, kept, outageVars, stopHung>>

\* The awaited worker finishes; its CancelledError is swallowed and the tick
\* returns to the loop.
StepDownDone(p) ==
  /\ pc[p] = "stepping"
  /\ worker' = [worker EXCEPT ![p] = "none"]
  /\ basis' = [basis EXCEPT ![p] = "none"]
  /\ SleepUntilNextPoll(p)
  /\ UNCHANGED <<reach, locks, clientVars, outageVars, stopHung>>

\* The awaited worker fails while it is being cancelled (closing its database
\* session raises): the exception ends the election task.
StepDownFails(p) ==
  /\ "worker" \in Faults
  /\ pc[p] = "stepping"
  /\ worker' = [worker EXCEPT ![p] = "none"]
  /\ basis' = [basis EXCEPT ![p] = "none"]
  /\ pc' = [pc EXCEPT ![p] = "died"]
  /\ UNCHANGED <<reach, locks, clientVars, pollIn, outageVars, stopHung>>

-------------------------------------------------------------------------------
(***************************************************************************)
(* Graceful shutdown: stop().                                              *)
(***************************************************************************)

\* The process is gone with all it kept in memory.
Vanish(p) ==
  /\ pc' = [pc EXCEPT ![p] = "off"]
  /\ pollIn' = [pollIn EXCEPT ![p] = BootTime]
  /\ client' = [client EXCEPT ![p] = FALSE]
  /\ retryIn' = [retryIn EXCEPT ![p] = 0]
  /\ backoff' = [backoff EXCEPT ![p] = 1]
  /\ everReached' = [everReached EXCEPT ![p] = FALSE]
  /\ sinceConn' = [sinceConn EXCEPT ![p] = 0]
  /\ worker' = [worker EXCEPT ![p] = "none"]
  /\ basis' = [basis EXCEPT ![p] = "none"]
  /\ stopHung' = [stopHung EXCEPT ![p] = FALSE]

\* A holder id that no later process will have.
LeaseAbandoned(p) ==
  [lease EXCEPT !.holder = IF @ = p THEN Orphan ELSE @]

\* stop() ends by an exception: a task it awaits had crashed.  Nothing is
\* released; the process goes on to exit, and the kernel drops its flock.
ExitWithoutRelease(p) ==
  /\ lease' = LeaseAbandoned(p)
  /\ LocalRelease(p)
  /\ Vanish(p)
  /\ UNCHANGED kept

\* stop() called while the election task sleeps: the task is cancelled, then
\* the worker is.
StopSleeping(p) ==
  /\ pc[p] = "sleeping" /\ worker[p] \in {"none", "running"}
  /\ \/ /\ worker[p] = "none"
        /\ pc' = [pc EXCEPT ![p] = "releasing"]
        /\ UNCHANGED worker
     \/ /\ worker[p] = "running"
        /\ worker' = [worker EXCEPT ![p] = "cancelling"]
        /\ pc' = [pc EXCEPT ![p] = "joining"]
  /\ UNCHANGED <<locks, clientVars, pollIn, outageVars, basis, stopHung>>

\* stop() called while the tick awaits its cancelled worker: cancelling the
\* election task raises CancelledError inside _stop_worker, which swallows it.
StopStepping(p) ==
  /\ pc[p] = "stepping"
  /\ stopHung' = [stopHung EXCEPT ![p] = TRUE]
  /\ UNCHANGED <<locks, clientVars, pc, pollIn, outageVars, workerVars>>

\* stop() awaits an election task that has died, or a worker that has crashed.
StopRaises(p) ==
  /\ pc[p] = "died" \/ (pc[p] = "sleeping" /\ worker[p] = "crashed")
  /\ ExitWithoutRelease(p)

Stop(p) ==
  /\ "shutdown" \in Faults
  /\ ~stopHung[p]
  /\ StopSleeping(p) \/ StopStepping(p) \/ StopRaises(p)
  /\ UNCHANGED reach

\* The election task that a hung stop() awaits has died: stop() raises.
HungStopRaises(p) ==
  /\ stopHung[p] /\ pc[p] = "died"
  /\ ExitWithoutRelease(p)
  /\ UNCHANGED reach

\* stop() goes on when the worker it cancelled has finished.
StopJoined(p) ==
  /\ pc[p] = "joining"
  /\ worker' = [worker EXCEPT ![p] = "none"]
  /\ basis' = [basis EXCEPT ![p] = "none"]
  /\ pc' = [pc EXCEPT ![p] = "releasing"]
  /\ UNCHANGED <<reach, locks, clientVars, pollIn, outageVars, stopHung>>

\* The worker fails while stop() cancels it.
StopJoinFails(p) ==
  /\ "worker" \in Faults
  /\ pc[p] = "joining"
  /\ ExitWithoutRelease(p)
  /\ UNCHANGED reach

\* release_lock and local_lock.release; then the process exits.
StopRelease(p) ==
  /\ pc[p] = "releasing"
  /\ lease' = IF RedisEnabled /\ HasClient(p) /\ p \in reach
              THEN LeaseReleased(p) ELSE LeaseAbandoned(p)
  /\ LocalRelease(p)
  /\ Vanish(p)
  /\ UNCHANGED <<reach, kept>>

-------------------------------------------------------------------------------
(***************************************************************************)
(* The process and its environment.                                        *)
(***************************************************************************)

\* A process starts: a new LeaderElection with a new holder id, a new client,
\* and an election task whose first tick is due at once (Vanish left them so).
Start(p) ==
  /\ pc[p] = "off" /\ pollIn[p] = 0
  /\ pc' = [pc EXCEPT ![p] = "sleeping"]
  /\ UNCHANGED <<reach, locks, clientVars, pollIn, outageVars, workerVars, stopHung>>

\* Killed at any point: the kernel drops the flock, Redis keeps the lease.
Crash(p) ==
  /\ "crash" \in Faults
  /\ pc[p] # "off"
  /\ ExitWithoutRelease(p)
  /\ UNCHANGED reach

\* The background loop ends with an exception its own handlers do not stop.
WorkerCrash(p) ==
  /\ "worker" \in Faults
  /\ pc[p] = "sleeping" /\ worker[p] = "running"
  /\ worker' = [worker EXCEPT ![p] = "crashed"]
  /\ UNCHANGED <<reach, locks, clientVars, pc, pollIn, outageVars, basis, stopHung>>

\* Any other user of the cache in the process finds the client broken, or
\* brings it back.
CacheCall(p) ==
  /\ RedisEnabled
  /\ pc[p] # "off"
  /\ \/ CommandFails(p) /\ MarkDown(p)
     \/ ~CommandFails(p) /\ MayProbe(p) /\ GetClient(p)
  /\ UNCHANGED <<reach, locks, pc, pollIn, outageVars, workerVars, stopHung>>

\* Some processes, or all of them, lose Redis; they get it back together.
Outage(S) ==
  /\ "outage" \in Faults
  /\ reach' = reach \ S
  /\ UNCHANGED <<locks, clientVars, pc, pollIn, outageVars, workerVars, stopHung>>

Heal ==
  /\ "heal" \in Faults
  /\ reach' = Proc
  /\ UNCHANGED <<locks, clientVars, pc, pollIn, outageVars, workerVars, stopHung>>

\* Redis restarts without the key.
LoseLease ==
  /\ "loss" \in Faults
  /\ lease' = FreeLease
  /\ kept' = FALSE
  /\ UNCHANGED <<reach, flock, clientVars, pc, pollIn, outageVars, workerVars, stopHung>>

-------------------------------------------------------------------------------
(***************************************************************************)
(* Time.  A unit passes while processes sleep or wait for Redis to answer  *)
(* a bid, never in straight line code; a tick starts and ends at most Late *)
(* units after it is due.                                                  *)
(***************************************************************************)
Passed(t) == IF t > 0 THEN t - 1 ELSE t

Settled(p) ==
  \/ pc[p] \in {"off", "died"}
  \/ pc[p] \in {"sleeping", "bid"} /\ pollIn[p] > -Late

Time ==
  /\ \A p \in Proc : Settled(p)
  /\ lease' = IF lease.ttl <= 1 THEN FreeLease ELSE [lease EXCEPT !.ttl = @ - 1]
  /\ retryIn' = [p \in Proc |-> Passed(retryIn[p])]
  /\ pollIn' = [p \in Proc |->
       IF pc[p] \in {"sleeping", "bid"} THEN pollIn[p] - 1
       ELSE IF pc[p] = "off" THEN Passed(pollIn[p]) ELSE pollIn[p]]
  /\ sinceConn' = [p \in Proc |->
       IF everReached[p] /\ sinceConn[p] < AgeCap THEN sinceConn[p] + 1 ELSE sinceConn[p]]
  /\ UNCHANGED <<reach, flock, kept, client, backoff, pc, everReached, workerVars, stopHung>>

Election(p) ==
  \/ Tick(p) \/ Bid(p) \/ StepDownDone(p)
  \/ StopJoined(p) \/ StopRelease(p) \/ HungStopRaises(p)

Fault(p) ==
  \/ BidAnswerLost(p) \/ StepDownFails(p) \/ StopJoinFails(p)
  \/ Crash(p) \/ WorkerCrash(p)

Next ==
  \/ \E p \in Proc : \/ Election(p) \/ Fault(p)
                     \/ Start(p) \/ Stop(p) \/ CacheCall(p)
  \/ \E S \in SUBSET Proc : Outage(S)
  \/ Heal \/ LoseLease \/ Time

Spec == Init /\ [][Next]_vars

-------------------------------------------------------------------------------
(***************************************************************************)
(* Fairness: the event loop runs what is ready and time passes; faults,    *)
(* restarts, shutdowns and other users of the cache are not fair.          *)
(***************************************************************************)
FairSpec ==
  /\ Spec
  /\ \A p \in Proc : WF_vars(Election(p))
  /\ WF_vars(Time)

-------------------------------------------------------------------------------
(***************************************************************************)
(* Properties.                                                             *)
(***************************************************************************)

\* As long as ticks are timely and Redis has not lost the key, a process that
\* runs the loop on the strength of the lease still holds the lease, in the
\* middle of a tick and of its shutdown too.  The lease has one holder, so no two
\* processes run the loop on it (_election_tick, the EVAL scripts, stop()).
RedisLeadersHoldLease ==
  Timely /\ kept =>
    \A p \in Proc : Working(p) /\ basis[p] = "redis" => lease.holder = p

\* A process that runs the loop on the strength of the local lock holds that
\* lock, except inside the tick that has just found Redis again, which releases
\* the lock before it knows whether it gets the lease (local_lock, line 154).
LocalLeadersHoldFlock ==
  \A p \in Proc :
    Working(p) /\ basis[p] = "local" /\ pc[p] \in {"sleeping", "joining"}
      => flock[HostOf[p]] = p

\* Whoever leads holds what it leads by.
LeadersHoldLocks == RedisLeadersHoldLease /\ LocalLeadersHoldFlock

\* When one process leads by the lease and another by a local lock, they
\* disagreed about Redis: the second never reached it, or saw it last a whole
\* lease period ago, while the first has just renewed its lease.
DualLeadersDisagree ==
  Timely /\ kept =>
    \A p, q \in Proc :
      /\ worker[p] = "running" /\ basis[p] = "redis" /\ pc[p] = "sleeping"
      /\ worker[q] = "running" /\ basis[q] = "local" /\ pc[q] = "sleeping"
      => \/ ~everReached[q]
         \/ sinceConn[q] >= Lease /\ lease.ttl >= Lease - (Poll + Late)

\* The Redis key is an exclusive lock: it passes from one process to another only
\* through a moment in which it is free (the two EVAL scripts and the expiry).
LeaseLock == INSTANCE ExclusiveLock WITH holder <- lease.holder, Free <- None
LeaseIsExclusiveLock == LeaseLock!Spec

\* So is the lock file of each host (local_lock.py and the kernel).
FileLock(h) == INSTANCE ExclusiveLock WITH holder <- flock[h], Free <- None
FlocksAreExclusiveLocks ==
  /\ \A h \in Host : FileLock(h)!Init
  /\ [][\A h \in Host : [FileLock(h)!Next]_(flock[h])]_flock

\* Where Redis never fails, or is disabled on a single host, the elections of all
\* processes together implement the single leader they are for, through crashes,
\* restarts and shutdowns of processes and failures of the loop itself.
LeaderSpec == INSTANCE SingleLeader WITH leaders <- Leaders
ImplementsSingleLeader == LeaderSpec!Spec

\* A process whose election task runs.
Electing(p) == pc[p] \in {"sleeping", "bid", "stepping"}

\* Failover: once the reachability of Redis stops changing, and if some process
\* goes on running elections, there is a leader again and again, whatever
\* crashes and restarts meanwhile (lease expiry, local lock fallback).
LeaderEmerges ==
  /\ <>[][FALSE]_reach
  /\ \E p \in Proc : <>[]Electing(p)
  => []<>(Leaders # {})

\* Processes come, go, or lose what they run on.
Churn ==
  \/ LoseLease
  \/ \E p \in Proc : Start(p) \/ Stop(p) \/ Crash(p) \/ WorkerCrash(p)

\* After the last fault, with Redis back for everyone, the deployment converges to
\* exactly one leader for good: the local leaders give way to the lease, and the
\* backoffs of the clients delay that but do not prevent it.
StabilizesToOneLeader ==
  /\ <>[](reach = Proc)
  /\ \E p \in Proc : <>[]Electing(p)
  /\ <>[][~Churn]_vars
  => <>[](Cardinality(Leaders) = 1)

==============================================================================
